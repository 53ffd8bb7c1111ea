-------------------------- MODULE ConnectionsProofs --------------------------
(***************************************************************************)
(* Connections keeps its types; no connection is served twice, an accepted  *)
(* one is served for as long as it is open, and a refresh never closes the  *)
(* connection in use, for any number of connections and tasks.              *)
(***************************************************************************)
EXTENDS Connections, TLAPS

LEMMA OtherNode ==
  \A n \in Node : Other(n) \in Node /\ Other(n) # n /\ Other(Other(n)) = n
<1> SUFFICES ASSUME NEW n \in Node
             PROVE Other(n) \in Node /\ Other(n) # n /\ Other(Other(n)) = n
  OBVIOUS
<1>1. PICK a, b \in Node : a # b /\ Node = {a, b}
  BY ConstantsAssumption
<1>2. \A m \in Node : \E k \in Node : k # m
  BY <1>1
<1>3. \A m \in Node : Other(m) \in Node /\ Other(m) # m
  BY <1>2 DEF Other
<1> QED
  BY <1>1, <1>3

-----------------------------------------------------------------------------
(* Types *)

LEMMA TypeInit == Init => TypeOK
BY DEF Init, TypeOK, Idle, Life, Step, Dial

LEMMA ServeType ==
  ASSUME TypeOK, NEW n \in Node, NEW c \in Conn \cup {None}, Serve(n, c)
  PROVE  dispatchers' \in [Node -> [Conn -> Nat]]
<1> DEFINE served == [dispatchers[n] EXCEPT ![c] = @ + 1]
<1>1. dispatchers[n] \in [Conn -> Nat]
  BY DEF TypeOK
<1>2. served \in [Conn -> Nat]
  <2>1. CASE c \in Conn
    BY <1>1, <2>1
  <2>2. CASE c \notin Conn
    BY <1>1, <2>2
  <2> QED
    BY <2>1, <2>2
<1>3. dispatchers' = [dispatchers EXCEPT ![n] = served]
  BY DEF Serve
<1> HIDE DEF served
<1> QED
  BY <1>2, <1>3 DEF TypeOK

LEMMA TypeNext == TypeOK /\ [Next]_vars => TypeOK'
<1> SUFFICES ASSUME TypeOK, [Next]_vars PROVE TypeOK'
  OBVIOUS
<1> USE DEF TypeOK, wire, tasks, Life, Step, Dial
<1>1. CASE UNCHANGED vars
  BY <1>1 DEF vars
<1>2. ASSUME NEW c \in Conn, ConnectionLost(c) PROVE TypeOK'
  BY <1>2 DEF ConnectionLost, Close
<1>3. ASSUME NEW c \in Conn, NEW n \in Node, HandlesDropped(n, c) PROVE TypeOK'
  BY <1>3 DEF HandlesDropped, Close
<1>4. ASSUME NEW n \in Node, Dialing(n) PROVE TypeOK'
  <2>1. ASSUME NEW k \in Dial, DialStarted(n, k) PROVE TypeOK'
    BY <2>1 DEF DialStarted
  <2>2. ASSUME NEW k \in Dial, DialFailed(n, k) PROVE TypeOK'
    BY <2>2 DEF DialFailed, DialEnded, Attach, Relist
  <2>3. ASSUME NEW c \in Conn, Attached(n, c) PROVE TypeOK'
    BY <2>3 DEF Attached, DialEnded, Connect, Attach, Serve
  <2>4. ASSUME NEW c \in Conn, TunnelAttached(n, c) PROVE TypeOK'
    BY <2>4 DEF TunnelAttached, DialEnded, Connect, Attach
  <2>5. ASSUME NEW c \in Conn, ReportRefuted(n, c) PROVE TypeOK'
    <3>1. life' \in [Conn -> Life] /\ dialer' \in [Conn -> Node \cup {None}]
      BY <2>5 DEF ReportRefuted, Connect
    <3>2. slot' \in [Node -> Conn \cup {None}] /\ dispatchers' \in [Node -> [Conn -> Nat]]
      <4>1. CASE slot[n] = None
        BY <2>5, <4>1, ServeType DEF ReportRefuted, Attach
      <4>2. CASE slot[n] # None
        BY <2>5, <4>2 DEF ReportRefuted
      <4> QED
        BY <4>1, <4>2
    <3> QED
      BY <2>5, <3>1, <3>2 DEF ReportRefuted, DialEnded
  <2> QED
    BY <1>4, <2>1, <2>2, <2>3, <2>4, <2>5 DEF Dialing
<1>5. ASSUME NEW n \in Node, NEW c \in Conn, Serving(n, c) PROVE TypeOK'
  <2>1. CASE HandleIncoming(n, c)
    BY <2>1 DEF HandleIncoming, Attach, Serve
  <2>2. CASE DispatcherClosed(n, c)
    BY <2>2 DEF DispatcherClosed, DispatcherExit, Attach
  <2>3. ASSUME NEW new \in Conn, Redialed(n, c, new) PROVE TypeOK'
    BY <2>3 DEF Redialed, RedialEnded, Connect, Attach
  <2>4. CASE RedialFailed(n, c)
    BY <2>4 DEF RedialFailed, RedialEnded, Relist
  <2>5. CASE Verified(n, c)
    BY <2>5 DEF Verified, Serve
  <2>6. CASE VerifyFailed(n, c)
    BY <2>6 DEF VerifyFailed, Relist
  <2>7. CASE DispatcherLooked(n, c)
    BY <2>7 DEF DispatcherLooked
  <2> QED
    BY <1>5, <2>1, <2>2, <2>3, <2>4, <2>5, <2>6, <2>7 DEF Serving
<1>6. ASSUME NEW n \in Node, Refreshing(n) PROVE TypeOK'
  <2> USE DEF RefreshStep, Idle
  <2>1. CASE RefreshStarted(n)
    BY <2>1 DEF RefreshStarted
  <2>2. ASSUME NEW c \in Conn, RefreshDialed(n, c) PROVE TypeOK'
    <3>1. life' \in [Conn -> Life] /\ dialer' \in [Conn -> Node \cup {None}]
      BY <2>2 DEF RefreshDialed, Connect
    <3>2. refresh' \in [Node -> [step : Step, old : Conn \cup {None}, new : Conn \cup {None}]]
      BY <2>2 DEF RefreshDialed
    <3>3. UNCHANGED <<slot, listed, dispatchers, closings, redials, verifies, dials>>
      BY <2>2 DEF RefreshDialed
    <3> QED
      BY <3>1, <3>2, <3>3
  <2>3. CASE RefreshDialFailed(n)
    BY <2>3 DEF RefreshDialFailed
  <2>4. CASE RefreshAbandoned(n)
    BY <2>4 DEF RefreshAbandoned, Close
  <2>5. CASE RefreshSwapped(n)
    <3>1. dispatchers' \in [Node -> [Conn -> Nat]]
      BY <2>5, ServeType DEF RefreshSwapped
    <3> QED
      BY <2>5, <3>1 DEF RefreshSwapped, Attach
  <2>6. CASE RefreshClosed(n)
    BY <2>6 DEF RefreshClosed, Close
  <2> QED
    BY <1>6, <2>1, <2>2, <2>3, <2>4, <2>5, <2>6 DEF Refreshing
<1>7. ASSUME NEW n \in Node, Gossiped(n) PROVE TypeOK'
  BY <1>7 DEF Gossiped
<1>8. ASSUME NEW n \in Node, PeerRemoved(n) PROVE TypeOK'
  BY <1>8 DEF PeerRemoved, Relist, Attach
<1> QED
  BY <1>1, <1>2, <1>3, <1>4, <1>5, <1>6, <1>7, <1>8 DEF Next, Network

\* Every variable keeps its type, whatever the bounds.
THEOREM TypeCorrect == Spec => []TypeOK
BY TypeInit, TypeNext, PTL DEF Spec

-----------------------------------------------------------------------------
(* What every step preserves *)

\* A connection n dialed, as long as it is up.
Own(n, c) == life[c] # "closed" => dialer[c] = n

\* One that is not still to be accepted by n.
Met(n, c) == life[c] = "dialed" => dialer[c] = n

DialedByNode ==
  \A c \in Conn :
    /\ life[c] # "closed" => dialer[c] \in Node
    /\ life[c] = "dialed" => dispatchers[Other(dialer[c])][c] = 0

Unserved == \A n \in Node : \A c \in verifies[n] : Own(n, c) /\ dispatchers[n][c] = 0

SlotMet == \A n \in Node : slot[n] # None => Met(n, slot[n])

RefreshSound(n) ==
  /\ refresh[n].step # "off" => refresh[n].old \in Conn /\ Met(n, refresh[n].old)
  /\ refresh[n].step = "verify" =>
       /\ refresh[n].new \in Conn \ verifies[n]
       /\ refresh[n].new # refresh[n].old
       /\ Own(n, refresh[n].new)
       /\ dispatchers[n][refresh[n].new] = 0
  /\ refresh[n].step = "close" => slot[n] # refresh[n].old

IInv ==
  /\ ServedOnce
  /\ AcceptedIsServed
  /\ DialedByNode
  /\ Unserved
  /\ SlotMet
  /\ \A n \in Node : RefreshSound(n)

LEMMA InvInit == Init => IInv
BY OtherNode DEF Init, IInv, ServedOnce, AcceptedIsServed, DialedByNode, Unserved, SlotMet,
  RefreshSound, Own, Met, Idle

\* A closed connection burdens nobody.
LEMMA CloseInv ==
  ASSUME TypeOK, IInv, NEW c \in Conn, Close(c),
         UNCHANGED <<slot, dispatchers, verifies>>,
         \A n \in Node : refresh'[n] = refresh[n] \/ refresh'[n].step = "off"
  PROVE  IInv'
<1> USE DEF TypeOK, IInv, Close, Life
<1>1. ServedOnce' /\ AcceptedIsServed'
  BY DEF ServedOnce, AcceptedIsServed
<1>2. DialedByNode'
  BY DEF DialedByNode
<1>3. Unserved'
  BY DEF Unserved, Own
<1>4. SlotMet'
  BY DEF SlotMet, Met
<1>5. \A n \in Node : RefreshSound(n)'
  BY DEF RefreshSound, Met, Own
<1> QED
  BY <1>1, <1>2, <1>3, <1>4, <1>5

\* A fresh connection is held by nobody, so that only what its dialer does with
\* it matters.
LEMMA ConnectInv ==
  ASSUME TypeOK, IInv, NEW n \in Node, NEW c \in Conn, Connect(n, c),
         UNCHANGED <<verifies, refresh>>,
         UNCHANGED slot \/ Attach(n, c),
         UNCHANGED dispatchers \/ Serve(n, c)
  PROVE  IInv'
<1>1. /\ life[c] = "closed"
      /\ \A m \in Node : /\ slot[m] # c /\ dispatchers[m][c] = 0 /\ c \notin verifies[m]
                         /\ refresh[m].old # c /\ refresh[m].new # c
  BY DEF Connect, Fresh, Holds, TypeOK
<1>2. /\ life'[c] = "dialed" /\ dialer'[c] = n
      /\ \A d \in Conn : d # c => life'[d] = life[d] /\ dialer'[d] = dialer[d]
  BY DEF Connect, TypeOK
<1>3. /\ dispatchers'[n][c] \in 0..1
      /\ \A m \in Node, d \in Conn : m # n \/ d # c => dispatchers'[m][d] = dispatchers[m][d]
  BY <1>1 DEF Serve, TypeOK
<1>4. \A m \in Node : slot'[m] \in {slot[m], c} /\ (m # n => slot'[m] = slot[m])
  BY DEF Attach, TypeOK
<1> USE DEF IInv
<1>5. ServedOnce'
  BY <1>3 DEF ServedOnce
<1>6. AcceptedIsServed'
  BY <1>2, <1>3, OtherNode DEF AcceptedIsServed, DialedByNode
<1>7. DialedByNode'
  BY <1>1, <1>2, <1>3, OtherNode DEF DialedByNode
<1>8. Unserved'
  <2>1. verifies' = verifies /\ \A m \in Node : verifies[m] \subseteq Conn \ {c}
    BY <1>1 DEF TypeOK
  <2> QED
    BY <1>2, <1>3, <2>1 DEF Unserved, Own
<1>9. SlotMet'
  BY <1>1, <1>2, <1>4 DEF SlotMet, Met, TypeOK
<1>10. \A m \in Node : RefreshSound(m)'
  BY <1>1, <1>2, <1>3, <1>4 DEF RefreshSound, Own, Met, TypeOK
<1> QED
  BY <1>5, <1>6, <1>7, <1>8, <1>9, <1>10

\* Steps that touch neither the connections nor what is done with them.
LEMMA IdleInv ==
  ASSUME IInv, UNCHANGED <<life, dialer, dispatchers, verifies>>,
         \A n \in Node : slot'[n] \in {slot[n], None},
         \A n \in Node : refresh'[n] = refresh[n] \/ refresh'[n].step = "off",
         TypeOK
  PROVE  IInv'
<1> USE DEF IInv
<1>1. ServedOnce' /\ AcceptedIsServed' /\ DialedByNode' /\ Unserved'
  BY DEF ServedOnce, AcceptedIsServed, DialedByNode, Unserved, Own
<1>2. SlotMet'
  BY DEF SlotMet, Met
<1>3. \A n \in Node : RefreshSound(n)'
  BY ConstantsAssumption DEF RefreshSound, Own, Met, TypeOK
<1> QED
  BY <1>1, <1>2, <1>3

LEMMA DialingInv == ASSUME TypeOK, IInv, NEW n \in Node, Dialing(n) PROVE IInv'
<1>1. ASSUME NEW k \in Dial, DialStarted(n, k) PROVE IInv'
  BY <1>1, IdleInv DEF DialStarted, wire
<1>2. ASSUME NEW k \in Dial, DialFailed(n, k) PROVE IInv'
  BY <1>2, IdleInv DEF DialFailed, DialEnded, Attach, wire, TypeOK
<1>3. ASSUME NEW c \in Conn, Attached(n, c) PROVE IInv'
  BY <1>3, ConnectInv DEF Attached, DialEnded
<1>4. ASSUME NEW c \in Conn, TunnelAttached(n, c) PROVE IInv'
  BY <1>4, ConnectInv DEF TunnelAttached, DialEnded
<1>5. ASSUME NEW c \in Conn, ReportRefuted(n, c) PROVE IInv'
  BY <1>5, ConnectInv DEF ReportRefuted, DialEnded
<1> QED
  BY <1>1, <1>2, <1>3, <1>4, <1>5 DEF Dialing

LEMMA HandleIncomingInv ==
  ASSUME TypeOK, IInv, NEW n \in Node, NEW c \in Conn, HandleIncoming(n, c)
  PROVE  IInv'
<1>1. /\ life[c] = "dialed" /\ dialer[c] = Other(n) /\ dialer[c] # n /\ Other(dialer[c]) = n
      /\ dispatchers[n][c] = 0
  BY OtherNode DEF HandleIncoming, IInv, DialedByNode
<1>2. /\ life'[c] = "open" /\ dialer' = dialer
      /\ \A d \in Conn : d # c => life'[d] = life[d]
  BY DEF HandleIncoming, TypeOK
<1>3. /\ dispatchers'[n][c] = 1
      /\ \A m \in Node, d \in Conn : m # n \/ d # c => dispatchers'[m][d] = dispatchers[m][d]
  BY <1>1 DEF HandleIncoming, Serve, TypeOK
<1>4. /\ slot'[n] = c /\ \A m \in Node : m # n => slot'[m] = slot[m]
      /\ verifies' = verifies /\ refresh' = refresh
  BY DEF HandleIncoming, Attach, tasks, TypeOK
<1>5. /\ c \notin verifies[n]
      /\ refresh[n].step = "verify" => refresh[n].new # c
      /\ refresh[n].step # "off" => refresh[n].old # c
  BY <1>1 DEF IInv, Unserved, RefreshSound, Own, Met
<1> USE DEF IInv
<1>6. ServedOnce'
  BY <1>3 DEF ServedOnce
<1>7. AcceptedIsServed'
  BY <1>1, <1>2, <1>3, OtherNode DEF AcceptedIsServed, DialedByNode
<1>8. DialedByNode'
  BY <1>1, <1>2, <1>3, OtherNode DEF DialedByNode
<1>9. Unserved'
  <2> SUFFICES ASSUME NEW m \in Node, NEW d \in verifies[m]
               PROVE  Own(m, d)' /\ dispatchers'[m][d] = 0
    BY <1>4 DEF Unserved
  <2>1. d \in Conn /\ Own(m, d) /\ dispatchers[m][d] = 0
    BY DEF Unserved, TypeOK
  <2>2. m # n \/ d # c
    BY <1>5
  <2> QED
    BY <1>1, <1>2, <1>3, <2>1, <2>2 DEF Own
<1>10. SlotMet'
  BY <1>1, <1>2, <1>4 DEF SlotMet, Met, TypeOK
<1>11. \A m \in Node : RefreshSound(m)'
  BY <1>1, <1>2, <1>3, <1>4, <1>5 DEF RefreshSound, Own, Met, TypeOK
<1> QED
  BY <1>6, <1>7, <1>8, <1>9, <1>10, <1>11

LEMMA DispatcherClosedInv ==
  ASSUME TypeOK, IInv, NEW n \in Node, NEW c \in Conn, DispatcherClosed(n, c)
  PROVE  IInv'
<1>1. life[c] = "closed" /\ dispatchers[n][c] > 0
  BY DEF DispatcherClosed, DispatcherExit
<1>2. /\ dispatchers'[n][c] = dispatchers[n][c] - 1
      /\ \A m \in Node, d \in Conn : m # n \/ d # c => dispatchers'[m][d] = dispatchers[m][d]
  BY DEF DispatcherClosed, DispatcherExit, TypeOK
<1>3. /\ life' = life /\ dialer' = dialer /\ verifies' = verifies /\ refresh' = refresh
      /\ \A m \in Node : slot'[m] \in {slot[m], None}
  BY DEF DispatcherClosed, Attach, wire, TypeOK
<1> USE DEF IInv
<1>4. ServedOnce'
  BY <1>2 DEF ServedOnce, TypeOK
<1>5. AcceptedIsServed' /\ DialedByNode'
  BY <1>1, <1>2, <1>3, OtherNode DEF AcceptedIsServed, DialedByNode
<1>6. Unserved'
  <2> SUFFICES ASSUME NEW m \in Node, NEW d \in verifies[m]
               PROVE  Own(m, d)' /\ dispatchers'[m][d] = 0
    BY <1>3 DEF Unserved
  <2>1. d \in Conn /\ Own(m, d) /\ dispatchers[m][d] = 0
    BY DEF Unserved, TypeOK
  <2>2. m # n \/ d # c
    BY <1>1, <2>1
  <2> QED
    BY <1>2, <1>3, <2>1, <2>2 DEF Own
<1>7. SlotMet'
  BY <1>3 DEF SlotMet, Met
<1>8. \A m \in Node : RefreshSound(m)'
  BY <1>1, <1>2, <1>3, ConstantsAssumption DEF RefreshSound, Own, Met, TypeOK
<1> QED
  BY <1>4, <1>5, <1>6, <1>7, <1>8

LEMMA RedialedInv ==
  ASSUME TypeOK, IInv, NEW n \in Node, NEW c \in Conn, NEW new \in Conn, Redialed(n, c, new)
  PROVE  IInv'
<1>1. /\ life[new] = "closed"
      /\ \A m \in Node : /\ slot[m] # new /\ dispatchers[m][new] = 0 /\ new \notin verifies[m]
                         /\ refresh[m].old # new /\ refresh[m].new # new
  BY DEF Redialed, Connect, Fresh, Holds, TypeOK
<1>2. /\ life'[new] = "dialed" /\ dialer'[new] = n
      /\ \A d \in Conn : d # new => life'[d] = life[d] /\ dialer'[d] = dialer[d]
  BY DEF Redialed, Connect, TypeOK
<1>3. /\ dispatchers' = dispatchers /\ refresh' = refresh
      /\ \A m \in Node : slot'[m] \in {slot[m], new} /\ (m # n => slot'[m] = slot[m])
      /\ verifies'[n] = verifies[n] \cup {new}
      /\ \A m \in Node : m # n => verifies'[m] = verifies[m]
  BY DEF Redialed, Attach, TypeOK
<1> USE DEF IInv
<1>4. ServedOnce'
  BY <1>3 DEF ServedOnce
<1>5. AcceptedIsServed' /\ DialedByNode'
  BY <1>1, <1>2, <1>3, OtherNode DEF AcceptedIsServed, DialedByNode
<1>6. Unserved'
  <2> SUFFICES ASSUME NEW m \in Node, NEW d \in verifies'[m]
               PROVE  Own(m, d)' /\ dispatchers'[m][d] = 0
    BY DEF Unserved
  <2>1. CASE d = new
    BY <1>1, <1>2, <1>3, <2>1 DEF Own
  <2>2. CASE d # new
    <3>1. d \in verifies[m]
      BY <1>3, <2>2
    <3>2. d \in Conn
      BY <3>1 DEF TypeOK
    <3> QED
      BY <1>2, <1>3, <2>2, <3>1, <3>2 DEF Own, Unserved
  <2> QED
    BY <2>1, <2>2
<1>7. SlotMet'
  <2>1. \A m \in Node : slot[m] \in Conn \cup {None}
    BY DEF TypeOK
  <2> QED
    BY <1>1, <1>2, <1>3, <2>1 DEF SlotMet, Met
<1>8. \A m \in Node : RefreshSound(m)'
  BY <1>1, <1>2, <1>3 DEF RefreshSound, Own, Met, TypeOK
<1> QED
  BY <1>4, <1>5, <1>6, <1>7, <1>8

LEMMA VerifiedInv ==
  ASSUME TypeOK, IInv, NEW n \in Node, NEW c \in Conn, Verified(n, c)
  PROVE  IInv'
<1>1. c \in verifies[n] /\ dispatchers[n][c] = 0 /\ life[c] = "open"
  BY DEF Verified, Answered, IInv, Unserved
<1>2. /\ dispatchers'[n][c] = 1
      /\ \A m \in Node, d \in Conn : m # n \/ d # c => dispatchers'[m][d] = dispatchers[m][d]
  BY <1>1 DEF Verified, Serve, TypeOK
<1>3. /\ life' = life /\ dialer' = dialer /\ slot' = slot /\ refresh' = refresh
      /\ verifies'[n] = verifies[n] \ {c}
      /\ \A m \in Node : m # n => verifies'[m] = verifies[m]
  BY DEF Verified, wire, TypeOK
<1> USE DEF IInv
<1>4. ServedOnce'
  BY <1>2 DEF ServedOnce
<1>5. AcceptedIsServed' /\ DialedByNode'
  BY <1>1, <1>2, <1>3, OtherNode DEF AcceptedIsServed, DialedByNode
<1>6. Unserved'
  <2> SUFFICES ASSUME NEW m \in Node, NEW d \in verifies'[m]
               PROVE  Own(m, d)' /\ dispatchers'[m][d] = 0
    BY DEF Unserved
  <2>1. d \in verifies[m] /\ d \in Conn /\ (m # n \/ d # c)
    BY <1>3 DEF TypeOK
  <2> QED
    BY <1>2, <1>3, <2>1 DEF Own, Unserved
<1>7. SlotMet'
  BY <1>3 DEF SlotMet, Met
<1>8. \A m \in Node : RefreshSound(m)'
  BY <1>1, <1>2, <1>3 DEF RefreshSound, Own, Met, TypeOK
<1> QED
  BY <1>4, <1>5, <1>6, <1>7, <1>8

LEMMA VerifyFailedInv ==
  ASSUME TypeOK, IInv, NEW n \in Node, NEW c \in Conn, VerifyFailed(n, c)
  PROVE  IInv'
<1>1. /\ UNCHANGED <<life, dialer, slot, dispatchers, refresh>>
      /\ \A m \in Node : verifies'[m] \subseteq verifies[m]
  BY DEF VerifyFailed, wire, TypeOK
<1> QED
  BY <1>1 DEF IInv, ServedOnce, AcceptedIsServed, DialedByNode, Unserved, SlotMet, RefreshSound,
    Own, Met

LEMMA ServingInv ==
  ASSUME TypeOK, IInv, NEW n \in Node, NEW c \in Conn, Serving(n, c)
  PROVE  IInv'
<1>1. CASE RedialFailed(n, c)
  BY <1>1, IdleInv DEF RedialFailed, RedialEnded, wire
<1>2. CASE DispatcherLooked(n, c)
  BY <1>2, IdleInv DEF DispatcherLooked, wire
<1> QED
  BY <1>1, <1>2, HandleIncomingInv, DispatcherClosedInv, RedialedInv, VerifiedInv, VerifyFailedInv
    DEF Serving

LEMMA RefreshDialedInv ==
  ASSUME TypeOK, IInv, NEW n \in Node, NEW c \in Conn, RefreshDialed(n, c)
  PROVE  IInv'
<1>1. /\ life[c] = "closed" /\ refresh[n].step = "dial"
      /\ \A m \in Node : /\ slot[m] # c /\ dispatchers[m][c] = 0 /\ c \notin verifies[m]
                         /\ refresh[m].old # c /\ refresh[m].new # c
  BY DEF RefreshDialed, Connect, Fresh, Holds, TypeOK
<1>2. /\ life'[c] = "dialed" /\ dialer'[c] = n
      /\ \A d \in Conn : d # c => life'[d] = life[d] /\ dialer'[d] = dialer[d]
  BY DEF RefreshDialed, Connect, TypeOK
<1>3. /\ dispatchers' = dispatchers /\ slot' = slot /\ verifies' = verifies
      /\ refresh'[n] = [step |-> "verify", old |-> refresh[n].old, new |-> c]
      /\ \A m \in Node : m # n => refresh'[m] = refresh[m]
  BY DEF RefreshDialed, RefreshStep, TypeOK
<1> USE DEF IInv
<1>4. ServedOnce'
  BY <1>3 DEF ServedOnce
<1>5. AcceptedIsServed' /\ DialedByNode'
  BY <1>1, <1>2, <1>3, OtherNode DEF AcceptedIsServed, DialedByNode
<1>6. Unserved'
  BY <1>1, <1>2, <1>3 DEF Unserved, Own, TypeOK
<1>7. SlotMet'
  BY <1>1, <1>2, <1>3 DEF SlotMet, Met, TypeOK
<1>8. \A m \in Node : RefreshSound(m)'
  <2> SUFFICES ASSUME NEW m \in Node PROVE RefreshSound(m)'
    OBVIOUS
  <2>1. CASE m = n
    BY <1>1, <1>2, <1>3, <2>1 DEF RefreshSound, Own, Met
  <2>2. CASE m # n
    BY <1>1, <1>2, <1>3, <2>2 DEF RefreshSound, Own, Met, TypeOK
  <2> QED
    BY <2>1, <2>2
<1> QED
  BY <1>4, <1>5, <1>6, <1>7, <1>8

LEMMA RefreshSwappedInv ==
  ASSUME TypeOK, IInv, NEW n \in Node, RefreshSwapped(n)
  PROVE  IInv'
<1> DEFINE c == refresh[n].new
<1>1. /\ c \in Conn /\ life[c] = "open" /\ dispatchers[n][c] = 0 /\ c \notin verifies[n]
      /\ refresh[n].old \in Conn /\ c # refresh[n].old /\ Met(n, refresh[n].old)
  BY DEF RefreshSwapped, Answered, IInv, RefreshSound
<1>2. /\ dispatchers'[n][c] = 1
      /\ \A m \in Node, d \in Conn : m # n \/ d # c => dispatchers'[m][d] = dispatchers[m][d]
  BY <1>1 DEF RefreshSwapped, Serve, TypeOK
<1>3. /\ life' = life /\ dialer' = dialer /\ verifies' = verifies
      /\ slot'[n] = c /\ \A m \in Node : m # n => slot'[m] = slot[m]
      /\ refresh'[n] = [step |-> "close", old |-> refresh[n].old, new |-> c]
      /\ \A m \in Node : m # n => refresh'[m] = refresh[m]
  BY DEF RefreshSwapped, Attach, RefreshStep, wire, TypeOK
<1> HIDE DEF c
<1> USE DEF IInv
<1>4. ServedOnce'
  BY <1>1, <1>2 DEF ServedOnce
<1>5. AcceptedIsServed' /\ DialedByNode'
  BY <1>1, <1>2, <1>3, OtherNode DEF AcceptedIsServed, DialedByNode
<1>6. Unserved'
  <2> SUFFICES ASSUME NEW m \in Node, NEW d \in verifies[m]
               PROVE  Own(m, d)' /\ dispatchers'[m][d] = 0
    BY <1>3 DEF Unserved
  <2>1. d \in Conn /\ (m # n \/ d # c)
    BY <1>1 DEF TypeOK
  <2> QED
    BY <1>2, <1>3, <2>1 DEF Own, Unserved
<1>7. SlotMet'
  BY <1>1, <1>3 DEF SlotMet, Met
<1>8. \A m \in Node : RefreshSound(m)'
  <2> SUFFICES ASSUME NEW m \in Node PROVE RefreshSound(m)'
    OBVIOUS
  <2>1. CASE m = n
    BY <1>1, <1>3, <2>1 DEF RefreshSound, Met
  <2>2. CASE m # n
    BY <1>2, <1>3, <2>2 DEF RefreshSound, Own, Met, TypeOK
  <2> QED
    BY <2>1, <2>2
<1> QED
  BY <1>4, <1>5, <1>6, <1>7, <1>8

LEMMA RefreshingInv == ASSUME TypeOK, IInv, NEW n \in Node, Refreshing(n) PROVE IInv'
<1>1. \A m \in Node : RefreshStep(n, Idle) => refresh'[m] = refresh[m] \/ refresh'[m].step = "off"
  BY DEF RefreshStep, Idle, TypeOK
<1>2. CASE RefreshStarted(n)
  <2>1. /\ UNCHANGED <<life, dialer, slot, dispatchers, verifies>>
        /\ slot[n] # None
        /\ refresh'[n] = [step |-> "dial", old |-> slot[n], new |-> None]
        /\ \A m \in Node : m # n => refresh'[m] = refresh[m]
    BY <1>2 DEF RefreshStarted, RefreshStep, wire, TypeOK
  <2>2. slot[n] \in Conn /\ Met(n, slot[n])
    BY <2>1 DEF IInv, SlotMet, TypeOK
  <2>3. \A m \in Node : RefreshSound(m)'
    BY <2>1, <2>2 DEF IInv, RefreshSound, Own, Met
  <2> QED
    BY <2>1, <2>3 DEF IInv, ServedOnce, AcceptedIsServed, DialedByNode, Unserved, SlotMet, Own, Met
<1>3. CASE RefreshDialFailed(n)
  BY <1>1, <1>3, IdleInv DEF RefreshDialFailed, wire
<1>4. CASE RefreshAbandoned(n)
  BY <1>1, <1>4, CloseInv DEF RefreshAbandoned, IInv, RefreshSound
<1>5. CASE RefreshClosed(n)
  BY <1>1, <1>5, CloseInv DEF RefreshClosed, IInv, RefreshSound
<1> QED
  BY <1>2, <1>3, <1>4, <1>5, RefreshDialedInv, RefreshSwappedInv DEF Refreshing

LEMMA InvNext == TypeOK /\ IInv /\ [Next]_vars => IInv'
<1> SUFFICES ASSUME TypeOK, IInv, [Next]_vars PROVE IInv'
  OBVIOUS
<1>1. CASE UNCHANGED vars
  BY <1>1, IdleInv DEF vars
<1>2. CASE Network
  BY <1>2, CloseInv DEF Network, ConnectionLost, HandlesDropped, tasks
<1>3. ASSUME NEW n \in Node, Gossiped(n) PROVE IInv'
  BY <1>3, IdleInv DEF Gossiped, wire, tasks
<1>4. ASSUME NEW n \in Node, PeerRemoved(n) PROVE IInv'
  <2>1. \A m \in Node : slot'[m] \in {slot[m], None}
    BY <1>4 DEF PeerRemoved, Attach, TypeOK
  <2> QED
    BY <1>4, <2>1, IdleInv DEF PeerRemoved, wire, tasks
<1> QED
  BY <1>1, <1>2, <1>3, <1>4, DialingInv, RefreshingInv, ServingInv DEF Next

LEMMA Invariance == Spec => [](TypeOK /\ IInv)
<1>1. Init => TypeOK /\ IInv
  BY TypeInit, InvInit
<1>2. TypeOK /\ IInv /\ [Next]_vars => (TypeOK /\ IInv)'
  BY TypeNext, InvNext
<1> QED
  BY <1>1, <1>2, PTL DEF Spec

\* However the two nodes' dials, redials, refreshes and accepts overlap, no
\* connection gets a second dispatcher on the same node.
THEOREM OneDispatcher == Spec => []ServedOnce
<1>1. IInv => ServedOnce
  BY DEF IInv
<1> QED
  BY <1>1, Invariance, PTL

\* The accepting node serves a connection for as long as it is open.
THEOREM AcceptedServed == Spec => []AcceptedIsServed
<1>1. IInv => AcceptedIsServed
  BY DEF IInv
<1> QED
  BY <1>1, Invariance, PTL

\* A node reads every connection it accepted with exactly one dispatcher.
THEOREM Dispatched == Spec => []DispatchedOnce
BY OneDispatcher, AcceptedServed, PTL DEF DispatchedOnce

\* A refresh closes the connection it replaced, never the one in the slot.
THEOREM RefreshSpares == Spec => RefreshSparesTheSlot
<1>1. IInv /\ [Next]_vars =>
        [\A n \in Node : RefreshClosed(n) => slot[n] # refresh[n].old]_vars
  BY DEF IInv, RefreshSound, RefreshClosed
<1> QED
  BY <1>1, Invariance, PTL DEF Spec, RefreshSparesTheSlot
=============================================================================
