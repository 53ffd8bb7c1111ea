----------------------------- MODULE Connections -----------------------------
(***************************************************************************)
(* The QUIC connections between two nodes and the one slot each keeps for   *)
(* the other (MeshState.connections; mesh/mod.rs, mesh/heartbeat.rs).       *)
(*                                                                         *)
(* Both nodes run the same code.  Any number of connections may be open at  *)
(* a time; the slot names the one new streams are opened on, and each       *)
(* dispatcher serves one connection until it closes.  Why a peer is removed *)
(* from the list is Membership's subject; here it is an event.              *)
(***************************************************************************)
EXTENDS Integers, FiniteSets

CONSTANTS
  Node,         \* the two nodes
  Conn,         \* bound: connections that exist at a time; closed ones are reused
  None,         \* no connection, no node
  MaxTasks,     \* bound: dials and refreshes under way
  MaxClosings   \* bound: dispatchers between clearing the slot and looking up the peer

ASSUME ConstantsAssumption ==
  /\ \E m, n \in Node : m # n /\ Node = {m, n}
  /\ None \notin Conn \cup Node
  /\ {MaxTasks, MaxClosings} \subseteq Nat

VARIABLES
  life,         \* [Conn -> Life]
  dialer,       \* [Conn -> the node that dialed it, while it is up]
  slot,         \* [Node -> state.connections[other]]
  listed,       \* [Node -> the other is in state.peers, address included]
  dispatchers,  \* [Node -> [Conn -> running dispatch_streams tasks]]
  closings,     \* [Node -> closed connections whose dispatcher is to look up the peer]
  redials,      \* [Node -> closed connections whose dispatcher redials the peer]
  verifies,     \* [Node -> redialed connections awaiting their first gossip]
  dials,        \* [Node -> other dials under way]
  refresh       \* [Node -> the relay-health refresh]

vars == <<life, dialer, slot, listed, dispatchers, closings, redials, verifies,
          dials, refresh>>
wire == <<life, dialer>>
tasks == <<closings, redials, verifies, dials, refresh>>

Other(n) == CHOOSE m \in Node : m # n
Life == {"closed", "dialed", "open"}   \* dialed: the other side has not accepted it yet

\* attach: the heartbeat or dial_for_split, for want of a connection, or connect_to_peer,
\* a peer not yet known; tunnel: open_http_tunnel; report: a PeerDown report is checked
\* by dialing.
Dial == {"attach", "tunnel", "report"}
Step == {"off", "dial", "verify", "close"}
Idle == [step |-> "off", old |-> None, new |-> None]

TypeOK ==
  /\ life \in [Conn -> Life]
  /\ dialer \in [Conn -> Node \cup {None}]
  /\ slot \in [Node -> Conn \cup {None}]
  /\ listed \in [Node -> BOOLEAN]
  /\ dispatchers \in [Node -> [Conn -> Nat]]
  /\ closings \in [Node -> SUBSET Conn]
  /\ redials \in [Node -> SUBSET Conn]
  /\ verifies \in [Node -> SUBSET Conn]
  /\ dials \in [Node -> SUBSET Dial]
  /\ refresh \in [Node -> [step : Step, old : Conn \cup {None}, new : Conn \cup {None}]]

(***************************************************************************)
(* Two nodes that know each other from a third, with no connection yet.     *)
(***************************************************************************)
Init ==
  /\ life = [c \in Conn |-> "closed"]
  /\ dialer = [c \in Conn |-> None]
  /\ slot = [n \in Node |-> None]
  /\ listed = [n \in Node |-> TRUE]
  /\ dispatchers = [n \in Node |-> [c \in Conn |-> 0]]
  /\ closings = [n \in Node |-> {}]
  /\ redials = [n \in Node |-> {}]
  /\ verifies = [n \in Node |-> {}]
  /\ dials = [n \in Node |-> {}]
  /\ refresh = [n \in Node |-> Idle]

-----------------------------------------------------------------------------
(* Handles *)

\* A connection closes when the last handle to it is dropped.
Holds(n, c) ==
  \/ slot[n] = c
  \/ dispatchers[n][c] > 0
  \/ c \in closings[n] \cup redials[n] \cup verifies[n]
  \/ c \in {refresh[n].old, refresh[n].new}

Fresh(c) == life[c] = "closed" /\ \A n \in Node : ~Holds(n, c)

Connect(n, c) ==
  /\ Fresh(c)
  /\ life' = [life EXCEPT ![c] = "dialed"]
  /\ dialer' = [dialer EXCEPT ![c] = n]

Close(c) ==
  /\ life' = [life EXCEPT ![c] = "closed"]
  /\ dialer' = [dialer EXCEPT ![c] = None]

Attach(n, c) == slot' = [slot EXCEPT ![n] = c]
Relist(n, known) == listed' = [listed EXCEPT ![n] = known]
Serve(n, c) == dispatchers' = [dispatchers EXCEPT ![n][c] = @ + 1]

\* A gossip exchange that n starts over c is answered: the other side has to be
\* serving c.
Answered(n, c) == life[c] = "open" /\ dispatchers[Other(n)][c] > 0

-----------------------------------------------------------------------------
(* The network *)

ConnectionLost(c) ==
  /\ life[c] # "closed"
  /\ Close(c)
  /\ UNCHANGED <<slot, listed, dispatchers, tasks>>

HandlesDropped(n, c) ==
  /\ life[c] = "open" \/ (life[c] = "dialed" /\ dialer[c] = n)
  /\ ~Holds(n, c)
  /\ Close(c)
  /\ UNCHANGED <<slot, listed, dispatchers, tasks>>

-----------------------------------------------------------------------------
(* Connections come up *)

HandleIncomingToEmpty(n, c) ==
  /\ life[c] = "dialed"
  /\ dialer[c] = Other(n)
  /\ life' = [life EXCEPT ![c] = "open"]
  /\ Attach(n, c)
  /\ IF slot[n] = None THEN Serve(n, c) ELSE UNCHANGED dispatchers
  /\ UNCHANGED <<dialer, listed, tasks>>

\* handle_incoming: the slot is overwritten, whatever it held.
HandleIncoming(n, c) ==
  /\ life[c] = "dialed"
  /\ dialer[c] = Other(n)
  /\ life' = [life EXCEPT ![c] = "open"]
  /\ Attach(n, c)
  /\ Serve(n, c)
  /\ UNCHANGED <<dialer, listed, tasks>>

Underway ==
  Cardinality({p \in Node \X Dial : p[2] \in dials[p[1]]})
    + Cardinality({n \in Node : refresh[n].step # "off"})

DialStarted(n, k) ==
  /\ k \notin dials[n]
  /\ Underway < MaxTasks
  /\ \/ listed[n] /\ slot[n] = None
     \/ k = "attach" /\ ~listed[n]
  /\ dials' = [dials EXCEPT ![n] = @ \cup {k}]
  /\ UNCHANGED <<wire, slot, listed, dispatchers, closings, redials, verifies, refresh>>

DialEnded(n, k) ==
  /\ k \in dials[n]
  /\ dials' = [dials EXCEPT ![n] = @ \ {k}]
  /\ UNCHANGED <<closings, redials, verifies, refresh>>

\* dial_and_attach, the heartbeat's reconnect: what the slot holds by now is not
\* looked at again.
Attached(n, c) ==
  /\ DialEnded(n, "attach")
  /\ Connect(n, c)
  /\ Attach(n, c)
  /\ Serve(n, c)
  /\ UNCHANGED listed

\* open_http_tunnel: nothing is dispatched on the new connection.
TunnelAttached(n, c) ==
  /\ DialEnded(n, "tunnel")
  /\ Connect(n, c)
  /\ Attach(n, c)
  /\ UNCHANGED <<listed, dispatchers>>

\* A PeerDown report is refuted: the connection is kept only if the slot is
\* still empty.
ReportRefuted(n, c) ==
  /\ DialEnded(n, "report")
  /\ Connect(n, c)
  /\ IF slot[n] = None
       THEN Attach(n, c) /\ Serve(n, c)
       ELSE UNCHANGED <<slot, dispatchers>>
  /\ UNCHANGED listed

\* The dial fails: a report is thereby confirmed, a tunnel may condemn the peer.
DialFailed(n, k) ==
  /\ DialEnded(n, k)
  /\ IF k = "report" THEN Attach(n, None) ELSE UNCHANGED slot
  /\ \/ k # "report" /\ UNCHANGED listed
     \/ k \in {"report", "tunnel"} /\ Relist(n, FALSE)
  /\ UNCHANGED <<wire, dispatchers>>

-----------------------------------------------------------------------------
(* The dispatcher's end *)

DispatcherExitAgain(n, c) ==
  /\ life[c] = "closed"
  /\ slot[n] = c \/ dispatchers[n][c] > 0
  /\ dispatchers' = [dispatchers EXCEPT ![n][c] = @ - 1]

\* dispatch_streams notices that its connection has closed and returns.
DispatcherExit(n, c) ==
  /\ life[c] = "closed"
  /\ dispatchers[n][c] > 0
  /\ dispatchers' = [dispatchers EXCEPT ![n][c] = @ - 1]

\* accept_bi fails: whatever the slot holds is removed.  (The other ends of a dispatcher
\* need the tunnel manager's receivers gone, which last as long as the process.)
DispatcherClosed(n, c) ==
  /\ Cardinality({p \in Node \X Conn : p[2] \in closings[p[1]]}) < MaxClosings
  /\ DispatcherExit(n, c)
  /\ Attach(n, None)
  /\ closings' = [closings EXCEPT ![n] = @ \cup {c}]
  /\ UNCHANGED <<wire, listed, redials, verifies, dials, refresh>>

\* The lock is taken again: a peer with an address on file is redialed.  One without
\* is removed once more, which is one of PeerRemoved's reasons.
DispatcherLooked(n, c) ==
  /\ c \in closings[n]
  /\ closings' = [closings EXCEPT ![n] = @ \ {c}]
  /\ redials' = [redials EXCEPT ![n] = IF listed[n] THEN @ \cup {c} ELSE @]
  /\ UNCHANGED <<wire, slot, listed, dispatchers, verifies, dials, refresh>>

RedialEnded(n, c) ==
  /\ c \in redials[n]
  /\ redials' = [redials EXCEPT ![n] = @ \ {c}]

Redialed(n, c, new) ==
  /\ RedialEnded(n, c)
  /\ Connect(n, new)
  /\ Attach(n, new)
  /\ verifies' = [verifies EXCEPT ![n] = @ \cup {new}]
  /\ UNCHANGED <<listed, dispatchers, closings, dials, refresh>>

RedialFailed(n, c) ==
  /\ RedialEnded(n, c)
  /\ Relist(n, FALSE)
  /\ UNCHANGED <<wire, slot, dispatchers, closings, verifies, dials, refresh>>

VerifiedInSlot(n, c) ==
  /\ c \in verifies[n]
  /\ slot[n] # None
  /\ Answered(n, c)
  /\ verifies' = [verifies EXCEPT ![n] = @ \ {c}]
  /\ listed' = [m \in Node |-> TRUE]
  /\ Serve(n, slot[n])
  /\ UNCHANGED <<wire, slot, closings, redials, dials, refresh>>

Verified(n, c) ==
  /\ c \in verifies[n]
  /\ Answered(n, c)
  /\ verifies' = [verifies EXCEPT ![n] = @ \ {c}]
  /\ listed' = [m \in Node |-> TRUE]
  /\ Serve(n, c)
  /\ UNCHANGED <<wire, slot, closings, redials, dials, refresh>>

\* The gossip fails: the peer is removed, the slot keeps the connection, which
\* no dispatcher serves.
VerifyFailed(n, c) ==
  /\ c \in verifies[n]
  /\ verifies' = [verifies EXCEPT ![n] = @ \ {c}]
  /\ Relist(n, FALSE)
  /\ UNCHANGED <<wire, slot, dispatchers, closings, redials, dials, refresh>>

-----------------------------------------------------------------------------
(* refresh_peer_connection *)

RefreshStep(n, step) == refresh' = [refresh EXCEPT ![n] = step]

RefreshStarted(n) ==
  /\ refresh[n].step = "off"
  /\ Underway < MaxTasks
  /\ listed[n] /\ slot[n] # None
  /\ RefreshStep(n, [step |-> "dial", old |-> slot[n], new |-> None])
  /\ UNCHANGED <<wire, slot, listed, dispatchers, closings, redials, verifies, dials>>

RefreshDialed(n, c) ==
  /\ refresh[n].step = "dial"
  /\ Connect(n, c)
  /\ RefreshStep(n, [refresh[n] EXCEPT !.step = "verify", !.new = c])
  /\ UNCHANGED <<slot, listed, dispatchers, closings, redials, verifies, dials>>

RefreshDialFailed(n) ==
  /\ refresh[n].step = "dial"
  /\ RefreshStep(n, Idle)
  /\ UNCHANGED <<wire, slot, listed, dispatchers, closings, redials, verifies, dials>>

\* The gossip fails, or it is answered but the slot has changed hands.
RefreshAbandoned(n) ==
  /\ refresh[n].step = "verify"
  /\ \/ UNCHANGED listed
     \/ Answered(n, refresh[n].new) /\ listed' = [m \in Node |-> TRUE]
  /\ Close(refresh[n].new)
  /\ RefreshStep(n, Idle)
  /\ UNCHANGED <<slot, dispatchers, closings, redials, verifies, dials>>

RefreshUnswapped(n) ==
  /\ refresh[n].step = "verify"
  /\ Answered(n, refresh[n].new)
  /\ slot[n] = refresh[n].old
  /\ listed' = [m \in Node |-> TRUE]
  /\ Serve(n, refresh[n].new)
  /\ RefreshStep(n, [refresh[n] EXCEPT !.step = "close"])
  /\ UNCHANGED <<wire, slot, closings, redials, verifies, dials>>

\* The slot still holds the connection to be replaced: swap, then serve the new
\* one; the old one is closed after that.
RefreshSwapped(n) ==
  /\ refresh[n].step = "verify"
  /\ Answered(n, refresh[n].new)
  /\ slot[n] = refresh[n].old
  /\ listed' = [m \in Node |-> TRUE]
  /\ Attach(n, refresh[n].new)
  /\ Serve(n, refresh[n].new)
  /\ RefreshStep(n, [refresh[n] EXCEPT !.step = "close"])
  /\ UNCHANGED <<wire, closings, redials, verifies, dials>>

RefreshClosed(n) ==
  /\ refresh[n].step = "close"
  /\ Close(refresh[n].old)
  /\ RefreshStep(n, Idle)
  /\ UNCHANGED <<slot, listed, dispatchers, closings, redials, verifies, dials>>

-----------------------------------------------------------------------------
(* Gossip and removals (Membership has the reasons) *)

Gossiped(n) ==
  /\ slot[n] # None
  /\ Answered(n, slot[n])
  /\ listed' = [m \in Node |-> TRUE]
  /\ UNCHANGED <<wire, slot, dispatchers, tasks>>

\* A death keeps the connection; a prune, a confirmed report or a leaving peer
\* does not.
PeerRemoved(n) ==
  /\ Relist(n, FALSE)
  /\ \/ UNCHANGED slot
     \/ Attach(n, None)
  /\ UNCHANGED <<wire, dispatchers, tasks>>

-----------------------------------------------------------------------------
(* Specification *)

Network == \E c \in Conn : ConnectionLost(c) \/ \E n \in Node : HandlesDropped(n, c)

Dialing(n) ==
  \/ \E k \in Dial : DialStarted(n, k) \/ DialFailed(n, k)
  \/ \E c \in Conn : Attached(n, c) \/ TunnelAttached(n, c) \/ ReportRefuted(n, c)

Serving(n, c) ==
  \/ HandleIncoming(n, c) \/ DispatcherClosed(n, c) \/ DispatcherLooked(n, c)
  \/ (\E new \in Conn : Redialed(n, c, new)) \/ RedialFailed(n, c)
  \/ Verified(n, c) \/ VerifyFailed(n, c)

Refreshing(n) ==
  \/ RefreshStarted(n) \/ (\E c \in Conn : RefreshDialed(n, c)) \/ RefreshDialFailed(n)
  \/ RefreshAbandoned(n) \/ RefreshSwapped(n) \/ RefreshClosed(n)

Next ==
  \/ Network
  \/ \E n \in Node :
       \/ Dialing(n) \/ Refreshing(n) \/ Gossiped(n) \/ PeerRemoved(n)
       \/ \E c \in Conn : Serving(n, c)

Spec == Init /\ [][Next]_vars

-----------------------------------------------------------------------------
(* Safety *)

\* No connection is served twice, however dials, redials, refreshes and accepts
\* of the two nodes overlap (dispatch_streams is spawned at six places).
ServedOnce == \A n \in Node, c \in Conn : dispatchers[n][c] <= 1

\* A node serves every open connection it accepted: what a peer opens on a
\* connection it dialed is read, whatever became of the acceptor's slot
\* (handle_incoming, _dispatch_streams).
AcceptedIsServed ==
  \A c \in Conn : life[c] = "open" => dispatchers[Other(dialer[c])][c] > 0

\* Every connection a node accepted is served as long as it lasts, and by one
\* dispatcher, so that no stream of it is read twice or by nobody.
DispatchedOnce == ServedOnce /\ AcceptedIsServed

\* A refresh never closes the connection in use: when it closes the one it set
\* out to replace, the slot holds another or none, whatever was dialed, accepted
\* or removed meanwhile (refresh_peer_connection).
RefreshSparesTheSlot ==
  [][\A n \in Node : RefreshClosed(n) => slot[n] # refresh[n].old]_vars

-----------------------------------------------------------------------------
(* What the tests and comments say, and the code does not do *)

\* "Stale dispatcher must not remove a newer replacement connection"
\* (mesh/tests.rs, and the comment in refresh_peer_connection).
StaleDispatcherSparesReplacement ==
  [][\A n \in Node, c \in Conn : DispatcherClosed(n, c) => slot[n] \in {c, None}]_vars
=============================================================================
