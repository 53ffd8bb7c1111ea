---------------------------- MODULE ElectionProofs ----------------------------
(***************************************************************************)
(* Proofs of Election's safety properties for any nodes, sizes, paths and   *)
(* faults.                                                                 *)
(***************************************************************************)
EXTENDS Election, FiniteSetTheorems, WellFoundedInduction, TLAPS

-----------------------------------------------------------------------------
(* The order of the candidates *)

\* Scores are compared in the order of their places.
LEMMA LowerReading ==
  ASSUME NEW s, NEW t, DOMAIN s = 1..5
  PROVE  Lower(s, t) <=>
           \/ s[1] < t[1]
           \/ s[1] = t[1] /\ s[2] < t[2]
           \/ s[1] = t[1] /\ s[2] = t[2] /\ s[3] < t[3]
           \/ s[1] = t[1] /\ s[2] = t[2] /\ s[3] = t[3] /\ s[4] < t[4]
           \/ s[1] = t[1] /\ s[2] = t[2] /\ s[3] = t[3] /\ s[4] = t[4] /\ s[5] < t[5]
<1> DEFINE Differ(i) == s[i] < t[i] /\ \A j \in 1..(i - 1) : s[j] = t[j]
<1>1. Lower(s, t) <=> \E i \in 1..5 : Differ(i)
  BY DEF Lower
<1>2. (\E i \in 1..5 : Differ(i)) <=> Differ(1) \/ Differ(2) \/ Differ(3) \/ Differ(4) \/ Differ(5)
  <2> HIDE DEF Differ
  <2>1. 1..5 = {1, 2, 3, 4, 5}
    OBVIOUS
  <2>2. QED BY <2>1
<1>3. Differ(1) <=> s[1] < t[1]
  OBVIOUS
<1>4. Differ(2) <=> s[1] = t[1] /\ s[2] < t[2]
  OBVIOUS
<1>5. Differ(3) <=> s[1] = t[1] /\ s[2] = t[2] /\ s[3] < t[3]
  OBVIOUS
<1>6. Differ(4) <=> s[1] = t[1] /\ s[2] = t[2] /\ s[3] = t[3] /\ s[4] < t[4]
  OBVIOUS
<1>7. Differ(5) <=> s[1] = t[1] /\ s[2] = t[2] /\ s[3] = t[3] /\ s[4] = t[4] /\ s[5] < t[5]
  OBVIOUS
<1> HIDE DEF Differ
<1>8. QED BY <1>1, <1>2, <1>3, <1>4, <1>5, <1>6, <1>7

\* The better machine, whoever asks: faster memory, then more of the rest, then the id.
Beats(m, n) ==
  \/ Fast[m] > Fast[n]
  \/ Fast[m] = Fast[n] /\ Ram[m] > Ram[n]
  \/ Fast[m] = Fast[n] /\ Ram[m] = Ram[n] /\ Rank[m] > Rank[n]

LEMMA Sizes == \A n \in Node : /\ Fast[n] \in Nat /\ Ram[n] \in Nat /\ Rank[n] \in Nat
                               /\ Need(n) \in Int
BY ElectionAssumption DEF Need

LEMMA BeatsIsTotal ==
  /\ \A m, n \in Node : m # n => Beats(m, n) \/ Beats(n, m)
  /\ \A m, n \in Node : ~(Beats(m, n) /\ Beats(n, m))
  /\ \A l, m, n \in Node : Beats(l, m) /\ Beats(m, n) => Beats(l, n)
<1>1. \A m, n \in Node : m # n => Rank[m] # Rank[n]
  BY ElectionAssumption
<1>2. QED BY <1>1, Sizes DEF Beats

\* A dialable node's score against any other.
LEMMA ScoresCompare ==
  ASSUME NEW n \in Node, NEW m \in Node, NEW x \in {0, 1}, NEW y \in {0, 1}, NEW p \in {0, 1}
  PROVE  Lower(<<x, 1, Fast[n], Ram[n], Rank[n]>>, <<y, p, Fast[m], Ram[m], Rank[m]>>) <=>
           \/ x < y
           \/ x = y /\ p = 1 /\ Beats(m, n)
<1> DEFINE s == <<x, 1, Fast[n], Ram[n], Rank[n]>>
           t == <<y, p, Fast[m], Ram[m], Rank[m]>>
<1>1. /\ DOMAIN s = 1..5
      /\ s[1] = x /\ s[2] = 1 /\ s[3] = Fast[n] /\ s[4] = Ram[n] /\ s[5] = Rank[n]
      /\ t[1] = y /\ t[2] = p /\ t[3] = Fast[m] /\ t[4] = Ram[m] /\ t[5] = Rank[m]
  OBVIOUS
<1> HIDE DEF s, t
<1>2. Lower(s, t) <=>
        \/ x < y
        \/ x = y /\ 1 < p
        \/ x = y /\ 1 = p /\ Fast[n] < Fast[m]
        \/ x = y /\ 1 = p /\ Fast[n] = Fast[m] /\ Ram[n] < Ram[m]
        \/ x = y /\ 1 = p /\ Fast[n] = Fast[m] /\ Ram[n] = Ram[m] /\ Rank[n] < Rank[m]
  BY <1>1, LowerReading
<1>3. ~(1 < p)
  OBVIOUS
<1>4. Beats(m, n) <=> \/ Fast[n] < Fast[m]
                      \/ Fast[n] = Fast[m] /\ Ram[n] < Ram[m]
                      \/ Fast[n] = Fast[m] /\ Ram[n] = Ram[m] /\ Rank[n] < Rank[m]
  BY Sizes DEF Beats
<1>5. QED BY <1>2, <1>3, <1>4 DEF s, t

\* The score follows the machines for every node that asks, whatever size it takes
\* the model to have, and no path makes up for a worse machine than one's own.
LEMMA ScoreFollows ==
  ASSUME NEW n \in Node, NEW m \in Node, NEW o \in Node, NEW d \in BOOLEAN
  PROVE  /\ Beats(m, n) => Lower(Score(o, n, TRUE), Score(o, m, TRUE))
         /\ ~Beats(m, n) => ~Lower(Score(o, n, TRUE), Score(o, m, d))
<1> DEFINE solo(x) == IF CanSolo(o, x) THEN 1 ELSE 0
           p == IF d THEN 1 ELSE 0
<1>1. /\ Score(o, n, TRUE) = <<solo(n), 1, Fast[n], Ram[n], Rank[n]>>
      /\ Score(o, m, TRUE) = <<solo(m), 1, Fast[m], Ram[m], Rank[m]>>
      /\ Score(o, m, d) = <<solo(m), p, Fast[m], Ram[m], Rank[m]>>
  BY DEF Score
<1>2. solo(n) \in {0, 1} /\ solo(m) \in {0, 1} /\ p \in {0, 1}
  OBVIOUS
<1>3. Beats(m, n) => Fast[m] >= Fast[n]
  BY Sizes DEF Beats
<1>4. ~Beats(m, n) => Fast[n] >= Fast[m]
  BY Sizes DEF Beats
<1>5. /\ Fast[m] >= Fast[n] => solo(m) >= solo(n)
      /\ Fast[n] >= Fast[m] => solo(n) >= solo(m)
  BY Sizes DEF CanSolo
<1> HIDE DEF solo, p
<1>6. Lower(<<solo(n), 1, Fast[n], Ram[n], Rank[n]>>, <<solo(m), 1, Fast[m], Ram[m], Rank[m]>>)
        <=> solo(n) < solo(m) \/ (solo(n) = solo(m) /\ Beats(m, n))
  BY <1>2, ScoresCompare
<1>7. Lower(<<solo(n), 1, Fast[n], Ram[n], Rank[n]>>, <<solo(m), p, Fast[m], Ram[m], Rank[m]>>)
        => solo(n) < solo(m) \/ Beats(m, n)
  BY <1>2, ScoresCompare
<1>8. Beats(m, n) => Lower(Score(o, n, TRUE), Score(o, m, TRUE))
  <2>1. Beats(m, n) => solo(n) < solo(m) \/ solo(n) = solo(m)
    BY <1>2, <1>3, <1>5
  <2>2. QED BY <1>1, <1>6, <2>1, Zenon
<1>9. ~Beats(m, n) => ~Lower(Score(o, n, TRUE), Score(o, m, d))
  <2>1. ~Beats(m, n) => ~(solo(n) < solo(m))
    BY <1>2, <1>4, <1>5
  <2>2. QED BY <1>1, <1>7, <2>1, Zenon
<1>10. QED BY <1>8, <1>9

\* Two nodes that count each other among the dialable candidates do not both win.
LEMMA RivalsDoNotBothWin ==
  ASSUME NEW m \in Node, NEW n \in Node, m # n,
         NEW v, NEW w, m \in HostCandidates(n, v), n \in HostCandidates(m, w),
         v[m].rtt # "none", w[n].rtt # "none"
  PROVE  ~(ShouldBeHost(n, v) /\ ShouldBeHost(m, w))
<1>1. CASE Beats(m, n)
  BY <1>1, ScoreFollows DEF ShouldBeHost
<1>2. CASE Beats(n, m)
  BY <1>2, ScoreFollows DEF ShouldBeHost
<1>3. QED BY <1>1, <1>2, BeatsIsTotal

\* Of finitely many nodes one is beaten by none.
LEMMA Best == \E n \in Node : \A m \in Node : ~Beats(m, n)
<1> DEFINE Better(n) == {m \in Node : Beats(m, n)}
           T == {Better(n) : n \in Node}
<1>1. T \subseteq FiniteSubsetsOf(Node) /\ T # {}
  <2>1. \A n \in Node : Better(n) \subseteq Node /\ IsFiniteSet(Better(n))
    <3>1. \A n \in Node : Better(n) \subseteq Node
      OBVIOUS
    <3>2. QED BY <3>1, ElectionAssumption, FS_Subset
  <2>2. Node # {}
    BY ElectionAssumption
  <2>3. QED BY <2>1, <2>2 DEF FiniteSubsetsOf
<1>2. PICK x \in T : \A y \in T : ~(<<y, x>> \in StrictSubsetOrdering(Node))
  <2> HIDE DEF T
  <2>1. QED BY <1>1, FS_StrictSubsetOrderingWellFounded, WFMin
<1>3. PICK n \in Node : x = Better(n)
  OBVIOUS
<1>4. ASSUME NEW m \in Node, Beats(m, n) PROVE FALSE
  <2>1. Better(m) \subseteq Better(n) /\ Better(m) # Better(n)
    BY <1>4, BeatsIsTotal
  <2>2. <<Better(m), x>> \in StrictSubsetOrdering(Node)
    BY <2>1, <1>3 DEF StrictSubsetOrdering
  <2>3. QED BY <1>2, <2>2
<1>5. QED BY <1>4

\* Candidates are nodes that were asked about.
LEMMA CandidatesAreKnown ==
  ASSUME NEW n \in Node, NEW v
  PROVE  HostCandidates(n, v) \subseteq DOMAIN v
<1>1. Viable(v) \subseteq DOMAIN v
  BY DEF Viable
<1>2. Fallback(v) \subseteq DOMAIN v
  BY <1>1 DEF Fallback
<1>3. QED BY <1>2 DEF HostCandidates, PreferSolo, RamFiltered

\* Among nodes that are dialable candidates to one another at most one elects
\* itself: the scores are a total order of the machines, whatever size of the model,
\* memory, paths and the rest the views hold (should_be_host_for_model_with_solo_bias).
THEOREM RivalsElected == Spec => []RivalsElectOne
<1>1. RivalsElectOne
  <2> SUFFICES ASSUME NEW m \in Node, NEW n \in Node, m # n, SeesRival(n, m), SeesRival(m, n)
               PROVE  ~(Elects(n) /\ Elects(m))
    BY DEF RivalsElectOne
  <2>1. /\ m \in HostCandidates(n, Assigned(n, view[n]))
        /\ n \in HostCandidates(m, Assigned(m, view[m]))
    BY DEF SeesRival, Candidates
  <2>2. /\ Assigned(n, view[n])[m].rtt # "none"
        /\ Assigned(m, view[m])[n].rtt # "none"
    BY DEF SeesRival, Assigned
  <2>3. QED BY <2>1, <2>2, RivalsDoNotBothWin DEF Elects
<1>2. QED BY <1>1, PTL DEF Spec

-----------------------------------------------------------------------------
(* Types *)

LEMMA PlanType ==
  ASSUME NEW n \in Node, NEW v, DOMAIN v \subseteq Node
  PROVE  /\ LaunchPlan(n, v) \in Plan
         /\ LaunchPlan(n, v) = Waiting \/ LaunchPlan(n, v).kind \in {"solo", "split"}
<1>1. Fill(n, v, {}, Eligible(v)) \subseteq Node
  BY DEF Fill, Eligible, Near
<1>2. QED BY <1>1 DEF LaunchPlan, Solo, Split, Waiting, Plan

LEMMA PeerFields ==
  ASSUME NEW p \in Peer
  PROVE  /\ p = [role |-> p.role, serving |-> p.serving, hosted |-> p.hosted,
                 ready |-> p.ready, rtt |-> p.rtt, seen |-> p.seen, late |-> p.late]
         /\ p.role \in Role /\ p.rtt \in Rtt
         /\ {p.serving, p.hosted, p.ready, p.seen, p.late} \subseteq BOOLEAN
BY DEF Peer

LEMMA PeerUpdates ==
  ASSUME NEW p \in Peer
  PROVE  /\ \A r \in Role, x, y, z \in BOOLEAN :
              [p EXCEPT !.role = r, !.serving = x, !.hosted = y, !.ready = z] \in Peer
         /\ \A rtt \in Rtt : [p EXCEPT !.rtt = rtt] \in Peer
         /\ \A x, y \in BOOLEAN : [p EXCEPT !.seen = x, !.late = y] \in Peer
         /\ \A y \in BOOLEAN : [p EXCEPT !.late = y] \in Peer
<1>1. ASSUME NEW r \in Role, NEW x \in BOOLEAN, NEW y \in BOOLEAN, NEW z \in BOOLEAN
      PROVE  [p EXCEPT !.role = r, !.serving = x, !.hosted = y, !.ready = z] \in Peer
  BY DEF Peer
<1>2. ASSUME NEW rtt \in Rtt PROVE [p EXCEPT !.rtt = rtt] \in Peer
  BY DEF Peer
<1>3. ASSUME NEW x \in BOOLEAN, NEW y \in BOOLEAN
      PROVE  [p EXCEPT !.seen = x, !.late = y] \in Peer
  BY DEF Peer
<1>4. ASSUME NEW y \in BOOLEAN PROVE [p EXCEPT !.late = y] \in Peer
  BY DEF Peer
<1>5. QED BY <1>1, <1>2, <1>3, <1>4

LEMMA ViewTypes ==
  ASSUME TypeOK, NEW n \in Node, NEW m \in Node
  PROVE  view[n] \in [Node -> Peer] /\ view[n][m] \in Peer
BY DEF TypeOK

LEMMA ObservedType ==
  ASSUME TypeOK, NEW n \in Node
  PROVE  Observed(n) \in [Node -> Peer] /\ DOMAIN Assigned(n, Observed(n)) \subseteq Node
<1>1. ASSUME NEW m \in Node
      PROVE  [view[n][m] EXCEPT !.seen = m \in known[n], !.late = @ /\ m \in known[n]] \in Peer
  <2>1. (m \in known[n]) \in BOOLEAN /\ (view[n][m].late /\ m \in known[n]) \in BOOLEAN
    OBVIOUS
  <2>2. QED BY <2>1, ViewTypes, PeerUpdates
<1>2. Observed(n) \in [Node -> Peer]
  BY <1>1 DEF Observed
<1>3. QED BY <1>2 DEF Assigned, TypeOK

LEMMA TypeInit == Init => TypeOK
BY ElectionAssumption, LoopAssumption
DEF Init, TypeOK, Unknown, Peer, Rtt, Role, Place, None, Plan

LEMMA ServerTypes ==
  ASSUME TypeOK, NEW n \in Node, TeardownIfHosting(n) \/ Teardown(n)
  PROVE  /\ hosting' \in [Node -> BOOLEAN]
         /\ llama' \in [Node -> {"down", "up", "dead"}]
         /\ running' \in [Node -> Plan]
         /\ role' \in [Node -> Role]
<1>1. None \in Plan /\ "worker" \in Role
  BY DEF None, Plan, Role
<1>2. CASE Teardown(n)
  BY <1>1, <1>2 DEF TypeOK, Teardown, TeardownQuietly
<1>3. CASE UNCHANGED <<server, role>>
  BY <1>3 DEF TypeOK, server
<1>4. QED BY <1>2, <1>3 DEF TeardownIfHosting

LEMMA TypeStep == TypeOK /\ [Next]_vars => TypeOK'
<1> SUFFICES ASSUME TypeOK, [Next]_vars PROVE TypeOK'
  OBVIOUS
<1> USE ElectionAssumption, LoopAssumption
<1> USE DEF mesh, self, server, pace, Goto, Announced, Advertised, Held, Planned
<1>1. ASSUME NEW n \in Node, NEW m \in Others(n), Gossip(n, m) PROVE TypeOK'
  <2>1. Heard(n, m) \in Peer
    BY ViewTypes, PeerUpdates DEF Heard, TypeOK, Others
  <2>2. \A rtt \in Rtt : [Heard(n, m) EXCEPT !.rtt = rtt] \in Peer
    BY <2>1, PeerUpdates
  <2>3. \A rtt \in (IF m \in known[n] THEN {view[n][m].rtt} ELSE Links[n][m]) : rtt \in Rtt
    BY ViewTypes, PeerFields, LoopAssumption DEF Others
  <2>4. view' \in [Node -> [Node -> Peer]]
    <3>1. PICK p \in Peer : view' = [view EXCEPT ![n][m] = p]
      BY <1>1, <2>2, <2>3 DEF Gossip
    <3>2. QED BY <3>1, ViewTypes DEF TypeOK, Others
  <2>5. ticked' \in [Node -> BOOLEAN]
    BY <1>1 DEF Gossip, Ticks, TypeOK
  <2>6. QED BY <1>1, <2>4, <2>5 DEF Gossip, TypeOK, Others
<1>2. ASSUME NEW n \in Node, NEW m \in Others(n), Measured(n, m) PROVE TypeOK'
  <2>1. view' \in [Node -> [Node -> Peer]]
    <3> \A rtt \in Links[n][m] : rtt \in Rtt
      BY DEF Others
    <3>1. PICK rtt \in Rtt : view' = [view EXCEPT ![n][m].rtt = rtt]
      BY <1>2 DEF Measured
    <3>2. [view[n][m] EXCEPT !.rtt = rtt] \in Peer
      BY ViewTypes, PeerUpdates DEF Others
    <3>3. QED BY <3>1, <3>2, ViewTypes DEF TypeOK, Others
  <2>2. QED BY <1>2, <2>1 DEF Measured, TypeOK
<1>3. ASSUME NEW n \in Node, NEW m \in Others(n), PeerLost(n, m) PROVE TypeOK'
  <2>1. [Unknown EXCEPT !.seen = view[n][m].seen, !.late = view[n][m].late] \in Peer
    <3>1. Unknown \in Peer
      BY DEF Unknown, Peer, Role, Rtt
    <3>2. QED BY <3>1, ViewTypes, PeerFields, PeerUpdates DEF Others
  <2>2. view' \in [Node -> [Node -> Peer]]
    BY <1>3, <2>1 DEF PeerLost, TypeOK, Others
  <2>3. QED BY <1>3, <2>2 DEF PeerLost, TypeOK, Fault
<1>4. ASSUME NEW n \in Node, NEW m \in Others(n), GraceOver(n, m) PROVE TypeOK'
  <2>1. view' \in [Node -> [Node -> Peer]]
    <3>1. [view[n][m] EXCEPT !.late = TRUE] \in Peer
      BY ViewTypes, PeerUpdates DEF Others
    <3>2. QED BY <1>4, <3>1, ViewTypes DEF GraceOver, TypeOK, Others
  <2>2. QED BY <1>4, <2>1 DEF GraceOver, TypeOK
<1>5. ASSUME NEW n \in Node, DiscoveryOver(n) \/ BackoffOver(n) \/ RpcIdle(n) \/ MeshTicked(n)
      PROVE  TypeOK'
  <2>1. CASE DiscoveryOver(n)
    BY <2>1 DEF DiscoveryOver, TypeOK
  <2>2. CASE BackoffOver(n)
    BY <2>2 DEF BackoffOver, TypeOK
  <2>3. CASE MeshTicked(n)
    BY <2>3 DEF MeshTicked, TypeOK
  <2>4. CASE RpcIdle(n)
    BY <2>4 DEF RpcIdle, TypeOK
  <2>5. QED BY <1>5, <2>1, <2>2, <2>3, <2>4
<1>6. ASSUME NEW n \in Node, ServerDied(n) \/ StopRequested(n) PROVE TypeOK'
  BY <1>6, SMTT(30) DEF ServerDied, StopRequested, Fault, TypeOK
<1>7. ASSUME NEW n \in Node, Turn(n) PROVE TypeOK'
  <2> DEFINE v       == Assigned(n, Observed(n))
             desired == LaunchPlan(n, v)
             host    == ShouldHost(n, v, desired)
  <2>1. DOMAIN v \subseteq Node
    BY ObservedType DEF TypeOK
  <2>2. desired \in Plan
    BY <2>1, PlanType
  <2>3. view' \in [Node -> [Node -> Peer]]
    BY <1>7, ObservedType DEF Turn, Look, TypeOK
  <2>4. UNCHANGED <<known, ticked, pace, stopping, faults>> /\ pc[n] = "decide"
    BY <1>7 DEF Turn, Look
  <2>5. \/ KeepHosting(n, desired) \/ WaitForCapacity(n) \/ StartWorker(n, desired)
        \/ KeepWorking(n, desired)
        \/ desired # Waiting /\ Launch(n, desired)
    BY <1>7 DEF Turn, Look
  <2> HIDE DEF desired
  <2>6. CASE KeepHosting(n, desired)
    <3>1. desired = Waiting \/ desired.kind \in {"solo", "split"}
      BY <2>1, PlanType DEF desired
    <3>2. QED BY <2>2, <2>3, <2>4, <2>6, <3>1 DEF KeepHosting, Parked, TypeOK, Place
  <2>7. CASE WaitForCapacity(n)
    BY <2>3, <2>4, <2>7, ServerTypes DEF WaitForCapacity, TypeOK, Place
  <2>8. CASE StartWorker(n, desired)
    BY <2>3, <2>4, <2>8 DEF StartWorker, Parked, TypeOK, Place
  <2>9. CASE KeepWorking(n, desired)
    BY <2>3, <2>4, <2>9, ServerTypes DEF KeepWorking, BecomeWorker, Parked, TypeOK, Place
  <2>10. CASE desired # Waiting /\ Launch(n, desired)
    <3>1. desired.kind \in {"solo", "split"}
      BY <2>10 DEF desired, LaunchPlan, Solo, Split
    <3>2. QED BY <2>2, <2>3, <2>4, <2>10, <3>1, ServerTypes DEF Launch, TypeOK, Place
  <2>11. QED BY <2>5, <2>6, <2>7, <2>8, <2>9, <2>10
<1>8. ASSUME NEW n \in Node, NEW up \in BOOLEAN, WorkerStarted(n, up) PROVE TypeOK'
  BY <1>8, ServerTypes DEF WorkerStarted, BecomeWorker, TypeOK, Place
<1>9. ASSUME NEW n \in Node, LaunchSucceeded(n) PROVE TypeOK'
  BY <1>9 DEF LaunchSucceeded, TypeOK, Place, None, Plan, Role
<1>10. ASSUME NEW n \in Node, LaunchFailed(n) \/ ProxyFailed(n) PROVE TypeOK'
  <2>1. None \in Plan
    BY DEF None, Plan
  <2>2. CASE LaunchFailed(n)
    BY <2>1, <2>2 DEF LaunchFailed, TypeOK, Place
  <2>3. CASE ProxyFailed(n)
    BY <2>1, <2>3 DEF ProxyFailed, TypeOK, Place
  <2>4. QED BY <1>10, <2>2, <2>3
<1>11. ASSUME NEW n \in Node, Wake(n) \/ WakeOnTick(n) PROVE TypeOK'
  <2>1. None \in Plan
    BY DEF None, Plan
  <2>2. CASE Wake(n)
    BY <2>1, <2>2 DEF Wake, TypeOK, Place
  <2>3. CASE WakeOnTick(n)
    BY <2>3 DEF WakeOnTick, TypeOK, Place
  <2>4. QED BY <1>11, <2>2, <2>3
<1>12. ASSUME NEW n \in Node, DeathSeen(n) PROVE TypeOK'
  <2>1. None \in Plan
    BY DEF None, Plan
  <2>2. /\ hosting' \in [Node -> BOOLEAN] /\ llama' \in [Node -> {"down", "up", "dead"}]
        /\ running' \in [Node -> Plan] /\ role' \in [Node -> Role]
    BY <1>12, ServerTypes DEF DeathSeen
  <2>3. /\ UNCHANGED <<known, view, ticked, held, ready, backoff, young, stopping, faults>>
        /\ hosted' = [hosted EXCEPT ![n] = FALSE]
        /\ pc[n] = "steady"
    BY <1>12 DEF DeathSeen
  <2>4. CASE plan[n] = Waiting
    <3>1. /\ pc' = [pc EXCEPT ![n] = "parked"] /\ plan' = [plan EXCEPT ![n] = None]
          /\ UNCHANGED serving
      BY <1>12, <2>4 DEF DeathSeen
    <3>2. QED BY <2>1, <2>2, <2>3, <3>1 DEF TypeOK, Place
  <2>5. CASE plan[n] # Waiting
    <3>1. plan[n].kind \in {"solo", "split"}
      BY <2>3, <2>5 DEF TypeOK
    <3>2. /\ pc' = [pc EXCEPT ![n] = "launch"] /\ UNCHANGED plan
          /\ serving' = [serving EXCEPT ![n] = TRUE]
      BY <1>12, <2>5 DEF DeathSeen
    <3>3. QED BY <2>2, <2>3, <3>1, <3>2 DEF TypeOK, Place
  <2>6. QED BY <2>4, <2>5
<1>13. ASSUME NEW n \in Node, DeathSeenLate(n) PROVE TypeOK'
  BY <1>13 DEF DeathSeenLate, TeardownQuietly, TypeOK, Place, None, Plan
<1>14. ASSUME NEW n \in Node, Exit(n) PROVE TypeOK'
  BY <1>14, ServerTypes DEF Exit, TypeOK, Place, None, Plan
<1>15. CASE UNCHANGED vars
  BY <1>15 DEF vars, TypeOK
<1>16. QED
  BY <1>1, <1>2, <1>3, <1>4, <1>5, <1>6, <1>7, <1>8, <1>9, <1>10, <1>11, <1>12, <1>13,
     <1>14, <1>15 DEF Next, Loop, Clock, Peering

\* Every definition of the loops keeps to its type, a launch has a cohort to launch
\* with, and a loop that keeps hosting knows what it would start next.
THEOREM TypeCorrect == Spec => []TypeOK
BY TypeInit, TypeStep, PTL DEF Spec

-----------------------------------------------------------------------------
(* Somebody is elected *)

\* The best machine elects itself whatever it has heard of the others, so the nodes
\* never all defer to one another, however stale their views are.
THEOREM SomebodyElected == Spec => []SomebodyElectsItself
<1>1. TypeOK => SomebodyElectsItself
  <2> SUFFICES ASSUME TypeOK PROVE \E n \in Node : Elects(n)
    BY DEF SomebodyElectsItself
  <2>1. PICK n \in Node : \A m \in Node : ~Beats(m, n)
    BY Best
  <2>2. Candidates(n) \subseteq Node
    BY CandidatesAreKnown DEF Candidates, Assigned, TypeOK
  <2>3. Elects(n)
    BY <2>1, <2>2, ScoreFollows DEF Elects, ShouldBeHost, Candidates
  <2>4. QED BY <2>3
<1>2. QED BY <1>1, TypeCorrect, PTL

\* Not two rivals, and not nobody.
THEOREM OneElected == Spec => []OneElectsItself
BY RivalsElected, SomebodyElected, PTL DEF OneElectsItself

-----------------------------------------------------------------------------
(* What a loop holds *)

\* A loop that keeps its server although capacity is missing has parked it.
SteadyIsUnadvertised == \A n \in Node : pc[n] = "steady" /\ plan[n] = Waiting => ~serving[n]

LoopInv ==
  /\ TypeOK
  /\ ServerIsOwned /\ HostHoldsNoRpcServer /\ WaitingIsUnadvertised /\ SteadyIsUnadvertised

\* What LoopInv says of one node.
Sane(n) ==
  /\ llama[n] = "up" => hosting[n] /\ pc[n] # "stopped"
  /\ Leads(n) => ~held[n]
  /\ pc[n] \in {"parked", "stopped"} => ~serving[n] /\ ~hosted[n]
  /\ pc[n] = "steady" /\ plan[n] = Waiting => ~serving[n]

LEMMA LoopInvIsSane == LoopInv <=> TypeOK /\ \A n \in Node : Sane(n)
<1>1. ASSUME LoopInv, NEW n \in Node PROVE Sane(n)
  <2> USE <1>1 DEF LoopInv
  <2>1. llama[n] = "up" => hosting[n] /\ pc[n] # "stopped"
    BY DEF ServerIsOwned
  <2>2. Leads(n) => ~held[n]
    BY DEF HostHoldsNoRpcServer
  <2>3. pc[n] \in {"parked", "stopped"} => ~serving[n] /\ ~hosted[n]
    BY DEF WaitingIsUnadvertised
  <2>4. pc[n] = "steady" /\ plan[n] = Waiting => ~serving[n]
    BY DEF SteadyIsUnadvertised
  <2>5. QED BY <2>1, <2>2, <2>3, <2>4 DEF Sane
<1>2. ASSUME TypeOK, \A n \in Node : Sane(n) PROVE LoopInv
  <2> USE <1>2 DEF Sane
  <2>1. ServerIsOwned
    BY DEF ServerIsOwned
  <2>2. HostHoldsNoRpcServer
    BY DEF HostHoldsNoRpcServer
  <2>3. WaitingIsUnadvertised
    BY DEF WaitingIsUnadvertised
  <2>4. SteadyIsUnadvertised
    BY DEF SteadyIsUnadvertised
  <2>5. QED BY <2>1, <2>2, <2>3, <2>4 DEF LoopInv
<1>3. QED BY <1>1, <1>2 DEF LoopInv

\* A step of one loop leaves what the others hold alone.
OfOne(n) ==
  \A o \in Node : o # n =>
    /\ pc'[o] = pc[o] /\ plan'[o] = plan[o] /\ serving'[o] = serving[o]
    /\ hosted'[o] = hosted[o] /\ held'[o] = held[o] /\ hosting'[o] = hosting[o]
    /\ llama'[o] = llama[o]

LEMMA OthersStaySane ==
  ASSUME LoopInv, NEW n \in Node, OfOne(n), Sane(n)'
  PROVE  \A o \in Node : Sane(o)'
<1> SUFFICES ASSUME NEW o \in Node, o # n PROVE Sane(o)'
  OBVIOUS
<1>1. Sane(o)
  BY LoopInvIsSane
<1>2. QED BY <1>1 DEF OfOne, Sane, Leads

LEMMA TornDown ==
  ASSUME TypeOK, NEW n \in Node, Sane(n), TeardownIfHosting(n) \/ Teardown(n)
  PROVE  /\ llama'[n] # "up"
         /\ \A o \in Node : o # n => hosting'[o] = hosting[o] /\ llama'[o] = llama[o]
<1>1. CASE Teardown(n)
  BY <1>1 DEF TypeOK, Teardown, TeardownQuietly
<1>2. CASE ~hosting[n] /\ UNCHANGED <<server, role>>
  BY <1>2 DEF server, Sane
<1>3. QED BY <1>1, <1>2 DEF TeardownIfHosting

LEMMA LoopInit == Init => LoopInv
BY TypeInit
DEF Init, LoopInv, ServerIsOwned, HostHoldsNoRpcServer, Leads, WaitingIsUnadvertised,
    SteadyIsUnadvertised

LEMMA LoopStep == LoopInv /\ [Next]_vars => LoopInv'
<1> SUFFICES ASSUME LoopInv, [Next]_vars PROVE LoopInv'
  OBVIOUS
<1> SUFFICES \A o \in Node : Sane(o)'
  <2>1. TypeOK'
    BY TypeStep DEF LoopInv
  <2>2. SUFFICES ASSUME \A o \in Node : Sane(o)' PROVE LoopInv'
    OBVIOUS
  <2> USE <2>2 DEF Sane
  <2>3. ServerIsOwned'
    BY DEF ServerIsOwned
  <2>4. HostHoldsNoRpcServer'
    BY DEF HostHoldsNoRpcServer
  <2>5. WaitingIsUnadvertised'
    BY DEF WaitingIsUnadvertised
  <2>6. SteadyIsUnadvertised'
    BY DEF SteadyIsUnadvertised
  <2>7. QED BY <2>1, <2>3, <2>4, <2>5, <2>6 DEF LoopInv
<1>0. TypeOK /\ \A n \in Node : Sane(n)
  BY LoopInvIsSane
<1> USE DEF mesh, self, server, pace, Goto, Announced, Advertised, Held, Planned
<1>1. CASE UNCHANGED <<pc, plan, serving, hosted, held, hosting, llama>>
  BY <1>0, <1>1 DEF Sane, Leads
<1>2. ASSUME NEW n \in Node, ServerDied(n) PROVE \A o \in Node : Sane(o)'
  BY <1>0, <1>2 DEF ServerDied, Sane, Leads, TypeOK
<1>3. ASSUME NEW n \in Node, Turn(n) PROVE OfOne(n) /\ Sane(n)'
  <2> DEFINE desired == LaunchPlan(n, Assigned(n, Observed(n)))
  <2>1. \/ hosting[n] /\ KeepHosting(n, desired)
        \/ WaitForCapacity(n) \/ Launch(n, desired)
        \/ StartWorker(n, desired) \/ KeepWorking(n, desired)
    BY <1>3 DEF Turn, Look, Keeps
  <2> HIDE DEF desired
  <2>2. CASE hosting[n] /\ KeepHosting(n, desired)
    BY <1>0, <2>2 DEF KeepHosting, Parked, OfOne, Sane, Leads, TypeOK
  <2>3. CASE WaitForCapacity(n)
    BY <1>0, <2>3, TornDown DEF WaitForCapacity, OfOne, Sane, Leads, TypeOK
  <2>4. CASE Launch(n, desired)
    BY <1>0, <2>4, TornDown DEF Launch, OfOne, Sane, Leads, TypeOK
  <2>5. CASE StartWorker(n, desired)
    BY <1>0, <2>5 DEF StartWorker, Parked, OfOne, Sane, Leads, TypeOK
  <2>6. CASE KeepWorking(n, desired)
    <3>1. ~hosting'[n]
      BY <1>0, <2>6 DEF KeepWorking, BecomeWorker, Teardown, TeardownQuietly, TypeOK
    <3>2. QED
      BY <1>0, <2>6, <3>1, TornDown DEF KeepWorking, BecomeWorker, Parked, OfOne, Sane, Leads, TypeOK
  <2>7. QED BY <2>1, <2>2, <2>3, <2>4, <2>5, <2>6
<1>4. ASSUME NEW n \in Node, NEW up \in BOOLEAN, WorkerStarted(n, up)
      PROVE  OfOne(n) /\ Sane(n)'
  <2>1. ~hosting'[n]
    BY <1>0, <1>4 DEF WorkerStarted, BecomeWorker, Teardown, TeardownQuietly, TypeOK
  <2>2. QED BY <1>0, <1>4, <2>1, TornDown DEF WorkerStarted, BecomeWorker, OfOne, Sane, Leads, TypeOK
<1>5. ASSUME NEW n \in Node, LaunchSucceeded(n) PROVE OfOne(n) /\ Sane(n)'
  BY <1>0, <1>5 DEF LaunchSucceeded, OfOne, Sane, Leads, TypeOK
<1>6. ASSUME NEW n \in Node, LaunchFailed(n) \/ ProxyFailed(n) PROVE OfOne(n) /\ Sane(n)'
  BY <1>0, <1>6 DEF LaunchFailed, ProxyFailed, OfOne, Sane, Leads, TypeOK
<1>7. ASSUME NEW n \in Node, Wake(n) \/ WakeOnTick(n) PROVE OfOne(n) /\ Sane(n)'
  BY <1>0, <1>7 DEF Wake, WakeOnTick, OfOne, Sane, Leads, TypeOK
<1>8. ASSUME NEW n \in Node, DeathSeen(n) PROVE OfOne(n) /\ Sane(n)'
  <2>1. llama'[n] # "up" /\ pc[n] = "steady" /\ ~held[n] /\ UNCHANGED held
    BY <1>0, <1>8, TornDown DEF DeathSeen, Sane, Leads
  <2>2. \A o \in Node : o # n => hosting'[o] = hosting[o] /\ llama'[o] = llama[o]
    BY <1>0, <1>8, TornDown DEF DeathSeen
  <2>3. hosted' = [hosted EXCEPT ![n] = FALSE]
    BY <1>8 DEF DeathSeen
  <2>4. CASE plan[n] = Waiting
    <3>1. /\ pc' = [pc EXCEPT ![n] = "parked"] /\ plan' = [plan EXCEPT ![n] = None]
          /\ UNCHANGED serving
      BY <1>8, <2>4 DEF DeathSeen
    <3>2. ~serving[n]
      BY <1>0, <2>1, <2>4 DEF Sane
    <3>3. QED BY <1>0, <2>1, <2>2, <2>3, <3>1, <3>2 DEF OfOne, Sane, Leads, TypeOK
  <2>5. CASE plan[n] # Waiting
    <3>1. /\ pc' = [pc EXCEPT ![n] = "launch"] /\ UNCHANGED plan
          /\ serving' = [serving EXCEPT ![n] = TRUE]
      BY <1>8, <2>5 DEF DeathSeen
    <3>2. QED BY <1>0, <2>1, <2>2, <2>3, <3>1 DEF OfOne, Sane, Leads, TypeOK
  <2>6. QED BY <2>4, <2>5
<1>9. ASSUME NEW n \in Node, DeathSeenLate(n) PROVE OfOne(n) /\ Sane(n)'
  BY <1>0, <1>9 DEF DeathSeenLate, TeardownQuietly, OfOne, Sane, Leads, TypeOK
<1>10. ASSUME NEW n \in Node, Exit(n) PROVE OfOne(n) /\ Sane(n)'
  BY <1>0, <1>10, TornDown DEF Exit, OfOne, Sane, Leads, TypeOK
<1>11. ASSUME NEW n \in Node, Clock(n) \/ Peering(n) \/ MeshTicked(n) \/ StopRequested(n)
       PROVE  UNCHANGED <<pc, plan, serving, hosted, held, hosting, llama>>
  BY <1>11 DEF Clock, Peering, GraceOver, DiscoveryOver, BackoffOver, RpcIdle, Gossip, Measured,
               PeerLost, MeshTicked, StopRequested
<1>12. CASE UNCHANGED vars
  BY <1>1, <1>12 DEF vars
<1>13. QED
  BY <1>1, <1>2, <1>3, <1>4, <1>5, <1>6, <1>7, <1>8, <1>9, <1>10, <1>11, <1>12,
     OthersStaySane DEF Next, Loop

\* No way out of a turn, no failed launch, no death and no stop leaves a llama-server
\* running that the loop no longer holds.
THEOREM ServerOwned == Spec => []ServerIsOwned
BY LoopInit, LoopStep, PTL DEF Spec, LoopInv

\* A node that leads a cohort never holds the rpc-server: the idle clock of one that it
\* still lends its memory through is running.
THEOREM HostWithoutRpcServer == Spec => []HostHoldsNoRpcServer
BY LoopInit, LoopStep, PTL DEF Spec, LoopInv

\* A node that waits or has unloaded the model never advertises it.
THEOREM WaitingUnadvertised == Spec => []WaitingIsUnadvertised
BY LoopInit, LoopStep, PTL DEF Spec, LoopInv

\* What a node runs, holds and advertises agrees with where its loop is.
THEOREM RolesAgreeAlways == Spec => []RolesAgree
BY ServerOwned, HostWithoutRpcServer, WaitingUnadvertised, PTL DEF RolesAgree

-----------------------------------------------------------------------------
(* What a loop keeps *)

\* The node, alone or with those workers, holds the model.
Holds(n, p) ==
  \/ p = Solo /\ Bytes[n] > 0 /\ CanSolo(n, n)
  \/ p.kind = "split" /\ Total(n, p.workers) >= Need(n)

Fits(n) ==
  /\ hosting[n] => Holds(n, running[n])
  /\ pc[n] = "launch" \/ (pc[n] = "steady" /\ plan[n] # Waiting) => Holds(n, plan[n])

CohortInv == LoopInv /\ \A n \in Node : Fits(n)

LEMMA PlanHolds ==
  ASSUME NEW n \in Node, NEW v
  PROVE  LaunchPlan(n, v) = Waiting \/ Holds(n, LaunchPlan(n, v))
BY DEF LaunchPlan, Holds, Split, Solo

\* A step of one loop: the others fit as before, and so does n.
FitsAfter(n) ==
  /\ \A o \in Node : o # n => /\ pc'[o] = pc[o] /\ plan'[o] = plan[o]
                              /\ hosting'[o] = hosting[o] /\ running'[o] = running[o]
  /\ Fits(n)'

LEMMA OthersStayFit ==
  ASSUME CohortInv, NEW n \in Node, FitsAfter(n)
  PROVE  \A o \in Node : Fits(o)'
BY DEF CohortInv, FitsAfter, Fits

LEMMA KeptOrDown ==
  ASSUME TypeOK, NEW n \in Node, TeardownIfHosting(n) \/ Teardown(n)
  PROVE  /\ ~hosting'[n]
         /\ \A o \in Node : o # n => hosting'[o] = hosting[o] /\ running'[o] = running[o]
<1>1. CASE Teardown(n)
  BY <1>1 DEF TypeOK, Teardown, TeardownQuietly
<1>2. CASE ~hosting[n] /\ UNCHANGED <<server, role>>
  BY <1>2 DEF server
<1>3. QED BY <1>1, <1>2 DEF TeardownIfHosting

LEMMA CohortStep == CohortInv /\ [Next]_vars => CohortInv'
<1> SUFFICES ASSUME CohortInv, [Next]_vars PROVE \A o \in Node : Fits(o)'
  BY LoopStep DEF CohortInv
<1>0. TypeOK /\ \A n \in Node : Fits(n)
  BY DEF CohortInv, LoopInv
<1> USE DEF mesh, self, server, pace, Goto, Announced, Advertised, Held, Planned
<1>1. CASE UNCHANGED <<pc, plan, hosting, running>>
  BY <1>0, <1>1 DEF Fits
<1>2. ASSUME NEW n \in Node, Turn(n) PROVE FitsAfter(n)
  <2> DEFINE v       == Assigned(n, Observed(n))
             desired == LaunchPlan(n, v)
             host    == ShouldHost(n, v, desired)
  <2>1. \/ KeepHosting(n, desired)
        \/ WaitForCapacity(n)
        \/ desired # Waiting /\ Launch(n, desired)
        \/ StartWorker(n, desired) \/ KeepWorking(n, desired)
    BY <1>2 DEF Turn, Look
  <2>2. desired = Waiting \/ Holds(n, desired)
    BY PlanHolds
  <2> HIDE DEF desired
  <2>3. CASE KeepHosting(n, desired)
    BY <1>0, <2>2, <2>3 DEF KeepHosting, FitsAfter, Fits, TypeOK
  <2>4. CASE WaitForCapacity(n)
    BY <1>0, <2>4, KeptOrDown DEF WaitForCapacity, FitsAfter, Fits, TypeOK
  <2>5. CASE desired # Waiting /\ Launch(n, desired)
    BY <1>0, <2>2, <2>5, KeptOrDown DEF Launch, FitsAfter, Fits, TypeOK
  <2>6. CASE StartWorker(n, desired)
    BY <1>0, <2>6 DEF StartWorker, FitsAfter, Fits, TypeOK
  <2>7. CASE KeepWorking(n, desired)
    BY <1>0, <2>7, KeptOrDown DEF KeepWorking, BecomeWorker, FitsAfter, Fits, TypeOK
  <2>8. QED BY <2>1, <2>3, <2>4, <2>5, <2>6, <2>7
<1>3. ASSUME NEW n \in Node, NEW up \in BOOLEAN, WorkerStarted(n, up) PROVE FitsAfter(n)
  BY <1>0, <1>3, KeptOrDown DEF WorkerStarted, BecomeWorker, FitsAfter, Fits, TypeOK
<1>4. ASSUME NEW n \in Node, LaunchSucceeded(n) PROVE FitsAfter(n)
  BY <1>0, <1>4 DEF LaunchSucceeded, FitsAfter, Fits, TypeOK
<1>5. ASSUME NEW n \in Node, LaunchFailed(n) \/ ProxyFailed(n) PROVE FitsAfter(n)
  BY <1>0, <1>5 DEF LaunchFailed, ProxyFailed, FitsAfter, Fits, TypeOK
<1>6. ASSUME NEW n \in Node, Wake(n) \/ WakeOnTick(n) PROVE FitsAfter(n)
  BY <1>0, <1>6 DEF Wake, WakeOnTick, FitsAfter, Fits, TypeOK
<1>7. ASSUME NEW n \in Node, DeathSeen(n) PROVE FitsAfter(n)
  <2>1. /\ ~hosting'[n]
        /\ \A o \in Node : o # n => hosting'[o] = hosting[o] /\ running'[o] = running[o]
    BY <1>0, <1>7, KeptOrDown DEF DeathSeen
  <2>2. CASE plan[n] = Waiting
    BY <1>0, <1>7, <2>1, <2>2 DEF DeathSeen, FitsAfter, Fits, TypeOK
  <2>3. CASE plan[n] # Waiting
    <3>1. pc[n] = "steady" /\ pc' = [pc EXCEPT ![n] = "launch"] /\ UNCHANGED plan
      BY <1>7, <2>3 DEF DeathSeen
    <3>2. Holds(n, plan[n])
      BY <1>0, <2>3, <3>1 DEF Fits
    <3>3. QED BY <1>0, <2>1, <3>1, <3>2 DEF FitsAfter, Fits, TypeOK
  <2>4. QED BY <2>2, <2>3
<1>8. ASSUME NEW n \in Node, DeathSeenLate(n) PROVE FitsAfter(n)
  BY <1>0, <1>8 DEF DeathSeenLate, TeardownQuietly, FitsAfter, Fits, TypeOK
<1>9. ASSUME NEW n \in Node, Exit(n) PROVE FitsAfter(n)
  BY <1>0, <1>9, KeptOrDown DEF Exit, FitsAfter, Fits, TypeOK
<1>10. ASSUME NEW n \in Node,
              Clock(n) \/ Peering(n) \/ MeshTicked(n) \/ StopRequested(n) \/ ServerDied(n)
       PROVE  UNCHANGED <<pc, plan, hosting, running>>
  BY <1>10 DEF Clock, Peering, GraceOver, DiscoveryOver, BackoffOver, RpcIdle, Gossip, Measured,
               PeerLost, MeshTicked, StopRequested, ServerDied
<1>11. CASE UNCHANGED vars
  BY <1>1, <1>11 DEF vars
<1>12. QED
  BY <1>1, <1>2, <1>3, <1>4, <1>5, <1>6, <1>7, <1>8, <1>9, <1>10, <1>11,
     OthersStayFit DEF Next, Loop

\* An elected node whose workers are all still there plans to keep its server.
LEMMA ElectedKeeps ==
  ASSUME CohortInv, NEW n \in Node, hosting[n], Elected(n),
         running[n].workers \subseteq known[n]
  PROVE  LET v       == Assigned(n, Observed(n))
             desired == LaunchPlan(n, v)
         IN  ShouldHost(n, v, desired) /\ Keeps(n, v, desired, TRUE)
<1> DEFINE v       == Assigned(n, Observed(n))
           desired == LaunchPlan(n, v)
<1>1. ShouldHost(n, v, desired)
  BY DEF Elected
<1>2. Holds(n, running[n])
  BY DEF CohortInv, Fits
<1>3. CASE running[n] = Solo /\ Bytes[n] > 0 /\ CanSolo(n, n)
  <2>1. desired = running[n]
    BY <1>3 DEF LaunchPlan
  <2>2. QED BY <1>1, <2>1 DEF Keeps
<1>4. CASE Total(n, running[n].workers) >= Need(n)
  <2>1. DOMAIN v = known[n]
    BY DEF Assigned
  <2>2. CohortStillViable(n, v, running[n])
    BY <1>4, <2>1 DEF CohortStillViable
  <2>3. QED BY <1>1, <2>2 DEF Keeps
<1>5. QED BY <1>2, <1>3, <1>4 DEF Holds

LEMMA KeptStep ==
  CohortInv /\ [Next]_vars =>
    \A n \in Node : llama[n] = "up" /\ llama'[n] = "down" => Excused(n)
<1> SUFFICES ASSUME CohortInv, [Next]_vars, NEW n \in Node, llama[n] = "up",
                    llama'[n] = "down", ~Excused(n)
             PROVE  FALSE
  OBVIOUS
<1>0. TypeOK /\ hosting[n]
  BY DEF CohortInv, LoopInv, ServerIsOwned
<1> USE DEF mesh, self, server, pace
<1>1. ASSUME NEW o \in Node, Turn(o) PROVE FALSE
  <2> DEFINE v       == Assigned(o, Observed(o))
             desired == LaunchPlan(o, v)
             host    == ShouldHost(o, v, desired)
  <2>1. o = n
    <3> SUFFICES ASSUME o # n PROVE FALSE
      OBVIOUS
    <3>1. \/ UNCHANGED server \/ TeardownIfHosting(o) \/ Teardown(o)
      BY <1>1 DEF Turn, Look, KeepHosting, WaitForCapacity, Launch, StartWorker,
                  KeepWorking, BecomeWorker
    <3>2. llama'[n] = llama[n]
      BY <1>0, <3>1 DEF TeardownIfHosting, Teardown, TeardownQuietly, TypeOK
    <3>3. QED BY <3>2
  <2>2. host /\ Keeps(n, v, desired, TRUE)
    BY <1>0, <2>1, ElectedKeeps DEF Excused
  <2>3. Keeps(n, v, desired, host)
    BY <2>2 DEF Keeps
  <2>4. KeepHosting(n, desired)
    BY <1>1, <2>1, <2>2, <2>3 DEF Turn, Look
  <2>5. QED BY <2>4 DEF KeepHosting
<1>2. ASSUME NEW o \in Node, NEW up \in BOOLEAN, WorkerStarted(o, up) PROVE FALSE
  <2>1. o # n
    BY <1>2 DEF WorkerStarted, Excused
  <2>2. QED BY <1>0, <1>2, <2>1 DEF WorkerStarted, BecomeWorker, Teardown, TeardownQuietly, TypeOK
<1>3. ASSUME NEW o \in Node, DeathSeen(o) \/ DeathSeenLate(o) PROVE FALSE
  <2>1. llama[o] = "dead"
    BY <1>3 DEF DeathSeen, DeathSeenLate
  <2>2. llama' = [llama EXCEPT ![o] = "down"]
    BY <1>3 DEF DeathSeen, DeathSeenLate, Teardown, TeardownQuietly
  <2>3. QED BY <1>0, <2>1, <2>2 DEF TypeOK
<1>4. ASSUME NEW o \in Node, Exit(o) PROVE FALSE
  <2>1. o # n
    BY <1>4 DEF Exit, Excused
  <2>2. QED BY <1>0, <1>4, <2>1 DEF Exit, TeardownIfHosting, Teardown, TeardownQuietly, TypeOK
<1>5. ASSUME NEW o \in Node, LaunchSucceeded(o) \/ ServerDied(o) PROVE FALSE
  <2>1. llama' = [llama EXCEPT ![o] = "up"] \/ llama' = [llama EXCEPT ![o] = "dead"]
    BY <1>5 DEF LaunchSucceeded, ServerDied
  <2>2. QED BY <1>0, <2>1 DEF TypeOK
<1>6. CASE UNCHANGED llama
  BY <1>6
<1>7. ASSUME NEW o \in Node,
             \/ Clock(o) \/ Peering(o) \/ MeshTicked(o) \/ StopRequested(o)
             \/ LaunchFailed(o) \/ ProxyFailed(o) \/ Wake(o) \/ WakeOnTick(o)
      PROVE  UNCHANGED llama
  BY <1>7 DEF Clock, Peering, GraceOver, DiscoveryOver, BackoffOver, RpcIdle, Gossip, Measured,
              PeerLost, MeshTicked, StopRequested, LaunchFailed, ProxyFailed, Wake, WakeOnTick
<1>8. CASE UNCHANGED vars
  BY <1>6, <1>8 DEF vars
<1>9. QED
  BY <1>1, <1>2, <1>3, <1>4, <1>5, <1>6, <1>7, <1>8 DEF Next, Loop

\* A server that runs is stopped only by a stop request, by losing the election or by
\* a worker that left: new readings, new peers and a new order never restart it.
THEOREM ServerKept == Spec => HealthyServerKept
<1>1. Init => CohortInv
  <2>1. Init => \A n \in Node : Fits(n)
    BY DEF Init, Fits
  <2>2. QED BY <2>1, LoopInit DEF CohortInv
<1>2. CohortInv /\ [Next]_vars =>
        [\A n \in Node : llama[n] = "up" /\ llama'[n] = "down" => Excused(n)]_vars
  BY KeptStep
<1>3. QED BY <1>1, <1>2, CohortStep, PTL DEF Spec, HealthyServerKept
=============================================================================
