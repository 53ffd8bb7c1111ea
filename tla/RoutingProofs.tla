---------------------------- MODULE RoutingProofs -----------------------------
(***************************************************************************)
(* Theorems about Routing: what the failure window counts, when the router   *)
(* demotes a host, and that a withdrawn host is behind a change the loop has *)
(* yet to look into.                                                         *)
(***************************************************************************)
EXTENDS Routing, TLAPS

USE RoutingAssumption

LEMMA CapRange == \A n \in 0..Threshold : Cap(n + 1) \in 0..Threshold /\ Cap(n + 1) <= n + 1
BY DEF Cap

LEMMA CapMonotone ==
  \A m, n \in 0..Threshold : m <= n => Cap(m + 1) <= Cap(n + 1)
BY DEF Cap

-----------------------------------------------------------------------------
(* Types *)

\* Every variable stays in its set, and only hosts have a measured path or a
\* tunnel port.
THEOREM TypeCorrect == Spec => []TypeOK
<1>1. Init => TypeOK
  <2> SUFFICES ASSUME Init PROVE TypeOK
    OBVIOUS
  <2>1. 0 \in 0..Threshold /\ 0 \in 0..MinMismatches
    OBVIOUS
  <2>2. failures \in [Peer -> 0..Threshold] /\ since \in [Peer -> 0..Threshold]
    BY <2>1 DEF Init
  <2>3. streak \in [Route -> 0..MinMismatches]
    BY <2>1 DEF Init
  <2>4. probe \in [st : {"rest", "reach", "judge", "strike", "lift"}, todo : SUBSET Route,
                   at : SUBSET Route, hit : SUBSET Route, any : BOOLEAN]
    BY DEF Init, Resting
  <2>5. request \in [Request -> [st : {"idle", "trying", "clearing", "telling", "evicting"},
                                 todo : SUBSET Entry, at : SUBSET Peer]]
    BY DEF Init, Idle
  <2>6. QED
    BY <2>2, <2>3, <2>4, <2>5 DEF Init, TypeOK
<1>2. TypeOK /\ [Next]_vars => TypeOK'
  <2> SUFFICES ASSUME TypeOK, [Next]_vars PROVE TypeOK'
    OBVIOUS
  <2> USE DEF TypeOK, mesh, verifier, table, Route, Entry, Idle, Resting
  <2>1. CASE UNCHANGED vars
    BY <2>1 DEF vars
  <2>2. ASSUME NEW p \in Peer, Announce(p) PROVE TypeOK'
    <3>1. /\ hosts' \in [Peer -> SUBSET Model]
          /\ \A q \in Peer \ {p} : hosts'[q] = hosts[q]
      BY <2>2 DEF Announce
    <3>2. path' \in SUBSET {q \in Peer : hosts'[q] # {}}
      BY <2>2 DEF Announce, Lacking
    <3>3. tunnel' \in SUBSET {q \in Peer : hosts'[q] # {}}
      BY <2>2 DEF Announce, Lacking
    <3>4. QED
      BY <2>2, <3>1, <3>2, <3>3 DEF Announce
  <2>3. ASSUME NEW p \in Peer, Measure(p) PROVE TypeOK'
    BY <2>3 DEF Measure
  <2>4. ASSUME NEW p \in Peer, Tunnel(p) PROVE TypeOK'
    BY <2>4 DEF Tunnel
  <2>5. ASSUME NEW p \in Peer, Forget(p) PROVE TypeOK'
    BY <2>5 DEF Forget
  <2>6. ASSUME NEW d \in Route, Lapse(d) PROVE TypeOK'
    BY <2>6 DEF Lapse
  <2>7. CASE Wake
    BY <2>7 DEF Wake
  <2>8. CASE Gather
    <3>1. loop' \in [st : {"wait", "park", "turn", "send"}, found : SUBSET Entry]
      BY <2>8 DEF Gather
    <3>2. QED
      BY <2>8, <3>1 DEF Gather
  <2>9. CASE Send
    BY <2>9 DEF Send
  <2>10. CASE TurnFails
    BY <2>10 DEF TurnFails
  <2>11. ASSUME NEW r \in Request, NEW m \in Model, Start(r, m) PROVE TypeOK'
    BY <2>11 DEF Start
  <2>12. ASSUME NEW r \in Request, NEW e \in Entry, Deliver(r, e) PROVE TypeOK'
    <3>1. e[1][1] \in Peer
      OBVIOUS
    <3>2. request' \in [Request -> [st : {"idle", "trying", "clearing", "telling", "evicting"},
                                    todo : SUBSET Entry, at : SUBSET Peer]]
      BY <2>12, <3>1 DEF Deliver
    <3>3. QED
      BY <2>12, <3>1, <3>2 DEF Deliver
  <2>13. ASSUME NEW r \in Request, Clear(r) PROVE TypeOK'
    BY <2>13 DEF Clear
  <2>14. ASSUME NEW r \in Request, NEW e \in Entry, Fail(r, e) PROVE TypeOK'
    <3> DEFINE p == e[1][1]
               n == Cap(failures[p] + 1)
    <3>1. p \in Peer /\ e[1] \in Route
      OBVIOUS
    <3>2. n \in 0..Threshold /\ Cap(since[p] + 1) \in 0..Threshold
      BY <3>1, CapRange
    <3>3. failures' \in [Peer -> 0..Threshold] /\ since' \in [Peer -> 0..Threshold]
      BY <2>14, <3>1, <3>2 DEF Fail
    <3>4. demoted' \in [Route -> {"no", "route", "probe", "verify"}]
      BY <2>14, <3>1 DEF Fail
    <3>5. request' \in [Request -> [st : {"idle", "trying", "clearing", "telling", "evicting"},
                                    todo : SUBSET Entry, at : SUBSET Peer]]
      BY <2>14, <3>1 DEF Fail, Onward
    <3>6. QED
      BY <2>14, <3>3, <3>4, <3>5 DEF Fail
  <2>15. ASSUME NEW r \in Request, Tell(r) PROVE TypeOK'
    <3>1. request' \in [Request -> [st : {"idle", "trying", "clearing", "telling", "evicting"},
                                    todo : SUBSET Entry, at : SUBSET Peer]]
      BY <2>15 DEF Tell, Told, Onward
    <3>2. QED
      BY <2>15, <3>1 DEF Tell
  <2>16. ASSUME NEW r \in Request, NEW e \in Entry, Overflow(r, e) PROVE TypeOK'
    BY <2>16 DEF Overflow, Onward
  <2>17. ASSUME NEW r \in Request, Disconnect(r) PROVE TypeOK'
    BY <2>17 DEF Disconnect
  <2>18. ASSUME NEW r \in Request, Evict(r) PROVE TypeOK'
    BY <2>18 DEF Evict, Onward
  <2>19. CASE Probe
    BY <2>19 DEF Probe
  <2>20. ASSUME NEW p \in Peer, Reach(p) PROVE TypeOK'
    <3> DEFINE own == {d \in probe.todo : d[1] = p}
    <3>1. own \in SUBSET Route /\ probe.todo \ own \in SUBSET Route
      OBVIOUS
    <3>2. PICK verdict \in {"judge", "lift"} :
            probe' = [probe EXCEPT !.st = verdict, !.todo = @ \ own, !.at = own]
      BY <2>20 DEF Reach
    <3>3. probe' \in [st : {"rest", "reach", "judge", "strike", "lift"}, todo : SUBSET Route,
                        at : SUBSET Route, hit : SUBSET Route, any : BOOLEAN]
      BY <3>1, <3>2
    <3>4. QED
      BY <2>20, <3>3 DEF Reach
  <2>21. CASE Judge
    <3>1. CASE probe.at = {}
      <4>1. probe' = [probe EXCEPT !.st = "reach"]
        BY <2>21, <3>1 DEF Judge
      <4>2. probe' \in [st : {"rest", "reach", "judge", "strike", "lift"}, todo : SUBSET Route,
                        at : SUBSET Route, hit : SUBSET Route, any : BOOLEAN]
        BY <4>1
      <4>3. QED
        BY <2>21, <4>1, <4>2 DEF Judge
    <3>2. CASE probe.at # {}
      <4>1. PICK d \in probe.at :
              probe' = IF Sole(d)
                       THEN [probe EXCEPT !.at = @ \ {d}]
                       ELSE [probe EXCEPT !.st = "strike", !.at = @ \ {d}, !.hit = {d}]
        BY <2>21, <3>2 DEF Judge
      <4>2. probe' \in [st : {"rest", "reach", "judge", "strike", "lift"}, todo : SUBSET Route,
                        at : SUBSET Route, hit : SUBSET Route, any : BOOLEAN]
        <5>1. d \in Route
          OBVIOUS
        <5>2. CASE Sole(d)
          BY <4>1, <5>1, <5>2
        <5>3. CASE ~Sole(d)
          BY <4>1, <5>1, <5>3
        <5>4. QED
          BY <5>2, <5>3
      <4>3. QED
        BY <2>21, <4>2 DEF Judge
    <3>3. QED
      BY <3>1, <3>2
  <2>22. CASE Strike
    BY <2>22 DEF Strike
  <2>23. CASE Lift
    <3>1. CASE probe.at = {}
      <4>1. probe' = [probe EXCEPT !.st = "reach"] /\ demoted' = demoted
        BY <2>23, <3>1 DEF Lift
      <4>2. probe' \in [st : {"rest", "reach", "judge", "strike", "lift"}, todo : SUBSET Route,
                        at : SUBSET Route, hit : SUBSET Route, any : BOOLEAN]
        BY <4>1
      <4>3. QED
        BY <2>23, <4>1, <4>2 DEF Lift
    <3>2. CASE probe.at # {}
      <4>1. PICK d \in probe.at : /\ probe' = [probe EXCEPT !.at = @ \ {d}]
                                 /\ demoted' = [demoted EXCEPT ![d] = "no"]
        BY <2>23, <3>2 DEF Lift
      <4>2. d \in Route
        OBVIOUS
      <4>3. probe' \in [st : {"rest", "reach", "judge", "strike", "lift"}, todo : SUBSET Route,
                        at : SUBSET Route, hit : SUBSET Route, any : BOOLEAN]
        BY <4>1, <4>2
      <4>4. demoted' \in [Route -> {"no", "route", "probe", "verify"}]
        BY <4>1, <4>2
      <4>5. QED
        BY <2>23, <4>3, <4>4 DEF Lift
    <3>3. QED
      BY <3>1, <3>2
  <2>24. CASE EndProbe
    BY <2>24 DEF EndProbe
  <2>25. ASSUME NEW d \in Route, Audit(d) PROVE TypeOK'
    BY <2>25 DEF Audit
  <2>26. CASE Inconclusive
    BY <2>26 DEF Inconclusive
  <2>27. ASSUME NEW d \in Route, Match(d) PROVE TypeOK'
    BY <2>27 DEF Match
  <2>28. ASSUME NEW d \in Route, Mismatch(d) PROVE TypeOK'
    BY <2>28 DEF Mismatch
  <2>29. QED
    BY <2>1, <2>2, <2>3, <2>4, <2>5, <2>6, <2>7, <2>8, <2>9, <2>10, <2>11, <2>12, <2>13, <2>14, <2>15, <2>16, <2>17, <2>18, <2>19, <2>20, <2>21, <2>22, <2>23, <2>24, <2>25, <2>26, <2>27, <2>28 DEF Next, Loop, Attempt, Probing, Verify
<1>3. QED
  BY <1>1, <1>2, PTL DEF Spec

-----------------------------------------------------------------------------
(* The failure window *)

\* Failures counted before a delivery are out of the window once it is booked.
THEOREM CountedSince == Spec => []CountedSinceDelivery
<1>1. Init => CountedSinceDelivery
  BY DEF Init, CountedSinceDelivery
<1>2. TypeOK /\ CountedSinceDelivery /\ [Next]_vars => CountedSinceDelivery'
  <2> SUFFICES ASSUME TypeOK, CountedSinceDelivery, [Next]_vars PROVE CountedSinceDelivery'
    OBVIOUS
  <2> USE DEF CountedSinceDelivery
  <2>1. CASE UNCHANGED vars
    BY <2>1 DEF vars, Clearing
  <2>2. ASSUME NEW p \in Peer, Announce(p) PROVE CountedSinceDelivery'
    BY <2>2 DEF Announce, Clearing
  <2>3. ASSUME NEW p \in Peer, Measure(p) PROVE CountedSinceDelivery'
    BY <2>3 DEF Measure, Clearing
  <2>4. ASSUME NEW p \in Peer, Tunnel(p) PROVE CountedSinceDelivery'
    BY <2>4 DEF Tunnel, Clearing
  <2>5. ASSUME NEW p \in Peer, Forget(p) PROVE CountedSinceDelivery'
    BY <2>5 DEF Forget, Clearing, TypeOK
  <2>6. ASSUME NEW d \in Route, Lapse(d) PROVE CountedSinceDelivery'
    BY <2>6 DEF Lapse, Clearing
  <2>7. CASE Wake
    BY <2>7 DEF Wake, Clearing
  <2>8. CASE Gather
    BY <2>8 DEF Gather, Clearing
  <2>9. CASE Send
    BY <2>9 DEF Send, Clearing
  <2>10. CASE TurnFails
    BY <2>10 DEF TurnFails, Clearing
  <2>11. ASSUME NEW r \in Request, NEW m \in Model, Start(r, m) PROVE CountedSinceDelivery'
    <3>1. \A q \in Peer : Clearing(q) => Clearing(q)'
      BY <2>11 DEF Start, Clearing, TypeOK
    <3>2. UNCHANGED <<failures, since>>
      BY <2>11 DEF Start
    <3>3. QED
      BY <3>1, <3>2 DEF TypeOK
  <2>12. ASSUME NEW r \in Request, NEW e \in Entry, Deliver(r, e) PROVE CountedSinceDelivery'
    <3>1. e[1][1] \in Peer
      BY DEF Entry, Route
    <3>2. Clearing(e[1][1])'
      BY <2>12 DEF Deliver, Clearing, TypeOK
    <3>3. \A q \in Peer : q # e[1][1] => since'[q] = since[q] /\ failures'[q] = failures[q]
      BY <2>12, <3>1 DEF Deliver, TypeOK
    <3>4. \A q \in Peer : Clearing(q) => Clearing(q)'
      BY <2>12 DEF Deliver, Clearing, TypeOK
    <3>5. QED
      BY <3>2, <3>3, <3>4
  <2>13. ASSUME NEW r \in Request, Clear(r) PROVE CountedSinceDelivery'
    <3>1. \A q \in request[r].at : q \in Peer => failures'[q] = 0 /\ since'[q] >= 0
      BY <2>13 DEF Clear, TypeOK
    <3>2. \A q \in Peer \ request[r].at : failures'[q] = failures[q] /\ since'[q] = since[q]
      BY <2>13 DEF Clear, TypeOK
    <3>3. \A q \in Peer \ request[r].at : Clearing(q) => Clearing(q)'
      BY <2>13 DEF Clear, Clearing, TypeOK
    <3>4. QED
      BY <3>1, <3>2, <3>3
  <2>14. ASSUME NEW r \in Request, NEW e \in Entry, Fail(r, e) PROVE CountedSinceDelivery'
    <3>1. e[1][1] \in Peer
      BY DEF Entry, Route
    <3>2. /\ failures' = [failures EXCEPT ![e[1][1]] = Cap(failures[e[1][1]] + 1)]
          /\ since' = [since EXCEPT ![e[1][1]] = Cap(since[e[1][1]] + 1)]
      BY <2>14 DEF Fail
    <3>3. failures[e[1][1]] <= since[e[1][1]] =>
            Cap(failures[e[1][1]] + 1) <= Cap(since[e[1][1]] + 1)
      BY <3>1, CapMonotone DEF TypeOK
    <3>4. \A q \in Peer : Clearing(q) => Clearing(q)'
      BY <2>14 DEF Fail, Clearing, TypeOK
    <3>5. QED
      BY <3>1, <3>2, <3>3, <3>4 DEF TypeOK
  <2>15. ASSUME NEW r \in Request, Tell(r) PROVE CountedSinceDelivery'
    <3>1. \A q \in Peer : Clearing(q) => Clearing(q)'
      BY <2>15 DEF Tell, Clearing, TypeOK
    <3>2. UNCHANGED <<failures, since>>
      BY <2>15 DEF Tell
    <3>3. QED
      BY <3>1, <3>2 DEF TypeOK
  <2>16. ASSUME NEW r \in Request, NEW e \in Entry, Overflow(r, e) PROVE CountedSinceDelivery'
    <3>1. \A q \in Peer : Clearing(q) => Clearing(q)'
      BY <2>16 DEF Overflow, Clearing, TypeOK
    <3>2. UNCHANGED <<failures, since>>
      BY <2>16 DEF Overflow
    <3>3. QED
      BY <3>1, <3>2 DEF TypeOK
  <2>17. ASSUME NEW r \in Request, Disconnect(r) PROVE CountedSinceDelivery'
    <3>1. \A q \in Peer : Clearing(q) => Clearing(q)'
      BY <2>17 DEF Disconnect, Clearing, TypeOK
    <3>2. UNCHANGED <<failures, since>>
      BY <2>17 DEF Disconnect
    <3>3. QED
      BY <3>1, <3>2 DEF TypeOK
  <2>18. ASSUME NEW r \in Request, Evict(r) PROVE CountedSinceDelivery'
    <3>1. \A q \in Peer : Clearing(q) => Clearing(q)'
      BY <2>18 DEF Evict, Clearing, TypeOK
    <3>2. UNCHANGED <<failures, since>>
      BY <2>18 DEF Evict
    <3>3. QED
      BY <3>1, <3>2 DEF TypeOK
  <2>19. CASE Probe
    BY <2>19 DEF Probe, Clearing
  <2>20. ASSUME NEW p \in Peer, Reach(p) PROVE CountedSinceDelivery'
    BY <2>20 DEF Reach, Clearing
  <2>21. CASE Judge
    BY <2>21 DEF Judge, Clearing
  <2>22. CASE Strike
    BY <2>22 DEF Strike, Clearing
  <2>23. CASE Lift
    BY <2>23 DEF Lift, Clearing
  <2>24. CASE EndProbe
    BY <2>24 DEF EndProbe, Clearing
  <2>25. ASSUME NEW d \in Route, Audit(d) PROVE CountedSinceDelivery'
    BY <2>25 DEF Audit, Clearing
  <2>26. CASE Inconclusive
    BY <2>26 DEF Inconclusive, Clearing
  <2>27. ASSUME NEW d \in Route, Match(d) PROVE CountedSinceDelivery'
    BY <2>27 DEF Match, Clearing
  <2>28. ASSUME NEW d \in Route, Mismatch(d) PROVE CountedSinceDelivery'
    BY <2>28 DEF Mismatch, Clearing
  <2>29. QED
    BY <2>1, <2>2, <2>3, <2>4, <2>5, <2>6, <2>7, <2>8, <2>9, <2>10, <2>11, <2>12, <2>13, <2>14, <2>15, <2>16, <2>17, <2>18, <2>19, <2>20, <2>21, <2>22, <2>23, <2>24, <2>25, <2>26, <2>27, <2>28 DEF Next, Loop, Attempt, Probing, Verify
<1>3. QED
  BY <1>1, <1>2, TypeCorrect, PTL DEF Spec

\* A demotion by the router takes Threshold failures of the host since its last
\* delivery, counted by any requests in any order, unless that delivery is about to
\* be booked.
THEOREM RouteEarned == Spec => RouteDemotionEarned
<1> DEFINE Earned == \A d \in Route : demoted[d] # "route" /\ demoted'[d] = "route"
                                       => since'[d[1]] = Threshold \/ Clearing(d[1])
<1>1. TypeOK /\ CountedSinceDelivery /\ [Next]_vars => [Earned]_vars
  <2> SUFFICES ASSUME TypeOK, CountedSinceDelivery, [Next]_vars PROVE [Earned]_vars
    OBVIOUS
  <2> USE DEF CountedSinceDelivery
  <2>1. CASE UNCHANGED vars
    BY <2>1 DEF vars
  <2>2. ASSUME NEW p \in Peer, Announce(p) PROVE [Earned]_vars
    BY <2>2 DEF Announce, TypeOK
  <2>3. ASSUME NEW p \in Peer, Measure(p) PROVE [Earned]_vars
    BY <2>3 DEF Measure, TypeOK
  <2>4. ASSUME NEW p \in Peer, Tunnel(p) PROVE [Earned]_vars
    BY <2>4 DEF Tunnel, TypeOK
  <2>5. ASSUME NEW p \in Peer, Forget(p) PROVE [Earned]_vars
    BY <2>5 DEF Forget, TypeOK
  <2>6. ASSUME NEW d \in Route, Lapse(d) PROVE [Earned]_vars
    BY <2>6 DEF Lapse, TypeOK
  <2>7. CASE Wake
    BY <2>7 DEF Wake, TypeOK
  <2>8. CASE Gather
    BY <2>8 DEF Gather, TypeOK
  <2>9. CASE Send
    BY <2>9 DEF Send, TypeOK
  <2>10. CASE TurnFails
    BY <2>10 DEF TurnFails, TypeOK
  <2>11. ASSUME NEW r \in Request, NEW m \in Model, Start(r, m) PROVE [Earned]_vars
    BY <2>11 DEF Start, TypeOK
  <2>12. ASSUME NEW r \in Request, NEW e \in Entry, Deliver(r, e) PROVE [Earned]_vars
    BY <2>12 DEF Deliver, TypeOK
  <2>13. ASSUME NEW r \in Request, Clear(r) PROVE [Earned]_vars
    BY <2>13 DEF Clear, TypeOK
  <2>14. ASSUME NEW r \in Request, NEW e \in Entry, Fail(r, e) PROVE [Earned]_vars
    <3>1. e[1] \in Route /\ e[1][1] \in Peer
      BY DEF Entry, Route
    <3>2. SUFFICES ASSUME NEW d \in Route, demoted[d] # "route", demoted'[d] = "route",
                          ~Clearing(d[1])
                   PROVE since'[d[1]] = Threshold
      OBVIOUS
    <3>3. d = e[1] /\ Cap(failures[e[1][1]] + 1) >= Threshold
      <4>1. IF Cap(failures[e[1][1]] + 1) < Threshold
            THEN demoted' = demoted
            ELSE demoted' = [demoted EXCEPT ![e[1]] = "route"]
        BY <2>14 DEF Fail
      <4>2. Cap(failures[e[1][1]] + 1) \in 0..Threshold
        BY <3>1, CapRange DEF TypeOK
      <4>3. demoted' # demoted
        BY <3>2
      <4>4. demoted' = [demoted EXCEPT ![e[1]] = "route"]
        BY <4>1, <4>3
      <4>5. QED
        BY <3>1, <3>2, <4>1, <4>2, <4>3, <4>4 DEF TypeOK
    <3>4. failures[e[1][1]] <= since[e[1][1]]
      BY <3>1, <3>2, <3>3
    <3>5. Cap(since[e[1][1]] + 1) = Threshold
      <4> DEFINE a == Cap(failures[e[1][1]] + 1)
                 b == Cap(since[e[1][1]] + 1)
      <4>1. a \in 0..Threshold /\ b \in 0..Threshold
        BY <3>1, CapRange DEF TypeOK
      <4>2. a >= Threshold
        BY <3>3
      <4>3. a <= b
        BY <3>1, <3>4, CapMonotone DEF TypeOK
      <4> HIDE DEF a, b
      <4>4. b = Threshold
        BY <4>1, <4>2, <4>3
      <4>5. QED
        BY <4>4 DEF b
    <3>6. since' = [since EXCEPT ![e[1][1]] = Cap(since[e[1][1]] + 1)]
      BY <2>14 DEF Fail
    <3>7. QED
      BY <3>1, <3>3, <3>5, <3>6 DEF TypeOK
  <2>15. ASSUME NEW r \in Request, Tell(r) PROVE [Earned]_vars
    BY <2>15 DEF Tell, TypeOK
  <2>16. ASSUME NEW r \in Request, NEW e \in Entry, Overflow(r, e) PROVE [Earned]_vars
    BY <2>16 DEF Overflow, TypeOK
  <2>17. ASSUME NEW r \in Request, Disconnect(r) PROVE [Earned]_vars
    BY <2>17 DEF Disconnect, TypeOK
  <2>18. ASSUME NEW r \in Request, Evict(r) PROVE [Earned]_vars
    BY <2>18 DEF Evict, TypeOK
  <2>19. CASE Probe
    BY <2>19 DEF Probe, TypeOK
  <2>20. ASSUME NEW p \in Peer, Reach(p) PROVE [Earned]_vars
    BY <2>20 DEF Reach, TypeOK
  <2>21. CASE Judge
    BY <2>21 DEF Judge, TypeOK
  <2>22. CASE Strike
    BY <2>22 DEF Strike, TypeOK
  <2>23. CASE Lift
    <3>1. \A d \in Route : demoted'[d] = "no" \/ demoted'[d] = demoted[d]
      BY <2>23 DEF Lift, TypeOK
    <3>2. QED
      BY <3>1
  <2>24. CASE EndProbe
    BY <2>24 DEF EndProbe, TypeOK
  <2>25. ASSUME NEW d \in Route, Audit(d) PROVE [Earned]_vars
    BY <2>25 DEF Audit, TypeOK
  <2>26. CASE Inconclusive
    BY <2>26 DEF Inconclusive, TypeOK
  <2>27. ASSUME NEW d \in Route, Match(d) PROVE [Earned]_vars
    BY <2>27 DEF Match, TypeOK
  <2>28. ASSUME NEW d \in Route, Mismatch(d) PROVE [Earned]_vars
    BY <2>28 DEF Mismatch, TypeOK
  <2>29. QED
    BY <2>1, <2>2, <2>3, <2>4, <2>5, <2>6, <2>7, <2>8, <2>9, <2>10, <2>11, <2>12, <2>13, <2>14, <2>15, <2>16, <2>17, <2>18, <2>19, <2>20, <2>21, <2>22, <2>23, <2>24, <2>25, <2>26, <2>27, <2>28 DEF Next, Loop, Attempt, Probing, Verify
<1>2. QED
  BY <1>1, TypeCorrect, CountedSince, PTL DEF Spec, RouteDemotionEarned

-----------------------------------------------------------------------------
(* The target table *)

\* What is in the table and withdrawn, gone or demoted by the router or the probe, is
\* behind a change the loop has not looked into, or one that is about to be sent.
THEOREM WithdrawnNoticed == Spec => []WithdrawnIsNoticed
<1>1. Init => WithdrawnIsNoticed
  BY DEF Init, WithdrawnIsNoticed, Upcoming
<1>2. TypeOK /\ WithdrawnIsNoticed /\ [Next]_vars => WithdrawnIsNoticed'
  <2> SUFFICES ASSUME TypeOK, WithdrawnIsNoticed, [Next]_vars PROVE WithdrawnIsNoticed'
    OBVIOUS
  <2> USE DEF WithdrawnIsNoticed, Upcoming, Pending
  <2>1. CASE UNCHANGED vars
    BY <2>1 DEF vars
  <2>2. ASSUME NEW p \in Peer, Announce(p) PROVE WithdrawnIsNoticed'
    BY <2>2 DEF Announce, TypeOK, Routable, mesh, table, Entry, Route
  <2>3. ASSUME NEW p \in Peer, Measure(p) PROVE WithdrawnIsNoticed'
    BY <2>3 DEF Measure, TypeOK, Routable, mesh, table, Entry, Route
  <2>4. ASSUME NEW p \in Peer, Tunnel(p) PROVE WithdrawnIsNoticed'
    BY <2>4 DEF Tunnel, TypeOK, Routable, mesh, table, Entry, Route
  <2>5. ASSUME NEW p \in Peer, Forget(p) PROVE WithdrawnIsNoticed'
    BY <2>5 DEF Forget, TypeOK, Routable, mesh, table, Entry, Route
  <2>6. ASSUME NEW d \in Route, Lapse(d) PROVE WithdrawnIsNoticed'
    BY <2>6 DEF Lapse, TypeOK, Routable, mesh, table, Entry, Route
  <2>7. CASE Wake
    BY <2>7 DEF Wake, TypeOK, Routable, mesh, table, Entry, Route
  <2>8. CASE Gather
    BY <2>8 DEF Gather, TypeOK, Routable, mesh, table, Entry, Route
  <2>9. CASE Send
    BY <2>9 DEF Send, TypeOK, Routable, mesh, table, Entry, Route
  <2>10. CASE TurnFails
    BY <2>10 DEF TurnFails, TypeOK, Routable, mesh, table, Entry, Route
  <2>11. ASSUME NEW r \in Request, NEW m \in Model, Start(r, m) PROVE WithdrawnIsNoticed'
    <3>1. UNCHANGED <<hosts, demoted, loop, targets, changed, unread, probe>>
      BY <2>11 DEF Start, mesh, table
    <3>2. \A q \in Request : request[q].st = "telling" => request'[q].st = "telling"
      BY <2>11 DEF Start, TypeOK
    <3>3. QED
      BY <3>1, <3>2
  <2>12. ASSUME NEW r \in Request, NEW e \in Entry, Deliver(r, e) PROVE WithdrawnIsNoticed'
    <3>1. UNCHANGED <<hosts, demoted, loop, targets, changed, unread, probe>>
      BY <2>12 DEF Deliver, mesh, table
    <3>2. \A q \in Request : request[q].st = "telling" => request'[q].st = "telling"
      BY <2>12 DEF Deliver, TypeOK
    <3>3. QED
      BY <3>1, <3>2
  <2>13. ASSUME NEW r \in Request, Clear(r) PROVE WithdrawnIsNoticed'
    <3>1. UNCHANGED <<hosts, demoted, loop, targets, changed, unread, probe>>
      BY <2>13 DEF Clear, mesh, table
    <3>2. \A q \in Request : request[q].st = "telling" => request'[q].st = "telling"
      BY <2>13 DEF Clear, TypeOK
    <3>3. QED
      BY <3>1, <3>2
  <2>14. ASSUME NEW r \in Request, NEW e \in Entry, Fail(r, e) PROVE WithdrawnIsNoticed'
    <3>1. UNCHANGED <<hosts, loop, targets, changed, unread, probe>>
      BY <2>14 DEF Fail, mesh, table
    <3>2. \A q \in Request : request[q].st = "telling" => request'[q].st = "telling"
      BY <2>14 DEF Fail, TypeOK
    <3>3. \/ demoted' = demoted
          \/ /\ demoted' = [demoted EXCEPT ![e[1]] = "route"]
             /\ request'[r].st = "telling"
      BY <2>14 DEF Fail, TypeOK
    <3>4. \A x \in Upcoming : x[1] \in Route
      BY DEF TypeOK, Entry
    <3>5. QED
      BY <3>1, <3>2, <3>3, <3>4 DEF TypeOK
  <2>15. ASSUME NEW r \in Request, Tell(r) PROVE WithdrawnIsNoticed'
    <3>1. /\ changed' = TRUE
          /\ UNCHANGED <<demoted, loop, targets, probe>>
      BY <2>15 DEF Tell, table
    <3>2. QED
      BY <3>1
  <2>16. ASSUME NEW r \in Request, NEW e \in Entry, Overflow(r, e) PROVE WithdrawnIsNoticed'
    <3>1. UNCHANGED <<hosts, demoted, loop, targets, changed, unread, probe>>
      BY <2>16 DEF Overflow, mesh, table
    <3>2. \A q \in Request : request[q].st = "telling" => request'[q].st = "telling"
      BY <2>16 DEF Overflow, TypeOK
    <3>3. QED
      BY <3>1, <3>2
  <2>17. ASSUME NEW r \in Request, Disconnect(r) PROVE WithdrawnIsNoticed'
    <3>1. UNCHANGED <<hosts, demoted, loop, targets, changed, unread, probe>>
      BY <2>17 DEF Disconnect, mesh, table
    <3>2. \A q \in Request : request[q].st = "telling" => request'[q].st = "telling"
      BY <2>17 DEF Disconnect, TypeOK
    <3>3. QED
      BY <3>1, <3>2
  <2>18. ASSUME NEW r \in Request, Evict(r) PROVE WithdrawnIsNoticed'
    <3>1. /\ changed' = TRUE
          /\ UNCHANGED <<demoted, loop, targets, probe>>
      BY <2>18 DEF Evict, table
    <3>2. QED
      BY <3>1
  <2>19. CASE Probe
    BY <2>19 DEF Probe, TypeOK, Routable, mesh, table, Entry, Route
  <2>20. ASSUME NEW p \in Peer, Reach(p) PROVE WithdrawnIsNoticed'
    <3>1. /\ probe'.any = probe.any /\ probe'.st # "rest" /\ probe.st # "rest"
          /\ UNCHANGED <<hosts, demoted, changed, unread, request, loop, targets>>
      BY <2>20 DEF Reach, TypeOK, mesh, table
    <3>2. QED
      BY <3>1
  <2>21. CASE Judge
    BY <2>21 DEF Judge, TypeOK, Routable, mesh, table, Entry, Route
  <2>22. CASE Strike
    BY <2>22 DEF Strike, TypeOK, Routable, mesh, table, Entry, Route
  <2>23. CASE Lift
    <3>1. /\ probe'.any = probe.any /\ probe'.st # "rest" /\ probe.st # "rest"
          /\ UNCHANGED <<hosts, changed, unread, request, loop, targets>>
      BY <2>23 DEF Lift, TypeOK, mesh, table
    <3>2. \A d \in Route : demoted'[d] = "no" \/ demoted'[d] = demoted[d]
      BY <2>23 DEF Lift, TypeOK
    <3>3. \A x \in Upcoming : x[1] \in Route
      BY DEF TypeOK, Entry
    <3>4. QED
      BY <3>1, <3>2, <3>3
  <2>24. CASE EndProbe
    BY <2>24 DEF EndProbe, TypeOK, Routable, mesh, table, Entry, Route
  <2>25. ASSUME NEW d \in Route, Audit(d) PROVE WithdrawnIsNoticed'
    BY <2>25 DEF Audit, TypeOK, Routable, mesh, table, Entry, Route
  <2>26. CASE Inconclusive
    BY <2>26 DEF Inconclusive, TypeOK, Routable, mesh, table, Entry, Route
  <2>27. ASSUME NEW d \in Route, Match(d) PROVE WithdrawnIsNoticed'
    BY <2>27 DEF Match, TypeOK, Routable, mesh, table, Entry, Route
  <2>28. ASSUME NEW d \in Route, Mismatch(d) PROVE WithdrawnIsNoticed'
    BY <2>28 DEF Mismatch, TypeOK, Routable, mesh, table, Entry, Route
  <2>29. QED
    BY <2>1, <2>2, <2>3, <2>4, <2>5, <2>6, <2>7, <2>8, <2>9, <2>10, <2>11, <2>12, <2>13, <2>14, <2>15, <2>16, <2>17, <2>18, <2>19, <2>20, <2>21, <2>22, <2>23, <2>24, <2>25, <2>26, <2>27, <2>28 DEF Next, Loop, Attempt, Probing, Verify
<1>3. QED
  BY <1>1, <1>2, TypeCorrect, PTL DEF Spec
=============================================================================
