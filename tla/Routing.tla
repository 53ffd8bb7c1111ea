-------------------------------- MODULE Routing --------------------------------
(***************************************************************************)
(* How one node routes chat requests to the hosts of its mesh, and what it  *)
(* does about hosts that fail: the failure window, eviction and demotion of *)
(* mesh/mod.rs, route_model_request, the probe of undialable hosts, the     *)
(* verifier's enforcement, and the target table an election loop rebuilds.  *)
(*                                                                         *)
(* A peer counts here while its entry is a Host with models; its path is    *)
(* the measured rtt_ms.  Failures leave their window, and demotions lapse,  *)
(* at any time.  Requests this node serves itself, the capability filters   *)
(* and the order in which a request tries its targets are left open.  Each  *)
(* lock section is a step: a request or the probe keeps what it still has   *)
(* to do with its earlier findings in its state.                            *)
(***************************************************************************)
EXTENDS Integers, FiniteSets

CONSTANTS
  Peer, Model,
  Request,        \* requests routed at the same time
  Elected,        \* the hosts this node may be a split worker of
  Pathless,       \* bound: the peers that may be listed without a measured path
  Untunneled,     \* bound: the peers that may be listed without a tunnel port
  Shaky,          \* bound: the hosts that fail requests
  Auditable,      \* <<peer, model>> pairs with a reference to verify against
  Threshold,      \* TARGET_FAILURE_EVICT_THRESHOLD
  MinMismatches   \* VerifierConfig::min_consecutive_mismatches

Route == Peer \X Model

ASSUME RoutingAssumption ==
  /\ Elected \subseteq Peer
  /\ Pathless \subseteq Peer
  /\ Untunneled \subseteq Peer
  /\ Shaky \subseteq Peer
  /\ Auditable \subseteq Route
  /\ Threshold \in Nat \ {0}
  /\ MinMismatches \in Nat \ {0}

VARIABLES
  hosts,     \* [Peer -> the models its entry hosts; none without an entry]
  path,      \* the hosts with a measured path
  tunnel,    \* the hosts with a tunnel port
  failures,  \* [Peer -> target_failures in the window, up to Threshold]
  demoted,   \* [Route -> who wrote its entry of verifier_demotions, or "no"]
  streak,    \* [Route -> consecutive mismatches, up to MinMismatches]
  audit,     \* the route under audit, if any
  changed,   \* peer_change_rx has a change the loop has not seen
  loop,      \* the election loop: where it is, and the targets it has gathered
  unread,    \* the loop has taken a change and not looked at the peers since
  targets,   \* ModelTargets: each route once, an elected host once more
  request,   \* [Request -> its progress]
  probe,     \* probe_undialable_http_hosts
  since      \* history: [Peer -> failures since the last delivery, up to Threshold]

vars == <<hosts, path, tunnel, failures, demoted, streak, audit, changed, loop, unread,
          targets, request, probe, since>>
mesh == <<hosts, path, tunnel>>
verifier == <<streak, audit>>
table == <<loop, unread, targets>>

Entry == Route \X {1, 2}
Idle == [st |-> "idle", todo |-> {}, at |-> {}]
Resting == [st |-> "rest", todo |-> {}, at |-> {}, hit |-> {}, any |-> FALSE]

TypeOK ==
  /\ hosts \in [Peer -> SUBSET Model]
  /\ path \in SUBSET {p \in Peer : hosts[p] # {}}
  /\ tunnel \in SUBSET {p \in Peer : hosts[p] # {}}
  /\ failures \in [Peer -> 0..Threshold]
  /\ demoted \in [Route -> {"no", "route", "probe", "verify"}]
  /\ streak \in [Route -> 0..MinMismatches]
  /\ audit \in SUBSET Route
  /\ changed \in BOOLEAN
  /\ loop \in [st : {"wait", "park", "turn", "send"}, found : SUBSET Entry]
  /\ unread \in BOOLEAN
  /\ targets \in SUBSET Entry
  /\ request \in [Request -> [st : {"idle", "trying", "clearing", "telling", "evicting"},
                              todo : SUBSET Entry, at : SUBSET Peer]]
  /\ probe \in [st : {"rest", "reach", "judge", "strike", "lift"}, todo : SUBSET Route,
                at : SUBSET Route, hit : SUBSET Route, any : BOOLEAN]
  /\ since \in [Peer -> 0..Threshold]

Init ==
  /\ hosts = [p \in Peer |-> {}]
  /\ path = {}
  /\ tunnel = {}
  /\ failures = [p \in Peer |-> 0]
  /\ demoted = [d \in Route |-> "no"]
  /\ streak = [d \in Route |-> 0]
  /\ audit = {}
  /\ changed = FALSE
  /\ loop = [st |-> "turn", found |-> {}]
  /\ unread = FALSE
  /\ targets = {}
  /\ request = [r \in Request |-> Idle]
  /\ probe = Resting
  /\ since = [p \in Peer |-> 0]

-----------------------------------------------------------------------------
(* What the node hears of its peers, and time *)

\* What a new host's entry may lack, but for those in the bound.
Lacking(p, set, Bound) == {set \cup {p}} \cup (IF p \in Bound THEN {set} ELSE {})

\* add_peer ticks when a peer starts to host or changes its models; measuring
\* its path and giving it a tunnel port do not.
Announce(p) ==
  /\ \E ms \in SUBSET Model \ {hosts[p]} :
       /\ hosts' = [hosts EXCEPT ![p] = ms]
       /\ path' \in IF ms = {} THEN {path \ {p}}
                    ELSE IF hosts[p] # {} THEN {path} ELSE Lacking(p, path, Pathless)
       /\ tunnel' \in IF ms = {} THEN {tunnel \ {p}}
                      ELSE IF hosts[p] # {} THEN {tunnel} ELSE Lacking(p, tunnel, Untunneled)
  /\ changed' = TRUE
  /\ UNCHANGED <<failures, demoted, verifier, table, request, probe, since>>

Measure(p) ==
  /\ hosts[p] # {}
  /\ p \notin path
  /\ path' = path \cup {p}
  /\ UNCHANGED <<hosts, tunnel, failures, demoted, verifier, changed, table, request,
                 probe, since>>

\* watch_peers, which may be behind the list of peers.
Tunnel(p) ==
  /\ hosts[p] # {}
  /\ p \notin tunnel
  /\ tunnel' = tunnel \cup {p}
  /\ UNCHANGED <<hosts, path, failures, demoted, verifier, changed, table, request,
                 probe, since>>

\* The oldest failure is out of the window when the next one is counted.
Forget(p) ==
  /\ failures[p] > 0
  /\ failures' = [failures EXCEPT ![p] = @ - 1]
  /\ UNCHANGED <<mesh, demoted, verifier, changed, table, request, probe, since>>

Lapse(d) ==
  /\ demoted[d] # "no"
  /\ demoted' = [demoted EXCEPT ![d] = "no"]
  /\ UNCHANGED <<mesh, failures, verifier, changed, table, request, probe, since>>

-----------------------------------------------------------------------------
(* The target table and the turns of the election loop that rebuild it *)

Routable(d) == d[2] \in hosts[d[1]] /\ d[1] \in path /\ demoted[d] = "no"

\* A wait ends with a change, which is then seen, or with its timer; parked, the
\* loop has no timer.
Wake ==
  /\ \/ loop.st \in {"wait", "park"} /\ changed /\ changed' = FALSE /\ unread' = TRUE
     \/ loop.st = "wait" /\ UNCHANGED <<changed, unread>>
  /\ loop' = [loop EXCEPT !.st = "turn"]
  /\ UNCHANGED <<mesh, failures, demoted, verifier, targets, request, probe, since>>

\* update_targets reads the peers, then the demotions.  A split worker lists the
\* host it works for first and, as one of the peers, once more.
Gather ==
  /\ loop.st = "turn"
  /\ \E E \in SUBSET Elected : \E m \in Model :
       /\ Cardinality(E) <= 1
       /\ loop' = [st |-> "send",
                   found |-> {e \in Entry :
                     /\ demoted[e[1]] = "no"
                     /\ IF e[2] = 1 THEN Routable(e[1])
                                    ELSE e[1][1] \in E /\ e[1][2] = m}]
  /\ unread' = FALSE
  /\ UNCHANGED <<mesh, failures, demoted, verifier, changed, targets, request, probe,
                 since>>

\* Mutant of Send: a change since the gathering counts as seen.
SendUnseen ==
  /\ loop.st = "send"
  /\ targets' = loop.found
  /\ \E wait \in {"wait", "park"} : loop' = [st |-> wait, found |-> {}]
  /\ changed' = FALSE
  /\ UNCHANGED <<mesh, failures, demoted, verifier, unread, request, probe, since>>

\* update_targets publishes, and the turn ends in a wait with or without a timer.
\* A second update in the same turn is as one of the next turn.
Send ==
  /\ loop.st = "send"
  /\ targets' = loop.found
  /\ \E wait \in {"wait", "park"} : loop' = [st |-> wait, found |-> {}]
  /\ UNCHANGED <<mesh, failures, demoted, verifier, changed, unread, request, probe,
                 since>>

\* A turn whose launch fails waits without update_targets: with a timer when the
\* server did not start, without one when its proxy did not.
TurnFails ==
  /\ loop.st = "turn"
  /\ \E wait \in {"wait", "park"} : loop' = [loop EXCEPT !.st = wait]
  /\ UNCHANGED <<mesh, failures, demoted, verifier, changed, unread, targets, request,
                 probe, since>>

-----------------------------------------------------------------------------
(* A request: route_model_request *)

\* With no target it is answered at once.
Start(r, m) ==
  /\ request[r].st = "idle"
  /\ \E e \in targets : e[1][2] = m
  /\ request' = [request EXCEPT ![r] =
       [st |-> "trying", todo |-> {e \in targets : e[1][2] = m}, at |-> {}]]
  /\ UNCHANGED <<mesh, failures, demoted, verifier, changed, table, probe, since>>

\* The request goes on to its next target, or is answered that all have failed.
Onward(left) ==
  IF left = {} THEN Idle ELSE [st |-> "trying", todo |-> left, at |-> {}]

\* The answer has been relayed; the failure window is cleared under the lock, later.
Deliver(r, e) ==
  /\ request[r].st = "trying" /\ e \in request[r].todo
  /\ request' = [request EXCEPT ![r] = [st |-> "clearing", todo |-> {}, at |-> {e[1][1]}]]
  /\ since' = [since EXCEPT ![e[1][1]] = 0]
  /\ UNCHANGED <<mesh, failures, demoted, verifier, changed, table, probe>>

\* Mutant of Clear: the window is left as it was.
ClearNothing(r) ==
  /\ request[r].st = "clearing"
  /\ request' = [request EXCEPT ![r] = Idle]
  /\ UNCHANGED <<mesh, failures, demoted, verifier, changed, table, probe, since>>

\* clear_target_failures: failures of other requests since the delivery go as well.
Clear(r) ==
  /\ request[r].st = "clearing"
  /\ failures' = [p \in Peer |-> IF p \in request[r].at THEN 0 ELSE failures[p]]
  /\ request' = [request EXCEPT ![r] = Idle]
  /\ UNCHANGED <<mesh, demoted, verifier, changed, table, probe, since>>

Cap(n) == IF n > Threshold THEN Threshold ELSE n

\* any_other: somebody else lists the model and has a tunnel port, with a path or
\* not, demoted or not.
Replaced(d) == \E p \in tunnel \ {d[1]} : d[2] \in hosts[p]

\* record_target_failure, under the state's lock.  That the election is told, and
\* that the host may be evicted, comes later.
Fail(r, e) ==
  LET d == e[1]
      p == d[1]
      n == Cap(failures[p] + 1)
      left == request[r].todo \ {e}
  IN  /\ request[r].st = "trying" /\ e \in request[r].todo
      /\ p \in Shaky
      /\ failures' = [failures EXCEPT ![p] = n]
      /\ since' = [since EXCEPT ![p] = Cap(@ + 1)]
      /\ IF n < Threshold
         THEN /\ request' = [request EXCEPT ![r] = Onward(left)]
              /\ UNCHANGED demoted
         ELSE /\ demoted' = [demoted EXCEPT ![d] = "route"]
              /\ request' = [request EXCEPT ![r] =
                   [st |-> "telling", todo |-> left,
                    at |-> IF Replaced(d) THEN {p} ELSE {}]]
      /\ UNCHANGED <<mesh, verifier, changed, table, probe>>

\* What a request does once the election knows of its demotion.
Told(r) ==
  IF request[r].at = {} THEN Onward(request[r].todo)
  ELSE [request[r] EXCEPT !.st = "evicting"]

\* Mutant of Tell: the election is not woken when the host is spared the eviction.
TellEvictedOnly(r) ==
  /\ request[r].st = "telling"
  /\ changed' = (changed \/ request[r].at # {})
  /\ request' = [request EXCEPT ![r] = Told(r)]
  /\ UNCHANGED <<mesh, failures, demoted, verifier, table, probe, since>>

\* The rest of record_target_failure: the lock is taken again for the tick.
Tell(r) ==
  /\ request[r].st = "telling"
  /\ changed' = TRUE
  /\ request' = [request EXCEPT ![r] = Told(r)]
  /\ UNCHANGED <<mesh, failures, demoted, verifier, table, probe, since>>

\* The context does not fit the target: no failure of the host.
Overflow(r, e) ==
  /\ request[r].st = "trying" /\ e \in request[r].todo
  /\ request[r].todo # {e}
  /\ request' = [request EXCEPT ![r] = Onward(@.todo \ {e})]
  /\ UNCHANGED <<mesh, failures, demoted, verifier, changed, table, probe, since>>

Disconnect(r) ==
  /\ request[r].st = "trying"
  /\ request' = [request EXCEPT ![r] = Idle]
  /\ UNCHANGED <<mesh, failures, demoted, verifier, changed, table, probe, since>>

\* Mutant of Evict: the round-trip time outlives the entry.
EvictKeepingPath(r) ==
  /\ request[r].st = "evicting"
  /\ hosts' = [p \in Peer |-> IF p \in request[r].at THEN {} ELSE hosts[p]]
  /\ tunnel' = tunnel \ request[r].at
  /\ changed' = TRUE
  /\ request' = [request EXCEPT ![r] = Onward(@.todo)]
  /\ UNCHANGED <<path, failures, demoted, verifier, table, probe, since>>

\* handle_peer_death: the entry goes; its failures and demotions stay.
Evict(r) ==
  /\ request[r].st = "evicting"
  /\ hosts' = [p \in Peer |-> IF p \in request[r].at THEN {} ELSE hosts[p]]
  /\ path' = path \ request[r].at
  /\ tunnel' = tunnel \ request[r].at
  /\ changed' = TRUE
  /\ request' = [request EXCEPT ![r] = Onward(@.todo)]
  /\ UNCHANGED <<failures, demoted, verifier, table, probe, since>>

-----------------------------------------------------------------------------
(* The probe of hosts without a path, once in every heartbeat round *)

Probe ==
  /\ probe.st = "rest"
  /\ \E p \in Peer : hosts[p] # {} /\ p \notin path
  /\ probe' = [Resting EXCEPT !.st = "reach",
               !.todo = {d \in Route : d[2] \in hosts[d[1]] /\ d[1] \notin path}]
  /\ UNCHANGED <<mesh, failures, demoted, verifier, changed, table, request, since>>

\* Host p is dialed, unless connected, and gossiped with.  A failed dial is held
\* against its models whatever its path is by now; else the path is looked at again.
Reach(p) ==
  LET own == {d \in probe.todo : d[1] = p}
  IN  /\ probe.st = "reach" /\ own # {}
      /\ \E verdict \in {"judge"} \cup (IF p \in path THEN {"lift"} ELSE {}) :
           probe' = [probe EXCEPT !.st = verdict, !.todo = @ \ own, !.at = own]
      /\ UNCHANGED <<mesh, failures, demoted, verifier, changed, table, request, since>>

\* is_sole_http_host_for_model asks for no tunnel port.
Sole(d) == \A p \in Peer \ {d[1]} : d[2] \notin hosts[p]

\* The only host of a model is spared.  The demotion takes the lock again.
Judge ==
  /\ probe.st = "judge"
  /\ IF probe.at = {}
     THEN probe' = [probe EXCEPT !.st = "reach"]
     ELSE \E d \in probe.at :
            probe' = IF Sole(d)
                     THEN [probe EXCEPT !.at = @ \ {d}]
                     ELSE [probe EXCEPT !.st = "strike", !.at = @ \ {d}, !.hit = {d}]
  /\ UNCHANGED <<mesh, failures, demoted, verifier, changed, table, request, since>>

Strike ==
  /\ probe.st = "strike"
  /\ demoted' = [d \in Route |-> IF d \in probe.hit THEN "probe" ELSE demoted[d]]
  /\ probe' = [probe EXCEPT !.st = "judge", !.hit = {}, !.any = TRUE]
  /\ UNCHANGED <<mesh, failures, verifier, changed, table, request, since>>

\* The demotions of a host with a path go one by one, whoever made them.
Lift ==
  /\ probe.st = "lift"
  /\ IF probe.at = {}
     THEN /\ probe' = [probe EXCEPT !.st = "reach"]
          /\ UNCHANGED demoted
     ELSE \E d \in probe.at :
            /\ probe' = [probe EXCEPT !.at = @ \ {d}]
            /\ demoted' = [demoted EXCEPT ![d] = "no"]
  /\ UNCHANGED <<mesh, failures, verifier, changed, table, request, since>>

\* Mutant of EndProbe: the election is not woken.
EndProbeUnnoticed ==
  /\ probe.st = "reach" /\ probe.todo = {}
  /\ probe' = Resting
  /\ UNCHANGED <<mesh, failures, demoted, verifier, changed, table, request, since>>

EndProbe ==
  /\ probe.st = "reach" /\ probe.todo = {}
  /\ changed' = (changed \/ probe.any)
  /\ probe' = Resting
  /\ UNCHANGED <<mesh, failures, demoted, verifier, table, request, since>>

-----------------------------------------------------------------------------
(* The verifier, with enforcement on: run_one_audit, apply_enforcement *)

Audit(d) ==
  /\ audit = {}
  /\ d \in Auditable /\ d[2] \in hosts[d[1]]
  /\ audit' = {d}
  /\ UNCHANGED <<mesh, failures, demoted, streak, changed, table, request, probe, since>>

Inconclusive ==
  /\ audit # {}
  /\ audit' = {}
  /\ UNCHANGED <<mesh, failures, demoted, streak, changed, table, request, probe, since>>

Match(d) ==
  /\ audit = {d}
  /\ audit' = {}
  /\ streak' = [streak EXCEPT ![d] = 0]
  /\ demoted' = [demoted EXCEPT ![d] = "no"]
  /\ UNCHANGED <<mesh, failures, changed, table, request, probe, since>>

Mismatch(d) ==
  LET n == IF streak[d] < MinMismatches THEN streak[d] + 1 ELSE MinMismatches
  IN  /\ audit = {d}
      /\ audit' = {}
      /\ streak' = [streak EXCEPT ![d] = n]
      /\ demoted' = [demoted EXCEPT ![d] = IF n = MinMismatches THEN "verify" ELSE @]
      /\ UNCHANGED <<mesh, failures, changed, table, request, probe, since>>

-----------------------------------------------------------------------------

Loop == Wake \/ Gather \/ Send \/ TurnFails

Attempt(r) ==
  \/ \E e \in Entry : Deliver(r, e) \/ Fail(r, e) \/ Overflow(r, e)
  \/ Disconnect(r)
  \/ Clear(r)
  \/ Tell(r)
  \/ Evict(r)

Probing == (\E p \in Peer : Reach(p)) \/ Judge \/ Strike \/ Lift \/ EndProbe

Verify ==
  \/ Inconclusive
  \/ \E d \in Route : Audit(d) \/ Match(d) \/ Mismatch(d)

Next ==
  \/ \E p \in Peer : Announce(p) \/ Measure(p) \/ Tunnel(p) \/ Forget(p)
  \/ \E d \in Route : Lapse(d)
  \/ Loop
  \/ \E r \in Request : Attempt(r) \/ \E m \in Model : Start(r, m)
  \/ Probe \/ Probing
  \/ Verify

\* The loop's waits end when there is a change or, unless it is parked, after half
\* of HOST_CLAIM_GRACE; every attempt, dial and gossip has a timeout.
Fairness ==
  /\ WF_vars(Loop)
  /\ WF_vars(Probing)
  /\ \A r \in Request : WF_vars(Attempt(r))

Spec == Init /\ [][Next]_vars /\ Fairness

-----------------------------------------------------------------------------
(* Properties *)

Clearing(p) == \E r \in Request : request[r].st = "clearing" /\ p \in request[r].at

\* The window counts failures since the host's last delivery only, once the delivery
\* is booked.
CountedSinceDelivery == \A p \in Peer : failures[p] <= since[p] \/ Clearing(p)

\* The router demotes a host only after Threshold failures, of any requests, since
\* its last delivery to any request, but for a delivery about to be booked.
RouteDemotionEarned ==
  [][\A d \in Route : demoted[d] # "route" /\ demoted'[d] = "route"
                       => since'[d[1]] = Threshold \/ Clearing(d[1])]_vars

\* What the table is, or will be once the loop has sent what it gathered.
Upcoming == IF loop.st = "send" THEN loop.found ELSE targets

\* The loop has a change it has not looked into: unseen, or taken in this turn or
\* in one whose launch failed.
Pending == changed \/ unread

\* A host in the target table that is gone, or that the router or the probe has
\* demoted, is behind a change the loop has not looked into, or the request or the
\* probe that demoted it is about to send one.
WithdrawnIsNoticed ==
  \A e \in Upcoming :
    /\ e[2] = 1 => e[1][2] \in hosts[e[1][1]] \/ Pending
    /\ demoted[e[1]] = "route" => Pending \/ \E r \in Request : request[r].st = "telling"
    /\ demoted[e[1]] = "probe" => Pending \/ (probe.st # "rest" /\ probe.any)

\* Violated: a demotion by the router takes the host out of the table or lapses.
WithdrawnLeaves ==
  \A d \in Route :
    (demoted[d] = "route" /\ <<d, 1>> \in targets)
      ~> (demoted[d] # "route" \/ <<d, 1>> \notin targets)

\* Violated: a recovered path returns within minutes, parked or not.
RecoveryReturns == \A d \in Route : <>[]Routable(d) => <>[](<<d, 1>> \in targets)

\* Violated: a conviction stands until it lapses or the host matches.
ConvictionStands ==
  [][\A d \in Route : demoted[d] = "verify" /\ demoted'[d] # "verify"
                       => Lapse(d) \/ Match(d)]_vars

\* Violated: evicting a failing host does not leave a model it hosts unhosted.
EvictionLeavesAHost ==
  [][\A r \in Request, m \in Model :
       Evict(r) /\ (\E p \in Peer : m \in hosts[p]) => \E p \in Peer : m \in hosts'[p]]_vars

\* Violated: the probe does not demote the only host of a model left.
ProbeSparesAHost ==
  [][\A d \in Route : demoted[d] # "probe" /\ demoted'[d] = "probe"
       => \E p \in Peer : d[2] \in hosts[p] /\ demoted'[<<p, d[2]>>] = "no"]_vars
=============================================================================
