------------------------------- MODULE Election -------------------------------
(***************************************************************************)
(* The election loops of the nodes that serve one model together            *)
(* (election_loop in inference/election.rs), each acting on what gossip has *)
(* told it.                                                                *)
(*                                                                         *)
(* One turn of a loop looks at the peers, then starts or drops the          *)
(* on-demand rpc-server, keeps, stops or starts a llama-server, and waits.  *)
(* Gossip delivers the other nodes' announcements in any order and wakes a  *)
(* loop only for the changes peer_change_tx is ticked for.  Every node      *)
(* requested the model, so it stays assigned to it whether it serves or not.*)
(* How many failures arm the backoff is left open.  The rpc-server is        *)
(* LazyRpc's; here it is whether a loop holds it and whether it is up.       *)
(***************************************************************************)
EXTENDS HostElection

CONSTANTS
  Links,         \* [Node -> [Node -> SUBSET Rtt]]: what measuring the path may give
  Broken,        \* nodes whose llama-server never becomes healthy
  WantDuplicate, \* a second host is wanted (two clients, ten requests, a benchmark)
  Patient,       \* bound: the nodes for which HOST_CLAIM_GRACE never runs out
  Faulty,        \* bound: the nodes that faults strike, and where launches may fail
  MaxFaults      \* bound: peers lost, llama-servers dying, loops told to stop

ASSUME LoopAssumption ==
  /\ Links \in [Node -> [Node -> SUBSET Rtt]]
  /\ Broken \subseteq Node /\ Patient \subseteq Node
  /\ WantDuplicate \in BOOLEAN
  /\ Faulty \subseteq Node
  /\ MaxFaults \in Nat

VARIABLES
  known,     \* [Node -> peers listed]
  view,      \* [Node -> [Node -> Peer]], as last heard, measured and observed
  ticked,    \* [Node -> peer_change_rx has a change not yet seen]
  role,      \* [Node -> the node's role]
  serving,   \* [Node -> serving_models lists the model]
  hosted,    \* [Node -> hosted_models lists the model]
  held,      \* [Node -> worker_rpc_hold is held]
  ready,     \* [Node -> the rpc-server is up, and gossiped as ready]
  pc,        \* [Node -> where the loop is]
  plan,      \* [Node -> desired_launch, while a launch may follow]
  hosting,   \* [Node -> currently_host]
  llama,     \* [Node -> "down", "up" or "dead"]
  running,   \* [Node -> last_running_plan]
  backoff,   \* [Node -> the backoff is active]
  young,     \* [Node -> the discovery grace lasts]
  stopping,  \* nodes whose loop has been told to stop
  faults     \* number of faults so far

vars == <<known, view, ticked, role, serving, hosted, held, ready, pc, plan, hosting,
          llama, running, backoff, young, stopping, faults>>
mesh == <<known, view, ticked>>
self == <<role, serving, hosted, held, ready>>
server == <<hosting, llama, running>>
pace == <<backoff, young>>

None == [kind |-> "none", workers |-> {}]
Plan == [kind : {"none", "solo", "split", "waiting"}, workers : SUBSET Node]

\* steady, idle: the two waits of a turn; parked: waiting for capacity;
\* failed: after a failed launch; proxyless: the local proxy did not start.
Place == {"decide", "spawn", "launch", "steady", "idle", "parked", "failed",
          "proxyless", "stopped"}

Others(n) == Node \ {n}
Splits(n) == Bytes[n] = 0 \/ ~CanSolo(n, n)     \* requires_split
Unknown == [role |-> "worker", serving |-> FALSE, hosted |-> FALSE, ready |-> FALSE,
            rtt |-> "none", seen |-> FALSE, late |-> FALSE]

TypeOK ==
  /\ known \in [Node -> SUBSET Node]
  /\ view \in [Node -> [Node -> Peer]]
  /\ {ticked, serving, hosted, held, ready, hosting, backoff, young}
       \subseteq [Node -> BOOLEAN]
  /\ role \in [Node -> Role]
  /\ pc \in [Node -> Place]
  /\ plan \in [Node -> Plan]
  /\ \A n \in Node :
       /\ pc[n] = "launch" => plan[n].kind \in {"solo", "split"}
       /\ pc[n] = "steady" => plan[n] = Waiting \/ plan[n].kind \in {"solo", "split"}
  /\ llama \in [Node -> {"down", "up", "dead"}]
  /\ running \in [Node -> Plan]
  /\ stopping \subseteq Node
  /\ faults \in 0..MaxFaults

(***************************************************************************)
(* The loops have started, the model is advertised as being served (the     *)
(* runtime does that first), and nobody has been heard of yet.              *)
(***************************************************************************)
Init ==
  /\ known = [n \in Node |-> {}]
  /\ view = [n \in Node |-> [m \in Node |-> Unknown]]
  /\ ticked = [n \in Node |-> FALSE]
  /\ role = [n \in Node |-> "worker"]
  /\ serving = [n \in Node |-> TRUE]
  /\ hosted = [n \in Node |-> FALSE]
  /\ held = [n \in Node |-> FALSE]
  /\ ready = [n \in Node |-> FALSE]
  /\ pc = [n \in Node |-> "decide"]
  /\ plan = [n \in Node |-> None]
  /\ hosting = [n \in Node |-> FALSE]
  /\ llama = [n \in Node |-> "down"]
  /\ running = [n \in Node |-> None]
  /\ backoff = [n \in Node |-> FALSE]
  /\ young = [n \in Node |-> TRUE]
  /\ stopping = {}
  /\ faults = 0

-----------------------------------------------------------------------------
(* Gossip *)

Fault == faults < MaxFaults /\ faults' = faults + 1

Heard(n, m) ==
  [view[n][m] EXCEPT !.role = role[m], !.serving = serving[m], !.hosted = hosted[m],
                     !.ready = ready[m]]

\* add_peer ticks for a new peer and for a change of role or of the models it
\* serves, not for its rpc-server, its memory or its round-trip time.
Ticks(n, m) ==
  \/ m \notin known[n]
  \/ <<role[m], serving[m], hosted[m]>>
       # <<view[n][m].role, view[n][m].serving, view[n][m].hosted>>

\* An exchange measures the path to a peer it makes known, if it has one of its own.
Gossip(n, m) ==
  /\ m # n
  /\ m \notin known[n] \/ Heard(n, m) # view[n][m]
  /\ known' = [known EXCEPT ![n] = @ \cup {m}]
  /\ \E rtt \in IF m \in known[n] THEN {view[n][m].rtt} ELSE Links[n][m] :
       view' = [view EXCEPT ![n][m] = [Heard(n, m) EXCEPT !.rtt = rtt]]
  /\ ticked' = [ticked EXCEPT ![n] = @ \/ Ticks(n, m)]
  /\ UNCHANGED <<self, pc, plan, server, pace, stopping, faults>>

\* update_peer_rtt: only a better reading counts.  Every such step, from nothing or
\* from beyond the limit, ticks.
Improves(old, new) == <<old, new>> \in {<<"none", "far">>, <<"none", "near">>, <<"far", "near">>}

Measured(n, m) ==
  /\ m \in known[n]
  /\ \E rtt \in Links[n][m] :
       /\ Improves(view[n][m].rtt, rtt)
       /\ view' = [view EXCEPT ![n][m].rtt = rtt]
  /\ ticked' = [ticked EXCEPT ![n] = TRUE]
  /\ UNCHANGED <<known, self, pc, plan, server, pace, stopping, faults>>

PeerLost(n, m) ==
  /\ m \in known[n]
  /\ n \in Faulty /\ Fault
  /\ known' = [known EXCEPT ![n] = @ \ {m}]
  /\ view' = [view EXCEPT ![n][m] = [Unknown EXCEPT !.seen = view[n][m].seen,
                                                      !.late = view[n][m].late]]
  /\ ticked' = [ticked EXCEPT ![n] = TRUE]
  /\ UNCHANGED <<self, pc, plan, server, pace, stopping>>

\* Something about a node outside the cohort changes; it matters to a loop that
\* waits for nothing else.
MeshTicked(n) ==
  /\ pc[n] \in {"parked", "proxyless"} /\ ~ticked[n]
  /\ ticked' = [ticked EXCEPT ![n] = TRUE]
  /\ UNCHANGED <<known, view, self, pc, plan, server, pace, stopping, faults>>

-----------------------------------------------------------------------------
(* Time *)

\* HOST_CLAIM_GRACE has passed since n's loop first saw m.  Only a node that
\* cannot serve alone asks.
GraceOver(n, m) ==
  /\ Splits(n) /\ n \notin Patient
  /\ view[n][m].seen /\ ~view[n][m].late
  /\ view' = [view EXCEPT ![n][m].late = TRUE]
  /\ UNCHANGED <<known, ticked, self, pc, plan, server, pace, stopping, faults>>

\* Only a node that can serve alone ever asks.
DiscoveryOver(n) ==
  /\ young[n] /\ ~Splits(n)
  /\ young' = [young EXCEPT ![n] = FALSE]
  /\ UNCHANGED <<mesh, self, pc, plan, server, backoff, stopping, faults>>

BackoffOver(n) ==
  /\ backoff[n]
  /\ backoff' = [backoff EXCEPT ![n] = FALSE]
  /\ UNCHANGED <<mesh, self, pc, plan, server, young, stopping, faults>>

\* RPC_IDLE_TIMEOUT has passed without a hold: only now the rpc-server goes.
RpcIdle(n) ==
  /\ ready[n] /\ ~held[n]
  /\ ready' = [ready EXCEPT ![n] = FALSE]
  /\ UNCHANGED <<mesh, role, serving, hosted, held, pc, plan, server, pace, stopping, faults>>

-----------------------------------------------------------------------------
(* A turn: look and decide *)

Goto(n, place) == pc' = [pc EXCEPT ![n] = place]
Assigned(n, v) == [m \in known[n] |-> v[m]]

\* Peers not seen before start their grace; those gone will start it anew.
Observed(n) ==
  [m \in Node |-> [view[n][m] EXCEPT !.seen = m \in known[n],
                                     !.late = @ /\ m \in known[n]]]

\* i_am_host
ShouldHost(n, v, desired) ==
  /\ ~backoff[n]
  /\ hosting[n] \/ known[n] # {} \/ ~young[n]
  /\ IF Splits(n)
       THEN DOMAIN v # {} /\ ShouldBeHost(n, v)
       ELSE \/ DOMAIN v = {}
            \/ hosting[n] /\ (DialablePeerRoutes(v) => WantDuplicate)
            \/ ~hosting[n] /\ (IF DialablePeerRoutes(v) THEN WantDuplicate
                               ELSE desired.kind \in {"solo", "split"})

-----------------------------------------------------------------------------
(* A turn: act *)

\* on_change has the model listed in hosted_models, or taken off it.
Announced(n, yes) == hosted' = [hosted EXCEPT ![n] = yes]
Advertised(n, yes) == serving' = [serving EXCEPT ![n] = yes]
\* Taking the hold needs the rpc-server up; dropping it only starts the idle clock.
Held(n, yes) == held' = [held EXCEPT ![n] = yes]
Planned(n, desired) == plan' = [plan EXCEPT ![n] = desired]

TeardownQuietly(n) ==
  /\ hosting' = [hosting EXCEPT ![n] = FALSE]
  /\ llama' = [llama EXCEPT ![n] = "down"]
  /\ running' = [running EXCEPT ![n] = None]

\* The llama-server is stopped, or is known to be gone.
Teardown(n) == TeardownQuietly(n) /\ role' = [role EXCEPT ![n] = "worker"]

TeardownIfHosting(n) == IF hosting[n] THEN Teardown(n) ELSE UNCHANGED <<server, role>>

\* While capacity is missing the model is not advertised as being served
\* (park_serving_while_waiting).
Parked(n, desired) == Advertised(n, serving[n] /\ desired # Waiting)

KeepsIfSame(n, v, desired, host) == hosting[n] /\ host /\ desired = running[n]

\* The same cohort, or one that still holds the model.
Keeps(n, v, desired, host) ==
  /\ hosting[n] /\ host
  /\ desired = running[n] \/ CohortStillViable(n, v, running[n])

\* Nothing is restarted.
KeepHosting(n, desired) ==
  /\ Parked(n, desired) /\ Held(n, FALSE)
  /\ Goto(n, "steady")
  /\ Planned(n, desired)
  /\ UNCHANGED <<role, hosted, ready, server>>

\* Another node is to host: a pipeline worker first starts the rpc-server.
StartWorker(n, desired) ==
  /\ Splits(n) /\ ~held[n]
  /\ Parked(n, desired)
  /\ Goto(n, "spawn")
  /\ UNCHANGED <<role, hosted, held, ready, plan, server>>

BecomeWorker(n) ==
  /\ Teardown(n)
  /\ Announced(n, FALSE)
  /\ Goto(n, "idle")

KeepWorking(n, desired) ==
  /\ Splits(n) => held[n]
  /\ Parked(n, desired)
  /\ BecomeWorker(n)
  /\ UNCHANGED <<held, ready, plan>>

WaitUnparked(n) ==
  /\ Held(n, FALSE)
  /\ TeardownIfHosting(n)
  /\ Announced(n, FALSE)
  /\ Goto(n, "parked")
  /\ UNCHANGED <<serving, ready, plan>>

\* Elected, but the cohort is too small: wait for the mesh to change.
WaitForCapacity(n) ==
  /\ Advertised(n, FALSE) /\ Held(n, FALSE)
  /\ TeardownIfHosting(n)
  /\ Announced(n, FALSE)
  /\ Goto(n, "parked")
  /\ UNCHANGED <<ready, plan>>

LaunchHolding(n, desired) ==
  /\ Advertised(n, TRUE) /\ UNCHANGED <<held, ready>>
  /\ TeardownIfHosting(n)
  /\ Announced(n, FALSE)
  /\ Goto(n, "launch")
  /\ Planned(n, desired)

\* ensure_serving_assignment, then start_llama.
Launch(n, desired) ==
  /\ Advertised(n, TRUE) /\ Held(n, FALSE)
  /\ TeardownIfHosting(n)
  /\ Announced(n, FALSE)
  /\ Goto(n, "launch")
  /\ Planned(n, desired)
  /\ UNCHANGED ready

Look(n) ==
  /\ pc[n] = "decide"
  /\ view' = [view EXCEPT ![n] = Observed(n)]
  /\ LET v       == Assigned(n, Observed(n))
         desired == LaunchPlan(n, v)
         host    == ShouldHost(n, v, desired)
         keeps   == Keeps(n, v, desired, host)
     IN  \/ keeps /\ KeepHosting(n, desired)
         \/ host /\ ~keeps /\ desired = Waiting /\ WaitForCapacity(n)
         \/ host /\ ~keeps /\ desired # Waiting /\ Launch(n, desired)
         \/ ~host /\ StartWorker(n, desired)
         \/ ~host /\ KeepWorking(n, desired)
  /\ UNCHANGED <<known, ticked, pace, stopping, faults>>

\* The top of the loop: it goes on unless told to stop.
Turn(n) == n \notin stopping /\ Look(n)

\* The rpc-server is up, still or again, or could not be started.  Where one was still
\* up, the tick that has just taken it may be late with saying so (see LazyRpc).
WorkerStarted(n, up) ==
  /\ pc[n] = "spawn" /\ n \notin stopping
  /\ ready[n] => up
  /\ Held(n, up)
  /\ \E late \in {FALSE, ready[n]} : ready' = [ready EXCEPT ![n] = up /\ ~late]
  /\ BecomeWorker(n)
  /\ UNCHANGED <<mesh, serving, plan, pace, stopping, faults>>

LaunchSucceeded(n) ==
  /\ pc[n] = "launch"
  /\ n \notin Broken
  /\ hosting' = [hosting EXCEPT ![n] = TRUE]
  /\ llama' = [llama EXCEPT ![n] = "up"]
  /\ running' = [running EXCEPT ![n] = plan[n]]
  /\ role' = [role EXCEPT ![n] = "host"]
  /\ backoff' = [backoff EXCEPT ![n] = FALSE]
  /\ Announced(n, TRUE)
  /\ Goto(n, "idle")
  /\ Planned(n, None)
  /\ UNCHANGED <<mesh, serving, held, ready, young, stopping, faults>>

\* record_failure arms the backoff or does not: that depends on past failures.
LaunchFailed(n) ==
  /\ pc[n] = "launch"
  /\ n \in Faulty \cup Broken
  /\ \E armed \in BOOLEAN : backoff' = [backoff EXCEPT ![n] = armed]
  /\ Announced(n, FALSE)
  /\ Goto(n, "failed")
  /\ Planned(n, None)
  /\ UNCHANGED <<mesh, role, serving, held, ready, server, young, stopping, faults>>

\* llama-server is healthy but the local proxy does not start: no failure is
\* counted.
ProxyFailed(n) ==
  /\ pc[n] = "launch"
  /\ n \in Faulty \ Broken
  /\ Announced(n, FALSE)
  /\ Goto(n, "proxyless")
  /\ Planned(n, None)
  /\ UNCHANGED <<mesh, role, serving, held, ready, server, pace, stopping, faults>>

-----------------------------------------------------------------------------
(* A turn: wait *)

\* A tick, or the timer of HOST_CLAIM_GRACE / 2 or of the failure wait.
Wake(n) ==
  /\ pc[n] \in {"steady", "idle", "failed"}
  /\ ticked' = [ticked EXCEPT ![n] = FALSE]
  /\ Goto(n, "decide")
  /\ Planned(n, None)
  /\ UNCHANGED <<known, view, self, server, pace, stopping, faults>>

\* peer_rx.changed() alone.
WakeOnTick(n) ==
  /\ pc[n] \in {"parked", "proxyless"}
  /\ ticked[n]
  /\ ticked' = [ticked EXCEPT ![n] = FALSE]
  /\ Goto(n, "decide")
  /\ UNCHANGED <<known, view, self, plan, server, pace, stopping, faults>>

ServerDied(n) ==
  /\ llama[n] = "up"
  /\ n \in Faulty /\ Fault
  /\ llama' = [llama EXCEPT ![n] = "dead"]
  /\ UNCHANGED <<mesh, self, pc, plan, hosting, running, pace, stopping>>

DeathSeenRegardless(n) ==
  /\ pc[n] = "steady" /\ n \notin stopping
  /\ llama[n] = "dead"
  /\ Teardown(n)
  /\ Announced(n, FALSE)
  /\ Goto(n, "launch")
  /\ Advertised(n, TRUE)
  /\ UNCHANGED <<mesh, held, ready, plan, pace, stopping, faults>>

\* Seen in the first wait: on with the turn's plan, however old.
DeathSeen(n) ==
  /\ pc[n] = "steady" /\ n \notin stopping
  /\ llama[n] = "dead"
  /\ Teardown(n)
  /\ Announced(n, FALSE)
  /\ IF plan[n] = Waiting
       THEN Goto(n, "parked") /\ Planned(n, None) /\ UNCHANGED serving
       ELSE /\ Goto(n, "launch")
            /\ Advertised(n, TRUE)
            /\ UNCHANGED plan
  /\ UNCHANGED <<mesh, held, ready, pace, stopping, faults>>

\* Seen in the second: the role stays as it is.
DeathSeenLate(n) ==
  /\ pc[n] = "idle" /\ n \notin stopping
  /\ llama[n] = "dead"
  /\ TeardownQuietly(n)
  /\ Announced(n, FALSE)
  /\ Goto(n, "decide")
  /\ UNCHANGED <<mesh, role, serving, held, ready, plan, pace, stopping, faults>>

-----------------------------------------------------------------------------
(* The loop's end *)

StopRequested(n) ==
  /\ n \notin stopping
  /\ n \in Faulty /\ Fault
  /\ stopping' = stopping \cup {n}
  /\ UNCHANGED <<mesh, self, pc, plan, server, pace>>

ExitUnhosting(n) ==
  /\ n \in stopping
  /\ pc[n] \in {"decide", "spawn", "steady", "idle"}
  /\ IF hosting[n] /\ llama[n] = "up"
       THEN role' = [role EXCEPT ![n] = "worker"] /\ UNCHANGED <<hosting, llama, running>>
       ELSE UNCHANGED <<server, role>>
  /\ Announced(n, FALSE) /\ Advertised(n, FALSE) /\ Held(n, FALSE)
  /\ Goto(n, "stopped")
  /\ Planned(n, None)
  /\ UNCHANGED <<mesh, ready, pace, stopping, faults>>

\* Before a turn, when the rpc-server has started, and in the two waits of a turn that
\* listen for it.  The hold on the rpc-server is dropped with the loop, and the
\* runtime that waits for it takes the model off what the node serves and hosts.
Exit(n) ==
  /\ n \in stopping
  /\ pc[n] \in {"decide", "spawn", "steady", "idle"}
  /\ TeardownIfHosting(n)
  /\ Announced(n, FALSE) /\ Advertised(n, FALSE) /\ Held(n, FALSE)
  /\ Goto(n, "stopped")
  /\ Planned(n, None)
  /\ UNCHANGED <<mesh, ready, pace, stopping, faults>>

-----------------------------------------------------------------------------
(* Specification *)

Loop(n) ==
  \/ Turn(n) \/ \E up \in BOOLEAN : WorkerStarted(n, up)
  \/ LaunchSucceeded(n) \/ LaunchFailed(n) \/ ProxyFailed(n)
  \/ Wake(n) \/ WakeOnTick(n) \/ DeathSeen(n) \/ DeathSeenLate(n) \/ Exit(n)

Clock(n) ==
  \/ (\E m \in Others(n) : GraceOver(n, m))
  \/ DiscoveryOver(n) \/ BackoffOver(n) \/ RpcIdle(n)

Peering(n) == \E m \in Others(n) : Gossip(n, m) \/ Measured(n, m) \/ PeerLost(n, m)

Next ==
  \E n \in Node :
    \/ Loop(n) \/ Clock(n) \/ Peering(n)
    \/ MeshTicked(n) \/ ServerDied(n) \/ StopRequested(n)

Spec == Init /\ [][Next]_vars

\* The loop's task is scheduled, its timers and the clock's windows run out, gossip
\* rounds reach every peer, spawned tasks run.  A path need never be measured, a launch
\* that may fail may always fail, and nodes outside the cohort need not change; in a
\* wait, a dead server is noticed before the timer fires.
Fairness ==
  \A n \in Node :
    /\ WF_vars(Loop(n)) /\ WF_vars(Clock(n)) /\ WF_vars(RpcIdle(n))
    /\ SF_vars(DeathSeen(n) \/ DeathSeenLate(n))
    /\ \A m \in Others(n) : WF_vars(Gossip(n, m))

FairSpec == Spec /\ Fairness

-----------------------------------------------------------------------------
(* Safety *)

\* No llama-server runs that its loop does not own: every way out of a turn, the
\* loop's end included, has stopped it or still holds it.
ServerIsOwned == \A n \in Node : llama[n] = "up" => hosting[n] /\ pc[n] # "stopped"

\* A node that leads the cohort, from the launch on, holds no rpc-server, so that the
\* idle clock of the one it may still lend its memory through is running.
Leads(n) ==
  \/ pc[n] \in {"launch", "steady", "parked", "failed", "proxyless"}
  \/ pc[n] = "idle" /\ hosting[n]
HostHoldsNoRpcServer == \A n \in Node : Leads(n) => ~held[n]

\* A node that waits for capacity or has unloaded the model does not advertise it
\* as loading or as being served (park_serving_while_waiting), whatever way it took.
WaitingIsUnadvertised ==
  \A n \in Node : pc[n] \in {"parked", "stopped"} => ~serving[n] /\ ~hosted[n]

\* What a node runs, holds and advertises agrees with where its loop is.
RolesAgree == ServerIsOwned /\ HostHoldsNoRpcServer /\ WaitingIsUnadvertised

Candidates(n) == HostCandidates(n, Assigned(n, view[n]))
SeesRival(n, m) == m \in known[n] /\ view[n][m].rtt # "none" /\ m \in Candidates(n)
Elects(n) == ShouldBeHost(n, Assigned(n, view[n]))

\* Of two nodes that are candidates to each other, on paths both have measured, at
\* most one elects itself, whatever else they know and whatever size each takes the
\* model to have; and the nodes never all defer to one another (the total order of
\* the scores, in which one's own path counts as measured).
RivalsElectOne ==
  \A m, n \in Node :
    m # n /\ SeesRival(n, m) /\ SeesRival(m, n) => ~(Elects(n) /\ Elects(m))
SomebodyElectsItself == \E n \in Node : Elects(n)
OneElectsItself == RivalsElectOne /\ SomebodyElectsItself

Elected(n) ==
  LET v == Assigned(n, Observed(n)) IN ShouldHost(n, v, LaunchPlan(n, v))

\* A healthy llama-server is not restarted for round-trip times, readiness or order:
\* only when the node is told to stop, defers to another, or a worker has left.
Excused(n) ==
  \/ n \in stopping \/ pc[n] = "spawn" \/ ~Elected(n)
  \/ ~(running[n].workers \subseteq known[n])
HealthyServerKept ==
  [][\A n \in Node : llama[n] = "up" /\ llama'[n] = "down" => Excused(n)]_vars

-----------------------------------------------------------------------------
(* Liveness *)

\* Of nodes that each hold the model, again and again one serves it, whatever becomes
\* of the other's launches, proxy, server and loop: one that can serve alone steps
\* aside only for a peer that does host and can be reached.
SomebodyServes == []<>(\E n \in Node : llama[n] = "up")

\* A loop told to stop ends, or sits in one of the two waits that do not listen for it
\* (for capacity, and after its proxy failed) with no change of the mesh to end them.
StopIsHeeded ==
  []<>(\A n \in stopping :
         pc[n] = "stopped" \/ (pc[n] \in {"parked", "proxyless"} /\ ~ticked[n]))

-----------------------------------------------------------------------------
(* What the comments say, and the code does not do *)

\* A worker "becomes selectable" once its rpc-server is up (build_dense_launch_plan):
\* an elected node that has heard of enough ready workers goes on.
CapacityIsUsed ==
  \A n \in Node :
    (pc[n] = "parked" /\ LaunchPlan(n, Assigned(n, view[n])) # Waiting) ~> pc[n] # "parked"

\* "A solo node, or the host itself, never holds an rpc-server", which is up "exactly
\* when we're a pipeline worker": it does not outlive the hold.
HostLendsNothing == \A n \in Node : Leads(n) => ~ready[n]

\* Unloading a model waits for its loop (controller.task.await): a loop told to stop ends.
StopEndsTheLoop == []<>(\A n \in stopping : pc[n] = "stopped")

\* A host yields because another node already serves: it leaves one that does.
YieldLeavesAServer ==
  [][\A n \in Node :
       llama[n] = "up" /\ llama'[n] = "down" /\ n \notin stopping =>
         \E m \in Others(n) : llama'[m] = "up"]_vars
=============================================================================
