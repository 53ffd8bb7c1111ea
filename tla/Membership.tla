----------------------------- MODULE Membership -----------------------------
(***************************************************************************)
(* What every node of a mesh believes about one peer.                      *)
(*                                                                         *)
(* Each node keeps a MeshState whose maps are keyed by peer id.  Handlers   *)
(* treat every key on its own, so the module follows the entry of ONE peer  *)
(* ("the peer") in the MeshState of every other node, Node.  The peer may   *)
(* run, crash, leave and come back; the nodes gossip with it, gossip about  *)
(* it with each other, probe it, report it down and prune it.  A handler    *)
(* that releases the state lock across an await is one action per critical  *)
(* section, and the part still to come is a pair <<n, task>> in tasks.      *)
(*                                                                         *)
(* Time advances in ticks.  All in-flight work is bounded by timeouts of    *)
(* 10-30 s, a tick is at least a minute, so a tick finds nothing in flight. *)
(***************************************************************************)
EXTENDS Integers, FiniteSets

CONSTANTS
  Node,              \* the nodes that watch the peer
  Strict,            \* nodes that serve the same exact MoE model as the peer
  StaleTicks,        \* PEER_STALE_SECS, in ticks
  GenericThreshold,  \* heartbeat misses before a generic peer is killed
  StrictThreshold,   \* the same for a peer that shares an exact MoE model
  BootAnchored,      \* Instant cannot go below the machine's boot (Windows)
  MaxTasks,          \* bound: handlers suspended at a time, over all nodes
  MaxFrames          \* bound: frames between nodes in flight at a time

ASSUME ConstantsAssumption ==
  /\ Strict \subseteq Node
  /\ StaleTicks \in Nat \ {0}
  /\ GenericThreshold \in Nat \ {0}
  /\ StrictThreshold \in Nat \ {0}
  /\ BootAnchored \in BOOLEAN
  /\ MaxTasks \in Nat \ {0}
  /\ MaxFrames \in Nat \ {0}

VARIABLES
  alive,           \* the peer's process runs
  silence,         \* history: ticks since the peer last ran
  uptime,          \* [Node -> Age]: time since the node's machine booted
  listed,          \* nodes whose state.peers has the peer
  last_seen,       \* [Node -> Age]: age of PeerInfo.last_seen
  last_mentioned,  \* [Node -> Age]: age of PeerInfo.last_mentioned
  dead_peers,      \* nodes whose state.dead_peers has the peer
  connections,     \* [Node -> slot]: state.connections at the peer's id
  fail_counts,     \* [Node -> Nat]: the heartbeat's local failure counter
  tasks,           \* {<<node, task>>}: handlers suspended at an await
  mentions,        \* gossip frames between nodes that mention the peer
  reports,         \* nodes with a PeerDown frame about the peer to read
  leavings         \* nodes with a PeerLeaving frame of the peer to read

vars == <<alive, silence, uptime, listed, last_seen, last_mentioned, dead_peers,
          connections, fail_counts, tasks, mentions, reports, leavings>>

environment == <<alive, silence, uptime>>
knowledge == <<listed, last_seen, last_mentioned>>
frames == <<mentions, reports, leavings>>

MaxAge == 2 * StaleTicks
Age == 0..MaxAge
Slot == {"none", "open", "broken"}
MaxThreshold == IF GenericThreshold > StrictThreshold THEN GenericThreshold ELSE StrictThreshold

\* gossip: handle_gossip_stream read the stream, add_peer still to come;
\* redial, verify: the dispatcher reconnects, then awaits gossip;
\* hb, hbok, condemn: a heartbeat probe is out, has succeeded and is to be booked, or
\* has failed once too often and the peer is to be marked;
\* probe, dial, trust: a PeerDown report is being confirmed;
\* death, evict: handle_peer_death is to mark the peer, or to remove it;
\* prune: the prune scan chose the peer, remove_peer still to come.
Task == {"gossip", "redial", "verify", "hb", "hbok", "condemn", "probe", "dial",
         "trust", "death", "evict", "prune"}

TypeOK ==
  /\ alive \in BOOLEAN
  /\ silence \in Age
  /\ uptime \in [Node -> Age]
  /\ listed \subseteq Node
  /\ last_seen \in [Node -> Age]
  /\ last_mentioned \in [Node -> Age]
  /\ dead_peers \subseteq Node
  /\ connections \in [Node -> Slot]
  /\ fail_counts \in [Node -> 0..(MaxThreshold - 1)]
  /\ tasks \subseteq Node \X Task
  /\ mentions \subseteq Node \X Node
  /\ reports \subseteq Node
  /\ leavings \subseteq Node

(***************************************************************************)
(* A mesh in steady state: everybody knows the peer first-hand.            *)
(***************************************************************************)
Init ==
  /\ alive = TRUE
  /\ silence = 0
  /\ uptime \in IF BootAnchored THEN [Node -> Age] ELSE [Node -> {MaxAge}]
  /\ listed = Node
  /\ last_seen = [n \in Node |-> 0]
  /\ last_mentioned = [n \in Node |-> 0]
  /\ dead_peers = {}
  /\ connections = [n \in Node |-> "open"]
  /\ fail_counts = [n \in Node |-> 0]
  /\ tasks = {}
  /\ mentions = {}
  /\ reports = {}
  /\ leavings = {}

-----------------------------------------------------------------------------
(* Clocks *)

Older(age) == IF age < MaxAge THEN age + 1 ELSE MaxAge

\* PeerInfo::has_recent_liveness
Recent(n) == last_seen[n] < StaleTicks \/ last_mentioned[n] < StaleTicks

\* t < now - window, where now.checked_sub(window) falls back to now when the
\* machine has not been up for that long.
Before(n, age, window) == uptime[n] >= window => age >= window

\* collect_announcements tells others about the peer
Announces(n) ==
  /\ n \in listed
  /\ \/ ~Before(n, last_seen[n], StaleTicks)
     \/ ~Before(n, last_mentioned[n], StaleTicks)

-----------------------------------------------------------------------------
(* Critical sections shared by the handlers *)

Running(n, t) == <<n, t>> \in tasks

\* A second handler of the same kind on the same node is not followed.
Spawn(n, t) ==
  /\ ~Running(n, t)
  /\ Cardinality(tasks) < MaxTasks
  /\ tasks' = tasks \cup {<<n, t>>}

Become(n, t, u) == tasks' = (tasks \ {<<n, t>>}) \cup {<<n, u>>}
Finish(n, t) == tasks' = tasks \ {<<n, t>>}
FramesInFlight == Cardinality(mentions) + Cardinality(reports) + Cardinality(leavings)
Attach(n, slot) == connections' = [connections EXCEPT ![n] = slot]

AddPeerKeepingMark(n) ==
  /\ listed' = listed \cup {n}
  /\ last_seen' = [last_seen EXCEPT ![n] = 0]
  /\ last_mentioned' = [last_mentioned EXCEPT ![n] = IF n \in listed THEN @ ELSE 0]
  /\ UNCHANGED dead_peers

\* add_peer: a completed exchange with the peer itself
AddPeer(n) ==
  /\ listed' = listed \cup {n}
  /\ dead_peers' = dead_peers \ {n}
  /\ last_seen' = [last_seen EXCEPT ![n] = 0]
  /\ last_mentioned' = [last_mentioned EXCEPT ![n] = IF n \in listed THEN @ ELSE 0]

\* remove_peer
RemovePeer(n) ==
  /\ listed' = listed \ {n}
  /\ last_seen' = [last_seen EXCEPT ![n] = MaxAge]
  /\ last_mentioned' = [last_mentioned EXCEPT ![n] = MaxAge]

-----------------------------------------------------------------------------
(* The peer and the network *)

Tick ==
  /\ tasks = {} /\ FramesInFlight = 0
  /\ silence' = IF alive THEN 0 ELSE Older(silence)
  /\ uptime' = [n \in Node |-> Older(uptime[n])]
  /\ last_seen' = [n \in Node |-> Older(last_seen[n])]
  /\ last_mentioned' = [n \in Node |-> Older(last_mentioned[n])]
  /\ UNCHANGED <<alive, listed, dead_peers, connections, fail_counts, tasks, frames>>

Broken == [n \in Node |-> IF connections[n] = "open" THEN "broken" ELSE connections[n]]

\* The process is killed: nothing is sent.
Crash ==
  /\ alive
  /\ alive' = FALSE
  /\ connections' = Broken
  /\ UNCHANGED <<silence, uptime, knowledge, dead_peers, fail_counts, tasks, frames>>

\* Clean shutdown: broadcast_leaving, then exit.
Leave ==
  /\ alive
  /\ alive' = FALSE
  /\ \E told \in SUBSET {n \in Node : connections[n] = "open"} :
       /\ FramesInFlight + Cardinality(told) <= MaxFrames
       /\ leavings' = leavings \cup told
  /\ connections' = Broken
  /\ UNCHANGED <<silence, uptime, knowledge, dead_peers, fail_counts, tasks,
                 mentions, reports>>

Start ==
  /\ ~alive
  /\ alive' = TRUE
  /\ silence' = 0
  /\ UNCHANGED <<uptime, knowledge, dead_peers, connections, fail_counts, tasks, frames>>

-----------------------------------------------------------------------------
(* Direct contact *)

\* handle_incoming: the peer dials the node.
HandleIncoming(n) ==
  /\ alive
  /\ dead_peers' = dead_peers \ {n}
  /\ Attach(n, "open")
  /\ UNCHANGED <<environment, knowledge, fail_counts, tasks, frames>>

\* handle_gossip_stream up to its first await: the dead mark is cleared before
\* a single byte of the frame is read.
GossipOpened(n) ==
  /\ alive
  /\ connections[n] = "open"
  /\ dead_peers' = dead_peers \ {n}
  /\ Spawn(n, "gossip")
  /\ UNCHANGED <<environment, knowledge, connections, fail_counts, frames>>

GossipApplied(n) ==
  /\ Running(n, "gossip")
  /\ AddPeer(n)
  /\ Finish(n, "gossip")
  /\ UNCHANGED <<environment, connections, fail_counts, frames>>

\* The frame never comes or does not decode.
GossipAborted(n) ==
  /\ Running(n, "gossip")
  /\ Finish(n, "gossip")
  /\ UNCHANGED <<environment, knowledge, dead_peers, connections, fail_counts, frames>>

\* The node's own regossip, gossip_one_peer or reconnect gossip is answered.
GossipAnswered(n) ==
  /\ alive
  /\ connections[n] = "open"
  /\ AddPeer(n)
  /\ UNCHANGED <<environment, connections, fail_counts, tasks, frames>>

\* join: an explicit invite token (also the entry-recovery rejoin).
Join(n) ==
  /\ dead_peers' = dead_peers \ {n}
  /\ IF n \in listed /\ connections[n] = "none"
       THEN RemovePeer(n)
       ELSE UNCHANGED knowledge
  /\ \/ UNCHANGED connections
     \/ alive /\ n \notin listed' /\ Attach(n, "open")
  /\ UNCHANGED <<environment, fail_counts, tasks, frames>>

-----------------------------------------------------------------------------
(* Heartbeat *)

HeartbeatStart(n) ==
  /\ n \in listed
  /\ ~Running(n, "hbok") /\ ~Running(n, "condemn")
  /\ Spawn(n, "hb")
  /\ UNCHANGED <<environment, knowledge, dead_peers, connections, fail_counts, frames>>

\* There was no connection and one is dialed; the gossip over it is still to come.
HeartbeatDialed(n) ==
  /\ Running(n, "hb")
  /\ alive
  /\ connections[n] = "none"
  /\ Attach(n, "open")
  /\ UNCHANGED <<environment, knowledge, dead_peers, fail_counts, tasks, frames>>

\* Gossip over the connection the probe has, in the slot or no longer.
HeartbeatAnswered(n) ==
  /\ Running(n, "hb")
  /\ alive
  /\ connections[n] # "broken"
  /\ AddPeer(n)
  /\ Become(n, "hb", "hbok")
  /\ UNCHANGED <<environment, connections, fail_counts, frames>>

HeartbeatBooked(n) ==
  /\ Running(n, "hbok")
  /\ dead_peers' = IF fail_counts[n] > 0 THEN dead_peers \ {n} ELSE dead_peers
  /\ fail_counts' = [fail_counts EXCEPT ![n] = 0]
  /\ Finish(n, "hbok")
  /\ UNCHANGED <<environment, knowledge, connections, frames>>

\* heartbeat_failure_policy_for_peer; a peer already removed gets the generic one.
SharedMoe(n) == n \in Strict /\ n \in listed
Threshold(n) == IF SharedMoe(n) THEN StrictThreshold ELSE GenericThreshold
GracedAnyone(n) == n \in listed /\ Recent(n)
Graced(n) == ~SharedMoe(n) /\ n \in listed /\ Recent(n)

\* The verdict on a probe that failed, from one look at the peer.
HeartbeatMissed(n) ==
  /\ Running(n, "hb")
  /\ \/ /\ Graced(n)
        /\ fail_counts' = [fail_counts EXCEPT ![n] = 0]
        /\ Finish(n, "hb")
     \/ /\ ~Graced(n)
        /\ fail_counts[n] + 1 < Threshold(n)
        /\ fail_counts' = [fail_counts EXCEPT ![n] = @ + 1]
        /\ Finish(n, "hb")
     \/ /\ ~Graced(n)
        /\ fail_counts[n] + 1 >= Threshold(n)
        /\ Become(n, "hb", "condemn")
        /\ UNCHANGED fail_counts
  /\ UNCHANGED <<environment, knowledge, dead_peers, connections, frames>>

CondemnKeepingCount(n) ==
  /\ Running(n, "condemn")
  /\ fail_counts' = [fail_counts EXCEPT ![n] = @ + 1]
  /\ dead_peers' = dead_peers \cup {n}
  /\ Become(n, "condemn", "death")
  /\ UNCHANGED <<environment, knowledge, connections, frames>>

\* The counter goes and the peer is marked dead, whatever was heard since that look.
Condemn(n) ==
  /\ Running(n, "condemn")
  /\ fail_counts' = [fail_counts EXCEPT ![n] = 0]
  /\ dead_peers' = dead_peers \cup {n}
  /\ Become(n, "condemn", "death")
  /\ UNCHANGED <<environment, knowledge, connections, frames>>

\* The prune scan that ends every heartbeat round.
PruneScan(n) ==
  /\ n \in listed
  /\ Before(n, last_seen[n], 2 * StaleTicks)
  /\ Before(n, last_mentioned[n], 2 * StaleTicks)
  /\ Spawn(n, "prune")
  /\ UNCHANGED <<environment, knowledge, dead_peers, connections, fail_counts, frames>>

PruneRemove(n) ==
  /\ Running(n, "prune")
  /\ RemovePeer(n)
  /\ Attach(n, "none")
  /\ Finish(n, "prune")
  /\ UNCHANGED <<environment, dead_peers, fail_counts, frames>>

-----------------------------------------------------------------------------
(* Death and its reports *)

\* A relay, an HTTP tunnel or a routed request fails: handle_peer_death is called.
RouteFailed(n) ==
  /\ n \in listed \/ connections[n] # "none"
  /\ Spawn(n, "death")
  /\ UNCHANGED <<environment, knowledge, dead_peers, connections, fail_counts, frames>>

\* handle_peer_death's critical section; the connection is kept.
DeathMark(n) ==
  /\ Running(n, "death")
  /\ dead_peers' = dead_peers \cup {n}
  /\ Become(n, "death", "evict")
  /\ UNCHANGED <<environment, knowledge, connections, fail_counts, frames>>

\* remove_peer, then broadcast_peer_down; any of the frames may be lost.
DeathEvict(n) ==
  /\ Running(n, "evict")
  /\ RemovePeer(n)
  /\ Finish(n, "evict")
  /\ \E told \in SUBSET (Node \ {n}) :
       /\ FramesInFlight + Cardinality(told) <= MaxFrames
       /\ reports' = reports \cup told
  /\ UNCHANGED <<environment, dead_peers, connections, fail_counts, mentions, leavings>>

\* The task a PeerDown report starts, from what the node knows when it reads it.
Confirmation(n) ==
  IF connections[n] # "none" THEN "probe"
  ELSE IF n \in listed THEN "dial" ELSE "trust"

PeerDownReceived(n) ==
  /\ n \in reports
  /\ reports' = reports \ {n}
  /\ IF n \in listed /\ Recent(n)
       THEN UNCHANGED tasks
       ELSE Spawn(n, Confirmation(n))
  /\ UNCHANGED <<environment, knowledge, dead_peers, connections, fail_counts,
                 mentions, leavings>>

\* The probe or the dial got through.
PeerDownRefuted(n) ==
  /\ alive
  /\ \/ /\ Running(n, "probe")
        /\ UNCHANGED connections
        /\ Finish(n, "probe")
     \/ /\ Running(n, "dial")
        /\ IF connections[n] = "none" THEN Attach(n, "open") ELSE UNCHANGED connections
        /\ Finish(n, "dial")
  /\ UNCHANGED <<environment, knowledge, dead_peers, fail_counts, frames>>

\* It did not, or there was nothing to probe: the peer is removed, not marked dead.
PeerDownConfirmed(n) ==
  /\ \E t \in {"probe", "dial", "trust"} : Running(n, t) /\ Finish(n, t)
  /\ Attach(n, "none")
  /\ RemovePeer(n)
  /\ UNCHANGED <<environment, dead_peers, fail_counts, frames>>

PeerLeavingReceived(n) ==
  /\ n \in leavings
  /\ leavings' = leavings \ {n}
  /\ Attach(n, "none")
  /\ RemovePeer(n)
  /\ UNCHANGED <<environment, dead_peers, fail_counts, tasks, mentions, reports>>

-----------------------------------------------------------------------------
(* The dispatcher's reconnect *)

\* accept_bi fails: the slot is cleared; a peer still known is redialed.
DispatcherClosed(n) ==
  /\ connections[n] # "none"
  /\ ~Running(n, "redial") /\ ~Running(n, "verify")
  /\ Attach(n, "none")
  /\ IF n \in listed THEN Spawn(n, "redial") ELSE UNCHANGED tasks
  /\ UNCHANGED <<environment, knowledge, dead_peers, fail_counts, frames>>

Redialed(n) ==
  /\ Running(n, "redial")
  /\ alive
  /\ Attach(n, "open")
  /\ Become(n, "redial", "verify")
  /\ UNCHANGED <<environment, knowledge, dead_peers, fail_counts, frames>>

ReconnectVerified(n) ==
  /\ Running(n, "verify")
  /\ alive
  /\ connections[n] # "broken"
  /\ AddPeer(n)
  /\ Finish(n, "verify")
  /\ UNCHANGED <<environment, connections, fail_counts, frames>>

\* The dial or the gossip failed: remove the peer, without marking it dead.
ReconnectFailed(n) ==
  /\ \E t \in {"redial", "verify"} : Running(n, t) /\ Finish(n, t)
  /\ RemovePeer(n)
  /\ UNCHANGED <<environment, dead_peers, connections, fail_counts, frames>>

-----------------------------------------------------------------------------
(* Hearsay: gossip between two nodes *)

\* collect_announcements of m goes out to n.
Announce(m, n) ==
  /\ m # n
  /\ Announces(m)
  /\ FramesInFlight < MaxFrames
  /\ mentions' = mentions \cup {<<m, n>>}
  /\ UNCHANGED <<environment, knowledge, dead_peers, connections, fail_counts, tasks,
                 reports, leavings>>

SeeTransitivePeer(n) ==
  /\ n \notin dead_peers
  /\ listed' = listed \cup {n}
  /\ last_seen' = [last_seen EXCEPT ![n] = 0]
  /\ last_mentioned' = [last_mentioned EXCEPT ![n] = 0]

RaiseTransitivePeer(n) ==
  /\ listed' = listed \cup {n}
  /\ last_seen' = [last_seen EXCEPT ![n] = IF n \in listed THEN @ ELSE MaxAge]
  /\ last_mentioned' = [last_mentioned EXCEPT ![n] = 0]

\* update_transitive_peer
UpdateTransitivePeer(n) ==
  \/ /\ n \in dead_peers
     /\ UNCHANGED knowledge
  \/ /\ n \notin dead_peers
     /\ n \in listed
     /\ last_mentioned' = [last_mentioned EXCEPT ![n] = 0]
     /\ UNCHANGED <<listed, last_seen>>
  \/ /\ n \notin dead_peers
     /\ n \notin listed
     /\ listed' = listed \cup {n}
     /\ last_seen' = [last_seen EXCEPT ![n] = IF uptime[n] >= MaxAge THEN MaxAge ELSE 0]
     /\ last_mentioned' = [last_mentioned EXCEPT ![n] = 0]

MentionReceived(m, n) ==
  /\ <<m, n>> \in mentions
  /\ mentions' = mentions \ {<<m, n>>}
  /\ UpdateTransitivePeer(n)
  /\ UNCHANGED <<environment, dead_peers, connections, fail_counts, tasks,
                 reports, leavings>>

MentionLost(m, n) ==
  /\ <<m, n>> \in mentions
  /\ mentions' = mentions \ {<<m, n>>}
  /\ UNCHANGED <<environment, knowledge, dead_peers, connections, fail_counts, tasks,
                 reports, leavings>>

-----------------------------------------------------------------------------
(* Specification *)

Peer == Crash \/ Leave \/ Start

Contact(n) ==
  \/ HandleIncoming(n) \/ GossipOpened(n) \/ GossipApplied(n)
  \/ GossipAborted(n) \/ GossipAnswered(n) \/ Join(n)

Heartbeat(n) ==
  \/ HeartbeatStart(n) \/ HeartbeatDialed(n) \/ HeartbeatAnswered(n) \/ HeartbeatBooked(n)
  \/ HeartbeatMissed(n) \/ Condemn(n) \/ PruneScan(n) \/ PruneRemove(n)

Death(n) ==
  \/ RouteFailed(n) \/ DeathMark(n) \/ DeathEvict(n) \/ PeerDownReceived(n)
  \/ PeerDownRefuted(n) \/ PeerDownConfirmed(n) \/ PeerLeavingReceived(n)

Dispatcher(n) ==
  DispatcherClosed(n) \/ Redialed(n) \/ ReconnectVerified(n) \/ ReconnectFailed(n)

Hearsay(m, n) == Announce(m, n) \/ MentionReceived(m, n) \/ MentionLost(m, n)

Next ==
  \/ Tick
  \/ Peer
  \/ \E n \in Node : Contact(n) \/ Heartbeat(n) \/ Death(n) \/ Dispatcher(n)
  \/ \E m, n \in Node : Hearsay(m, n)

Spec == Init /\ [][Next]_vars

(***************************************************************************)
(* What the code keeps doing.  A suspended handler ends, by its timeout if  *)
(* by nothing else.  Every 60 s a heartbeat round probes the listed peers   *)
(* or five of them picked at random, so that each is picked again and       *)
(* again: single rounds find the node busy, but they keep coming, and the   *)
(* start of a probe is strongly fair.  Nothing says that mentions stop, nor *)
(* that the peer or anybody else ever gets in touch.                        *)
(***************************************************************************)
TaskEnds(n) ==
  \/ GossipApplied(n) \/ HeartbeatMissed(n) \/ Condemn(n) \/ HeartbeatBooked(n)
  \/ PruneRemove(n) \/ DeathMark(n) \/ DeathEvict(n) \/ PeerDownConfirmed(n)
  \/ ReconnectFailed(n)

Fairness ==
  \A n \in Node :
    /\ WF_vars(TaskEnds(n))
    /\ SF_vars(HeartbeatStart(n))

\* Time passes, every round ends in a prune scan, a closed connection wakes its
\* dispatcher and frames are read.
Housekeeping ==
  /\ []<><<Tick>>_vars
  /\ \A m, n \in Node : WF_vars(MentionReceived(m, n))
  /\ \A n \in Node :
       /\ SF_vars(PruneScan(n))
       /\ WF_vars(connections[n] = "broken" /\ DispatcherClosed(n))
       /\ WF_vars(PeerLeavingReceived(n))

FairSpec == Spec /\ Fairness
HousekeptSpec == FairSpec /\ Housekeeping

-----------------------------------------------------------------------------
(* Safety *)

\* dead_peers and peers exclude each other: a node lists a peer it has marked
\* dead only while handle_peer_death is between its mark and its removal
\* (heartbeat.rs: dead_peers.insert, then handle_peer_death, then remove_peer,
\* three critical sections that direct contact can slip between).
DeadIsUnlisted ==
  \A n \in dead_peers \cap listed : Running(n, "death") \/ Running(n, "evict")

\* last_seen is first-hand evidence: no chain of mentions, and no reply applied
\* late, makes it younger than the last moment the peer ran (add_peer and
\* update_transitive_peer).
SeenIsEvidence == \A n \in listed : last_seen[n] >= silence

\* Once the peer is gone and a node has marked it dead, hearsay cannot bring it
\* back there: only the peer itself or an explicit join lifts the mark, and no
\* marked peer is listed again (update_transitive_peer's dead check, add_peer,
\* handle_gossip_stream, the heartbeat's recovery branch).
HearsayRaisesNoDead ==
  [][\A n \in dead_peers :
       silence > 0 /\ ~alive' =>
         /\ n \in dead_peers' \/ Join(n)
         /\ n \in listed' => n \in listed]_vars

-----------------------------------------------------------------------------
(* Liveness, under FairSpec *)

\* A peer that is gone for good disappears from every node's list, again and
\* again if gossip re-adds it.
GoneIsForgotten == (<>[]~alive) => \A n \in Node : []<>(n \notin listed)

-----------------------------------------------------------------------------
(* What the documentation says, and the code does not do *)

\* "A peer survives [the prune] if either last_seen or last_mentioned is fresh"
\* and nothing is pruned within six minutes of boot (heartbeat.rs).
PruneSparesTheFresh ==
  [][\A n \in listed : PruneScan(n) => ~Recent(n)]_vars
=============================================================================
