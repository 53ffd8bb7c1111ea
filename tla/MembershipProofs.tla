-------------------------- MODULE MembershipProofs --------------------------
(***************************************************************************)
(* Proofs of Membership's safety properties for any set of nodes and any    *)
(* thresholds and bounds.                                                   *)
(***************************************************************************)
EXTENDS Membership, TLAPS

(***************************************************************************)
(* Silence is counted only while the peer is down and nothing is in flight, *)
(* so an exchange that a handler has still to apply or to book took place   *)
(* in the present tick.                                                     *)
(***************************************************************************)
SilenceIsDowntime == alive => silence = 0
AnswerIsPresent ==
  \A n \in Node : Running(n, "gossip") \/ Running(n, "hbok") => silence = 0

PresentInv == TypeOK /\ SilenceIsDowntime /\ AnswerIsPresent

(***************************************************************************)
(* What makes SeenIsEvidence inductive: last_seen is no younger than the    *)
(* silence whether or not the peer is listed, and a list entry made from    *)
(* hearsay starts at MaxAge, which needs a machine that is up long enough.  *)
(***************************************************************************)
LongUp == \A n \in Node : uptime[n] = MaxAge
SeenIsOld == \A n \in Node : last_seen[n] >= silence

EvidenceInv == PresentInv /\ LongUp /\ SeenIsOld

-----------------------------------------------------------------------------
(* Ages *)

\* A clock stays in range and never runs backwards.
LEMMA Ages ==
  /\ MaxAge \in Nat
  /\ 0 \in Age
  /\ MaxAge \in Age
  /\ Older(MaxAge) = MaxAge
  /\ \A a \in Age : a \in Nat /\ Older(a) \in Age
  /\ \A a, b \in Age : a >= b => Older(a) >= Older(b)
BY ConstantsAssumption DEF MaxAge, Age, Older

\* A counter below its threshold is below the larger threshold.
LEMMA Thresholds ==
  /\ 0 \in 0..(MaxThreshold - 1)
  /\ \A n \in Node : \A c \in 0..(MaxThreshold - 1) :
       c + 1 < Threshold(n) => c + 1 \in 0..(MaxThreshold - 1)
BY ConstantsAssumption DEF MaxThreshold, Threshold

-----------------------------------------------------------------------------
(* Types *)

\* The critical sections every handler shares keep the types of what they write.
LEMMA CriticalSectionTypes ==
  ASSUME TypeOK, NEW n \in Node
  PROVE  /\ \A t \in Task : Spawn(n, t) => tasks' \subseteq Node \X Task
         /\ \A t, u \in Task : Become(n, t, u) => tasks' \subseteq Node \X Task
         /\ \A t \in Task : Finish(n, t) => tasks' \subseteq Node \X Task
         /\ \A slot \in Slot : Attach(n, slot) => connections' \in [Node -> Slot]
         /\ AddPeer(n) => /\ listed' \subseteq Node
                          /\ dead_peers' \subseteq Node
                          /\ last_seen' \in [Node -> Age]
                          /\ last_mentioned' \in [Node -> Age]
         /\ RemovePeer(n) => /\ listed' \subseteq Node
                             /\ last_seen' \in [Node -> Age]
                             /\ last_mentioned' \in [Node -> Age]
<1>1. \A t \in Task : Spawn(n, t) => tasks' \subseteq Node \X Task
  BY DEF TypeOK, Spawn
<1>2. \A t, u \in Task : Become(n, t, u) => tasks' \subseteq Node \X Task
  BY DEF TypeOK, Become
<1>3. \A t \in Task : Finish(n, t) => tasks' \subseteq Node \X Task
  BY DEF TypeOK, Finish
<1>4. \A slot \in Slot : Attach(n, slot) => connections' \in [Node -> Slot]
  BY DEF TypeOK, Attach
<1>5. AddPeer(n) => /\ listed' \subseteq Node
                   /\ dead_peers' \subseteq Node
                   /\ last_seen' \in [Node -> Age]
                   /\ last_mentioned' \in [Node -> Age]
  BY Ages DEF TypeOK, AddPeer
<1>6. RemovePeer(n) => /\ listed' \subseteq Node
                      /\ last_seen' \in [Node -> Age]
                      /\ last_mentioned' \in [Node -> Age]
  BY Ages DEF TypeOK, RemovePeer
<1>7. QED BY <1>1, <1>2, <1>3, <1>4, <1>5, <1>6

\* Every step keeps the types.
LEMMA TypeStep == TypeOK /\ [Next]_vars => TypeOK'
<1> SUFFICES ASSUME TypeOK, [Next]_vars PROVE TypeOK'
  OBVIOUS
<1>1. CASE Tick
  BY <1>1, Ages DEF Tick, TypeOK, environment, knowledge, frames
<1>2. CASE Peer
  <2>1. Broken \in [Node -> Slot]
    BY DEF TypeOK, Broken, Slot
  <2>2. CASE Crash
    BY <2>1, <2>2 DEF Crash, TypeOK, knowledge, frames
  <2>3. CASE Leave
    BY <2>1, <2>3 DEF Leave, TypeOK, knowledge
  <2>4. CASE Start
    BY <2>4, Ages DEF Start, TypeOK, knowledge, frames
  <2>5. QED BY <1>2, <2>2, <2>3, <2>4 DEF Peer
<1>3. ASSUME NEW n \in Node, Contact(n) PROVE TypeOK'
  <2>1. CASE HandleIncoming(n)
    BY <2>1, CriticalSectionTypes, Ages DEF HandleIncoming, TypeOK, environment, knowledge, frames, Slot, Task
  <2>2. CASE GossipOpened(n)
    BY <2>2, CriticalSectionTypes, Ages DEF GossipOpened, TypeOK, environment, knowledge, frames, Slot, Task
  <2>3. CASE GossipApplied(n)
    BY <2>3, CriticalSectionTypes, Ages DEF GossipApplied, TypeOK, environment, knowledge, frames, Slot, Task
  <2>4. CASE GossipAborted(n)
    BY <2>4, CriticalSectionTypes, Ages DEF GossipAborted, TypeOK, environment, knowledge, frames, Slot, Task
  <2>5. CASE GossipAnswered(n)
    BY <2>5, CriticalSectionTypes, Ages DEF GossipAnswered, TypeOK, environment, knowledge, frames, Slot, Task
  <2>6. CASE Join(n)
    BY <2>6, CriticalSectionTypes, Ages DEF Join, TypeOK, environment, knowledge, frames, Slot, Task
  <2>7. QED BY <1>3, <2>1, <2>2, <2>3, <2>4, <2>5, <2>6 DEF Contact
<1>4. ASSUME NEW n \in Node, Heartbeat(n) PROVE TypeOK'
  <2>1. CASE HeartbeatStart(n)
    BY <2>1, CriticalSectionTypes, Ages DEF HeartbeatStart, TypeOK, environment, knowledge, frames, Slot, Task
  <2>2. CASE HeartbeatAnswered(n)
    BY <2>2, CriticalSectionTypes, Ages DEF HeartbeatAnswered, TypeOK, environment, knowledge, frames, Slot, Task
  <2>3. CASE HeartbeatBooked(n)
    BY <2>3, CriticalSectionTypes, Ages, Thresholds DEF HeartbeatBooked, TypeOK, environment, knowledge, frames, Slot, Task
  <2>4. CASE HeartbeatMissed(n)
    <3>1. fail_counts' \in [Node -> 0..(MaxThreshold - 1)]
      BY <2>4, Thresholds DEF HeartbeatMissed, TypeOK
    <3>2. tasks' \subseteq Node \X Task
      BY <2>4, CriticalSectionTypes DEF HeartbeatMissed, Task, TypeOK
    <3>3. QED BY <2>4, <3>1, <3>2 DEF HeartbeatMissed, TypeOK, environment, knowledge, frames
  <2>5. CASE PruneScan(n)
    BY <2>5, CriticalSectionTypes, Ages DEF PruneScan, TypeOK, environment, knowledge, frames, Slot, Task
  <2>6. CASE PruneRemove(n)
    BY <2>6, CriticalSectionTypes, Ages DEF PruneRemove, TypeOK, environment, knowledge, frames, Slot, Task
  <2>7. CASE HeartbeatDialed(n)
    BY <2>7, CriticalSectionTypes, Ages DEF HeartbeatDialed, TypeOK, environment, knowledge, frames, Slot, Task
  <2>8. CASE Condemn(n)
    BY <2>8, CriticalSectionTypes, Thresholds DEF Condemn, TypeOK, environment, knowledge, frames, Task
  <2>9. QED BY <1>4, <2>1, <2>2, <2>3, <2>4, <2>5, <2>6, <2>7, <2>8 DEF Heartbeat
<1>5. ASSUME NEW n \in Node, Death(n) PROVE TypeOK'
  <2>1. CASE RouteFailed(n)
    BY <2>1, CriticalSectionTypes, Ages DEF RouteFailed, TypeOK, environment, knowledge, frames, Slot, Task
  <2>2. CASE DeathMark(n)
    BY <2>2, CriticalSectionTypes, Ages DEF DeathMark, TypeOK, environment, knowledge, frames, Slot, Task
  <2>3. CASE DeathEvict(n)
    BY <2>3, CriticalSectionTypes, Ages DEF DeathEvict, TypeOK, environment, knowledge, frames, Slot, Task
  <2>4. CASE PeerDownReceived(n)
    BY <2>4, CriticalSectionTypes, Ages DEF PeerDownReceived, TypeOK, environment, knowledge, frames, Slot, Task, Confirmation
  <2>5. CASE PeerDownRefuted(n)
    BY <2>5, CriticalSectionTypes, Ages DEF PeerDownRefuted, TypeOK, environment, knowledge, frames, Slot, Task
  <2>6. CASE PeerDownConfirmed(n)
    BY <2>6, CriticalSectionTypes, Ages DEF PeerDownConfirmed, TypeOK, environment, knowledge, frames, Slot, Task
  <2>7. CASE PeerLeavingReceived(n)
    BY <2>7, CriticalSectionTypes, Ages DEF PeerLeavingReceived, TypeOK, environment, knowledge, frames, Slot, Task
  <2>8. QED BY <1>5, <2>1, <2>2, <2>3, <2>4, <2>5, <2>6, <2>7 DEF Death
<1>6. ASSUME NEW n \in Node, Dispatcher(n) PROVE TypeOK'
  <2>1. CASE DispatcherClosed(n)
    BY <2>1, CriticalSectionTypes, Ages DEF DispatcherClosed, TypeOK, environment, knowledge, frames, Slot, Task
  <2>2. CASE Redialed(n)
    BY <2>2, CriticalSectionTypes, Ages DEF Redialed, TypeOK, environment, knowledge, frames, Slot, Task
  <2>3. CASE ReconnectVerified(n)
    BY <2>3, CriticalSectionTypes, Ages DEF ReconnectVerified, TypeOK, environment, knowledge, frames, Slot, Task
  <2>4. CASE ReconnectFailed(n)
    BY <2>4, CriticalSectionTypes, Ages DEF ReconnectFailed, TypeOK, environment, knowledge, frames, Slot, Task
  <2>5. QED BY <1>6, <2>1, <2>2, <2>3, <2>4 DEF Dispatcher
<1>7. ASSUME NEW m \in Node, NEW n \in Node, Hearsay(m, n) PROVE TypeOK'
  <2>1. CASE Announce(m, n)
    BY <2>1 DEF Announce, TypeOK, environment, knowledge
  <2>2. CASE MentionReceived(m, n)
    BY <2>2, Ages DEF MentionReceived, UpdateTransitivePeer, TypeOK, environment, knowledge
  <2>3. CASE MentionLost(m, n)
    BY <2>3 DEF MentionLost, TypeOK, environment, knowledge
  <2>4. QED BY <1>7, <2>1, <2>2, <2>3 DEF Hearsay
<1>8. CASE UNCHANGED vars
  BY <1>8 DEF vars, TypeOK
<1>9. QED BY <1>1, <1>2, <1>3, <1>4, <1>5, <1>6, <1>7, <1>8 DEF Next

LEMMA TypeInit == Init => TypeOK
BY Ages, Thresholds DEF Init, TypeOK, Slot

\* Type correctness, for every set of nodes and every bound: in particular a
\* heartbeat failure counter stays below the larger threshold.
THEOREM TypeCorrect == Spec => []TypeOK
BY TypeInit, TypeStep, PTL DEF Spec

-----------------------------------------------------------------------------
(* A dead mark and a list entry *)

\* Every step keeps DeadIsUnlisted: whoever lists the peer lifts the mark in the
\* same critical section, and whoever marks it leaves a handler that removes it.
LEMMA DeadStep == TypeOK /\ DeadIsUnlisted /\ [Next]_vars => DeadIsUnlisted'
<1> SUFFICES ASSUME TypeOK, DeadIsUnlisted, [Next]_vars PROVE DeadIsUnlisted'
  OBVIOUS
<1>1. CASE Tick
  BY <1>1 DEF Tick, DeadIsUnlisted, Running
<1>2. CASE Peer
  BY <1>2 DEF Peer, Crash, Leave, Start, DeadIsUnlisted, Running, knowledge
<1>3. ASSUME NEW n \in Node, Contact(n) PROVE DeadIsUnlisted'
  <2>1. CASE HandleIncoming(n)
    BY <2>1 DEF HandleIncoming, DeadIsUnlisted, knowledge, Spawn, Become, Finish, Running, AddPeer, RemovePeer
  <2>2. CASE GossipOpened(n)
    BY <2>2 DEF GossipOpened, DeadIsUnlisted, knowledge, Spawn, Become, Finish, Running, AddPeer, RemovePeer
  <2>3. CASE GossipApplied(n)
    BY <2>3 DEF GossipApplied, DeadIsUnlisted, knowledge, Spawn, Become, Finish, Running, AddPeer, RemovePeer
  <2>4. CASE GossipAborted(n)
    BY <2>4 DEF GossipAborted, DeadIsUnlisted, knowledge, Spawn, Become, Finish, Running, AddPeer, RemovePeer
  <2>5. CASE GossipAnswered(n)
    BY <2>5 DEF GossipAnswered, DeadIsUnlisted, knowledge, Spawn, Become, Finish, Running, AddPeer, RemovePeer
  <2>6. CASE Join(n)
    BY <2>6 DEF Join, DeadIsUnlisted, knowledge, Spawn, Become, Finish, Running, AddPeer, RemovePeer
  <2>7. QED BY <1>3, <2>1, <2>2, <2>3, <2>4, <2>5, <2>6 DEF Contact
<1>4. ASSUME NEW n \in Node, Heartbeat(n) PROVE DeadIsUnlisted'
  <2>1. CASE HeartbeatStart(n)
    BY <2>1 DEF HeartbeatStart, DeadIsUnlisted, knowledge, Spawn, Become, Finish, Running, AddPeer, RemovePeer
  <2>2. CASE HeartbeatAnswered(n)
    BY <2>2 DEF HeartbeatAnswered, DeadIsUnlisted, knowledge, Spawn, Become, Finish, Running, AddPeer, RemovePeer
  <2>3. CASE HeartbeatBooked(n)
    BY <2>3 DEF HeartbeatBooked, DeadIsUnlisted, knowledge, Spawn, Become, Finish, Running, AddPeer, RemovePeer
  <2>4. CASE HeartbeatMissed(n)
    BY <2>4 DEF HeartbeatMissed, DeadIsUnlisted, knowledge, Spawn, Become, Finish, Running, AddPeer, RemovePeer
  <2>5. CASE PruneScan(n)
    BY <2>5 DEF PruneScan, DeadIsUnlisted, knowledge, Spawn, Become, Finish, Running, AddPeer, RemovePeer
  <2>6. CASE PruneRemove(n)
    BY <2>6 DEF PruneRemove, DeadIsUnlisted, knowledge, Spawn, Become, Finish, Running, AddPeer, RemovePeer
  <2>7. CASE HeartbeatDialed(n)
    BY <2>7 DEF HeartbeatDialed, DeadIsUnlisted, knowledge, Spawn, Become, Finish, Running, AddPeer, RemovePeer
  <2>8. CASE Condemn(n)
    BY <2>8 DEF Condemn, DeadIsUnlisted, knowledge, Spawn, Become, Finish, Running, AddPeer, RemovePeer
  <2>9. QED BY <1>4, <2>1, <2>2, <2>3, <2>4, <2>5, <2>6, <2>7, <2>8 DEF Heartbeat
<1>5. ASSUME NEW n \in Node, Death(n) PROVE DeadIsUnlisted'
  <2>1. CASE RouteFailed(n)
    BY <2>1 DEF RouteFailed, DeadIsUnlisted, knowledge, Spawn, Become, Finish, Running, AddPeer, RemovePeer
  <2>2. CASE DeathMark(n)
    BY <2>2 DEF DeathMark, DeadIsUnlisted, knowledge, Spawn, Become, Finish, Running, AddPeer, RemovePeer
  <2>3. CASE DeathEvict(n)
    BY <2>3 DEF DeathEvict, DeadIsUnlisted, knowledge, Spawn, Become, Finish, Running, AddPeer, RemovePeer
  <2>4. CASE PeerDownReceived(n)
    BY <2>4 DEF PeerDownReceived, DeadIsUnlisted, knowledge, Spawn, Become, Finish, Running, AddPeer, RemovePeer
  <2>5. CASE PeerDownRefuted(n)
    BY <2>5 DEF PeerDownRefuted, DeadIsUnlisted, knowledge, Spawn, Become, Finish, Running, AddPeer, RemovePeer
  <2>6. CASE PeerDownConfirmed(n)
    BY <2>6 DEF PeerDownConfirmed, DeadIsUnlisted, knowledge, Spawn, Become, Finish, Running, AddPeer, RemovePeer
  <2>7. CASE PeerLeavingReceived(n)
    BY <2>7 DEF PeerLeavingReceived, DeadIsUnlisted, knowledge, Spawn, Become, Finish, Running, AddPeer, RemovePeer
  <2>8. QED BY <1>5, <2>1, <2>2, <2>3, <2>4, <2>5, <2>6, <2>7 DEF Death
<1>6. ASSUME NEW n \in Node, Dispatcher(n) PROVE DeadIsUnlisted'
  <2>1. CASE DispatcherClosed(n)
    BY <2>1 DEF DispatcherClosed, DeadIsUnlisted, knowledge, Spawn, Become, Finish, Running, AddPeer, RemovePeer
  <2>2. CASE Redialed(n)
    BY <2>2 DEF Redialed, DeadIsUnlisted, knowledge, Spawn, Become, Finish, Running, AddPeer, RemovePeer
  <2>3. CASE ReconnectVerified(n)
    BY <2>3 DEF ReconnectVerified, DeadIsUnlisted, knowledge, Spawn, Become, Finish, Running, AddPeer, RemovePeer
  <2>4. CASE ReconnectFailed(n)
    BY <2>4 DEF ReconnectFailed, DeadIsUnlisted, knowledge, Spawn, Become, Finish, Running, AddPeer, RemovePeer
  <2>5. QED BY <1>6, <2>1, <2>2, <2>3, <2>4 DEF Dispatcher
<1>7. ASSUME NEW m \in Node, NEW n \in Node, Hearsay(m, n) PROVE DeadIsUnlisted'
  <2>1. CASE MentionReceived(m, n)
    BY <2>1 DEF MentionReceived, UpdateTransitivePeer, DeadIsUnlisted, knowledge, Running
  <2>2. QED
    BY <1>7, <2>1 DEF Hearsay, Announce, MentionLost, DeadIsUnlisted, knowledge, Running
<1>8. CASE UNCHANGED vars
  BY <1>8 DEF vars, DeadIsUnlisted, Running
<1>9. QED BY <1>1, <1>2, <1>3, <1>4, <1>5, <1>6, <1>7, <1>8 DEF Next

\* A node lists a peer it has marked dead only between handle_peer_death's mark
\* and its removal, however the handlers of a node interleave.
THEOREM DeadUnlisted == Spec => []DeadIsUnlisted
<1>1. Init => DeadIsUnlisted
  BY DEF Init, DeadIsUnlisted
<1>2. QED BY <1>1, TypeCorrect, DeadStep, PTL DEF Spec

-----------------------------------------------------------------------------
(* Exchanges belong to the present *)

\* Every step keeps PresentInv: only a running peer completes an exchange.
LEMMA PresentStep == PresentInv /\ [Next]_vars => PresentInv'
<1> SUFFICES ASSUME PresentInv, [Next]_vars
             PROVE  SilenceIsDowntime' /\ AnswerIsPresent'
  BY TypeStep DEF PresentInv
<1> USE DEF PresentInv
<1>1. CASE Tick
  BY <1>1 DEF Tick, SilenceIsDowntime, AnswerIsPresent, Running
<1>2. CASE Peer
  BY <1>2 DEF Peer, Crash, Leave, Start, SilenceIsDowntime, AnswerIsPresent, Running
<1>3. ASSUME NEW n \in Node, Contact(n) PROVE SilenceIsDowntime' /\ AnswerIsPresent'
  <2>1. CASE HandleIncoming(n)
    BY <2>1 DEF HandleIncoming, SilenceIsDowntime, AnswerIsPresent, environment, Spawn, Become, Finish, Running
  <2>2. CASE GossipOpened(n)
    BY <2>2 DEF GossipOpened, SilenceIsDowntime, AnswerIsPresent, environment, Spawn, Become, Finish, Running
  <2>3. CASE GossipApplied(n)
    BY <2>3 DEF GossipApplied, SilenceIsDowntime, AnswerIsPresent, environment, Spawn, Become, Finish, Running
  <2>4. CASE GossipAborted(n)
    BY <2>4 DEF GossipAborted, SilenceIsDowntime, AnswerIsPresent, environment, Spawn, Become, Finish, Running
  <2>5. CASE GossipAnswered(n)
    BY <2>5 DEF GossipAnswered, SilenceIsDowntime, AnswerIsPresent, environment, Spawn, Become, Finish, Running
  <2>6. CASE Join(n)
    BY <2>6 DEF Join, SilenceIsDowntime, AnswerIsPresent, environment, Spawn, Become, Finish, Running
  <2>7. QED BY <1>3, <2>1, <2>2, <2>3, <2>4, <2>5, <2>6 DEF Contact
<1>4. ASSUME NEW n \in Node, Heartbeat(n) PROVE SilenceIsDowntime' /\ AnswerIsPresent'
  <2>1. CASE HeartbeatStart(n)
    BY <2>1 DEF HeartbeatStart, SilenceIsDowntime, AnswerIsPresent, environment, Spawn, Become, Finish, Running
  <2>2. CASE HeartbeatAnswered(n)
    BY <2>2 DEF HeartbeatAnswered, SilenceIsDowntime, AnswerIsPresent, environment, Spawn, Become, Finish, Running
  <2>3. CASE HeartbeatBooked(n)
    BY <2>3 DEF HeartbeatBooked, SilenceIsDowntime, AnswerIsPresent, environment, Spawn, Become, Finish, Running
  <2>4. CASE HeartbeatMissed(n)
    BY <2>4 DEF HeartbeatMissed, SilenceIsDowntime, AnswerIsPresent, environment, Spawn, Become, Finish, Running
  <2>5. CASE PruneScan(n)
    BY <2>5 DEF PruneScan, SilenceIsDowntime, AnswerIsPresent, environment, Spawn, Become, Finish, Running
  <2>6. CASE PruneRemove(n)
    BY <2>6 DEF PruneRemove, SilenceIsDowntime, AnswerIsPresent, environment, Spawn, Become, Finish, Running
  <2>7. CASE HeartbeatDialed(n)
    BY <2>7 DEF HeartbeatDialed, SilenceIsDowntime, AnswerIsPresent, environment, Spawn, Become, Finish, Running
  <2>8. CASE Condemn(n)
    BY <2>8 DEF Condemn, SilenceIsDowntime, AnswerIsPresent, environment, Spawn, Become, Finish, Running
  <2>9. QED BY <1>4, <2>1, <2>2, <2>3, <2>4, <2>5, <2>6, <2>7, <2>8 DEF Heartbeat
<1>5. ASSUME NEW n \in Node, Death(n) PROVE SilenceIsDowntime' /\ AnswerIsPresent'
  <2>1. CASE RouteFailed(n)
    BY <2>1 DEF RouteFailed, SilenceIsDowntime, AnswerIsPresent, environment, Spawn, Become, Finish, Running
  <2>2. CASE DeathMark(n)
    BY <2>2 DEF DeathMark, SilenceIsDowntime, AnswerIsPresent, environment, Spawn, Become, Finish, Running
  <2>3. CASE DeathEvict(n)
    BY <2>3 DEF DeathEvict, SilenceIsDowntime, AnswerIsPresent, environment, Spawn, Become, Finish, Running
  <2>4. CASE PeerDownReceived(n)
    BY <2>4 DEF PeerDownReceived, SilenceIsDowntime, AnswerIsPresent, environment, Spawn, Become, Finish, Running, Confirmation
  <2>5. CASE PeerDownRefuted(n)
    BY <2>5 DEF PeerDownRefuted, SilenceIsDowntime, AnswerIsPresent, environment, Spawn, Become, Finish, Running
  <2>6. CASE PeerDownConfirmed(n)
    BY <2>6 DEF PeerDownConfirmed, SilenceIsDowntime, AnswerIsPresent, environment, Spawn, Become, Finish, Running
  <2>7. CASE PeerLeavingReceived(n)
    BY <2>7 DEF PeerLeavingReceived, SilenceIsDowntime, AnswerIsPresent, environment, Spawn, Become, Finish, Running
  <2>8. QED BY <1>5, <2>1, <2>2, <2>3, <2>4, <2>5, <2>6, <2>7 DEF Death
<1>6. ASSUME NEW n \in Node, Dispatcher(n) PROVE SilenceIsDowntime' /\ AnswerIsPresent'
  <2>1. CASE DispatcherClosed(n)
    BY <2>1 DEF DispatcherClosed, SilenceIsDowntime, AnswerIsPresent, environment, Spawn, Become, Finish, Running
  <2>2. CASE Redialed(n)
    BY <2>2 DEF Redialed, SilenceIsDowntime, AnswerIsPresent, environment, Spawn, Become, Finish, Running
  <2>3. CASE ReconnectVerified(n)
    BY <2>3 DEF ReconnectVerified, SilenceIsDowntime, AnswerIsPresent, environment, Spawn, Become, Finish, Running
  <2>4. CASE ReconnectFailed(n)
    BY <2>4 DEF ReconnectFailed, SilenceIsDowntime, AnswerIsPresent, environment, Spawn, Become, Finish, Running
  <2>5. QED BY <1>6, <2>1, <2>2, <2>3, <2>4 DEF Dispatcher
<1>7. ASSUME NEW m \in Node, NEW n \in Node, Hearsay(m, n)
      PROVE  SilenceIsDowntime' /\ AnswerIsPresent'
  BY <1>7 DEF Hearsay, Announce, MentionReceived, MentionLost,
              SilenceIsDowntime, AnswerIsPresent, environment, Running
<1>8. CASE UNCHANGED vars
  BY <1>8 DEF vars, SilenceIsDowntime, AnswerIsPresent, Running
<1>9. QED BY <1>1, <1>2, <1>3, <1>4, <1>5, <1>6, <1>7, <1>8 DEF Next

LEMMA PresentAlways == Spec => []PresentInv
<1>1. Init => PresentInv
  BY TypeInit DEF Init, PresentInv, SilenceIsDowntime, AnswerIsPresent, Running
<1>2. QED BY <1>1, PresentStep, PTL DEF Spec

-----------------------------------------------------------------------------
(* last_seen is first-hand evidence *)

\* Every step keeps EvidenceInv: last_seen is refreshed only by an exchange of
\* the present tick, and grows at least as fast as the silence.
LEMMA EvidenceStep == EvidenceInv /\ [Next]_vars => EvidenceInv'
<1> SUFFICES ASSUME EvidenceInv, [Next]_vars
             PROVE  LongUp' /\ SeenIsOld'
  BY PresentStep DEF EvidenceInv
<1>0. PresentInv /\ TypeOK /\ LongUp /\ SeenIsOld
  BY DEF EvidenceInv, PresentInv
<1>1. CASE Tick
  <2>1. LongUp'
    BY <1>0, <1>1, Ages DEF Tick, LongUp
  <2>2. SeenIsOld'
    <3>1. \A n \in Node : last_seen'[n] = Older(last_seen[n]) /\ last_seen[n] \in Age
      BY <1>0, <1>1 DEF Tick, TypeOK
    <3>2. silence \in Age /\ (silence' = 0 \/ silence' = Older(silence))
      BY <1>0, <1>1 DEF Tick, TypeOK
    <3>3. \A n \in Node : last_seen'[n] \in Nat /\ last_seen'[n] >= Older(silence)
      BY <1>0, <3>1, <3>2, Ages DEF SeenIsOld
    <3>4. QED BY <3>2, <3>3 DEF SeenIsOld
  <2>3. QED BY <2>1, <2>2
<1>2. CASE Peer
  BY <1>0, <1>2, Ages DEF Peer, Crash, Leave, Start, LongUp, SeenIsOld, TypeOK, knowledge, Age
<1>3. ASSUME NEW n \in Node, Contact(n) PROVE LongUp' /\ SeenIsOld'
  <2>1. CASE HandleIncoming(n)
    BY <2>1, <1>0, Ages DEF HandleIncoming, LongUp, SeenIsOld, TypeOK, PresentInv, SilenceIsDowntime, AnswerIsPresent, environment, knowledge, Age, AddPeer, RemovePeer
  <2>2. CASE GossipOpened(n)
    BY <2>2, <1>0, Ages DEF GossipOpened, LongUp, SeenIsOld, TypeOK, PresentInv, SilenceIsDowntime, AnswerIsPresent, environment, knowledge, Age, AddPeer, RemovePeer
  <2>3. CASE GossipApplied(n)
    BY <2>3, <1>0, Ages DEF GossipApplied, LongUp, SeenIsOld, TypeOK, PresentInv, SilenceIsDowntime, AnswerIsPresent, environment, knowledge, Age, AddPeer, RemovePeer
  <2>4. CASE GossipAborted(n)
    BY <2>4, <1>0, Ages DEF GossipAborted, LongUp, SeenIsOld, TypeOK, PresentInv, SilenceIsDowntime, AnswerIsPresent, environment, knowledge, Age, AddPeer, RemovePeer
  <2>5. CASE GossipAnswered(n)
    BY <2>5, <1>0, Ages DEF GossipAnswered, LongUp, SeenIsOld, TypeOK, PresentInv, SilenceIsDowntime, AnswerIsPresent, environment, knowledge, Age, AddPeer, RemovePeer
  <2>6. CASE Join(n)
    BY <2>6, <1>0, Ages DEF Join, LongUp, SeenIsOld, TypeOK, PresentInv, SilenceIsDowntime, AnswerIsPresent, environment, knowledge, Age, AddPeer, RemovePeer
  <2>7. QED BY <1>3, <2>1, <2>2, <2>3, <2>4, <2>5, <2>6 DEF Contact
<1>4. ASSUME NEW n \in Node, Heartbeat(n) PROVE LongUp' /\ SeenIsOld'
  <2>1. CASE HeartbeatStart(n)
    BY <2>1, <1>0, Ages DEF HeartbeatStart, LongUp, SeenIsOld, TypeOK, PresentInv, SilenceIsDowntime, AnswerIsPresent, environment, knowledge, Age, AddPeer, RemovePeer
  <2>2. CASE HeartbeatAnswered(n)
    BY <2>2, <1>0, Ages DEF HeartbeatAnswered, LongUp, SeenIsOld, TypeOK, PresentInv, SilenceIsDowntime, AnswerIsPresent, environment, knowledge, Age, AddPeer, RemovePeer
  <2>3. CASE HeartbeatBooked(n)
    BY <2>3, <1>0, Ages DEF HeartbeatBooked, LongUp, SeenIsOld, TypeOK, PresentInv, SilenceIsDowntime, AnswerIsPresent, environment, knowledge, Age, AddPeer, RemovePeer
  <2>4. CASE HeartbeatMissed(n)
    BY <2>4, <1>0, Ages DEF HeartbeatMissed, LongUp, SeenIsOld, TypeOK, PresentInv, SilenceIsDowntime, AnswerIsPresent, environment, knowledge, Age, AddPeer, RemovePeer
  <2>5. CASE PruneScan(n)
    BY <2>5, <1>0, Ages DEF PruneScan, LongUp, SeenIsOld, TypeOK, PresentInv, SilenceIsDowntime, AnswerIsPresent, environment, knowledge, Age, AddPeer, RemovePeer
  <2>6. CASE PruneRemove(n)
    BY <2>6, <1>0, Ages DEF PruneRemove, LongUp, SeenIsOld, TypeOK, PresentInv, SilenceIsDowntime, AnswerIsPresent, environment, knowledge, Age, AddPeer, RemovePeer
  <2>7. CASE HeartbeatDialed(n)
    BY <2>7, <1>0, Ages DEF HeartbeatDialed, LongUp, SeenIsOld, TypeOK, PresentInv, SilenceIsDowntime, AnswerIsPresent, environment, knowledge, Age, AddPeer, RemovePeer
  <2>8. CASE Condemn(n)
    BY <2>8, <1>0, Ages DEF Condemn, LongUp, SeenIsOld, TypeOK, PresentInv, SilenceIsDowntime, AnswerIsPresent, environment, knowledge, Age, AddPeer, RemovePeer
  <2>9. QED BY <1>4, <2>1, <2>2, <2>3, <2>4, <2>5, <2>6, <2>7, <2>8 DEF Heartbeat
<1>5. ASSUME NEW n \in Node, Death(n) PROVE LongUp' /\ SeenIsOld'
  <2>1. CASE RouteFailed(n)
    BY <2>1, <1>0, Ages DEF RouteFailed, LongUp, SeenIsOld, TypeOK, PresentInv, SilenceIsDowntime, AnswerIsPresent, environment, knowledge, Age, AddPeer, RemovePeer
  <2>2. CASE DeathMark(n)
    BY <2>2, <1>0, Ages DEF DeathMark, LongUp, SeenIsOld, TypeOK, PresentInv, SilenceIsDowntime, AnswerIsPresent, environment, knowledge, Age, AddPeer, RemovePeer
  <2>3. CASE DeathEvict(n)
    BY <2>3, <1>0, Ages DEF DeathEvict, LongUp, SeenIsOld, TypeOK, PresentInv, SilenceIsDowntime, AnswerIsPresent, environment, knowledge, Age, AddPeer, RemovePeer
  <2>4. CASE PeerDownReceived(n)
    BY <2>4, <1>0, Ages DEF PeerDownReceived, LongUp, SeenIsOld, TypeOK, PresentInv, SilenceIsDowntime, AnswerIsPresent, environment, knowledge, Age, AddPeer, RemovePeer
  <2>5. CASE PeerDownRefuted(n)
    BY <2>5, <1>0, Ages DEF PeerDownRefuted, LongUp, SeenIsOld, TypeOK, PresentInv, SilenceIsDowntime, AnswerIsPresent, environment, knowledge, Age, AddPeer, RemovePeer
  <2>6. CASE PeerDownConfirmed(n)
    BY <2>6, <1>0, Ages DEF PeerDownConfirmed, LongUp, SeenIsOld, TypeOK, PresentInv, SilenceIsDowntime, AnswerIsPresent, environment, knowledge, Age, AddPeer, RemovePeer
  <2>7. CASE PeerLeavingReceived(n)
    BY <2>7, <1>0, Ages DEF PeerLeavingReceived, LongUp, SeenIsOld, TypeOK, PresentInv, SilenceIsDowntime, AnswerIsPresent, environment, knowledge, Age, AddPeer, RemovePeer
  <2>8. QED BY <1>5, <2>1, <2>2, <2>3, <2>4, <2>5, <2>6, <2>7 DEF Death
<1>6. ASSUME NEW n \in Node, Dispatcher(n) PROVE LongUp' /\ SeenIsOld'
  <2>1. CASE DispatcherClosed(n)
    BY <2>1, <1>0, Ages DEF DispatcherClosed, LongUp, SeenIsOld, TypeOK, PresentInv, SilenceIsDowntime, AnswerIsPresent, environment, knowledge, Age, AddPeer, RemovePeer
  <2>2. CASE Redialed(n)
    BY <2>2, <1>0, Ages DEF Redialed, LongUp, SeenIsOld, TypeOK, PresentInv, SilenceIsDowntime, AnswerIsPresent, environment, knowledge, Age, AddPeer, RemovePeer
  <2>3. CASE ReconnectVerified(n)
    BY <2>3, <1>0, Ages DEF ReconnectVerified, LongUp, SeenIsOld, TypeOK, PresentInv, SilenceIsDowntime, AnswerIsPresent, environment, knowledge, Age, AddPeer, RemovePeer
  <2>4. CASE ReconnectFailed(n)
    BY <2>4, <1>0, Ages DEF ReconnectFailed, LongUp, SeenIsOld, TypeOK, PresentInv, SilenceIsDowntime, AnswerIsPresent, environment, knowledge, Age, AddPeer, RemovePeer
  <2>5. QED BY <1>6, <2>1, <2>2, <2>3, <2>4 DEF Dispatcher
<1>7. ASSUME NEW m \in Node, NEW n \in Node, Hearsay(m, n) PROVE LongUp' /\ SeenIsOld'
  <2>1. CASE MentionReceived(m, n)
    BY <1>0, <2>1, Ages DEF MentionReceived, UpdateTransitivePeer, LongUp, SeenIsOld,
                            TypeOK, environment, knowledge, Age
  <2>2. QED
    BY <1>0, <1>7, <2>1 DEF Hearsay, Announce, MentionLost, LongUp, SeenIsOld,
                            environment, knowledge
<1>8. CASE UNCHANGED vars
  BY <1>0, <1>8 DEF vars, LongUp, SeenIsOld
<1>9. QED BY <1>1, <1>2, <1>3, <1>4, <1>5, <1>6, <1>7, <1>8 DEF Next

\* Where Instant can go below the machine's boot, a peer's last_seen is never
\* younger than the peer's silence: no mention, however relayed or delayed,
\* passes for a proof of life.
THEOREM SeenEvidence == ~BootAnchored => (Spec => []SeenIsEvidence)
<1> SUFFICES ASSUME ~BootAnchored PROVE Spec => []SeenIsEvidence
  OBVIOUS
<1>1. Init => EvidenceInv
  <2>1. Init => PresentInv
    BY TypeInit DEF Init, PresentInv, SilenceIsDowntime, AnswerIsPresent, Running
  <2>2. Init => LongUp /\ SeenIsOld
    BY DEF Init, LongUp, SeenIsOld
  <2>3. QED BY <2>1, <2>2 DEF EvidenceInv
<1>2. EvidenceInv => SeenIsEvidence
  BY DEF EvidenceInv, PresentInv, TypeOK, SeenIsOld, SeenIsEvidence
<1>3. QED BY <1>1, <1>2, EvidenceStep, PTL DEF Spec

-----------------------------------------------------------------------------
(* Hearsay and dead marks *)

\* What HearsayRaisesNoDead says of one step.
RaisesNoDead ==
  \A n \in dead_peers :
    silence > 0 /\ ~alive' =>
      /\ n \in dead_peers' \/ Join(n)
      /\ n \in listed' => n \in listed

LEMMA RaisesNoDeadStep == PresentInv /\ [Next]_vars => RaisesNoDead \/ UNCHANGED vars
<1> SUFFICES ASSUME PresentInv, [Next]_vars, ~UNCHANGED vars,
                    silence > 0, ~alive', NEW d \in dead_peers
             PROVE  /\ d \in dead_peers' \/ Join(d)
                    /\ d \in listed' => d \in listed
  BY DEF RaisesNoDead
<1>0. /\ TypeOK /\ ~(silence = 0)
      /\ ~alive
      /\ \A n \in Node : ~Running(n, "gossip") /\ ~Running(n, "hbok")
  BY Ages DEF PresentInv, SilenceIsDowntime, AnswerIsPresent, TypeOK
<1>1. CASE Tick
  BY <1>1 DEF Tick
<1>2. CASE Peer
  BY <1>0, <1>2 DEF Peer, Crash, Leave, Start, knowledge
<1>3. ASSUME NEW n \in Node, Contact(n)
      PROVE  (d \in dead_peers' \/ Join(d)) /\ (d \in listed' => d \in listed)
  <2>1. CASE HandleIncoming(n)
    BY <2>1, <1>0 DEF HandleIncoming, knowledge, RemovePeer, environment
  <2>2. CASE GossipOpened(n)
    BY <2>2, <1>0 DEF GossipOpened, knowledge, RemovePeer, environment
  <2>3. CASE GossipApplied(n)
    BY <2>3, <1>0 DEF GossipApplied, knowledge, RemovePeer, environment
  <2>4. CASE GossipAborted(n)
    BY <2>4, <1>0 DEF GossipAborted, knowledge, RemovePeer, environment
  <2>5. CASE GossipAnswered(n)
    BY <2>5, <1>0 DEF GossipAnswered, knowledge, RemovePeer, environment
  <2>6. CASE Join(n)
    BY <2>6, <1>0 DEF Join, knowledge, RemovePeer, environment
  <2>7. QED BY <1>3, <2>1, <2>2, <2>3, <2>4, <2>5, <2>6 DEF Contact
<1>4. ASSUME NEW n \in Node, Heartbeat(n)
      PROVE  (d \in dead_peers' \/ Join(d)) /\ (d \in listed' => d \in listed)
  <2>1. CASE HeartbeatStart(n)
    BY <2>1, <1>0 DEF HeartbeatStart, knowledge, RemovePeer, environment
  <2>2. CASE HeartbeatAnswered(n)
    BY <2>2, <1>0 DEF HeartbeatAnswered, knowledge, RemovePeer, environment
  <2>3. CASE HeartbeatBooked(n)
    BY <2>3, <1>0 DEF HeartbeatBooked, knowledge, RemovePeer, environment
  <2>4. CASE HeartbeatMissed(n)
    BY <2>4, <1>0 DEF HeartbeatMissed, knowledge, RemovePeer, environment
  <2>5. CASE PruneScan(n)
    BY <2>5, <1>0 DEF PruneScan, knowledge, RemovePeer, environment
  <2>6. CASE PruneRemove(n)
    BY <2>6, <1>0 DEF PruneRemove, knowledge, RemovePeer, environment
  <2>7. CASE HeartbeatDialed(n)
    BY <2>7, <1>0 DEF HeartbeatDialed, knowledge, RemovePeer, environment
  <2>8. CASE Condemn(n)
    BY <2>8, <1>0 DEF Condemn, knowledge, RemovePeer, environment
  <2>9. QED BY <1>4, <2>1, <2>2, <2>3, <2>4, <2>5, <2>6, <2>7, <2>8 DEF Heartbeat
<1>5. ASSUME NEW n \in Node, Death(n)
      PROVE  (d \in dead_peers' \/ Join(d)) /\ (d \in listed' => d \in listed)
  <2>1. CASE RouteFailed(n)
    BY <2>1, <1>0 DEF RouteFailed, knowledge, RemovePeer, environment
  <2>2. CASE DeathMark(n)
    BY <2>2, <1>0 DEF DeathMark, knowledge, RemovePeer, environment
  <2>3. CASE DeathEvict(n)
    BY <2>3, <1>0 DEF DeathEvict, knowledge, RemovePeer, environment
  <2>4. CASE PeerDownReceived(n)
    BY <2>4, <1>0 DEF PeerDownReceived, knowledge, RemovePeer, environment
  <2>5. CASE PeerDownRefuted(n)
    BY <2>5, <1>0 DEF PeerDownRefuted, knowledge, RemovePeer, environment
  <2>6. CASE PeerDownConfirmed(n)
    BY <2>6, <1>0 DEF PeerDownConfirmed, knowledge, RemovePeer, environment
  <2>7. CASE PeerLeavingReceived(n)
    BY <2>7, <1>0 DEF PeerLeavingReceived, knowledge, RemovePeer, environment
  <2>8. QED BY <1>5, <2>1, <2>2, <2>3, <2>4, <2>5, <2>6, <2>7 DEF Death
<1>6. ASSUME NEW n \in Node, Dispatcher(n)
      PROVE  (d \in dead_peers' \/ Join(d)) /\ (d \in listed' => d \in listed)
  <2>1. CASE DispatcherClosed(n)
    BY <2>1, <1>0 DEF DispatcherClosed, knowledge, RemovePeer, environment
  <2>2. CASE Redialed(n)
    BY <2>2, <1>0 DEF Redialed, knowledge, RemovePeer, environment
  <2>3. CASE ReconnectVerified(n)
    BY <2>3, <1>0 DEF ReconnectVerified, knowledge, RemovePeer, environment
  <2>4. CASE ReconnectFailed(n)
    BY <2>4, <1>0 DEF ReconnectFailed, knowledge, RemovePeer, environment
  <2>5. QED BY <1>6, <2>1, <2>2, <2>3, <2>4 DEF Dispatcher
<1>7. ASSUME NEW m \in Node, NEW n \in Node, Hearsay(m, n)
      PROVE  (d \in dead_peers' \/ Join(d)) /\ (d \in listed' => d \in listed)
  BY <1>7 DEF Hearsay, Announce, MentionReceived, MentionLost, UpdateTransitivePeer, knowledge
<1>8. QED BY <1>1, <1>2, <1>3, <1>4, <1>5, <1>6, <1>7 DEF Next

\* While the peer is down, a node's dead mark is lifted by an explicit join and
\* by nothing else, and no node lists a peer it has marked dead, on any hearsay.
THEOREM DeadStaysDead == Spec => HearsayRaisesNoDead
<1>1. PresentInv /\ [Next]_vars => [RaisesNoDead]_vars
  BY RaisesNoDeadStep
<1>2. Spec => [][RaisesNoDead]_vars
  BY <1>1, PresentAlways, PTL DEF Spec
<1>3. QED BY <1>2 DEF HearsayRaisesNoDead, RaisesNoDead
=============================================================================
