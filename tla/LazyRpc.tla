------------------------------- MODULE LazyRpc -------------------------------
(***************************************************************************)
(* The on-demand rpc-server of a pipeline worker (inference/lazy_rpc.rs).   *)
(*                                                                         *)
(* One election loop per model takes a hold while its model needs this node *)
(* as a split worker; all holds share one rpc-server.  The first hold       *)
(* spawns it, a tick tears it down once nobody has held it for a while.     *)
(* The state behind the async mutex is handle, holders and idle_since; the  *)
(* tunnel's rpc_port and the gossiped rpc_ready bit are written partly      *)
(* outside it.                                                              *)
(***************************************************************************)
EXTENDS Integers, FiniteSets

CONSTANTS
  Loop,        \* the election loops
  MaxSpawns,   \* bound: rpc-servers ever spawned
  MaxReleases  \* bound: release tasks waiting for the mutex at a time

ASSUME ConstantsAssumption ==
  IsFiniteSet(Loop) /\ MaxSpawns \in Nat /\ MaxReleases \in Nat

VARIABLES
  phase,       \* [Loop -> Phase]: where each election loop is
  handle,      \* inner.handle: the server owned, or None
  holders,     \* inner.holders
  idle_since,  \* inner.idle_since: "none", "fresh", or "expired"
  releases,    \* release tasks spawned by dropped holds and not yet run
  rpc_port,    \* the tunnel's rpc_port: a server's port, or 0
  rpc_ready,   \* the node's gossiped readiness bit
  closing,     \* [Closer -> teardown under way]
  server,      \* [Server -> life]: the rpc-server processes
  spawned,     \* servers spawned so far
  stopping,    \* the runtime is shutting down
  shut         \* LazyRpcServer::shutdown has taken the lock

vars == <<phase, handle, holders, idle_since, releases, rpc_port, rpc_ready,
          closing, server, spawned, stopping, shut>>

inner == <<handle, holders, idle_since>>
advert == <<rpc_port, rpc_ready>>
process == <<server, spawned>>
lifetime == <<stopping, shut>>

Server == 1..MaxSpawns
None == 0                       \* also the port 0 that drops streams
Phase == {"idle", "spawning", "announcing", "gossiping", "held", "stopped"}
Closer == {"tick", "shutdown"}
Step == {"off", "port", "ready", "kill"}
Life == {"unborn", "starting", "up", "gone", "killed", "orphan"}

TypeOK ==
  /\ phase \in [Loop -> Phase]
  /\ handle \in Server \cup {None}
  /\ holders \in Nat
  /\ idle_since \in {"none", "fresh", "expired"}
  /\ releases \in Nat
  /\ rpc_port \in Server \cup {None}
  /\ rpc_ready \in BOOLEAN
  /\ closing \in [Closer -> [step : Step, server : Server \cup {None}]]
  /\ server \in [Server -> Life]
  /\ spawned \in 0..MaxSpawns
  /\ stopping \in BOOLEAN
  /\ shut \in BOOLEAN

Idle == [step |-> "off", server |-> None]

Init ==
  /\ phase = [l \in Loop |-> "idle"]
  /\ handle = None
  /\ holders = 0
  /\ idle_since = "none"
  /\ releases = 0
  /\ rpc_port = None
  /\ rpc_ready = FALSE
  /\ closing = [c \in Closer |-> Idle]
  /\ server = [s \in Server |-> "unborn"]
  /\ spawned = 0
  /\ stopping = FALSE
  /\ shut = FALSE

Goto(l, from, to) == phase[l] = from /\ phase' = [phase EXCEPT ![l] = to]
\* The mutex is held across an await only while a server is being spawned.
Unlocked == \A l \in Loop : phase[l] # "spawning"

-----------------------------------------------------------------------------
(* acquire: a loop becomes a pipeline worker *)

AcquireWarm(l) ==
  /\ ~stopping
  /\ Unlocked
  /\ handle # None
  /\ Goto(l, "idle", "held")
  /\ holders' = holders + 1
  /\ idle_since' = "none"
  /\ UNCHANGED <<handle, releases, advert, closing, process, lifetime>>

\* start_rpc_server under the lock
SpawnStarted(l) ==
  /\ ~stopping
  /\ Unlocked
  /\ handle = None
  /\ spawned < MaxSpawns
  /\ Goto(l, "idle", "spawning")
  /\ spawned' = spawned + 1
  /\ server' = [server EXCEPT ![spawned + 1] = "starting"]
  /\ UNCHANGED <<inner, releases, advert, closing, lifetime>>

SpawnListening(l) ==
  /\ Goto(l, "spawning", "announcing")
  /\ server' = [server EXCEPT ![spawned] = "up"]
  /\ handle' = spawned
  /\ rpc_port' = spawned
  /\ holders' = holders + 1
  /\ idle_since' = "none"
  /\ UNCHANGED <<releases, rpc_ready, closing, spawned, lifetime>>

CountedSpawnFailed(l) ==
  /\ Goto(l, "spawning", "idle")
  /\ \E life \in {"gone", "orphan"} : server' = [server EXCEPT ![spawned] = life]
  /\ holders' = holders + 1
  /\ UNCHANGED <<handle, idle_since, releases, advert, closing, spawned, lifetime>>

\* The process exits, or does not listen in time and is left behind.
SpawnFailed(l) ==
  /\ Goto(l, "spawning", "idle")
  /\ \E life \in {"gone", "orphan"} : server' = [server EXCEPT ![spawned] = life]
  /\ UNCHANGED <<inner, releases, advert, closing, spawned, lifetime>>

\* set_local_rpc_ready(true), after the lock is dropped; then its regossip.
ReadyAnnounced(l) ==
  /\ Goto(l, "announcing", "gossiping")
  /\ rpc_ready' = TRUE
  /\ UNCHANGED <<inner, releases, rpc_port, closing, process, lifetime>>

HoldTaken(l) ==
  /\ Goto(l, "gossiping", "held")
  /\ UNCHANGED <<inner, releases, advert, closing, process, lifetime>>

-----------------------------------------------------------------------------
(* release: the hold is dropped, and a task gives it back *)

HoldDropped(l) ==
  /\ releases < MaxReleases
  /\ Goto(l, "held", "idle")
  /\ releases' = releases + 1
  /\ UNCHANGED <<inner, advert, closing, process, lifetime>>

ReleaseWithoutClock ==
  /\ releases > 0
  /\ Unlocked
  /\ releases' = releases - 1
  /\ holders' = IF holders > 0 THEN holders - 1 ELSE 0
  /\ UNCHANGED <<phase, handle, idle_since, advert, closing, process, lifetime>>

ReleaseUnguarded ==
  /\ releases > 0
  /\ Unlocked
  /\ releases' = releases - 1
  /\ holders' = holders - 1
  /\ idle_since' = IF holders' = 0 THEN "fresh" ELSE idle_since
  /\ UNCHANGED <<phase, handle, advert, closing, process, lifetime>>

ReleaseOutright ==
  /\ releases > 0
  /\ Unlocked
  /\ releases' = releases - 1
  /\ holders' = 0
  /\ idle_since' = "fresh"
  /\ UNCHANGED <<phase, handle, advert, closing, process, lifetime>>

Release ==
  /\ releases > 0
  /\ Unlocked
  /\ releases' = releases - 1
  /\ holders' = IF holders > 0 THEN holders - 1 ELSE 0
  /\ idle_since' = IF holders' = 0 THEN "fresh" ELSE idle_since
  /\ UNCHANGED <<phase, handle, advert, closing, process, lifetime>>

-----------------------------------------------------------------------------
(* tick and shutdown: teardown in three steps after the lock is dropped *)

IdleElapsed ==
  /\ idle_since = "fresh"
  /\ idle_since' = "expired"
  /\ UNCHANGED <<phase, handle, holders, releases, advert, closing, process, lifetime>>

TakeHandle(c) ==
  /\ closing' = [closing EXCEPT ![c] = IF handle = None THEN Idle
                                       ELSE [step |-> "port", server |-> handle]]
  /\ handle' = None
  /\ idle_since' = "none"

Tick ==
  /\ Unlocked
  /\ closing["tick"].step = "off"
  /\ holders = 0
  /\ idle_since = "expired"
  /\ handle # None
  /\ TakeHandle("tick")
  /\ UNCHANGED <<phase, holders, releases, advert, process, lifetime>>

\* The runtime stops its loops first; then it calls shutdown.
Shutdown ==
  /\ Unlocked
  /\ stopping /\ ~shut
  /\ \A l \in Loop : phase[l] = "stopped"
  /\ shut' = TRUE
  /\ holders' = 0
  /\ TakeHandle("shutdown")
  /\ UNCHANGED <<phase, releases, advert, process, stopping>>

Advance(c, from, to) ==
  /\ closing[c].step = from
  /\ closing' = [closing EXCEPT ![c].step = to]

KilledBeforeCleared(c) ==
  /\ Advance(c, "port", "ready")
  /\ server' = [server EXCEPT ![closing[c].server] = "killed"]
  /\ UNCHANGED <<phase, inner, releases, advert, spawned, lifetime>>

PortCleared(c) ==
  /\ Advance(c, "port", "ready")
  /\ rpc_port' = None
  /\ UNCHANGED <<phase, inner, releases, rpc_ready, process, lifetime>>

ReadyCleared(c) ==
  /\ Advance(c, "ready", "kill")
  /\ rpc_ready' = FALSE
  /\ UNCHANGED <<phase, inner, releases, rpc_port, process, lifetime>>

ServerKilled(c) ==
  /\ closing[c].step = "kill"
  /\ closing' = [closing EXCEPT ![c] = Idle]
  /\ server' = [server EXCEPT ![closing[c].server] = "killed"]
  /\ UNCHANGED <<phase, inner, releases, advert, spawned, lifetime>>

-----------------------------------------------------------------------------
(* The process and the runtime *)

\* The watcher task removes the pidfile and warns; nothing here is told.
ServerExited ==
  /\ \E s \in Server : server[s] = "up" /\ server' = [server EXCEPT ![s] = "gone"]
  /\ UNCHANGED <<phase, inner, releases, advert, closing, spawned, lifetime>>

StopRuntime ==
  /\ ~stopping
  /\ stopping' = TRUE
  /\ UNCHANGED <<phase, inner, releases, advert, closing, process, shut>>

\* stop_tx: the loop returns and its local hold is dropped.
LoopStopped(l) ==
  /\ stopping
  /\ \/ Goto(l, "idle", "stopped") /\ UNCHANGED releases
     \/ Goto(l, "held", "stopped") /\ releases' = releases + 1
  /\ UNCHANGED <<inner, advert, closing, process, lifetime>>

\* The loop did not stop within 3 s: its task is aborted at the await it is in.
\* In the spawn this leaves a process behind; in the regossip, a count.
LoopAborted(l) ==
  /\ stopping
  /\ \/ /\ Goto(l, "spawning", "stopped")
              /\ server' = [server EXCEPT ![spawned] = "orphan"]
     \/ /\ Goto(l, "gossiping", "stopped")
        /\ UNCHANGED server
  /\ UNCHANGED <<inner, releases, advert, closing, spawned, lifetime>>

-----------------------------------------------------------------------------
(* Specification *)

Acquire(l) ==
  \/ AcquireWarm(l) \/ SpawnStarted(l) \/ SpawnListening(l) \/ SpawnFailed(l)
  \/ ReadyAnnounced(l) \/ HoldTaken(l)
Teardown(c) == PortCleared(c) \/ ReadyCleared(c) \/ ServerKilled(c)

Next ==
  \/ \E l \in Loop : Acquire(l) \/ HoldDropped(l) \/ LoopStopped(l) \/ LoopAborted(l)
  \/ \E c \in Closer : Teardown(c)
  \/ Release \/ IdleElapsed \/ Tick \/ Shutdown \/ ServerExited \/ StopRuntime

Spec == Init /\ [][Next]_vars

\* Tasks that are not suspended run on, a spawn ends by its own timeout, the
\* 30 s tick keeps coming, a stopping runtime stops its loops and then calls
\* shutdown: what needs the mutex gets its turn (tokio's is fair).
Fairness ==
  /\ \A l \in Loop :
       /\ WF_vars(SpawnListening(l) \/ SpawnFailed(l) \/ LoopAborted(l))
       /\ WF_vars(ReadyAnnounced(l))
       /\ WF_vars(HoldTaken(l) \/ LoopAborted(l))
       /\ WF_vars(LoopStopped(l))
  /\ \A c \in Closer : WF_vars(Teardown(c))
  /\ SF_vars(Release)
  /\ WF_vars(IdleElapsed)
  /\ SF_vars(Tick)
  /\ WF_vars(Shutdown)

FairSpec == Spec /\ Fairness

-----------------------------------------------------------------------------
(* Properties *)

Holding == {l \in Loop : phase[l] \in {"announcing", "gossiping", "held"}}

\* Every increment has exactly one owner: a loop that holds or is about to, or a
\* release task under way.  A failed spawn counts nothing (acquire's early
\* return), and a late release takes nobody else's hold (WorkerRpcHold::drop).
HoldersAreCounted == ~stopping => holders = Cardinality(Holding) + releases

\* No teardown under a hold: whoever holds finds a server handle, whatever ticks
\* and releases of other loops did in between (tick's holders check under the
\* same lock as acquire's increment).
HeldIsOwned == Holding # {} => handle # None

\* The idle clock of a server runs exactly while nobody is counted: no path to zero
\* leaves a server that no tick will ever tear down, and none to a hold a clock that
\* runs on (release, acquire, tick).
UnheldIsClocked == handle # None => (holders = 0 <=> idle_since # "none")

\* A hold, once taken, is counted as long as it lasts and keeps the server; the server
\* that nobody holds is on its way out.
HoldsAreHonoured == HoldersAreCounted /\ HeldIsOwned /\ UnheldIsClocked

\* Servers whose teardown is under way, and those it has ended.
Retiring == {closing[c].server : c \in {d \in Closer : closing[d].step # "off"}}
Killed == {s \in Server : server[s] = "killed"}

\* The server a loop was given stays the node's until no loop holds it, whatever ticks,
\* late releases, spawns and teardowns overlap, and no server is killed that the tunnel
\* still points at (acquire, tick, shutdown).
Shared == INSTANCE SharedServer
  WITH users <- Holding, current <- handle, route <- rpc_port,
       retiring <- Retiring, killed <- Killed
IsSharedServer == Shared!Spec

\* In particular the tunnel is never left pointing at a server this node has killed:
\* a newer server's port is never followed by an older one's (tick, shutdown, acquire).
PortIsNotKilled == rpc_port # None => server[rpc_port] # "killed"

\* Once nobody takes holds any more the server handle is given up for good
\* (release's idle clock and the 30 s tick).
ReleasedIsTornDown == (<>[](Holding = {} /\ \A l \in Loop : phase[l] # "spawning")) => <>[](handle = None)

-----------------------------------------------------------------------------
(* What the documentation says, and the code does not do *)

Quiet ==
  /\ Unlocked
  /\ \A l \in Loop : phase[l] \notin {"announcing", "gossiping"}
  /\ \A c \in Closer : closing[c].step = "off"

\* "true once the on-demand rpc-server is up and the tunnel points at it; false
\* when torn down" (mod.rs, rpc_ready): when no handler is half way, the gossiped
\* bit, the tunnel's port and the handle agree.
ReadyAgrees == Quiet => (rpc_ready <=> handle # None) /\ rpc_port = handle
=============================================================================
