------------------------------ MODULE Instances -------------------------------
(***************************************************************************)
(* The senda processes of one machine and the rpc-servers and llama-servers  *)
(* they start (runtime/instance.rs, inference/launch.rs, runtime/mod.rs).    *)
(*                                                                         *)
(* An instance owns the directory named after its pid: it holds a flock on   *)
(* the lock file in it for as long as it lives and writes a pidfile into it  *)
(* for every server.  A new instance looks through the directories of the    *)
(* others, ends the servers whose owner is gone, and removes old             *)
(* directories; what it saw when it looked is what it acts on later.         *)
(*                                                                         *)
(* A slot is a pid: it may come back after its process has died.  A server   *)
(* is identified by its pid and start time; once it is gone a stranger may   *)
(* get its pid, with another name or start time.                            *)
(***************************************************************************)
EXTENDS Integers, FiniteSets

CONSTANTS
  Slot,       \* pids of instances, which name their directories
  Proc,       \* the server processes
  Rpc,        \* those that are rpc-servers; the others are llama-servers
  Nobody,
  Reusable,   \* pids that may be given to an instance again
  LongLived,  \* directories that may get older than an hour
  Stuck,      \* servers that no signal ends
  MaxCrashes  \* bound: instances that crash

ASSUME ConstantsAssumption ==
  /\ Nobody \notin Slot \cup Proc
  /\ Rpc \cup Stuck \subseteq Proc
  /\ Reusable \cup LongLived \subseteq Slot
  /\ MaxCrashes \in Nat

VARIABLES
  life,      \* [Slot -> Life]: how far each instance has come
  dir,       \* directories that exist
  lock,      \* those whose lock file is held
  old,       \* those last modified over an hour ago
  st,        \* [Proc -> "unborn", "running" or "gone"]
  recycled,  \* servers whose pid a stranger has got
  told,      \* [Proc -> the strongest signal it has got, and from whom the last]
  keeper,    \* [Proc -> the live instance that started it, or Nobody]
  grip,      \* [Proc -> what that instance still has of it]
  file,      \* [Proc -> the directory with its pidfile, or Nobody]
  unseen,    \* [Slot -> directories its scan has yet to visit]
  targets,   \* [Slot -> servers to be ended]
  aim,       \* [Slot -> the one being ended, and by what signal]
  doomed,    \* [Slot -> servers whose pidfile is to be removed]
  stale,     \* [Slot -> directories to be removed]
  harmed,    \* strangers that were signalled
  crashes

process == <<st, recycled, told, harmed>>
reaping == <<unseen, targets, aim, doomed, stale>>
disk == <<dir, lock, old>>
vars == <<life, disk, process, keeper, grip, file, reaping, crashes>>

\* opening: its directory made, its lock not yet taken; cross and own: the scan
\* of the others' directories and of its own; joined: between the two.
Life == {"new", "opening", "cross", "joined", "own", "up", "down"}
Grip == {"none", "launching", "held", "stopping"}
Signal == {"none", "term", "kill"}
NoAim == [proc |-> Nobody, signal |-> "none"]
Silence == [by |-> Nobody, signal |-> "none"]

TypeOK ==
  /\ life \in [Slot -> Life]
  /\ dir \subseteq Slot
  /\ lock \subseteq dir
  /\ old \subseteq dir
  /\ st \in [Proc -> {"unborn", "running", "gone"}]
  /\ recycled \subseteq {k \in Proc : st[k] = "gone"}
  /\ told \in [Proc -> [by : Slot \cup {Nobody}, signal : Signal]]
  /\ keeper \in [Proc -> Slot \cup {Nobody}]
  /\ grip \in [Proc -> Grip]
  /\ file \in [Proc -> Slot \cup {Nobody}]
  /\ unseen \in [Slot -> SUBSET Slot]
  /\ targets \in [Slot -> SUBSET Proc]
  /\ aim \in [Slot -> [proc : Proc \cup {Nobody}, signal : Signal]]
  /\ \A s \in Slot : targets[s] # {} => life[s] \in {"cross", "own"}
  /\ doomed \in [Slot -> SUBSET Proc]
  /\ stale \in [Slot -> SUBSET Slot]
  /\ harmed \subseteq Proc
  /\ crashes \in 0..MaxCrashes

Init ==
  /\ life = [s \in Slot |-> "new"]
  /\ dir = {} /\ lock = {} /\ old = {}
  /\ st = [k \in Proc |-> "unborn"]
  /\ recycled = {}
  /\ told = [k \in Proc |-> Silence]
  /\ keeper = [k \in Proc |-> Nobody]
  /\ grip = [k \in Proc |-> "none"]
  /\ file = [k \in Proc |-> Nobody]
  /\ unseen = [s \in Slot |-> {}]
  /\ targets = [s \in Slot |-> {}]
  /\ aim = [s \in Slot |-> NoAim]
  /\ doomed = [s \in Slot |-> {}]
  /\ stale = [s \in Slot |-> {}]
  /\ harmed = {}
  /\ crashes = 0

Running(k) == st[k] = "running"
Free(k) == st[k] = "gone" /\ k \notin recycled     \* process_liveness says Dead
Alive(s) == life[s] \notin {"new", "down"}
Orphan(k) == Running(k) /\ keeper[k] = Nobody

\* The pidfiles that are left when those of S are removed.
FilesWithout(S) == [k \in Proc |-> IF k \in S THEN Nobody ELSE file[k]]

-----------------------------------------------------------------------------
(* Signals *)

Tell(s, k, signal) ==
  [told EXCEPT ![k] = [by |-> s, signal |-> IF @.signal = "kill" THEN "kill" ELSE signal]]

SignalAnyPid(s, k, signal) ==
  /\ told' = IF Running(k) THEN Tell(s, k, signal) ELSE told
  /\ harmed' = IF k \in recycled THEN harmed \cup {k} ELSE harmed
  /\ UNCHANGED <<st, recycled>>

\* send_signal_if_matches: a pid with another name or start time is let alone.  The
\* check and the kill that follows it are one step: a pid that passes to a stranger
\* between the two system calls, which the code cannot notice, is not modelled.
SignalIfMatches(s, k, signal) ==
  /\ told' = IF Running(k) THEN Tell(s, k, signal) ELSE told
  /\ UNCHANGED <<st, recycled, harmed>>

\* A server ends by itself or of a signal.
End(k) ==
  /\ Running(k)
  /\ k \in Stuck => told[k] = Silence
  /\ st' = [st EXCEPT ![k] = "gone"]
  /\ told' = [told EXCEPT ![k] = Silence]
  /\ UNCHANGED <<life, disk, recycled, harmed, keeper, grip, file, reaping, crashes>>

\* A pid is free once its parent has waited for it, and nobody else reuses it before.
Recycle(k) ==
  /\ st[k] = "gone"
  /\ keeper[k] # Nobody => grip[k] # "launching" /\ file[k] = Nobody
  /\ recycled' = IF k \in recycled THEN recycled \ {k} ELSE recycled \cup {k}
  /\ UNCHANGED <<life, disk, st, told, harmed, keeper, grip, file, reaping, crashes>>

-----------------------------------------------------------------------------
(* The servers of an instance *)

\* start_rpc_server writes the pidfile at once, start_llama_server not before
\* the server is healthy; both open a log file in the directory first.
Spawn(s, k) ==
  /\ life[s] = "up"
  /\ s \in dir
  /\ st[k] = "unborn"
  /\ st' = [st EXCEPT ![k] = "running"]
  /\ keeper' = [keeper EXCEPT ![k] = s]
  /\ grip' = [grip EXCEPT ![k] = "launching"]
  /\ file' = IF k \in Rpc THEN [file EXCEPT ![k] = s] ELSE file
  /\ UNCHANGED <<life, disk, recycled, told, harmed, reaping, crashes>>

\* The port opens or the health check passes: a handle.
ReadyUnrecorded(s, k) ==
  /\ keeper[k] = s
  /\ grip[k] = "launching"
  /\ Running(k)
  /\ grip' = [grip EXCEPT ![k] = "held"]
  /\ UNCHANGED <<life, disk, process, keeper, file, reaping, crashes>>

Ready(s, k) ==
  /\ keeper[k] = s
  /\ grip[k] = "launching"
  /\ Running(k)
  /\ IF k \in Rpc
     THEN grip' = [grip EXCEPT ![k] = "held"] /\ UNCHANGED file
     ELSE /\ grip' = [grip EXCEPT ![k] = IF s \in dir THEN "held" ELSE "none"]
          /\ file' = IF s \in dir THEN [file EXCEPT ![k] = s] ELSE file
  /\ UNCHANGED <<life, disk, process, keeper, reaping, crashes>>

\* The server exits too early, takes too long, or the task that waits for it is
\* aborted: the guard removes the pidfile, and nothing is signalled.
LaunchFails(s, k) ==
  /\ keeper[k] = s
  /\ grip[k] = "launching"
  /\ grip' = [grip EXCEPT ![k] = "none"]
  /\ file' = FilesWithout({k})
  /\ UNCHANGED <<life, disk, process, keeper, reaping, crashes>>

\* The task that waits for the process removes the pidfile; a handle stays.
Waited(s, k) ==
  /\ keeper[k] = s
  /\ grip[k] # "launching"
  /\ file[k] # Nobody
  /\ st[k] = "gone"
  /\ file' = FilesWithout({k})
  /\ UNCHANGED <<life, disk, process, keeper, grip, reaping, crashes>>

\* shutdown: SIGTERM, a wait, SIGKILL, and the pidfile goes with the handle.
ShutDown(s, k) ==
  /\ keeper[k] = s
  /\ grip[k] = "held"
  /\ grip' = [grip EXCEPT ![k] = "stopping"]
  /\ SignalIfMatches(s, k, "term")
  /\ UNCHANGED <<life, disk, keeper, file, reaping, crashes>>

ShutDownEnds(s, k) ==
  /\ keeper[k] = s
  /\ grip[k] = "stopping"
  /\ grip' = [grip EXCEPT ![k] = "none"]
  /\ file' = FilesWithout({k})
  /\ SignalIfMatches(s, k, "kill")
  /\ UNCHANGED <<life, disk, keeper, reaping, crashes>>

\* A handle dropped without shutdown: one SIGTERM, and the pidfile goes as well.
Drop(s, k) ==
  /\ keeper[k] = s
  /\ grip[k] = "held"
  /\ grip' = [grip EXCEPT ![k] = "none"]
  /\ file' = FilesWithout({k})
  /\ SignalIfMatches(s, k, "term")
  /\ UNCHANGED <<life, disk, keeper, reaping, crashes>>

-----------------------------------------------------------------------------
(* An instance starts *)

\* InstanceRuntime::acquire, up to the lock.
Open(s) ==
  /\ life[s] = "new" \/ (life[s] = "down" /\ s \in Reusable)
  /\ life' = [life EXCEPT ![s] = "opening"]
  /\ dir' = dir \cup {s}
  /\ UNCHANGED <<lock, old, process, keeper, grip, file, reaping, crashes>>

\* The flock, then owner.json, which makes the directory a recent one.  Without
\* its directory the node does not start.
Acquire(s) ==
  /\ life[s] = "opening"
  /\ life' = [life EXCEPT ![s] = IF s \in dir THEN "cross" ELSE "down"]
  /\ lock' = lock \cup ({s} \cap dir)
  /\ old' = old \ {s}
  /\ unseen' = [unseen EXCEPT ![s] = dir \ {s}]
  /\ UNCHANGED <<dir, process, keeper, grip, file, targets, aim, doomed, stale, crashes>>

Recorded(d) == {k \in Proc : file[k] = d}

\* One directory of scan_cross_runtime_orphans.
ScanUnlocked(s, d) ==
  /\ life[s] = "cross"
  /\ d \in unseen[s]
  /\ unseen' = [unseen EXCEPT ![s] = @ \ {d}]
  /\ targets' = [targets EXCEPT ![s] = @ \cup {k \in Recorded(d) : Running(k)}]
  /\ doomed' = [doomed EXCEPT ![s] = @ \cup {k \in Recorded(d) : ~Running(k)}]
  /\ stale' = [stale EXCEPT ![s] = @ \cup ({d} \cap old)]
  /\ UNCHANGED <<life, disk, process, keeper, grip, file, aim, crashes>>

ScanDir(s, d) ==
  /\ life[s] = "cross"
  /\ d \in unseen[s]
  /\ unseen' = [unseen EXCEPT ![s] = @ \ {d}]
  /\ IF d \in dir \ lock
     THEN /\ targets' = [targets EXCEPT ![s] = @ \cup {k \in Recorded(d) : Running(k)}]
          /\ doomed' = [doomed EXCEPT ![s] = @ \cup {k \in Recorded(d) : ~Running(k)}]
          /\ stale' = [stale EXCEPT ![s] = @ \cup ({d} \cap old)]
     ELSE UNCHANGED <<targets, doomed, stale>>
  /\ UNCHANGED <<life, disk, process, keeper, grip, file, aim, crashes>>

\* reap_own_stale_pidfiles, before the first server is started.
ScanOwn(s) ==
  /\ life[s] = "joined"
  /\ life' = [life EXCEPT ![s] = "own"]
  /\ targets' = [targets EXCEPT ![s] = {k \in Recorded(s) : Running(k)}]
  /\ doomed' = [doomed EXCEPT ![s] = {k \in Recorded(s) : ~Running(k)}]
  /\ UNCHANGED <<disk, process, keeper, grip, file, unseen, aim, stale, crashes>>

\* The scan is over and its findings are acted on, one server after the other.
Reaping(s) == life[s] \in {"cross", "own"} /\ unseen[s] = {}

Terminate(s, k) ==
  /\ Reaping(s)
  /\ aim[s] = NoAim
  /\ k \in targets[s]
  /\ aim' = [aim EXCEPT ![s] = [proc |-> k, signal |-> "term"]]
  /\ SignalIfMatches(s, k, "term")
  /\ UNCHANGED <<life, disk, keeper, grip, file, unseen, targets, doomed, stale, crashes>>

\* wait_for_exit has seen the pid free: the pidfile may go.
ReapedUnseen(s, k) ==
  /\ aim[s].proc = k
  /\ aim' = [aim EXCEPT ![s] = NoAim]
  /\ targets' = [targets EXCEPT ![s] = @ \ {k}]
  /\ doomed' = [doomed EXCEPT ![s] = @ \cup {k}]
  /\ UNCHANGED <<life, disk, process, keeper, grip, file, unseen, stale, crashes>>

Reaped(s, k) ==
  /\ aim[s].proc = k
  /\ Free(k)
  /\ aim' = [aim EXCEPT ![s] = NoAim]
  /\ targets' = [targets EXCEPT ![s] = @ \ {k}]
  /\ doomed' = [doomed EXCEPT ![s] = @ \cup {k}]
  /\ UNCHANGED <<life, disk, process, keeper, grip, file, unseen, stale, crashes>>

TermOnly(s, k) ==
  /\ aim[s] = [proc |-> k, signal |-> "term"]
  /\ ~Free(k)
  /\ aim' = [aim EXCEPT ![s] = NoAim]
  /\ targets' = [targets EXCEPT ![s] = @ \ {k}]
  /\ UNCHANGED <<life, disk, process, keeper, grip, file, unseen, doomed, stale, crashes>>

\* 5 s after the SIGTERM.
ForceKill(s, k) ==
  /\ aim[s] = [proc |-> k, signal |-> "term"]
  /\ ~Free(k)
  /\ aim' = [aim EXCEPT ![s] = [proc |-> k, signal |-> "kill"]]
  /\ SignalIfMatches(s, k, "kill")
  /\ UNCHANGED <<life, disk, keeper, grip, file, unseen, targets, doomed, stale, crashes>>

\* 5 s after the SIGKILL, long enough for a process it can end: the pidfile stays.
GiveUp(s, k) ==
  /\ aim[s] = [proc |-> k, signal |-> "kill"]
  /\ k \in recycled \/ (Running(k) /\ k \in Stuck)
  /\ aim' = [aim EXCEPT ![s] = NoAim]
  /\ targets' = [targets EXCEPT ![s] = @ \ {k}]
  /\ UNCHANGED <<life, disk, process, keeper, grip, file, unseen, doomed, stale, crashes>>

CleanupEarly(s) ==
  /\ Reaping(s)
  /\ life' = [life EXCEPT ![s] = IF @ = "cross" THEN "joined" ELSE "up"]
  /\ file' = FilesWithout(doomed[s] \cup {k \in Proc : file[k] \in stale[s]})
  /\ dir' = dir \ stale[s]
  /\ lock' = lock \ stale[s]
  /\ old' = old \ stale[s]
  /\ doomed' = [doomed EXCEPT ![s] = {}]
  /\ stale' = [stale EXCEPT ![s] = {}]
  /\ UNCHANGED <<process, keeper, grip, unseen, targets, aim, crashes>>

\* The pidfiles of what is gone are removed, and the old directories with all
\* that is in them.
Cleanup(s) ==
  /\ Reaping(s)
  /\ targets[s] = {}
  /\ life' = [life EXCEPT ![s] = IF @ = "cross" THEN "joined" ELSE "up"]
  /\ file' = FilesWithout(doomed[s] \cup {k \in Proc : file[k] \in stale[s]})
  /\ dir' = dir \ stale[s]
  /\ lock' = lock \ stale[s]
  /\ old' = old \ stale[s]
  /\ doomed' = [doomed EXCEPT ![s] = {}]
  /\ stale' = [stale EXCEPT ![s] = {}]
  /\ UNCHANGED <<process, keeper, grip, unseen, targets, aim, crashes>>

\* Nothing is created in the directory itself after owner.json.
Age(d) ==
  /\ d \in (dir \cap LongLived) \ old
  /\ life[d] # "opening"
  /\ old' = old \cup {d}
  /\ UNCHANGED <<life, dir, lock, process, keeper, grip, file, reaping, crashes>>

-----------------------------------------------------------------------------
(* An instance ends *)

Orphaned(s) == [k \in Proc |-> IF keeper[k] = s THEN Nobody ELSE keeper[k]]

\* Every handle is dropped: the directory is removed, unless a task still refers to it.
Leave(s) ==
  /\ life[s] = "up"
  /\ \A k \in Proc : keeper[k] = s => grip[k] = "none" /\ file[k] = Nobody
  /\ life' = [life EXCEPT ![s] = "down"]
  /\ lock' = lock \ {s}
  /\ \E removed \in SUBSET {s} :
       /\ dir' = dir \ removed
       /\ old' = old \ removed
       /\ file' = FilesWithout({k \in Proc : file[k] \in removed})
  /\ keeper' = Orphaned(s)
  /\ UNCHANGED <<process, grip, reaping, crashes>>

Crash(s) ==
  /\ Alive(s)
  /\ crashes < MaxCrashes
  /\ crashes' = crashes + 1
  /\ life' = [life EXCEPT ![s] = "down"]
  /\ lock' = lock \ {s}
  /\ keeper' = Orphaned(s)
  /\ grip' = [k \in Proc |-> IF keeper[k] = s THEN "none" ELSE grip[k]]
  /\ unseen' = [unseen EXCEPT ![s] = {}]
  /\ targets' = [targets EXCEPT ![s] = {}]
  /\ aim' = [aim EXCEPT ![s] = NoAim]
  /\ doomed' = [doomed EXCEPT ![s] = {}]
  /\ stale' = [stale EXCEPT ![s] = {}]
  /\ UNCHANGED <<dir, old, process, file>>

Serve(s, k) ==
  \/ Spawn(s, k) \/ Ready(s, k) \/ LaunchFails(s, k) \/ Waited(s, k)
  \/ ShutDown(s, k) \/ ShutDownEnds(s, k) \/ Drop(s, k)
Reap(s, k) == Terminate(s, k) \/ Reaped(s, k) \/ ForceKill(s, k) \/ GiveUp(s, k)

Next ==
  \/ \E s \in Slot : Open(s) \/ Acquire(s) \/ ScanOwn(s) \/ Cleanup(s) \/ Age(s)
  \/ \E s \in Slot : Leave(s) \/ Crash(s)
  \/ \E s, d \in Slot : ScanDir(s, d)
  \/ \E s \in Slot, k \in Proc : Serve(s, k) \/ Reap(s, k)
  \/ \E k \in Proc : End(k) \/ Recycle(k)

\* A live instance gets on with what it has begun, and SIGKILL ends a process.
Fairness ==
  /\ \A s \in Slot : WF_vars(Acquire(s)) /\ WF_vars(ScanOwn(s)) /\ WF_vars(Cleanup(s))
  /\ \A s, d \in Slot : WF_vars(ScanDir(s, d))
  /\ \A s \in Slot, k \in Proc : WF_vars(Reap(s, k))
  /\ \A k \in Proc : WF_vars(End(k) /\ told[k].signal = "kill")

Spec == Init /\ [][Next]_vars /\ Fairness

-----------------------------------------------------------------------------
(* Properties *)

\* Whatever an instance reads in the directories of others and however late it acts
\* on it, only the live instance that started a server, or any once it is dead,
\* signals the server, and no stranger that has its pid when it is looked at is
\* signalled.
Custodians == INSTANCE Custody
  WITH alive <- {s \in Slot : Alive(s)}, running <- {k \in Proc : Running(k)},
       told <- [k \in Proc |-> told[k].by]
OnlyKeepersSignal == Custodians!Spec

\* Directories that never have both an old and a new owner: a scan may have found one
\* of the others old and unlocked, and removes it under its next owner.
Steady == Slot \ (Reusable \cap LongLived)

\* A server in use is recorded in the locked directory of its owner: wherever the
\* owner is killed, the next instance finds the server and not before.
HeldIsRecorded ==
  \A k \in Proc :
    grip[k] \in {"held", "stopping"} /\ Running(k) /\ keeper[k] \in Steady
      => file[k] = keeper[k] /\ keeper[k] \in lock

\* A pidfile is the only trace of an orphan: no instance removes that of a server
\* that still runs, unless it owns the server.  Of a server that no signal ends it
\* is removed, but not before its directory is old or has a new owner, which leaves.
TraceIsKept ==
  [][\A k \in Proc :
       /\ file[k] \in Steady /\ Orphan(k) /\ Orphan(k)'
       /\ k \in Stuck => file[k] \notin old /\ life[file[k]] # "up"
       => file'[k] = file[k]]_vars

KeepStarting == \E s \in Slot : []<>(life[s] = "opening")

\* A server whose owner died with its pidfile in place is ended, if instances are
\* started again and again (reap_cross_runtime_orphans, reap_own_stale_pidfiles).
RecordedOrphansEnd ==
  KeepStarting => \A k \in Proc \ Stuck : (Orphan(k) /\ file[k] # Nobody) ~> (st[k] = "gone")

\* What outlives the SIGTERM of a dropped handle is ended by a later reaper
\* (the comment of InferenceServerHandle::drop).
StragglersEnd ==
  KeepStarting =>
    \A k \in Proc : (Orphan(k) /\ told[k].signal = "term") ~> (st[k] = "gone")
=============================================================================
