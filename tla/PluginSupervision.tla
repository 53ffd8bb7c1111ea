--------------------------- MODULE PluginSupervision ---------------------------
(***************************************************************************)
(* How the node keeps one external plugin running (plugin/runtime.rs,        *)
(* plugin/transport.rs, plugin/mod.rs): requests and messages of many tasks,  *)
(* each ready to start the plugin again, the supervisor's rounds, the         *)
(* connection loop of each process, and the node's shutdown, against a plugin *)
(* that crashes, hangs, refuses or disables itself.                          *)
(*                                                                         *)
(* A generation is one process with its connection; its name is used again    *)
(* when nobody refers to it.  A failure drops the runtime and, in a later     *)
(* critical section, writes the status; in between the task is at "report".   *)
(* Manifests, endpoints and their health, and what requests say are left out. *)
(***************************************************************************)
EXTENDS Integers, FiniteSets

CONSTANTS
  Caller,       \* tasks that use the plugin
  Supervisor,   \* the task of PluginManager::start_supervisor
  Gen,          \* names of generations
  First,        \* the name of the first
  Nothing,      \* no generation, no task
  Capacity,     \* of the channel to the connection loop (256)
  MaxBacklog,   \* bound: messages a hung plugin leaves unread, more are not counted
  MaxFaults     \* bound: faults of the plugin

Task == Caller \cup {Supervisor}

ASSUME PluginAssumption ==
  /\ Supervisor \notin Caller
  /\ Nothing \notin Gen \cup Task
  /\ First \in Gen
  /\ Capacity \in Nat \ {0}
  /\ MaxBacklog \in Nat
  /\ MaxFaults \in Nat

VARIABLES
  runtime,    \* ExternalPlugin.runtime: a generation or Nothing
  status,     \* PluginSummary.status
  lock,       \* restart_lock: its holder or Nothing
  proc,       \* [Gen -> the process: "up", "hung" or "down"]
  link,       \* [Gen -> its connection loop: "run", "drain" or "over"]
  backlog,    \* [Gen -> messages a hung process has not read]
  task,       \* [Task -> what it is doing]
  stopping,   \* PluginManager::shutdown: "no", "told", "taken", "done"
  faults      \* faults so far

vars == <<runtime, status, lock, proc, link, backlog, task, stopping, faults>>

Job == {"rest", "request", "message", "health", "manifest"}
Place == {"rest", "ensure", "lock", "launch", "greet", "offer", "init", "ready", "send",
          "asked", "report"}
Reply == {"none", "ok", "odd", "bad", "off", "lost"}
Engaged == {"offer", "init", "send", "asked", "report"}

TypeOK ==
  /\ runtime \in Gen \cup {Nothing}
  /\ status \in {"starting", "running", "restarting", "stopped", "shutting down", "disabled"}
  /\ lock \in Task \cup {Nothing}
  /\ proc \in [Gen -> {"up", "hung", "down"}]
  /\ link \in [Gen -> {"run", "drain", "over"}]
  /\ backlog \in [Gen -> 0..MaxBacklog]
  /\ task \in [Task -> [at : Place, job : Job, retry : BOOLEAN, gen : Gen \cup {Nothing},
                        reply : Reply]]
  /\ \A t \in Task : task[t].at \in Engaged => task[t].gen \in Gen
  /\ stopping \in {"no", "told", "taken", "done"}
  /\ faults \in 0..MaxFaults

Resting == [at |-> "rest", job |-> "rest", retry |-> FALSE, gen |-> Nothing, reply |-> "none"]
Ensuring(job) == [Resting EXCEPT !.at = "ensure", !.job = job]

\* The plugin has been loaded, or has disabled itself while it was.
Init ==
  /\ runtime \in {First, Nothing}
  /\ status = IF runtime = Nothing THEN "disabled" ELSE "running"
  /\ lock = Nothing
  /\ proc = [g \in Gen |-> IF g = runtime THEN "up" ELSE "down"]
  /\ link = [g \in Gen |-> IF g = runtime THEN "run" ELSE "over"]
  /\ backlog = [g \in Gen |-> 0]
  /\ task = [t \in Task |-> Resting]
  /\ stopping = "no"
  /\ faults = 0

-----------------------------------------------------------------------------
(* Helpers *)

Goes(t, state) == task' = [task EXCEPT ![t] = state]
At(t, place) == task[t].at = place

\* What a task does after its request has ended, in whatever way: the supervisor
\* goes on to refresh the endpoints, which reads the manifest.
Ended(t) == IF task[t].job = "health" THEN Ensuring("manifest") ELSE Resting

\* A failed attempt is made once more.
Again(t) == IF task[t].retry THEN Ended(t)
            ELSE [Ensuring(task[t].job) EXCEPT !.retry = TRUE]

\* Tasks that wait for an answer of generation g.
Waiting(g) ==
  {t \in Task : task[t].at \in {"init", "asked"} /\ task[t].gen = g /\ task[t].reply = "none"}

Full(g) == proc[g] = "hung" /\ backlog[g] + Cardinality(Waiting(g)) >= Capacity

\* Dropping a runtime kills its process.
Drop(G) ==
  /\ runtime' = IF runtime \in G THEN Nothing ELSE runtime
  /\ proc' = [g \in Gen |-> IF g \in G /\ g = runtime THEN "down" ELSE proc[g]]

\* Mutant of HandleRuntimeFailure: whatever runs now is dropped.
FailureUnmatched(t, G) ==
  /\ Drop({runtime})
  /\ Goes(t, [task[t] EXCEPT !.at = "report"])

\* handle_runtime_failure: under the runtime's lock, the generation that failed is
\* dropped if it is the current one.  The status is written later.
HandleRuntimeFailure(t, G) ==
  /\ Drop(G)
  /\ Goes(t, [task[t] EXCEPT !.at = "report"])

-----------------------------------------------------------------------------
(* The plugin *)

Fault == faults < MaxFaults /\ faults' = faults + 1

Crash(g) ==
  /\ proc[g] # "down"
  /\ Fault
  /\ proc' = [proc EXCEPT ![g] = "down"]
  /\ UNCHANGED <<runtime, status, lock, link, backlog, task, stopping>>

Hang(g) ==
  /\ proc[g] = "up"
  /\ Fault
  /\ proc' = [proc EXCEPT ![g] = "hung"]
  /\ UNCHANGED <<runtime, status, lock, link, backlog, task, stopping>>

\* An initialize may be refused, answered that the plugin is disabled, or answered in
\* a way that cannot be read; a health check may be answered that it is not healthy.
Answer(t) ==
  LET g == task[t].gen
  IN  /\ task[t].at \in {"init", "asked"} /\ task[t].reply = "none"
      /\ proc[g] = "up" /\ link[g] = "run"
      /\ \E r \in {"ok"} \cup (IF At(t, "init") THEN {"odd", "bad", "off"} ELSE {})
                         \cup (IF task[t].job = "health" THEN {"bad"} ELSE {}) :
           /\ IF r = "ok" THEN UNCHANGED faults ELSE Fault
           /\ Goes(t, [task[t] EXCEPT !.reply = r])
      /\ UNCHANGED <<runtime, status, lock, proc, link, backlog, stopping>>

-----------------------------------------------------------------------------
(* The connection loop: it ends when its process is gone, or when a frame cannot be
   read or written *)

LoopClears(g) ==
  /\ link[g] = "run"
  /\ IF proc[g] = "down" THEN UNCHANGED faults ELSE Fault
  /\ link' = [link EXCEPT ![g] = "drain"]
  /\ Drop({g})
  /\ status' = IF runtime = g THEN "stopped" ELSE status
  /\ UNCHANGED <<lock, backlog, task, stopping>>

\* Pending requests are failed, and with the loop its end of the channel is gone.
LoopDrains(g) ==
  /\ link[g] = "drain"
  /\ link' = [link EXCEPT ![g] = "over"]
  /\ backlog' = [backlog EXCEPT ![g] = 0]
  /\ task' = [t \in Task |-> IF t \in Waiting(g) THEN [task[t] EXCEPT !.reply = "lost"]
                             ELSE task[t]]
  /\ UNCHANGED <<runtime, status, lock, proc, stopping, faults>>

-----------------------------------------------------------------------------
(* ensure_running *)

Ensure(t) ==
  /\ At(t, "ensure")
  /\ Goes(t, IF status = "disabled" THEN Ended(t)
             ELSE [task[t] EXCEPT !.at = IF runtime # Nothing THEN "ready" ELSE "lock"])
  /\ UNCHANGED <<runtime, status, lock, proc, link, backlog, stopping, faults>>

\* Mutant of Lock: whether somebody else started the plugin is not asked again.
LockUnchecked(t) ==
  /\ At(t, "lock") /\ lock = Nothing
  /\ lock' = t
  /\ status' = "starting"
  /\ Goes(t, [task[t] EXCEPT !.at = "launch"])
  /\ UNCHANGED <<runtime, proc, link, backlog, stopping, faults>>

\* The restart lock is free: is there still no runtime?
Lock(t) ==
  /\ At(t, "lock") /\ lock = Nothing
  /\ IF runtime # Nothing
     THEN /\ Goes(t, [task[t] EXCEPT !.at = "ready"])
          /\ UNCHANGED <<lock, status>>
     ELSE /\ lock' = t
          /\ status' = "starting"
          /\ Goes(t, [task[t] EXCEPT !.at = "launch"])
  /\ UNCHANGED <<runtime, proc, link, backlog, stopping, faults>>

Unused(g) ==
  /\ runtime # g /\ proc[g] = "down" /\ link[g] = "over"
  /\ \A t \in Task : task[t].gen # g

\* The process has connected in time, and becomes the next generation.
Connect(t, g) ==
  /\ At(t, "launch") /\ Unused(g)
  /\ runtime' = g
  /\ proc' = [proc EXCEPT ![g] = "up"]
  /\ link' = [link EXCEPT ![g] = "run"]
  /\ Goes(t, [task[t] EXCEPT !.at = "greet"])
  /\ UNCHANGED <<status, lock, backlog, stopping, faults>>

\* Mutant of ConnectFails: the lock is kept.
ConnectFailsLocked(t) ==
  /\ At(t, "launch")
  /\ Fault
  /\ Goes(t, Ended(t))
  /\ UNCHANGED <<runtime, status, lock, proc, link, backlog, stopping>>

\* It has not, or could not be spawned; the status stays.
ConnectFails(t) ==
  /\ At(t, "launch")
  /\ Fault
  /\ lock' = Nothing
  /\ Goes(t, Ended(t))
  /\ UNCHANGED <<runtime, status, proc, link, backlog, stopping>>

\* The handles for the initialize request, unless the runtime is gone again.
Greet(t) ==
  /\ At(t, "greet")
  /\ IF runtime = Nothing
     THEN lock' = Nothing /\ Goes(t, Ended(t))
     ELSE /\ Goes(t, [task[t] EXCEPT !.at = "offer", !.gen = runtime])
          /\ UNCHANGED lock
  /\ UNCHANGED <<runtime, status, proc, link, backlog, stopping, faults>>

\* Messages of others may have filled the channel already: this send waits as well.
Offer(t) ==
  /\ At(t, "offer") /\ link[task[t].gen] # "over" /\ ~Full(task[t].gen)
  /\ Goes(t, [task[t] EXCEPT !.at = "init"])
  /\ UNCHANGED <<runtime, status, lock, proc, link, backlog, stopping, faults>>

Initialized(t) ==
  /\ At(t, "init") /\ task[t].reply = "ok"
  /\ status' = "running"
  /\ lock' = Nothing
  /\ Goes(t, [task[t] EXCEPT !.at = "ready", !.gen = Nothing, !.reply = "none"])
  /\ UNCHANGED <<runtime, proc, link, backlog, stopping, faults>>

\* What it says of its server cannot be read: the task gives up, the process stays.
Garbled(t) ==
  /\ At(t, "init") /\ task[t].reply = "odd"
  /\ lock' = Nothing
  /\ Goes(t, Ended(t))
  /\ UNCHANGED <<runtime, status, proc, link, backlog, stopping, faults>>

\* Refused, or lost with the process or at shutdown, or failed to be sent or in time
\* and reported so once before.
Rejected(t) ==
  /\ At(t, "init") /\ task[t].reply \in {"bad", "lost"}
  /\ IF status = "disabled"
     THEN lock' = Nothing /\ Goes(t, Ended(t)) /\ UNCHANGED <<runtime, proc>>
     ELSE HandleRuntimeFailure(t, {task[t].gen}) /\ UNCHANGED lock
  /\ UNCHANGED <<status, link, backlog, stopping, faults>>

\* mark_disabled, under the runtime's lock.
Disabled(t) ==
  /\ At(t, "init") /\ task[t].reply = "off"
  /\ HandleRuntimeFailure(t, {task[t].gen})
  /\ UNCHANGED <<status, lock, link, backlog, stopping, faults>>

\* No answer for 30 s, to an initialize or to a request.
Timeout(t) ==
  /\ t \in Waiting(task[t].gen)
  /\ proc[task[t].gen] # "up"
  /\ HandleRuntimeFailure(t, {task[t].gen})
  /\ UNCHANGED <<status, lock, link, backlog, stopping, faults>>

\* After the report, an initialize that failed is looked at once more, by
\* ensure_running, or is over; a request or message is tried again.
AfterReport(t) ==
  IF lock = t
  THEN IF task[t].reply \in {"bad", "lost"} THEN Ended(t)
       ELSE [task[t] EXCEPT !.at = "init", !.reply = "lost"]
  ELSE IF task[t].reply = "bad" THEN Ended(t) ELSE Again(t)

\* The end of handle_runtime_failure, or of mark_disabled: the status is written,
\* whatever has become of the plugin since.
Report(t) ==
  /\ At(t, "report")
  /\ status' = IF task[t].reply = "off" THEN "disabled" ELSE "restarting"
  /\ lock' = IF lock = t /\ task[t].reply \in {"bad", "lost"} THEN Nothing ELSE lock
  /\ Goes(t, AfterReport(t))
  /\ UNCHANGED <<runtime, proc, link, backlog, stopping, faults>>

-----------------------------------------------------------------------------
(* request, send_unsolicited *)

Call(t) ==
  /\ t \in Caller /\ At(t, "rest")
  /\ \E job \in {"request", "message"} : Goes(t, Ensuring(job))
  /\ UNCHANGED <<runtime, status, lock, proc, link, backlog, stopping, faults>>

\* Mutant of Ready: that the plugin was running a moment ago is relied on.
ReadyBlindly(t) ==
  /\ At(t, "ready")
  /\ Goes(t, IF task[t].job = "manifest" THEN Ended(t)
             ELSE [task[t] EXCEPT !.at = "send", !.gen = runtime])
  /\ UNCHANGED <<runtime, status, lock, proc, link, backlog, stopping, faults>>

\* runtime_handles; the manifest is only read.
Ready(t) ==
  /\ At(t, "ready")
  /\ Goes(t, IF task[t].job = "manifest" \/ runtime = Nothing THEN Ended(t)
             ELSE [task[t] EXCEPT !.at = "send", !.gen = runtime])
  /\ UNCHANGED <<runtime, status, lock, proc, link, backlog, stopping, faults>>

\* The send waits, without a limit, while the channel is full.
Send(t) ==
  LET g == task[t].gen
      unsolicited == task[t].job = "message"
  IN  /\ At(t, "send") /\ link[g] # "over" /\ ~Full(g)
      /\ backlog' = IF unsolicited /\ proc[g] = "hung" /\ backlog[g] < MaxBacklog
                    THEN [backlog EXCEPT ![g] = @ + 1] ELSE backlog
      /\ Goes(t, IF unsolicited THEN Ended(t) ELSE [task[t] EXCEPT !.at = "asked"])
      /\ UNCHANGED <<runtime, status, lock, proc, link, stopping, faults>>

\* The loop, and with it the channel, is gone: for a request, a message, an initialize.
SendFails(t) ==
  /\ task[t].at \in {"send", "offer"} /\ link[task[t].gen] = "over"
  /\ HandleRuntimeFailure(t, {task[t].gen})
  /\ UNCHANGED <<status, lock, link, backlog, stopping, faults>>

Lost(t) ==
  /\ At(t, "asked") /\ task[t].reply = "lost"
  /\ Goes(t, Again(t))
  /\ UNCHANGED <<runtime, status, lock, proc, link, backlog, stopping, faults>>

Answered(t) ==
  /\ At(t, "asked") /\ task[t].reply = "ok"
  /\ status' = IF task[t].job = "health" THEN "running" ELSE status
  /\ Goes(t, Ended(t))
  /\ UNCHANGED <<runtime, lock, proc, link, backlog, stopping, faults>>

-----------------------------------------------------------------------------
(* The supervisor *)

\* Mutant of Tick: a plugin that has stopped is left alone altogether.
TickIdle ==
  /\ At(Supervisor, "rest") /\ stopping = "no"
  /\ status \notin {"disabled", "shutting down", "stopped"}
  /\ Goes(Supervisor, Ensuring("health"))
  /\ UNCHANGED <<runtime, status, lock, proc, link, backlog, stopping, faults>>

\* supervise skips a plugin that is disabled or stopped; refreshing its endpoints
\* starts it all the same, unless it is disabled.
Tick ==
  /\ At(Supervisor, "rest") /\ stopping = "no"
  /\ Goes(Supervisor, Ensuring(IF status \in {"disabled", "shutting down", "stopped"}
                               THEN "manifest" ELSE "health"))
  /\ UNCHANGED <<runtime, status, lock, proc, link, backlog, stopping, faults>>

\* handle_runtime_failure without a generation: whatever runs now is dropped.
Unhealthy(t) ==
  /\ At(t, "asked") /\ task[t].reply = "bad"
  /\ HandleRuntimeFailure(t, {runtime})
  /\ UNCHANGED <<status, lock, link, backlog, stopping, faults>>

-----------------------------------------------------------------------------
(* PluginManager::shutdown *)

StopTold ==
  /\ stopping = "no"
  /\ stopping' = "told"
  /\ status' = "shutting down"
  /\ UNCHANGED <<runtime, lock, proc, link, backlog, task, faults>>

StopTaken ==
  /\ stopping = "told"
  /\ stopping' = "taken"
  /\ Drop({runtime})
  /\ task' = [t \in Task |-> IF t \in Waiting(runtime)
                             THEN [task[t] EXCEPT !.reply = "lost"] ELSE task[t]]
  /\ UNCHANGED <<status, lock, link, backlog, faults>>

StopDone ==
  /\ stopping = "taken"
  /\ stopping' = "done"
  /\ status' = "stopped"
  /\ UNCHANGED <<runtime, lock, proc, link, backlog, task, faults>>

-----------------------------------------------------------------------------

Loop(g) == LoopClears(g) \/ LoopDrains(g)

Steps(t) ==
  \/ Ensure(t) \/ Lock(t) \/ ConnectFails(t) \/ Greet(t) \/ Offer(t) \/ Answer(t)
  \/ Initialized(t) \/ Garbled(t) \/ Rejected(t) \/ Disabled(t) \/ Timeout(t) \/ Report(t)
  \/ Ready(t) \/ Send(t) \/ SendFails(t) \/ Lost(t) \/ Answered(t) \/ Unhealthy(t)
  \/ \E g \in Gen : Connect(t, g)

Next ==
  \/ \E g \in Gen : Crash(g) \/ Hang(g) \/ Loop(g)
  \/ \E t \in Task : Steps(t) \/ Call(t)
  \/ Tick
  \/ StopTold \/ StopTaken \/ StopDone

\* Connecting and answering take at most 10 s and 30 s; the restart lock and the
\* channel, which are free only now and then, come to a task in its turn; the
\* supervisor's rounds come every 15 s.
Fairness ==
  /\ WF_vars(\E g \in Gen : Loop(g))
  /\ \A t \in Task : SF_vars(Steps(t))
  /\ WF_vars(Tick)

Spec == Init /\ [][Next]_vars /\ Fairness

-----------------------------------------------------------------------------
(* Properties *)

\* However many tasks find the plugin gone at once, there is never a second process
\* beside one that runs or is being launched (they would share the socket's path).
OneProcess ==
  LET running == {g \in Gen : proc[g] # "down"}
      launching == {t \in Task : At(t, "launch")}
  IN  /\ \A g, h \in running : g = h
      /\ \A t, u \in launching : t = u
      /\ running = {} \/ launching = {}

\* A process that is up is ended only for its own failure: an answer of its own that
\* is late, refused or lost, the supervisor's verdict, the shutdown, or a crash.
FailureSparesSuccessor ==
  [][\A g \in Gen :
       proc[g] = "up" /\ proc'[g] = "down"
       => \/ faults' # faults
          \/ stopping' # stopping
          \/ \E t \in Task : task'[t] # task[t] /\ (task[t].gen = g \/ Unhealthy(t))]_vars

\* A hung process whose channel is full of messages that await no answer: no timeout
\* is running, and what is sent to it waits until it dies.
Jammed(g) == proc[g] = "hung" /\ link[g] = "run" /\ backlog[g] >= Capacity

\* A task that waits to send into such a channel, or for one that holds the restart
\* lock meanwhile.
WaitsInVain(t) ==
  \/ task[t].at \in {"send", "offer"} /\ Jammed(task[t].gen)
  \/ At(t, "lock") /\ lock # Nothing /\ At(lock, "offer") /\ Jammed(task[lock].gen)

\* Once the plugin has no more faults it runs again for good and is said to run,
\* unless it disabled itself, the node shuts down, or its channel is jammed.
ComesBack ==
  \/ <>[](runtime # Nothing /\ proc[runtime] = "up" /\ status = "running")
  \/ <>(status = "disabled" \/ stopping # "no")
  \/ <>[](runtime # Nothing /\ Jammed(runtime))

\* Every use of the plugin ends, answered or not, or waits for a jammed channel.
CallsEnd == \A t \in Caller : ~At(t, "rest") ~> At(t, "rest") \/ WaitsInVain(t)

\* Violated: every use of the plugin ends.
EveryCallEnds == \A t \in Caller : ~At(t, "rest") ~> At(t, "rest")

\* Violated: a plugin that hangs comes back whatever its callers do.
HangIsNoticed ==
  \/ <>[](runtime # Nothing /\ proc[runtime] = "up" /\ status = "running")
  \/ <>(status = "disabled" \/ stopping # "no")

\* Violated: the supervisor's verdict is about the process that answered.
VerdictSparesSuccessor ==
  [][\A t \in Task, g \in Gen : Unhealthy(t) /\ proc[g] = "up" /\ proc'[g] = "down"
                                => task[t].gen = g]_vars

\* Violated: a plugin that was shut down stays down.
StoppedStaysStopped == [][stopping = "done" /\ runtime = Nothing => runtime' = Nothing]_vars

\* Violated: a plugin that disabled itself is not started again.
DisabledIsFinal == [][status = "disabled" => status' \notin {"starting", "restarting"}]_vars
=============================================================================
