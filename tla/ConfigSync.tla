----------------------------- MODULE ConfigSync -----------------------------
(***************************************************************************)
(* One node's configuration, pushed and watched by the nodes of its owner   *)
(* (runtime/config_state.rs, the config streams of mesh/mod.rs).            *)
(*                                                                         *)
(* A config is what the wire carries and whether host-only fields (parallel,*)
(* force_split) are set beside it; the wire, and therefore the hash, does    *)
(* not see the latter.  ConfigState is behind one mutex, which apply holds   *)
(* across its two file writes; the watch channel of revisions is outside it. *)
(***************************************************************************)
EXTENDS Integers, FiniteSets

CONSTANTS
  Wire,         \* contents of a NodeConfigSnapshot
  Default,      \* the one of MeshConfig::default()
  Pinned,       \* those that pin GPUs
  Subscriber,   \* nodes of the same owner
  Old,          \* those too old for pinned GPUs
  NoWire,       \* no hash was written yet
  MaxRevision   \* bound: revisions

ASSUME ConstantsAssumption ==
  /\ Default \in Wire /\ NoWire \notin Wire
  /\ Pinned \subseteq Wire /\ Old \subseteq Subscriber
  /\ MaxRevision \in Nat

VARIABLES
  up,          \* the node's process runs
  config,      \* ConfigState.config; config_hash is its wire part
  revision,    \* ConfigState.revision
  last_write,  \* ConfigState.last_write_hash
  file,        \* the config file, or Absent
  sidecar,     \* the revision sidecar (0 when there is none)
  edited,      \* history: the file was edited by hand since it was read or written
  applying,    \* the config apply has written, its sidecar still to come
  unsent,      \* revisions applied and not yet sent on config_revision_tx
  watch,       \* config_revision_tx: its version and its value
  stream,      \* [Subscriber -> where the subscribe handler is]
  seen,        \* [Subscriber -> watch version the handler's receiver has seen]
  view,        \* [Subscriber -> what it was last sent]
  reply        \* the last push response, and what a no-op asked for

vars == <<up, config, revision, last_write, file, sidecar, edited, applying,
          unsent, watch, stream, seen, view, reply>>

memory == <<config, revision, last_write>>
disk == <<file, sidecar, edited>>
channel == <<unsent, watch>>
subscription == <<stream, seen, view>>

Revision == 0..MaxRevision
Config == [wire : Wire, local : BOOLEAN]
Plain(w) == [wire |-> w, local |-> FALSE]   \* proto_config_to_mesh
Absent == Plain(NoWire)
Nothing == Plain(NoWire)
View == [revision : Revision, wire : Wire \cup {NoWire}, live : BOOLEAN]
NoView == [revision |-> 0, wire |-> NoWire, live |-> FALSE]

TypeOK ==
  /\ up \in BOOLEAN
  /\ config \in Config
  /\ revision \in Revision
  /\ last_write \in Wire \cup {NoWire}
  /\ file \in Config \cup {Absent}
  /\ sidecar \in Revision
  /\ edited \in BOOLEAN
  /\ applying \in Config \cup {Nothing}
  /\ unsent \subseteq Revision
  /\ watch \in [version : Revision, value : Revision]
  /\ stream \in [Subscriber -> {"closed", "answered", "listening", "woken"}]
  /\ seen \in [Subscriber -> Revision]
  /\ view \in [Subscriber -> View]
  /\ reply \in [mode : {"none", "staged", "tracking_error", "noop", "conflict"},
                wire : Wire \cup {NoWire}]

Loaded(f) == IF f = Absent THEN Plain(Default) ELSE f
Replied(mode) == [mode |-> mode, wire |-> NoWire]

\* ConfigState::load
Init ==
  /\ up = TRUE
  /\ file \in Config \cup {Absent}
  /\ sidecar = 0
  /\ config = Loaded(file)
  /\ revision = 0
  /\ last_write = file.wire
  /\ edited = FALSE
  /\ applying = Nothing
  /\ unsent = {}
  /\ watch = [version |-> 0, value |-> 0]
  /\ stream = [s \in Subscriber |-> "closed"]
  /\ seen = [s \in Subscriber |-> 0]
  /\ view = [s \in Subscriber |-> NoView]
  /\ reply = Replied("none")

Unlocked == up /\ applying = Nothing
Committed == IF applying = Nothing THEN config ELSE applying
Current == [revision |-> revision, wire |-> config.wire, live |-> TRUE]
Refused(s) == s \in Old /\ config.wire \in Pinned

-----------------------------------------------------------------------------
(* handle_config_subscribe *)

\* The snapshot is read under the lock and written to the stream.
SnapshotSent(s) ==
  /\ Unlocked
  /\ stream[s] = "closed"
  /\ ~Refused(s)
  /\ view' = [view EXCEPT ![s] = Current]
  /\ stream' = [stream EXCEPT ![s] = "answered"]
  /\ UNCHANGED <<up, memory, disk, applying, channel, seen, reply>>

\* config_revision_tx.subscribe(): sends up to now count as seen.
WatchSubscribed(s) ==
  /\ stream[s] = "answered"
  /\ stream' = [stream EXCEPT ![s] = "listening"]
  /\ seen' = [seen EXCEPT ![s] = watch.version]
  /\ UNCHANGED <<up, memory, disk, applying, channel, view, reply>>

RevisionChanged(s) ==
  /\ stream[s] = "listening"
  /\ seen[s] # watch.version
  /\ stream' = [stream EXCEPT ![s] = "woken"]
  /\ seen' = [seen EXCEPT ![s] = watch.version]
  /\ UNCHANGED <<up, memory, disk, applying, channel, view, reply>>

RevisionTrusted(s) ==
  /\ stream[s] = "woken"
  /\ Unlocked
  /\ stream' = [stream EXCEPT ![s] = IF Refused(s) THEN "closed" ELSE "listening"]
  /\ view' = IF Refused(s) THEN view
             ELSE [view EXCEPT ![s] = [Current EXCEPT !.revision = watch.value]]
  /\ UNCHANGED <<up, memory, disk, applying, channel, seen, reply>>

\* The notification is built from the state, not from the revision received.
NotificationSent(s) ==
  /\ stream[s] = "woken"
  /\ Unlocked
  /\ stream' = [stream EXCEPT ![s] = IF Refused(s) THEN "closed" ELSE "listening"]
  /\ view' = IF Refused(s) THEN view ELSE [view EXCEPT ![s] = Current]
  /\ UNCHANGED <<up, memory, disk, applying, channel, seen, reply>>

\* The subscriber or its connection goes.
StreamClosed(s) ==
  /\ stream[s] # "closed"
  /\ stream' = [stream EXCEPT ![s] = "closed"]
  /\ UNCHANGED <<up, memory, disk, applying, channel, seen, view, reply>>

-----------------------------------------------------------------------------
(* handle_config_push and ConfigState::apply *)

\* A node pushes what it likes, at the revision it last saw.
Expected(s) == view[s].revision
Pushes(s) == Unlocked /\ view[s] # NoView

PushRefused(s, w) ==
  /\ Pushes(s)
  /\ Expected(s) # revision
  /\ reply' = Replied("conflict")
  /\ UNCHANGED <<up, memory, disk, applying, channel, subscription>>

PushNoop(s, w) ==
  /\ Pushes(s)
  /\ Expected(s) = revision
  /\ w = last_write
  /\ reply' = [mode |-> "noop", wire |-> w]
  /\ UNCHANGED <<up, memory, disk, applying, channel, subscription>>

\* atomic_write of the config; when it fails nothing changes.
ConfigWritten(s, w) ==
  /\ Pushes(s)
  /\ Expected(s) = revision
  /\ w # last_write
  /\ revision < MaxRevision
  /\ file' = Plain(w)
  /\ edited' = FALSE
  /\ applying' = Plain(w)
  /\ UNCHANGED <<up, memory, sidecar, channel, subscription, reply>>

\* What both outcomes of the sidecar's write do to the state.
Adopt ==
  /\ up /\ applying # Nothing
  /\ config' = applying
  /\ revision' = revision + 1
  /\ unsent' = unsent \cup {revision + 1}
  /\ applying' = Nothing

SidecarWritten ==
  /\ Adopt
  /\ sidecar' = revision + 1
  /\ last_write' = applying.wire
  /\ reply' = Replied("staged")
  /\ UNCHANGED <<up, file, edited, watch, subscription>>

SidecarFailedSilently ==
  /\ up /\ applying # Nothing
  /\ config' = applying
  /\ revision' = revision + 1
  /\ applying' = Nothing
  /\ reply' = Replied("tracking_error")
  /\ UNCHANGED <<up, last_write, disk, channel, subscription>>

SidecarFailedInPlace ==
  /\ up /\ applying # Nothing
  /\ config' = applying
  /\ unsent' = unsent \cup {revision}
  /\ applying' = Nothing
  /\ reply' = Replied("tracking_error")
  /\ UNCHANGED <<up, revision, last_write, disk, watch, subscription>>

SidecarFailedEarly ==
  /\ up /\ applying # Nothing
  /\ applying' = Nothing
  /\ reply' = Replied("tracking_error")
  /\ UNCHANGED <<up, memory, disk, channel, subscription>>

\* PersistedWithRevisionTrackingError: last_write_hash is left alone.
SidecarFailed ==
  /\ Adopt
  /\ reply' = Replied("tracking_error")
  /\ UNCHANGED <<up, last_write, disk, watch, subscription>>

RevisionResent ==
  /\ \E r \in unsent : watch' = [version |-> watch.version + 1, value |-> r]
  /\ UNCHANGED <<up, memory, disk, applying, unsent, subscription, reply>>

\* config_revision_tx.send, after the lock is gone: sends may overtake each other.
RevisionSent ==
  /\ \E r \in unsent : /\ unsent' = unsent \ {r}
                       /\ watch' = [version |-> watch.version + 1, value |-> r]
  /\ UNCHANGED <<up, memory, disk, applying, subscription, reply>>

-----------------------------------------------------------------------------
(* The file and the process *)

\* The desktop app or the user writes config.toml; the node does not look.
\* Several edits in a row are one.
FileEdited ==
  /\ applying = Nothing
  /\ ~edited
  /\ file' \in Config
  /\ edited' = TRUE
  /\ UNCHANGED <<up, memory, sidecar, applying, channel, subscription, reply>>

\* The process dies with all it has in memory; subscribers remember their view.
Crash ==
  /\ up
  /\ up' = FALSE
  /\ config' = Plain(Default)
  /\ revision' = 0
  /\ last_write' = NoWire
  /\ applying' = Nothing
  /\ unsent' = {}
  /\ watch' = [version |-> 0, value |-> 0]
  /\ stream' = [s \in Subscriber |-> "closed"]
  /\ seen' = [s \in Subscriber |-> 0]
  /\ view' = [s \in Subscriber |-> [view[s] EXCEPT !.live = FALSE]]
  /\ reply' = Replied("none")
  /\ UNCHANGED disk

\* ConfigState::load
Restart ==
  /\ ~up
  /\ up' = TRUE
  /\ config' = Loaded(file)
  /\ revision' = sidecar
  /\ last_write' = file.wire
  /\ edited' = FALSE
  /\ watch' = [version |-> 0, value |-> sidecar]
  /\ UNCHANGED <<file, sidecar, applying, unsent, subscription, reply>>

-----------------------------------------------------------------------------
(* Specification *)

Apply == SidecarWritten \/ SidecarFailed
Notify(s) == WatchSubscribed(s) \/ RevisionChanged(s) \/ NotificationSent(s)
Push(s, w) == PushRefused(s, w) \/ PushNoop(s, w) \/ ConfigWritten(s, w)

Next ==
  \/ \E s \in Subscriber : SnapshotSent(s) \/ Notify(s) \/ StreamClosed(s)
  \/ \E s \in Subscriber, w \in Wire : Push(s, w)
  \/ Apply \/ RevisionSent
  \/ FileEdited \/ Crash \/ Restart

Spec == Init /\ [][Next]_vars

\* Handlers run on while the process does; the two file writes end.
Fairness ==
  /\ WF_vars(Apply)
  /\ WF_vars(RevisionSent)
  /\ \A s \in Subscriber : SF_vars(Notify(s))

FairSpec == Spec /\ Fairness

-----------------------------------------------------------------------------
(* Properties *)

\* Unless somebody edited the file, what a restart would read is what the node
\* runs on, or what apply has just put in its place, whether a sidecar failed or
\* the process died between the two writes before (apply's order of updates).
PersistedIsCurrent ==
  up /\ ~edited => Loaded(file) = Committed

\* What is in force once the file is written, and what a start would load.
Contents == IF up THEN Committed.wire ELSE Loaded(file).wire
Version == IF ~up THEN sidecar ELSE IF applying = Nothing THEN revision ELSE revision + 1

\* Whatever fails, is late or overtakes what, the node is a versioned register to its
\* subscribers: a push that goes through replaces what its sender was shown, at
\* once and for good (the write of the file decides, its sidecar does not count),
\* and nobody is shown an older version than before (ConfigState::apply,
\* handle_config_push, handle_config_subscribe).
Shared == INSTANCE SharedConfig
  WITH contents <- Contents, draft <- Loaded(file).wire, version <- Version
IsSharedConfig == Shared!Spec

\* In particular a push that is written to disk replaces exactly what its sender
\* saw, if it saw it in this run of the process (the comparison of revisions in apply).
CasReplacesWhatWasSeen ==
  [][\A s \in Subscriber, w \in Wire :
       ConfigWritten(s, w) /\ view[s].live => view[s].wire = config.wire]_vars

\* And what a subscriber is shown never goes back, although the revisions may be
\* sent on the channel out of order (handle_config_push sends outside the lock).
ViewNeverGoesBack ==
  [][\A s \in Subscriber :
       view[s].live /\ view'[s].live => view'[s].revision >= view[s].revision]_vars

\* A subscriber that listens while a push is applied is shown its revision, or a
\* later one, or loses its stream: whether or not the sidecar was written, however
\* the sends on the channel overtake each other (handle_config_push sends on both
\* outcomes, the watch channel keeps the last).
ChangesReachListeners ==
  \A s \in Subscriber, r \in 1..MaxRevision :
    stream[s] = "listening" /\ applying # Nothing /\ up /\ revision + 1 = r
      ~> stream[s] = "closed" \/ (view[s].live /\ view[s].revision >= r)

-----------------------------------------------------------------------------
(* What the documentation and the tests say, and the code does not do *)

\* "No-op: the incoming config was identical to the current one"
\* (config_state.rs): a push answered with Noop asked for what the node runs on.
NoopIsCurrent == reply.mode = "noop" => reply.wire = config.wire

\* "The subscribe stream must deliver a ConfigUpdateNotification for the change"
\* (mesh/tests.rs): whoever has its snapshot gets every later revision, as long
\* as its stream stays open.
StreamDelivers ==
  \A s \in Subscriber : \A r \in Revision :
    stream[s] # "closed" /\ revision = r /\ reply.mode = "staged"
      ~> stream[s] = "closed" \/ view[s].revision >= r
=============================================================================
