-------------------------- MODULE ConfigSyncProofs --------------------------
(***************************************************************************)
(* Proofs of ConfigSync's safety properties for any contents, subscribers   *)
(* and number of revisions.                                                 *)
(***************************************************************************)
EXTENDS ConfigSync, FiniteSetTheorems, TLAPS

-----------------------------------------------------------------------------
(* Types *)

(***************************************************************************)
(* Each send carries a revision of its own, so the channel's version and    *)
(* the sends to come never outnumber the revisions; apply has room for one  *)
(* revision more than the current one.  A dead process sends and applies     *)
(* nothing.                                                                *)
(***************************************************************************)
SendsAreRevisions ==
  IsFiniteSet(unsent) /\ watch.version + Cardinality(unsent) <= revision
ApplyHasRoom == applying # Nothing => revision < MaxRevision
DownIsQuiet == ~up => unsent = {} /\ applying = Nothing
Typed == TypeOK /\ SendsAreRevisions /\ ApplyHasRoom /\ DownIsQuiet

LEMMA LoadedType == \A f \in Config \cup {Absent} : Loaded(f) \in Config
BY ConstantsAssumption DEF Loaded, Config, Plain, Absent

LEMMA PlainType == \A w \in Wire : Plain(w) \in Config /\ Plain(w) # Nothing
BY ConstantsAssumption DEF Config, Plain, Nothing

LEMMA TypeInit == Init => Typed
<1> SUFFICES ASSUME Init PROVE Typed
  OBVIOUS
<1>1. config \in Config
  BY LoadedType DEF Init
<1>2. file.wire \in Wire \cup {NoWire}
  BY DEF Init, Config, Absent, Plain
<1>3. 0 \in Revision
  BY ConstantsAssumption DEF Revision
<1>4. TypeOK
  BY <1>1, <1>2, <1>3 DEF Init, TypeOK, Replied, NoView, View
<1>5. SendsAreRevisions
  BY FS_EmptySet DEF Init, SendsAreRevisions
<1>6. QED BY <1>4, <1>5 DEF Init, Typed, ApplyHasRoom, DownIsQuiet

LEMMA StreamTypeStep ==
  ASSUME Typed, NEW s \in Subscriber, SnapshotSent(s) \/ Notify(s) \/ StreamClosed(s)
  PROVE  Typed'
<1> USE DEF Typed, TypeOK, memory, disk, channel, subscription
<1>1. Current \in View
  BY DEF Current, View, Config
<1>2. /\ UNCHANGED <<up, config, revision, last_write, file, sidecar, edited, applying,
                     unsent, watch, reply>>
  BY DEF SnapshotSent, Notify, WatchSubscribed, RevisionChanged, NotificationSent, StreamClosed
<1>3. stream' \in [Subscriber -> {"closed", "answered", "listening", "woken"}]
  BY DEF SnapshotSent, Notify, WatchSubscribed, RevisionChanged, NotificationSent, StreamClosed
<1>4. seen' \in [Subscriber -> Revision]
  BY DEF SnapshotSent, Notify, WatchSubscribed, RevisionChanged, NotificationSent, StreamClosed
<1>5. view' \in [Subscriber -> View]
  BY <1>1 DEF SnapshotSent, Notify, WatchSubscribed, RevisionChanged, NotificationSent, StreamClosed
<1>6. QED BY <1>2, <1>3, <1>4, <1>5 DEF SendsAreRevisions, ApplyHasRoom, DownIsQuiet

LEMMA PushTypeStep ==
  ASSUME Typed, NEW s \in Subscriber, NEW w \in Wire, Push(s, w)
  PROVE  Typed'
<1> USE PlainType DEF Typed, TypeOK, memory, disk, channel, subscription,
                      SendsAreRevisions, ApplyHasRoom, DownIsQuiet
<1>1. CASE PushRefused(s, w)
  BY <1>1 DEF Replied, PushRefused
<1>2. CASE PushNoop(s, w)
  BY <1>2 DEF PushNoop
<1>3. CASE ConfigWritten(s, w)
  BY <1>3 DEF ConfigWritten, Pushes, Unlocked
<1>4. QED BY <1>1, <1>2, <1>3 DEF Push

LEMMA ApplyTypeStep ==
  ASSUME Typed, Apply
  PROVE  Typed'
<1> USE DEF Typed, TypeOK, memory, disk, channel, subscription
<1>1. Adopt
  BY DEF Apply, SidecarWritten, SidecarFailed
<1>2. applying \in Config /\ applying.wire \in Wire
  <2>1. applying \in Config
    BY <1>1 DEF Adopt
  <2>2. QED BY <2>1 DEF Config
<1>3. revision + 1 \in Revision
  BY <1>1, ConstantsAssumption DEF Adopt, ApplyHasRoom, Revision
<1>4. /\ IsFiniteSet(unsent')
      /\ Cardinality(unsent') <= Cardinality(unsent) + 1
  <2>1. unsent' = unsent \cup {revision + 1}
    BY <1>1 DEF Adopt
  <2>2. IsFiniteSet(unsent)
    BY DEF SendsAreRevisions
  <2>3. Cardinality(unsent) \in Nat
    BY <2>2, FS_CardinalityType
  <2>4. /\ IsFiniteSet(unsent \cup {revision + 1})
        /\ Cardinality(unsent \cup {revision + 1}) =
             IF revision + 1 \in unsent THEN Cardinality(unsent) ELSE Cardinality(unsent) + 1
    BY <2>2, FS_AddElement
  <2>5. QED BY <2>1, <2>3, <2>4
<1>5. SendsAreRevisions'
  <2>1. Cardinality(unsent) \in Nat /\ Cardinality(unsent') \in Nat
    BY <1>4, FS_CardinalityType DEF SendsAreRevisions
  <2>2. watch' = watch /\ revision' = revision + 1
    BY <1>1 DEF Adopt, Apply, SidecarWritten, SidecarFailed
  <2>3. QED BY <1>4, <2>1, <2>2 DEF SendsAreRevisions, Revision
<1>6. ApplyHasRoom' /\ DownIsQuiet'
  BY <1>1 DEF Adopt, ApplyHasRoom, DownIsQuiet, Apply, SidecarWritten, SidecarFailed
<1>7. TypeOK'
  <2>1. unsent' \subseteq Revision
    BY <1>1, <1>3 DEF Adopt
  <2>2. CASE SidecarWritten
    BY <1>1, <1>2, <1>3, <2>1, <2>2 DEF Replied, Adopt, SidecarWritten
  <2>3. CASE SidecarFailed
    BY <1>1, <1>2, <1>3, <2>1, <2>3 DEF Replied, Adopt, SidecarFailed
  <2>4. QED BY <2>2, <2>3 DEF Apply
<1>8. QED BY <1>5, <1>6, <1>7

LEMMA SendTypeStep ==
  ASSUME Typed, RevisionSent
  PROVE  Typed'
<1> USE DEF Typed, TypeOK, memory, disk, channel, subscription
<1>1. PICK r \in unsent : /\ unsent' = unsent \ {r}
                          /\ watch' = [version |-> watch.version + 1, value |-> r]
  BY DEF RevisionSent
<1>2. /\ IsFiniteSet(unsent')
      /\ Cardinality(unsent') = Cardinality(unsent) - 1
  BY <1>1, FS_RemoveElement DEF SendsAreRevisions
<1>3. Cardinality(unsent) \in Nat /\ Cardinality(unsent') \in Nat
  BY <1>2, FS_CardinalityType DEF SendsAreRevisions
<1>4. SendsAreRevisions'
  BY <1>1, <1>2, <1>3 DEF SendsAreRevisions, Revision, RevisionSent
<1>5. watch.version + 1 \in Revision
  BY <1>2, <1>3, ConstantsAssumption DEF SendsAreRevisions, Revision
<1>6. QED BY <1>1, <1>4, <1>5 DEF RevisionSent, ApplyHasRoom, DownIsQuiet

LEMMA ProcessTypeStep ==
  ASSUME Typed, FileEdited \/ Crash \/ Restart
  PROVE  Typed'
<1> USE DEF Typed, TypeOK, memory, disk, channel, subscription
<1>1. CASE FileEdited
  BY <1>1 DEF FileEdited, SendsAreRevisions, ApplyHasRoom, DownIsQuiet
<1>2. 0 \in Revision
  BY ConstantsAssumption DEF Revision
<1>3. CASE Crash
  <2>1. view' \in [Subscriber -> View]
    BY <1>3 DEF Crash, View
  <2>2. SendsAreRevisions'
    BY <1>3, FS_EmptySet DEF Crash, SendsAreRevisions, Revision
  <2>3. Plain(Default) \in Config
    BY PlainType, ConstantsAssumption
  <2>4. QED BY <1>2, <1>3, <2>1, <2>2, <2>3 DEF Crash, Replied, ApplyHasRoom, DownIsQuiet
<1>4. CASE Restart
  <2>1. config' \in Config
    BY <1>4, LoadedType DEF Restart
  <2>2. last_write' \in Wire \cup {NoWire}
    BY <1>4 DEF Restart, Config, Absent, Plain
  <2>3. SendsAreRevisions'
    <3>1. unsent' = {} /\ watch' = [version |-> 0, value |-> sidecar] /\ revision' = sidecar
      BY <1>4 DEF Restart, DownIsQuiet
    <3>2. sidecar >= 0
      BY ConstantsAssumption DEF Revision
    <3>3. QED BY <3>1, <3>2, FS_EmptySet DEF SendsAreRevisions, Revision
  <2>4. QED BY <1>2, <1>4, <2>1, <2>2, <2>3 DEF Restart, ApplyHasRoom, DownIsQuiet
<1>5. QED BY <1>1, <1>3, <1>4

LEMMA TypeStep == Typed /\ [Next]_vars => Typed'
<1> SUFFICES ASSUME Typed, [Next]_vars PROVE Typed'
  OBVIOUS
<1>1. CASE UNCHANGED vars
  BY <1>1 DEF vars, Typed, TypeOK, SendsAreRevisions, ApplyHasRoom, DownIsQuiet
<1>2. QED
  BY <1>1, StreamTypeStep, PushTypeStep, ApplyTypeStep, SendTypeStep, ProcessTypeStep DEF Next

\* Type correctness: in particular the watch channel is sent no more values than
\* there are revisions, and apply never runs past the last one.
THEOREM TypeCorrect == Spec => []TypeOK
<1>1. Typed => TypeOK
  BY DEF Typed
<1>2. QED BY <1>1, TypeInit, TypeStep, PTL DEF Spec

-----------------------------------------------------------------------------
(* The disk *)

LEMMA DiskInit == Init => PersistedIsCurrent
BY DEF Init, PersistedIsCurrent, Committed

LEMMA DiskStep == Typed /\ PersistedIsCurrent /\ [Next]_vars => PersistedIsCurrent'
<1> SUFFICES ASSUME Typed, PersistedIsCurrent, [Next]_vars PROVE PersistedIsCurrent'
  OBVIOUS
<1> USE DEF PersistedIsCurrent, Committed, memory, disk, channel, subscription
<1>1. ASSUME NEW s \in Subscriber, SnapshotSent(s) \/ Notify(s) \/ StreamClosed(s)
      PROVE  PersistedIsCurrent'
  BY <1>1 DEF SnapshotSent, Notify, WatchSubscribed, RevisionChanged, NotificationSent, StreamClosed
<1>2. ASSUME NEW s \in Subscriber, NEW w \in Wire, Push(s, w)
      PROVE  PersistedIsCurrent'
  <2>1. Loaded(Plain(w)) = Plain(w) /\ Plain(w) # Nothing
    BY PlainType DEF Loaded, Absent, Nothing
  <2>2. CASE ConfigWritten(s, w)
    BY <2>1, <2>2 DEF ConfigWritten
  <2>3. CASE PushRefused(s, w) \/ PushNoop(s, w)
    BY <2>3 DEF PushRefused, PushNoop
  <2>4. QED BY <1>2, <2>2, <2>3 DEF Push
<1>3. CASE Apply
  BY <1>3 DEF Apply, SidecarWritten, SidecarFailed, Adopt
<1>4. CASE RevisionSent
  BY <1>4 DEF RevisionSent
<1>5. CASE FileEdited \/ Crash \/ Restart
  BY <1>5 DEF FileEdited, Crash, Restart, Typed, DownIsQuiet
<1>6. CASE UNCHANGED vars
  BY <1>6 DEF vars
<1>7. QED BY <1>1, <1>2, <1>3, <1>4, <1>5, <1>6 DEF Next

\* Whenever the process dies, the file it left unedited holds the config it ran
\* on, or the one apply was about to adopt.
THEOREM Persisted == Spec => []PersistedIsCurrent
BY TypeInit, TypeStep, DiskInit, DiskStep, PTL DEF Spec

-----------------------------------------------------------------------------
(* What subscribers were shown *)

(***************************************************************************)
(* A view of this run of the process is of a revision the node has had, and *)
(* one of the current revision shows the current contents: revisions name   *)
(* contents as long as the process lives.                                   *)
(***************************************************************************)
ViewIsKnown == \A s \in Subscriber :
  view[s].live => /\ up
                  /\ view[s].revision <= revision
                  /\ view[s].revision = revision => view[s].wire = config.wire

LEMMA ViewInit == Init => ViewIsKnown
BY DEF Init, ViewIsKnown, NoView

\* A step of a stream shows its subscriber the current state, or nothing new.
LEMMA StreamShows ==
  ASSUME Typed, NEW s \in Subscriber, SnapshotSent(s) \/ Notify(s) \/ StreamClosed(s)
  PROVE  /\ UNCHANGED <<up, config, revision>>
         /\ view' = view \/ (up /\ view' = [view EXCEPT ![s] = Current])
<1> USE DEF memory, disk, channel, subscription
<1>1. CASE SnapshotSent(s)
  BY <1>1 DEF SnapshotSent, Unlocked
<1>2. CASE Notify(s)
  <2>1. CASE WatchSubscribed(s) \/ RevisionChanged(s)
    BY <2>1 DEF WatchSubscribed, RevisionChanged
  <2>2. CASE NotificationSent(s)
    BY <2>2 DEF NotificationSent, Unlocked
  <2>3. QED BY <1>2, <2>1, <2>2 DEF Notify
<1>3. CASE StreamClosed(s)
  BY <1>3 DEF StreamClosed
<1>4. QED BY <1>1, <1>2, <1>3

LEMMA ViewStep == Typed /\ ViewIsKnown /\ [Next]_vars => ViewIsKnown'
<1> SUFFICES ASSUME Typed, ViewIsKnown, [Next]_vars PROVE ViewIsKnown'
  OBVIOUS
<1> USE DEF Typed, TypeOK, ViewIsKnown, memory, disk, channel, subscription
<1>1. ASSUME NEW s \in Subscriber, SnapshotSent(s) \/ Notify(s) \/ StreamClosed(s)
      PROVE  ViewIsKnown'
  <2>1. CASE view' = view
    BY <1>1, <2>1, StreamShows
  <2>2. CASE up /\ view' = [view EXCEPT ![s] = Current]
    <3>1. UNCHANGED <<up, config, revision>>
      BY <1>1, StreamShows
    <3>2. revision \in Int
      BY DEF Revision
    <3>3. \A t \in Subscriber : view'[t] = IF t = s THEN Current ELSE view[t]
      BY <2>2
    <3>4. QED BY <2>2, <3>1, <3>2, <3>3 DEF Current
  <2>3. QED BY <1>1, <2>1, <2>2, StreamShows
<1>2. ASSUME NEW s \in Subscriber, NEW w \in Wire, Push(s, w)
      PROVE  ViewIsKnown'
  BY <1>2 DEF Push, PushRefused, PushNoop, ConfigWritten
<1>3. CASE Apply
  <2>1. revision' = revision + 1 /\ up' /\ view' = view
    BY <1>3 DEF Apply, SidecarWritten, SidecarFailed, Adopt
  <2>2. \A s \in Subscriber : view[s].revision \in Int
    BY DEF View, Revision
  <2>3. QED BY <2>1, <2>2 DEF Revision
<1>4. CASE RevisionSent
  BY <1>4 DEF RevisionSent
<1>5. CASE FileEdited
  BY <1>5 DEF FileEdited
<1>6. CASE Crash
  BY <1>6 DEF Crash, View
<1>7. CASE Restart
  BY <1>7 DEF Restart
<1>8. CASE UNCHANGED vars
  BY <1>8 DEF vars
<1>9. QED BY <1>1, <1>2, <1>3, <1>4, <1>5, <1>6, <1>7, <1>8 DEF Next

LEMMA KnownHolds == Spec => [](Typed /\ ViewIsKnown)
BY TypeInit, TypeStep, ViewInit, ViewStep, PTL DEF Spec

\* The revision check is a compare-and-swap on contents, whatever sidecars failed
\* and whatever notifications were late, as long as the process lives.
THEOREM CasReplaces == Spec => CasReplacesWhatWasSeen
<1> DEFINE Replaces == \A s \in Subscriber, w \in Wire :
                         ConfigWritten(s, w) /\ view[s].live => view[s].wire = config.wire
<1>1. ViewIsKnown => Replaces
  BY DEF ViewIsKnown, ConfigWritten, Expected
<1>2. Spec => [][Replaces]_vars
  BY <1>1, KnownHolds, PTL
<1>3. QED BY <1>2 DEF CasReplacesWhatWasSeen

\* What a subscriber is shown never goes back within a run of the process.
THEOREM ViewsAdvance == Spec => ViewNeverGoesBack
<1> DEFINE Advances == \A s \in Subscriber :
        view[s].live /\ view'[s].live => view'[s].revision >= view[s].revision
<1>1. Typed /\ ViewIsKnown /\ [Next]_vars => [Advances]_vars
  <2> SUFFICES ASSUME Typed, ViewIsKnown, [Next]_vars PROVE [Advances]_vars
    OBVIOUS
  <2> USE DEF memory, disk, channel, subscription
  <2>1. revision \in Int /\ \A s \in Subscriber : view[s].revision \in Int
    BY DEF Typed, TypeOK, View, Revision
  <2>2. CASE view' = view
    BY <2>1, <2>2
  <2>3. ASSUME NEW t \in Subscriber, view' = [view EXCEPT ![t] = Current]
        PROVE  [Advances]_vars
    <3>1. \A s \in Subscriber : view'[s] = IF s = t THEN Current ELSE view[s]
      BY <2>3 DEF Typed, TypeOK
    <3>2. QED BY <2>1, <3>1 DEF Current, ViewIsKnown
  <2>4. ASSUME NEW t \in Subscriber, SnapshotSent(t) \/ Notify(t) \/ StreamClosed(t)
        PROVE  [Advances]_vars
    BY <2>2, <2>3, <2>4, StreamShows
  <2>5. CASE Crash
    <3>1. \A s \in Subscriber : view'[s] = [view[s] EXCEPT !.live = FALSE]
      BY <2>5 DEF Crash
    <3>2. \A s \in Subscriber : ~view'[s].live
      BY <3>1 DEF Typed, TypeOK, View
    <3>3. QED BY <3>2
  <2>6. ASSUME NEW s \in Subscriber, NEW w \in Wire, Push(s, w)
        PROVE  [Advances]_vars
    <3>1. view' = view
      BY <2>6 DEF Push, PushRefused, PushNoop, ConfigWritten
    <3>2. QED BY <2>2, <3>1
  <2>7. CASE Apply \/ RevisionSent \/ FileEdited \/ Restart \/ UNCHANGED vars
    BY <2>2, <2>7 DEF Apply, SidecarWritten, SidecarFailed, RevisionSent, FileEdited, Restart, vars
  <2>8. QED BY <2>4, <2>5, <2>6, <2>7 DEF Next
<1>2. Spec => [][Advances]_vars
  BY <1>1, KnownHolds, PTL DEF Spec
<1>3. QED BY <1>2 DEF ViewNeverGoesBack
-----------------------------------------------------------------------------
(* The refinement *)

(***************************************************************************)
(* The sidecar is never ahead of the node, so what a crash falls back to is  *)
(* a version there was.  Everything else the refinement needs is in the      *)
(* types and ViewIsKnown: the write of the file is the commit, for nothing    *)
(* that follows in apply can take it back, and until apply is done the lock   *)
(* keeps everybody from looking.                                            *)
(***************************************************************************)
SidecarFollows == up => sidecar <= revision
SharedInv == Typed /\ ViewIsKnown /\ SidecarFollows

LEMMA SharedInvInit == Init => SharedInv
<1> SUFFICES ASSUME Init PROVE SharedInv
  OBVIOUS
<1>1. SidecarFollows
  BY DEF Init, SidecarFollows
<1>2. QED BY <1>1, TypeInit, ViewInit DEF SharedInv

LEMMA SharedInvStep == SharedInv /\ [Next]_vars => SharedInv'
<1> SUFFICES ASSUME SharedInv, [Next]_vars PROVE SharedInv'
  OBVIOUS
<1>1. Typed' /\ ViewIsKnown'
  BY TypeStep, ViewStep DEF SharedInv
<1>2. SidecarFollows'
  <2> USE DEF SharedInv, SidecarFollows, memory, disk, channel, subscription
  <2>1. revision \in Int /\ sidecar \in Int
    BY DEF Typed, TypeOK, Revision
  <2>2. CASE Apply
    <3>1. up /\ revision' = revision + 1 /\ (sidecar' = revision + 1 \/ sidecar' = sidecar)
      BY <2>2 DEF Apply, SidecarWritten, SidecarFailed, Adopt
    <3>2. QED BY <2>1, <3>1
  <2>3. ASSUME NEW s \in Subscriber, SnapshotSent(s) \/ Notify(s) \/ StreamClosed(s)
        PROVE  SidecarFollows'
    BY <2>3 DEF SnapshotSent, Notify, WatchSubscribed, RevisionChanged, NotificationSent,
                StreamClosed
  <2>4. ASSUME NEW s \in Subscriber, NEW w \in Wire, Push(s, w)
        PROVE  SidecarFollows'
    BY <2>4 DEF Push, PushRefused, PushNoop, ConfigWritten
  <2>5. CASE RevisionSent \/ FileEdited \/ Crash \/ UNCHANGED vars
    BY <2>5 DEF RevisionSent, FileEdited, Crash, vars
  <2>6. CASE Restart
    BY <2>1, <2>6 DEF Restart
  <2>7. QED BY <2>2, <2>3, <2>4, <2>5, <2>6 DEF Next
<1>3. QED BY <1>1, <1>2 DEF SharedInv

LEMMA SharedHolds == Spec => []SharedInv
BY SharedInvInit, SharedInvStep, PTL DEF Spec

LEMMA InitIsShared == Init => Shared!Init
<1> SUFFICES ASSUME Init PROVE Shared!Init
  OBVIOUS
<1>1. Contents = config.wire /\ Loaded(file) = config /\ Version = 0
  BY DEF Init, Contents, Committed, Version
<1>2. config.wire \in Wire
  <2>1. config \in Config
    BY LoadedType DEF Init
  <2>2. QED BY <2>1 DEF Config
<1>3. \A s \in Subscriber : ~view[s].live
  BY DEF Init, NoView
<1>4. QED BY <1>1, <1>2, <1>3 DEF Init, Shared!Init

\* Where nobody is applying, what is in force is what the node has in memory.
LEMMA QuietIsCurrent ==
  ASSUME Unlocked
  PROVE  Contents = config.wire /\ Version = revision
BY DEF Unlocked, Contents, Committed, Version

LEMMA StreamIsShared ==
  ASSUME SharedInv, NEW s \in Subscriber, SnapshotSent(s) \/ Notify(s) \/ StreamClosed(s)
  PROVE  Shared!Show(s) \/ UNCHANGED Shared!vars
<1>1. /\ UNCHANGED <<up, config, revision, applying, file, sidecar>>
      /\ view' = view \/ (Unlocked /\ view' = [view EXCEPT ![s] = Current])
  BY DEF SnapshotSent, Notify, WatchSubscribed, RevisionChanged, NotificationSent,
         StreamClosed, memory, disk, channel, subscription, Unlocked
<1>2. UNCHANGED <<up, Contents, Loaded(file).wire, Version>>
  BY <1>1 DEF Contents, Committed, Version, Loaded
<1>3. CASE view' = view
  BY <1>2, <1>3 DEF Shared!vars
<1>4. CASE Unlocked /\ view' = [view EXCEPT ![s] = Current]
  <2>1. view[s].live => view[s].revision <= Version
    BY <1>4, QuietIsCurrent DEF SharedInv, ViewIsKnown
  <2>2. Current = [revision |-> Version, wire |-> Contents, live |-> TRUE]
    BY <1>4, QuietIsCurrent DEF Current
  <2>3. up
    BY <1>4 DEF Unlocked
  <2>4. QED BY <1>2, <1>4, <2>1, <2>2, <2>3 DEF Shared!Show
<1>5. QED BY <1>1, <1>3, <1>4

LEMMA PushIsShared ==
  ASSUME SharedInv, NEW s \in Subscriber, NEW w \in Wire, Push(s, w)
  PROVE  Shared!Replace(s, w) \/ UNCHANGED Shared!vars
<1> USE DEF memory, disk, channel, subscription
<1>1. CASE PushRefused(s, w) \/ PushNoop(s, w)
  BY <1>1 DEF PushRefused, PushNoop, Shared!vars, Contents, Committed, Version, Loaded
<1>2. CASE ConfigWritten(s, w)
  <2>1. Plain(w) # Nothing /\ Loaded(Plain(w)) = Plain(w) /\ Plain(w).wire = w
    BY PlainType DEF Loaded, Plain, Absent, Nothing
  <2>2. Unlocked /\ view[s].revision = revision
    BY <1>2 DEF ConfigWritten, Pushes, Expected
  <2>3. Contents = config.wire /\ Version = revision
    BY <2>2, QuietIsCurrent
  <2>4. up /\ up' /\ UNCHANGED <<up, view>>
    BY <1>2, <2>2 DEF ConfigWritten, Unlocked
  <2>5. view[s].live => view[s].revision = Version /\ view[s].wire = Contents
    BY <2>2, <2>3 DEF SharedInv, ViewIsKnown
  <2>6. Contents' = w /\ Version' = Version + 1 /\ Loaded(file).wire' = w
    BY <1>2, <2>1, <2>3, <2>4 DEF ConfigWritten, Contents, Committed, Version
  <2>7. QED BY <2>4, <2>5, <2>6 DEF Shared!Replace
<1>3. QED BY <1>1, <1>2 DEF Push

\* The rest of apply changes nothing that a subscriber could tell.
LEMMA ApplyIsShared ==
  ASSUME SharedInv, Apply
  PROVE  UNCHANGED Shared!vars
<1>1. /\ up /\ applying # Nothing /\ applying' = Nothing
      /\ config' = applying /\ revision' = revision + 1
      /\ UNCHANGED <<up, file, view>>
  BY DEF Apply, SidecarWritten, SidecarFailed, Adopt, disk, subscription
<1>2. QED BY <1>1 DEF Shared!vars, Contents, Committed, Version, Loaded

LEMMA EditIsShared ==
  ASSUME SharedInv, FileEdited
  PROVE  \E w \in Wire : Shared!Draft(w)
<1>1. file'.wire \in Wire /\ Loaded(file)' = file'
  BY ConstantsAssumption DEF FileEdited, Config, Loaded, Absent, Plain
<1>2. UNCHANGED <<up, Version, view>> /\ (up => Contents' = Contents)
  BY DEF FileEdited, memory, channel, subscription, Version, Contents, Committed
<1>3. ~up => Contents' = file'.wire
  BY <1>1, <1>2 DEF Contents
<1>4. QED BY <1>1, <1>2, <1>3 DEF Shared!Draft

LEMMA CrashIsShared ==
  ASSUME SharedInv, Crash
  PROVE  Shared!Stop
<1>1. up /\ up' = FALSE /\ UNCHANGED <<file, sidecar>>
  BY DEF Crash, disk
<1>2. Contents' = Loaded(file).wire /\ Loaded(file).wire' = Loaded(file).wire
  BY <1>1 DEF Contents, Loaded
<1>3. Version' \in 0..Version
  <2>1. revision \in Nat /\ sidecar \in Nat
    BY ConstantsAssumption DEF SharedInv, Typed, TypeOK, Revision
  <2>2. QED BY <1>1, <2>1 DEF Version, SharedInv, SidecarFollows
<1>4. view' = [s \in Subscriber |-> [view[s] EXCEPT !.live = FALSE]]
  BY DEF Crash
<1>5. QED BY <1>1, <1>2, <1>3, <1>4 DEF Shared!Stop

LEMMA RestartIsShared ==
  ASSUME SharedInv, Restart
  PROVE  Shared!Start
<1>1. /\ ~up /\ up' = TRUE /\ applying' = Nothing
      /\ config' = Loaded(file) /\ revision' = sidecar /\ UNCHANGED <<file, view>>
  BY DEF Restart, SharedInv, Typed, DownIsQuiet, subscription
<1>2. QED BY <1>1 DEF Shared!Start, Contents, Committed, Version, Loaded

\* To its subscribers the node is a versioned register that is replaced by
\* compare-and-swap on its contents, and that survives the node's crashes.
THEOREM ImplementsSharedConfig == Spec => IsSharedConfig
<1>1. SharedInv /\ [Next]_vars => [Shared!Next]_(Shared!vars)
  <2> SUFFICES ASSUME SharedInv, [Next]_vars PROVE [Shared!Next]_(Shared!vars)
    OBVIOUS
  <2>1. ASSUME NEW s \in Subscriber, SnapshotSent(s) \/ Notify(s) \/ StreamClosed(s)
        PROVE  [Shared!Next]_(Shared!vars)
    BY <2>1, StreamIsShared DEF Shared!Next
  <2>2. ASSUME NEW s \in Subscriber, NEW w \in Wire, Push(s, w)
        PROVE  [Shared!Next]_(Shared!vars)
    BY <2>2, PushIsShared DEF Shared!Next
  <2>3. CASE Apply
    BY <2>3, ApplyIsShared
  <2>4. CASE RevisionSent \/ UNCHANGED vars
    BY <2>4 DEF RevisionSent, vars, memory, disk, subscription, Shared!vars, Contents,
                Committed, Version, Loaded
  <2>5. CASE FileEdited
    BY <2>5, EditIsShared DEF Shared!Next
  <2>6. CASE Crash
    BY <2>6, CrashIsShared DEF Shared!Next
  <2>7. CASE Restart
    BY <2>7, RestartIsShared DEF Shared!Next
  <2>8. QED BY <2>1, <2>2, <2>3, <2>4, <2>5, <2>6, <2>7 DEF Next
<1>2. QED BY <1>1, SharedHolds, InitIsShared, PTL DEF Spec, IsSharedConfig, Shared!Spec
=============================================================================
