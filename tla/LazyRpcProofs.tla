---------------------------- MODULE LazyRpcProofs ----------------------------
(***************************************************************************)
(* Proofs of LazyRpc's safety properties for any number of election loops   *)
(* and of servers.                                                          *)
(***************************************************************************)
EXTENDS LazyRpc, FiniteSetTheorems, TLAPS

-----------------------------------------------------------------------------
(* Types *)

\* A loop that spawns is spawning the latest server.
SpawnIsCounted == \A l \in Loop : phase[l] = "spawning" => spawned \in Server
Typed == TypeOK /\ SpawnIsCounted

LEMMA IdleType == Idle \in [step : Step, server : Server \cup {None}]
BY DEF Idle, Step

LEMMA TypeInit == Init => Typed
<1> SUFFICES ASSUME Init PROVE Typed
  OBVIOUS
<1>1. closing \in [Closer -> [step : Step, server : Server \cup {None}]]
  BY IdleType DEF Init
<1>2. spawned \in 0..MaxSpawns
  BY ConstantsAssumption DEF Init
<1>3. QED BY <1>1, <1>2 DEF Init, Typed, SpawnIsCounted, TypeOK, Phase, Life

LEMMA TypeStep == Typed /\ [Next]_vars => Typed'
<1> SUFFICES ASSUME Typed, [Next]_vars PROVE TypeOK' /\ SpawnIsCounted'
  BY DEF Typed
<1> USE DEF Typed, SpawnIsCounted
<1> USE ConstantsAssumption
        DEF TypeOK, Phase, Life, Step, Closer, Server, None,
            inner, advert, process, lifetime
<1>1. ASSUME NEW l \in Loop, Acquire(l) PROVE TypeOK' /\ SpawnIsCounted'
  <2>1. CASE AcquireWarm(l)
    BY <2>1 DEF AcquireWarm, Goto
  <2>2. CASE SpawnStarted(l)
    BY <2>2 DEF SpawnStarted, Goto
  <2>3. CASE SpawnListening(l)
    BY <2>3 DEF SpawnListening, Goto
  <2>4. CASE SpawnFailed(l)
    BY <2>4 DEF SpawnFailed, Goto
  <2>5. CASE ReadyAnnounced(l)
    BY <2>5 DEF ReadyAnnounced, Goto
  <2>6. CASE HoldTaken(l)
    BY <2>6 DEF HoldTaken, Goto
  <2>7. QED BY <1>1, <2>1, <2>2, <2>3, <2>4, <2>5, <2>6 DEF Acquire
<1>2. ASSUME NEW l \in Loop, HoldDropped(l) \/ LoopStopped(l) \/ LoopAborted(l)
      PROVE  TypeOK' /\ SpawnIsCounted'
  <2>1. CASE HoldDropped(l)
    BY <2>1 DEF HoldDropped, Goto
  <2>2. CASE LoopStopped(l)
    BY <2>2 DEF LoopStopped, Goto
  <2>3. CASE LoopAborted(l)
    BY <2>3 DEF LoopAborted, Goto
  <2>4. QED BY <1>2, <2>1, <2>2, <2>3
<1>3. ASSUME NEW c \in Closer, Teardown(c) PROVE TypeOK' /\ SpawnIsCounted'
  <2>1. closing' \in [Closer -> [step : Step, server : Server \cup {None}]]
    BY <1>3, IdleType DEF Teardown, PortCleared, ReadyCleared, ServerKilled, Advance
  <2>2. QED BY <1>3, <2>1 DEF Teardown, PortCleared, ReadyCleared, ServerKilled
<1>4. CASE Release
  BY <1>4 DEF Release
<1>5. CASE Tick
  BY <1>5 DEF Tick, TakeHandle, Idle
<1>6. CASE Shutdown
  BY <1>6 DEF Shutdown, TakeHandle, Idle
<1>7. CASE IdleElapsed \/ ServerExited \/ StopRuntime
  BY <1>7 DEF IdleElapsed, ServerExited, StopRuntime
<1>8. CASE UNCHANGED vars
  BY <1>8 DEF vars
<1>9. QED BY <1>1, <1>2, <1>3, <1>4, <1>5, <1>6, <1>7, <1>8 DEF Next

\* Type correctness: in particular the usize holders never goes below zero,
\* though releases arrive after shutdown has reset it.
THEOREM TypeCorrect == Spec => []TypeOK
<1>1. Typed => TypeOK
  BY DEF Typed
<1>2. QED BY <1>1, TypeInit, TypeStep, PTL DEF Spec

-----------------------------------------------------------------------------
(* Holds *)

(***************************************************************************)
(* A loop aborted in its regossip leaves its increment behind, and shutdown *)
(* resets the count while releases are under way; in between, the count     *)
(* covers the holds and the releases, and a positive count owns a server.    *)
(***************************************************************************)
ShutIsStopped == shut => stopping /\ \A l \in Loop : phase[l] = "stopped"
HoldersCover == ~shut => holders >= Cardinality(Holding) + releases
CountedIsOwned == holders > 0 => handle # None

HoldInv ==
  Typed /\ ShutIsStopped /\ HoldersAreCounted /\ HoldersCover /\ CountedIsOwned

\* Cardinality of the holding loops, and of one loop more or less.
LEMMA HoldingSize ==
  /\ IsFiniteSet(Holding) /\ Cardinality(Holding) \in Nat
  /\ Holding # {} => Cardinality(Holding) > 0
  /\ \A l : l \notin Holding => Cardinality(Holding \cup {l}) = Cardinality(Holding) + 1
  /\ \A l \in Holding : Cardinality(Holding \ {l}) = Cardinality(Holding) - 1
<1>1. IsFiniteSet(Holding) /\ Holding \subseteq Loop
  BY ConstantsAssumption, FS_Subset DEF Holding
<1>2. QED
  BY <1>1, FS_CardinalityType, FS_EmptySet, FS_AddElement, FS_RemoveElement

\* What an action does to the number of holding loops.
LEMMA HoldingStep ==
  ASSUME TypeOK, NEW l \in Loop
  PROVE  /\ SpawnListening(l) \/ AcquireWarm(l)
              => Cardinality(Holding)' = Cardinality(Holding) + 1
         /\ HoldDropped(l) => Cardinality(Holding)' = Cardinality(Holding) - 1
         /\ SpawnStarted(l) \/ SpawnFailed(l) \/ ReadyAnnounced(l) \/ HoldTaken(l)
              => Cardinality(Holding)' = Cardinality(Holding)
         /\ LoopStopped(l) =>
              \/ Cardinality(Holding)' = Cardinality(Holding) /\ UNCHANGED releases
              \/ Cardinality(Holding)' = Cardinality(Holding) - 1 /\ releases' = releases + 1
         /\ LoopAborted(l) => \/ Cardinality(Holding)' = Cardinality(Holding)
                             \/ Cardinality(Holding)' = Cardinality(Holding) - 1
<1>1. SpawnListening(l) \/ AcquireWarm(l) => l \notin Holding /\ Holding' = Holding \cup {l}
  BY DEF SpawnListening, AcquireWarm, TypeOK, Holding, Goto
<1>2. HoldDropped(l) => l \in Holding /\ Holding' = Holding \ {l}
  BY DEF HoldDropped, TypeOK, Holding, Goto
<1>3. SpawnStarted(l) \/ SpawnFailed(l) \/ ReadyAnnounced(l) \/ HoldTaken(l)
        => Holding' = Holding
  BY DEF SpawnStarted, SpawnFailed, ReadyAnnounced, HoldTaken, TypeOK, Holding, Goto
<1>4. LoopStopped(l) => \/ /\ Holding' = Holding
                           /\ UNCHANGED releases
                        \/ /\ l \in Holding /\ Holding' = Holding \ {l}
                           /\ releases' = releases + 1
  BY DEF LoopStopped, TypeOK, Holding, Goto
<1>5. LoopAborted(l) => Holding' = Holding \/ (l \in Holding /\ Holding' = Holding \ {l})
  BY DEF LoopAborted, TypeOK, Holding, Goto
<1>6. QED BY <1>1, <1>2, <1>3, <1>4, <1>5, HoldingSize

LEMMA HoldStep == HoldInv /\ [Next]_vars => HoldInv'
<1> DEFINE Goal == /\ ShutIsStopped' /\ HoldersAreCounted' /\ HoldersCover'
                   /\ CountedIsOwned'
<1> SUFFICES ASSUME HoldInv, [Next]_vars PROVE Goal
  BY TypeStep DEF HoldInv
<1>0. /\ TypeOK /\ holders \in Nat /\ releases \in Nat
      /\ ShutIsStopped /\ HoldersAreCounted /\ HoldersCover /\ CountedIsOwned
      /\ Cardinality(Holding) \in Nat
  BY HoldingSize DEF HoldInv, Typed, TypeOK
<1> USE <1>0 DEF ShutIsStopped, HoldersAreCounted, HoldersCover, CountedIsOwned
<1>1. ASSUME NEW l \in Loop, Acquire(l) PROVE Goal
  <2>1. CASE AcquireWarm(l)
    <3>1. Cardinality(Holding)' = Cardinality(Holding) + 1
      BY <2>1, HoldingStep
    <3>2. QED BY <2>1, <3>1 DEF AcquireWarm, lifetime
  <2>2. CASE SpawnListening(l)
    <3>1. Cardinality(Holding)' = Cardinality(Holding) + 1
      BY <2>2, HoldingStep
    <3>2. ~shut /\ handle' # None
      BY <2>2 DEF SpawnListening, Goto, HoldInv, Typed, SpawnIsCounted, Server, None
    <3>3. QED BY <2>2, <3>1, <3>2 DEF SpawnListening, lifetime
  <2>3. CASE SpawnStarted(l) \/ SpawnFailed(l) \/ ReadyAnnounced(l) \/ HoldTaken(l)
    <3>1. Cardinality(Holding)' = Cardinality(Holding)
      BY <2>3, HoldingStep
    <3>2. UNCHANGED <<inner, releases, lifetime>> /\ ~shut
      BY <2>3 DEF SpawnStarted, SpawnFailed, ReadyAnnounced, HoldTaken, Goto
    <3>3. QED BY <3>1, <3>2 DEF inner, lifetime
  <2>4. QED BY <1>1, <2>1, <2>2, <2>3 DEF Acquire
<1>2. ASSUME NEW l \in Loop, HoldDropped(l) \/ LoopStopped(l) \/ LoopAborted(l)
      PROVE  Goal
  <2>1. CASE HoldDropped(l)
    <3>1. Cardinality(Holding)' = Cardinality(Holding) - 1
      BY <2>1, HoldingStep
    <3>2. UNCHANGED <<inner, lifetime>> /\ releases' = releases + 1 /\ ~shut
      BY <2>1 DEF HoldDropped, Goto
    <3>3. QED BY <3>1, <3>2 DEF inner, lifetime
  <2>2. CASE LoopStopped(l) \/ LoopAborted(l)
    <3>1. Cardinality(Holding)' + releases' <= Cardinality(Holding) + releases
      BY <2>2, HoldingStep DEF LoopAborted
    <3>2. UNCHANGED <<inner, lifetime>> /\ stopping /\ ~shut
      BY <2>2 DEF LoopStopped, LoopAborted, Goto
    <3>3. Cardinality(Holding)' \in Int /\ releases' \in Nat
      BY <2>2, HoldingStep DEF LoopStopped, LoopAborted
    <3>4. QED BY <3>1, <3>2, <3>3 DEF inner, lifetime
  <2>3. QED BY <1>2, <2>1, <2>2
<1>3. CASE \/ Release \/ Tick \/ Shutdown \/ IdleElapsed \/ ServerExited \/ StopRuntime
           \/ (\E c \in Closer : Teardown(c)) \/ UNCHANGED vars
  <2>1. UNCHANGED phase /\ Cardinality(Holding)' = Cardinality(Holding)
    BY <1>3 DEF Release, Tick, Shutdown, IdleElapsed, ServerExited, StopRuntime,
                Teardown, PortCleared, ReadyCleared, ServerKilled, vars, Holding
  <2>2. CASE Release
    BY <2>1, <2>2 DEF Release, lifetime
  <2>3. CASE Tick \/ Shutdown
    BY <2>1, <2>3 DEF Tick, Shutdown, TakeHandle, lifetime
  <2>4. CASE \/ IdleElapsed \/ ServerExited \/ StopRuntime
             \/ (\E c \in Closer : Teardown(c)) \/ UNCHANGED vars
    <3>1. UNCHANGED <<handle, holders, releases, shut>> /\ (stopping' = stopping \/ stopping')
      BY <2>4 DEF IdleElapsed, ServerExited, StopRuntime, Teardown, PortCleared,
                  ReadyCleared, ServerKilled, vars, inner, lifetime
    <3>2. QED BY <2>1, <3>1
  <2>5. QED BY <1>3, <2>2, <2>3, <2>4
<1>4. QED BY <1>1, <1>2, <1>3 DEF Next

LEMMA HoldAlways == Spec => []HoldInv
<1>1. Init => HoldInv
  <2>1. Init => Holding = {}
    BY DEF Init, Holding
  <2>2. QED
    BY <2>1, TypeInit, FS_EmptySet
    DEF Init, HoldInv, ShutIsStopped, HoldersAreCounted, HoldersCover, CountedIsOwned
<1>2. QED BY <1>1, HoldStep, PTL DEF Spec

\* Every increment of holders has exactly one owner until the runtime stops, for
\* any number of loops and any order of drops, releases, ticks and spawns.
THEOREM HoldersCounted == Spec => []HoldersAreCounted
<1>1. HoldInv => HoldersAreCounted
  BY DEF HoldInv
<1>2. QED BY <1>1, HoldAlways, PTL

\* No teardown under a hold: whoever holds finds a server handle.
THEOREM HeldOwned == Spec => []HeldIsOwned
<1>1. HoldInv => HeldIsOwned
  <2> SUFFICES ASSUME HoldInv, Holding # {} PROVE handle # None
    BY DEF HeldIsOwned
  <2>1. ~shut
    BY DEF HoldInv, ShutIsStopped, Holding
  <2>2. holders > 0
    BY <2>1, HoldingSize DEF HoldInv, HoldersCover, Typed, TypeOK
  <2>3. QED BY <2>2 DEF HoldInv, CountedIsOwned
<1>2. QED BY <1>1, HoldAlways, PTL

\* The clock of a server runs exactly while its count is zero.
LEMMA ClockStep == HoldInv /\ UnheldIsClocked /\ [Next]_vars => UnheldIsClocked'
<1> SUFFICES ASSUME HoldInv, UnheldIsClocked, [Next]_vars PROVE UnheldIsClocked'
  OBVIOUS
<1>0. holders \in Nat /\ (holders > 0 => handle # None)
  BY DEF HoldInv, Typed, TypeOK, CountedIsOwned
<1>1. ASSUME NEW l \in Loop, AcquireWarm(l) \/ SpawnListening(l)
      PROVE  UnheldIsClocked'
  BY <1>0, <1>1 DEF AcquireWarm, SpawnListening, UnheldIsClocked
<1>2. CASE Release
  BY <1>0, <1>2 DEF Release, UnheldIsClocked
<1>3. CASE Tick \/ Shutdown
  BY <1>3 DEF Tick, Shutdown, TakeHandle, UnheldIsClocked
<1>4. CASE IdleElapsed
  BY <1>4 DEF IdleElapsed, UnheldIsClocked
<1>5. CASE UNCHANGED inner
  BY <1>5 DEF inner, UnheldIsClocked
<1>6. [Next]_vars => \/ \E l \in Loop : AcquireWarm(l) \/ SpawnListening(l)
                     \/ Release \/ Tick \/ Shutdown \/ IdleElapsed
                     \/ UNCHANGED inner
  BY DEF Next, Acquire, SpawnStarted, SpawnFailed, ReadyAnnounced, HoldTaken, HoldDropped,
         LoopStopped, LoopAborted, Teardown, PortCleared, ReadyCleared, ServerKilled,
         ServerExited, StopRuntime, vars, inner
<1>7. QED BY <1>1, <1>2, <1>3, <1>4, <1>5, <1>6

\* A server that nobody holds is on the clock, and one that is held never is.
THEOREM UnheldClocked == Spec => []UnheldIsClocked
<1>1. Init => UnheldIsClocked
  BY DEF Init, UnheldIsClocked
<1>2. QED BY <1>1, ClockStep, HoldAlways, PTL DEF Spec

\* A hold is counted as long as it lasts and keeps the server, whatever else happens,
\* and without one the server is on the clock.
THEOREM HoldsHonoured == Spec => []HoldsAreHonoured
BY HoldersCounted, HeldOwned, UnheldClocked, PTL DEF HoldsAreHonoured

-----------------------------------------------------------------------------
(* The tunnel's port *)

(***************************************************************************)
(* A server belongs to at most one of inner.handle and the two teardowns,   *)
(* and is alive or has exited by itself while it does.  The port is that of *)
(* the handle's server or of one whose teardown has not cleared it yet.      *)
(***************************************************************************)
Alive(s) == server[s] \in {"up", "gone"}

SpawnIsAlone ==
  /\ \A l, m \in Loop : phase[l] = "spawning" /\ phase[m] = "spawning" => l = m
  /\ \A l \in Loop : phase[l] = "spawning" => handle = None /\ server[spawned] = "starting"
FutureIsUnborn == \A s \in Server : s > spawned => server[s] = "unborn"
HandleIsAlive == handle # None => Alive(handle)
ClosingIsAlive ==
  \A c \in Closer : closing[c].step # "off" =>
    /\ closing[c].server \in Server
    /\ closing[c].server # handle
    /\ Alive(closing[c].server)
ClosersAreApart ==
  closing["tick"].step # "off" /\ closing["shutdown"].step # "off"
    => closing["tick"].server # closing["shutdown"].server
ShutdownIsOnce == ~shut => closing["shutdown"].step = "off"
PortIsOwned ==
  rpc_port # None =>
    \/ rpc_port = handle
    \/ \E c \in Closer : closing[c].step = "port" /\ closing[c].server = rpc_port

PortInv ==
  /\ Typed
  /\ SpawnIsAlone /\ FutureIsUnborn
  /\ HandleIsAlive /\ ClosingIsAlive /\ ClosersAreApart
  /\ PortIsOwned /\ ShutdownIsOnce

LEMMA PortStep == PortInv /\ [Next]_vars => PortInv'
<1> DEFINE Goal == /\ SpawnIsAlone' /\ FutureIsUnborn'
                   /\ HandleIsAlive' /\ ClosingIsAlive' /\ ClosersAreApart'
                   /\ PortIsOwned' /\ ShutdownIsOnce'
<1> SUFFICES ASSUME PortInv, [Next]_vars PROVE Goal
  BY TypeStep DEF PortInv
<1>0. /\ TypeOK /\ SpawnIsCounted
      /\ SpawnIsAlone /\ FutureIsUnborn
      /\ HandleIsAlive /\ ClosingIsAlive /\ ClosersAreApart
      /\ PortIsOwned /\ ShutdownIsOnce
  BY DEF PortInv, Typed
<1> USE <1>0, ConstantsAssumption
        DEF TypeOK, SpawnIsCounted, SpawnIsAlone, FutureIsUnborn, HandleIsAlive,
            ClosingIsAlive, ClosersAreApart, PortIsOwned, ShutdownIsOnce, Alive,
            Server, None, Closer, inner, advert, process, lifetime
<1>1. ASSUME NEW l \in Loop, Acquire(l) PROVE Goal
  <2>1. CASE AcquireWarm(l)
    BY <2>1 DEF AcquireWarm, Goto
  <2>2. CASE SpawnStarted(l)
    BY <2>2 DEF SpawnStarted, Goto, Unlocked
  <2>3. CASE SpawnListening(l)
    BY <2>3 DEF SpawnListening, Goto
  <2>4. CASE SpawnFailed(l)
    BY <2>4 DEF SpawnFailed, Goto
  <2>5. CASE ReadyAnnounced(l)
    BY <2>5 DEF ReadyAnnounced, Goto
  <2>6. CASE HoldTaken(l)
    BY <2>6 DEF HoldTaken, Goto
  <2>7. QED BY <1>1, <2>1, <2>2, <2>3, <2>4, <2>5, <2>6 DEF Acquire
<1>2. ASSUME NEW l \in Loop, HoldDropped(l) \/ LoopStopped(l) \/ LoopAborted(l)
      PROVE  Goal
  <2>1. CASE HoldDropped(l)
    BY <2>1 DEF HoldDropped, Goto
  <2>2. CASE LoopStopped(l)
    BY <2>2 DEF LoopStopped, Goto
  <2>3. CASE LoopAborted(l)
    BY <2>3 DEF LoopAborted, Goto
  <2>4. QED BY <1>2, <2>1, <2>2, <2>3
<1>3. ASSUME NEW c \in Closer, Teardown(c) PROVE Goal
  <2>1. CASE PortCleared(c)
    BY <2>1 DEF PortCleared, Advance
  <2>2. CASE ReadyCleared(c)
    BY <2>2 DEF ReadyCleared, Advance
  <2>3. CASE ServerKilled(c)
    BY <2>3 DEF ServerKilled, Idle
  <2>4. QED BY <1>3, <2>1, <2>2, <2>3 DEF Teardown
<1>4. ASSUME NEW c \in Closer, closing[c].step = "off", Unlocked, TakeHandle(c),
             UNCHANGED <<phase, advert, process>>, shut' \/ (c = "tick" /\ shut' = shut)
      PROVE  Goal
  <2>1. /\ closing' \in [Closer -> [step : Step, server : Server \cup {None}]]
        /\ \A d \in Closer : d # c => closing'[d] = closing[d]
        /\ closing'[c].step = "off" \/ closing'[c].step = "port"
        /\ closing'[c].step = "port" => handle # None /\ closing'[c].server = handle
        /\ handle # None => closing'[c].step = "port"
    BY <1>4 DEF TakeHandle, Idle, Step
  <2>2. SpawnIsAlone' /\ FutureIsUnborn' /\ HandleIsAlive' /\ ShutdownIsOnce'
    BY <1>4, <2>1 DEF TakeHandle, Unlocked
  <2>3. ClosingIsAlive'
    BY <1>4, <2>1 DEF TakeHandle
  <2>4. ClosersAreApart'
    BY <1>4, <2>1 DEF TakeHandle
  <2>5. PortIsOwned'
    BY <1>4, <2>1 DEF TakeHandle
  <2>6. QED BY <2>2, <2>3, <2>4, <2>5
<1>5. CASE Tick \/ Shutdown
  <2>1. CASE Tick
    BY <1>4, <2>1 DEF Tick
  <2>2. CASE Shutdown
    BY <1>4, <2>2 DEF Shutdown
  <2>3. QED BY <1>5, <2>1, <2>2
<1>6. CASE ServerExited
  BY <1>6 DEF ServerExited
<1>7. CASE Release \/ IdleElapsed \/ StopRuntime \/ UNCHANGED vars
  BY <1>7 DEF Release, IdleElapsed, StopRuntime, vars
<1>8. QED BY <1>1, <1>2, <1>3, <1>4, <1>5, <1>6, <1>7 DEF Next

LEMMA PortAlways == Spec => []PortInv
<1>1. Init => PortInv
  BY TypeInit, ConstantsAssumption
  DEF Init, Idle, PortInv, SpawnIsAlone, FutureIsUnborn, HandleIsAlive, ClosingIsAlive,
      ClosersAreApart, PortIsOwned, ShutdownIsOnce, Closer
<1>2. QED BY <1>1, PortStep, PTL DEF Spec

\* The tunnel never points at a server this node has killed, whatever teardown
\* and spawn overlap.
THEOREM PortNotKilled == Spec => []PortIsNotKilled
<1>1. PortInv => PortIsNotKilled
  BY DEF PortInv, HandleIsAlive, ClosingIsAlive, PortIsOwned, Alive, PortIsNotKilled
<1>2. QED BY <1>1, PortAlways, PTL

-----------------------------------------------------------------------------
(* The node keeps the promises of a shared server *)

\* What the steps of a teardown do to the servers under it.
LEMMA RetiringStep ==
  ASSUME PortInv, NEW c \in Closer
  PROVE  /\ PortCleared(c) \/ ReadyCleared(c) => Retiring' = Retiring
         /\ ServerKilled(c) => /\ closing[c].server \in Retiring
                               /\ Retiring' = Retiring \ {closing[c].server}
         /\ TakeHandle(c) /\ closing[c].step = "off" =>
              Retiring' = IF handle = None THEN Retiring ELSE Retiring \cup {handle}
<1> USE DEF PortInv, Typed, TypeOK, Closer, Retiring
<1>1. PortCleared(c) \/ ReadyCleared(c) => Retiring' = Retiring
  <2> SUFFICES ASSUME PortCleared(c) \/ ReadyCleared(c) PROVE Retiring' = Retiring
    OBVIOUS
  <2>1. \A d \in Closer : /\ closing'[d].server = closing[d].server
                          /\ closing'[d].step = "off" <=> closing[d].step = "off"
    BY DEF PortCleared, ReadyCleared, Advance
  <2>2. QED BY <2>1
<1>2. ASSUME ServerKilled(c)
      PROVE  /\ closing[c].server \in Retiring
             /\ Retiring' = Retiring \ {closing[c].server}
  <2>1. closing[c].step # "off" /\ closing' = [closing EXCEPT ![c] = Idle]
    BY <1>2 DEF ServerKilled
  <2>2. \A d \in Closer : closing'[d] = IF d = c THEN Idle ELSE closing[d]
    BY <2>1
  <2>3. \A d \in Closer :
          d # c /\ closing[d].step # "off" => closing[d].server # closing[c].server
    BY <2>1 DEF ClosersAreApart
  <2>4. QED BY <2>1, <2>2, <2>3 DEF Idle
<1>3. ASSUME TakeHandle(c), closing[c].step = "off"
      PROVE  Retiring' = IF handle = None THEN Retiring ELSE Retiring \cup {handle}
  <2>1. \A d \in Closer : closing'[d] = IF d # c THEN closing[d] ELSE
          IF handle = None THEN Idle ELSE [step |-> "port", server |-> handle]
    BY <1>3 DEF TakeHandle
  <2>2. QED BY <1>3, <2>1 DEF Idle
<1>4. QED BY <1>1, <1>2, <1>3

\* A hold and its server come with one step of acquire.
LEMMA AcquireIsShared ==
  ASSUME PortInv, HoldInv, NEW l \in Loop, Acquire(l)
  PROVE  Shared!Next \/ UNCHANGED Shared!vars
<1> USE DEF PortInv, Typed, TypeOK, Closer, inner, advert, process
<1>1. CASE AcquireWarm(l)
  <2>1. Holding' = Holding \cup {l}
    BY <1>1 DEF AcquireWarm, Goto, Holding
  <2>2. Shared!Join(l)
    BY <1>1, <2>1 DEF AcquireWarm, Shared!Join, Retiring, Killed
  <2>3. QED BY <2>2 DEF Shared!Next
<1>2. CASE SpawnListening(l)
  <2>1. Holding' = Holding \cup {l}
    BY <1>2 DEF SpawnListening, Goto, Holding
  <2>2. /\ handle = None /\ spawned \in Server /\ server[spawned] = "starting"
        /\ handle' = spawned /\ rpc_port' = spawned
        /\ server' = [server EXCEPT ![spawned] = "up"]
        /\ UNCHANGED closing
    BY <1>2 DEF SpawnListening, Goto, SpawnIsAlone, SpawnIsCounted
  <2>3. spawned \notin Retiring \cup Killed
    BY <2>2 DEF Retiring, Killed, ClosingIsAlive, Alive
  <2>4. UNCHANGED <<Retiring, Killed>>
    BY <2>2 DEF Retiring, Killed
  <2>5. Shared!Start(l, spawned)
    BY <2>1, <2>2, <2>3, <2>4 DEF Shared!Start
  <2>6. QED BY <2>2, <2>5 DEF Shared!Next
<1>3. CASE SpawnStarted(l) \/ SpawnFailed(l)
  <2>1. Holding' = Holding
    BY <1>3 DEF SpawnStarted, SpawnFailed, Goto, Holding
  <2>2. Killed' = Killed
    <3>1. CASE SpawnStarted(l)
      <4>1. /\ spawned + 1 \in Server /\ server[spawned + 1] = "unborn"
            /\ server' = [server EXCEPT ![spawned + 1] = "starting"]
        BY <3>1, ConstantsAssumption DEF SpawnStarted, FutureIsUnborn, Server
      <4>2. QED BY <4>1 DEF Killed
    <3>2. CASE SpawnFailed(l)
      <4>1. PICK life \in {"gone", "orphan"} : server' = [server EXCEPT ![spawned] = life]
        BY <3>2 DEF SpawnFailed
      <4>2. server[spawned] = "starting"
        BY <3>2 DEF SpawnFailed, Goto, SpawnIsAlone
      <4>3. QED BY <4>1, <4>2 DEF Killed
    <3>3. QED BY <1>3, <3>1, <3>2
  <2>3. QED BY <1>3, <2>1, <2>2 DEF SpawnStarted, SpawnFailed, Retiring, Shared!vars
<1>4. CASE ReadyAnnounced(l) \/ HoldTaken(l)
  BY <1>4 DEF ReadyAnnounced, HoldTaken, Goto, Holding, Retiring, Killed, Shared!vars
<1>5. QED BY <1>1, <1>2, <1>3, <1>4 DEF Acquire

\* A hold ends with its loop's drop, its stop or its abort, and with no release.
LEMMA DropIsShared ==
  ASSUME PortInv, NEW l \in Loop, HoldDropped(l) \/ LoopStopped(l) \/ LoopAborted(l)
  PROVE  Shared!Next \/ UNCHANGED Shared!vars
<1> USE DEF PortInv, Typed, TypeOK, Closer, inner, advert, process
<1>1. UNCHANGED <<handle, rpc_port, Retiring>>
  BY DEF HoldDropped, LoopStopped, LoopAborted, Retiring
<1>2. UNCHANGED Killed
  <2>1. CASE UNCHANGED server
    BY <2>1 DEF Killed
  <2>2. CASE phase[l] = "spawning" /\ server' = [server EXCEPT ![spawned] = "orphan"]
    BY <2>2 DEF Killed, SpawnIsAlone
  <2>3. QED BY <2>1, <2>2 DEF HoldDropped, LoopStopped, LoopAborted, Goto
<1>3. Holding' = Holding \/ Holding' = Holding \ {l}
  BY DEF HoldDropped, LoopStopped, LoopAborted, Goto, Holding
<1>4. CASE Holding' = Holding
  BY <1>1, <1>2, <1>4 DEF Shared!vars
<1>5. CASE Holding' = Holding \ {l}
  <2>1. Shared!Part(l)
    BY <1>1, <1>2, <1>5 DEF Shared!Part
  <2>2. QED BY <2>1 DEF Shared!Next
<1>6. QED BY <1>3, <1>4, <1>5

\* The server is given up only when no loop holds it: a zero count says so, and so
\* does a shutdown, whose loops have all stopped.
LEMMA RetireIsShared ==
  ASSUME PortInv, HoldInv, Tick \/ Shutdown
  PROVE  Shared!Next \/ UNCHANGED Shared!vars
<1> PICK c \in Closer : TakeHandle(c) /\ closing[c].step = "off"
  BY DEF Tick, Shutdown, PortInv, ShutdownIsOnce, Closer
<1>1. UNCHANGED <<phase, advert, process>>
  BY DEF Tick, Shutdown
<1>2. Holding = {}
  <2>1. CASE Tick
    <3>1. CASE shut
      BY <3>1 DEF HoldInv, ShutIsStopped, Holding
    <3>2. CASE ~shut
      BY <2>1, <3>2, HoldingSize DEF Tick, HoldInv, HoldersCover, Typed, TypeOK
    <3>3. QED BY <3>1, <3>2
  <2>2. CASE Shutdown
    BY <2>2 DEF Shutdown, Holding
  <2>3. QED BY <2>1, <2>2
<1>3. UNCHANGED <<Holding, rpc_port, Killed>>
  BY <1>1 DEF Holding, Killed, advert, process
<1>4. handle' = None
  BY DEF TakeHandle
<1>5. CASE handle = None
  BY <1>3, <1>4, <1>5, RetiringStep DEF Shared!vars
<1>6. CASE handle # None
  <2>1. Shared!Retire
    BY <1>2, <1>3, <1>4, <1>6, RetiringStep DEF Shared!Retire
  <2>2. QED BY <2>1 DEF Shared!Next
<1>7. QED BY <1>5, <1>6

\* A server is killed after the port was cleared of it; nobody else has set the port
\* to it since, because a teardown is the only owner of its server.
LEMMA TeardownIsShared ==
  ASSUME PortInv, NEW c \in Closer, Teardown(c)
  PROVE  Shared!Next \/ UNCHANGED Shared!vars
<1> USE DEF PortInv, Typed, TypeOK, inner, advert, process
<1>1. UNCHANGED <<handle, Holding>>
  BY DEF Teardown, PortCleared, ReadyCleared, ServerKilled, Holding
<1>2. CASE PortCleared(c)
  <2>1. Retiring # {}
    <3>1. c \in {d \in Closer : closing[d].step # "off"}
      BY <1>2 DEF PortCleared, Advance
    <3>2. closing[c].server \in Retiring
      BY <3>1 DEF Retiring
    <3>3. QED BY <3>2
  <2>2. UNCHANGED <<Retiring, Killed>> /\ rpc_port' = None
    BY <1>2, RetiringStep DEF PortCleared, Killed
  <2>3. Shared!TurnAway
    BY <1>1, <2>1, <2>2 DEF Shared!TurnAway
  <2>4. QED BY <2>3 DEF Shared!Next
<1>3. CASE ReadyCleared(c)
  BY <1>1, <1>3, RetiringStep DEF ReadyCleared, Killed, Shared!vars
<1>4. CASE ServerKilled(c)
  <2> DEFINE s == closing[c].server
  <2>1. closing[c].step = "kill" /\ s \in Server /\ s # handle /\ s # None
    BY <1>4 DEF ServerKilled, ClosingIsAlive, Server, None
  <2>2. rpc_port # s
    BY <2>1 DEF PortIsOwned, ClosersAreApart, Closer
  <2>3. s \in Retiring /\ Retiring' = Retiring \ {s}
    BY <1>4, RetiringStep
  <2>4. Killed' = Killed \cup {s}
    BY <1>4, <2>1 DEF ServerKilled, Killed
  <2>5. Shared!Kill(s)
    BY <1>1, <1>4, <2>2, <2>3, <2>4 DEF Shared!Kill, ServerKilled
  <2>6. QED BY <2>1, <2>5 DEF Shared!Next
<1>5. QED BY <1>2, <1>3, <1>4 DEF Teardown

\* LazyRpc implements SharedServer for any number of loops and of servers: the count,
\* the idle clock and the mutex amount to a server that is nobody's before it is given
\* up, and routed to by nobody before it is killed.
THEOREM ImplementsSharedServer == Spec => IsSharedServer
<1>1. Init => Shared!Init
  <2>1. Init => Holding = {} /\ Retiring = {} /\ Killed = {}
    BY DEF Init, Holding, Retiring, Killed, Idle
  <2>2. QED BY <2>1 DEF Init, Shared!Init
<1>2. PortInv /\ HoldInv /\ [Next]_vars => [Shared!Next]_Shared!vars
  <2> SUFFICES ASSUME PortInv, HoldInv, [Next]_vars
               PROVE  Shared!Next \/ UNCHANGED Shared!vars
    OBVIOUS
  <2>1. ASSUME NEW l \in Loop, Acquire(l) \/ HoldDropped(l) \/ LoopStopped(l) \/ LoopAborted(l)
        PROVE  Shared!Next \/ UNCHANGED Shared!vars
    BY <2>1, AcquireIsShared, DropIsShared
  <2>2. ASSUME NEW c \in Closer, Teardown(c)
        PROVE  Shared!Next \/ UNCHANGED Shared!vars
    BY <2>2, TeardownIsShared
  <2>3. CASE Tick \/ Shutdown
    BY <2>3, RetireIsShared
  <2>4. CASE Release \/ IdleElapsed \/ StopRuntime \/ UNCHANGED vars
    BY <2>4 DEF Release, IdleElapsed, StopRuntime, vars, inner, advert, process,
                Holding, Retiring, Killed, Shared!vars
  <2>5. CASE ServerExited
    <3>1. Killed' = Killed
      BY <2>5 DEF ServerExited, Killed, PortInv, Typed, TypeOK
    <3>2. QED BY <2>5, <3>1 DEF ServerExited, inner, advert, Holding, Retiring, Shared!vars
  <2>6. QED BY <2>1, <2>2, <2>3, <2>4, <2>5 DEF Next
<1>3. QED BY <1>1, <1>2, PortAlways, HoldAlways, PTL DEF Spec, IsSharedServer, Shared!Spec
=============================================================================
