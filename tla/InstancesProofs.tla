--------------------------- MODULE InstancesProofs ----------------------------
(***************************************************************************)
(* Theorems about Instances: that it implements Custody, that a server in    *)
(* use is recorded, and that the trace of an orphan is kept.                 *)
(***************************************************************************)
EXTENDS Instances, TLAPS

USE DEF Alive

LEMMA NobodyElse == Nobody \notin Slot /\ Nobody \notin Proc
BY ConstantsAssumption

-----------------------------------------------------------------------------
(* Types *)

\* Every variable stays in its set, and servers are to be ended only while the
\* instance that found them is reaping.
THEOREM TypeCorrect == Spec => []TypeOK
<1>1. Init => TypeOK
  BY ConstantsAssumption DEF Init, TypeOK, Life, Signal, Grip, NoAim, Silence
<1>2. TypeOK /\ [Next]_vars => TypeOK'
  <2> SUFFICES ASSUME TypeOK, [Next]_vars PROVE TypeOK'
    OBVIOUS
  <2> USE NobodyElse DEF TypeOK, process, disk, reaping, Tell, SignalIfMatches, FilesWithout,
                         Life, Signal, Grip, NoAim, Silence, Running
  <2>1. CASE UNCHANGED vars
    BY <2>1 DEF vars
  <2>2. ASSUME NEW s \in Slot, Open(s) PROVE TypeOK'
    BY <2>2 DEF Open
  <2>3. ASSUME NEW s \in Slot, Acquire(s) PROVE TypeOK'
    BY <2>3 DEF Acquire
  <2>4. ASSUME NEW s \in Slot, ScanOwn(s) PROVE TypeOK'
    BY <2>4 DEF ScanOwn, Recorded
  <2>5. ASSUME NEW s \in Slot, Cleanup(s) PROVE TypeOK'
    BY <2>5 DEF Cleanup, Reaping
  <2>6. ASSUME NEW s \in Slot, Age(s) PROVE TypeOK'
    BY <2>6 DEF Age
  <2>7. ASSUME NEW s \in Slot, Leave(s) PROVE TypeOK'
    BY <2>7 DEF Leave, Orphaned
  <2>8. ASSUME NEW s \in Slot, Crash(s) PROVE TypeOK'
    BY <2>8, ConstantsAssumption DEF Crash, Orphaned
  <2>9. ASSUME NEW s \in Slot, NEW d \in Slot, ScanDir(s, d) PROVE TypeOK'
    <3>1. CASE d \in dir \ lock
      <4>1. /\ {i \in Recorded(d) : Running(i)} \subseteq Proc
            /\ {i \in Recorded(d) : ~Running(i)} \subseteq Proc
            /\ {d} \cap old \subseteq Slot
        BY DEF Recorded
      <4>2. /\ targets' \in [Slot -> SUBSET Proc]
            /\ doomed' \in [Slot -> SUBSET Proc]
            /\ stale' \in [Slot -> SUBSET Slot]
        <5> DEFINE T == {i \in Recorded(d) : Running(i)}
                   G == {i \in Recorded(d) : ~Running(i)}
        <5>1. /\ targets' = [targets EXCEPT ![s] = @ \cup T]
              /\ doomed' = [doomed EXCEPT ![s] = @ \cup G]
              /\ stale' = [stale EXCEPT ![s] = @ \cup ({d} \cap old)]
          BY <2>9, <3>1 DEF ScanDir
        <5> HIDE DEF T, G
        <5>2. QED
          BY <4>1, <5>1 DEF T, G
      <4>3. \A r \in Slot : r # s => targets'[r] = targets[r]
        BY <2>9, <3>1 DEF ScanDir
      <4>4. QED
        BY <2>9, <4>2, <4>3 DEF ScanDir
    <3>2. CASE d \notin dir \ lock
      BY <2>9, <3>2 DEF ScanDir
    <3>3. QED
      BY <3>1, <3>2
  <2>10. ASSUME NEW s \in Slot, NEW k \in Proc, Serve(s, k) PROVE TypeOK'
    <3>1. CASE Spawn(s, k)
      BY <3>1 DEF Spawn
    <3>2. CASE Ready(s, k)
      BY <3>2 DEF Ready
    <3>3. CASE LaunchFails(s, k)
      BY <3>3 DEF LaunchFails
    <3>4. CASE Waited(s, k)
      BY <3>4 DEF Waited
    <3>5. CASE ShutDown(s, k)
      BY <3>5 DEF ShutDown
    <3>6. CASE ShutDownEnds(s, k)
      BY <3>6 DEF ShutDownEnds
    <3>7. CASE Drop(s, k)
      BY <3>7 DEF Drop
    <3>8. QED
      BY <2>10, <3>1, <3>2, <3>3, <3>4, <3>5, <3>6, <3>7 DEF Serve
  <2>11. ASSUME NEW s \in Slot, NEW k \in Proc, Reap(s, k) PROVE TypeOK'
    <3>1. CASE Terminate(s, k)
      BY <3>1 DEF Terminate
    <3>2. CASE ForceKill(s, k)
      BY <3>2 DEF ForceKill
    <3>3. CASE Reaped(s, k)
      BY <3>3 DEF Reaped, Free
    <3>4. CASE GiveUp(s, k)
      BY <3>4 DEF GiveUp
    <3>5. QED
      BY <2>11, <3>1, <3>2, <3>3, <3>4 DEF Reap
  <2>12. ASSUME NEW k \in Proc, End(k) PROVE TypeOK'
    BY <2>12 DEF End
  <2>13. ASSUME NEW k \in Proc, Recycle(k) PROVE TypeOK'
    BY <2>13 DEF Recycle
  <2>14. QED
    BY <2>1, <2>2, <2>3, <2>4, <2>5, <2>6, <2>7, <2>8, <2>9, <2>10, <2>11, <2>12, <2>13 DEF Next
<1>3. QED
  BY <1>1, <1>2, PTL DEF Spec

-----------------------------------------------------------------------------
(* Custody *)

Recording ==
  \A k \in Proc :
    /\ st[k] = "unborn" => keeper[k] = Nobody /\ file[k] = Nobody
    /\ keeper[k] \in Slot => life[keeper[k]] = "up"
    /\ keeper[k] \in Slot /\ file[k] \in Slot => file[k] = keeper[k] /\ file[k] \in lock

\* A directory an instance still has is locked.
Locking == \A s \in dir : life[s] \in {"cross", "joined", "own", "up"} => s \in lock

Aiming ==
  \A s \in Slot :
    /\ \A k \in targets[s] : st[k] # "unborn" /\ (Running(k) => keeper[k] = Nobody)
    /\ aim[s] # NoAim => aim[s].proc \in targets[s]

CustodyInv == TypeOK /\ Recording /\ Locking /\ Aiming /\ harmed = {}

LEMMA CustodyHolds == Spec => []CustodyInv
<1>0. Init => TypeOK
  BY ConstantsAssumption DEF Init, TypeOK, Life, Signal, Grip, NoAim, Silence
<1>1. Init => CustodyInv
  BY <1>0, NobodyElse DEF Init, CustodyInv, Recording, Locking, Aiming
<1>2. TypeOK /\ CustodyInv /\ [Next]_vars /\ TypeOK' => CustodyInv'
  <2> SUFFICES ASSUME TypeOK, CustodyInv, [Next]_vars, TypeOK' PROVE CustodyInv'
    OBVIOUS
  <2> USE NobodyElse DEF CustodyInv, Recording, Locking, Aiming, process, disk, reaping,
                         SignalIfMatches, FilesWithout, Running, NoAim
  <2>1. CASE UNCHANGED vars
    BY <2>1 DEF vars
  <2>2. ASSUME NEW s \in Slot, Open(s) PROVE CustodyInv'
    BY <2>2 DEF Open, TypeOK
  <2>3. ASSUME NEW s \in Slot, Acquire(s) PROVE CustodyInv'
    BY <2>3 DEF Acquire, TypeOK
  <2>4. ASSUME NEW s \in Slot, ScanOwn(s) PROVE CustodyInv'
    <3>1. /\ targets'[s] = {i \in Recorded(s) : Running(i)}
          /\ \A r \in Slot : r # s => targets'[r] = targets[r]
      BY <2>4 DEF ScanOwn, TypeOK
    <3>2. \A i \in Recorded(s) : st[i] # "unborn" /\ keeper[i] = Nobody
      BY <2>4 DEF ScanOwn, Recorded, TypeOK
    <3>3. aim[s] = NoAim
      BY <2>4 DEF ScanOwn, TypeOK
    <3>4. UNCHANGED <<lock, st, keeper, file, aim, harmed>>
      BY <2>4 DEF ScanOwn
    <3>5. \A r \in Slot : life[r] = "up" => life'[r] = "up"
      BY <2>4 DEF ScanOwn, TypeOK
    <3>6. dir' = dir /\ \A r \in Slot : r # s => life'[r] = life[r]
      BY <2>4 DEF ScanOwn, TypeOK
    <3>7. Recording'
      BY <3>4, <3>5
    <3>8. Locking'
      BY <2>4, <3>4, <3>6 DEF ScanOwn, TypeOK
    <3>9. Aiming'
      BY <3>1, <3>2, <3>3, <3>4
    <3>10. QED
      BY <3>4, <3>7, <3>8, <3>9
  <2>5. ASSUME NEW s \in Slot, Cleanup(s) PROVE CustodyInv'
    BY <2>5 DEF Cleanup, Reaping, TypeOK
  <2>6. ASSUME NEW s \in Slot, Age(s) PROVE CustodyInv'
    BY <2>6 DEF Age, TypeOK
  <2>7. ASSUME NEW s \in Slot, Leave(s) PROVE CustodyInv'
    BY <2>7 DEF Leave, Orphaned, TypeOK
  <2>8. ASSUME NEW s \in Slot, Crash(s) PROVE CustodyInv'
    BY <2>8 DEF Crash, Orphaned, TypeOK
  <2>9. ASSUME NEW s \in Slot, NEW d \in Slot, ScanDir(s, d) PROVE CustodyInv'
    <3>1. CASE d \in dir \ lock
      <4>1. /\ targets'[s] = targets[s] \cup {i \in Recorded(d) : Running(i)}
            /\ \A r \in Slot : r # s => targets'[r] = targets[r]
        BY <2>9, <3>1 DEF ScanDir, TypeOK
      <4>2. \A i \in Recorded(d) : st[i] # "unborn" /\ (Running(i) => keeper[i] = Nobody)
        BY <3>1 DEF Recorded, TypeOK
      <4>3. UNCHANGED <<life, dir, lock, st, keeper, file, aim, harmed>>
        BY <2>9 DEF ScanDir
      <4>4. QED
        BY <4>1, <4>2, <4>3
    <3>2. CASE d \notin dir \ lock
      BY <2>9, <3>2 DEF ScanDir, TypeOK
    <3>3. QED
      BY <3>1, <3>2
  <2>10. ASSUME NEW s \in Slot, NEW k \in Proc, Serve(s, k) PROVE CustodyInv'
    <3>1. CASE Spawn(s, k)
      BY <3>1 DEF Spawn, TypeOK
    <3>2. CASE Ready(s, k)
      BY <3>2 DEF Ready, TypeOK
    <3>3. CASE LaunchFails(s, k)
      BY <3>3 DEF LaunchFails, TypeOK
    <3>4. CASE Waited(s, k)
      BY <3>4 DEF Waited, TypeOK
    <3>5. CASE ShutDown(s, k)
      BY <3>5 DEF ShutDown, TypeOK
    <3>6. CASE ShutDownEnds(s, k)
      BY <3>6 DEF ShutDownEnds, TypeOK
    <3>7. CASE Drop(s, k)
      BY <3>7 DEF Drop, TypeOK
    <3>8. QED
      BY <2>10, <3>1, <3>2, <3>3, <3>4, <3>5, <3>6, <3>7 DEF Serve
  <2>11. ASSUME NEW s \in Slot, NEW k \in Proc, Reap(s, k) PROVE CustodyInv'
    <3>1. CASE Terminate(s, k)
      BY <3>1 DEF Terminate, TypeOK
    <3>2. CASE ForceKill(s, k)
      BY <3>2 DEF ForceKill, TypeOK
    <3>3. CASE Reaped(s, k)
      BY <3>3 DEF Reaped, Free, TypeOK
    <3>4. CASE GiveUp(s, k)
      BY <3>4 DEF GiveUp, TypeOK
    <3>5. QED
      BY <2>11, <3>1, <3>2, <3>3, <3>4 DEF Reap
  <2>12. ASSUME NEW k \in Proc, End(k) PROVE CustodyInv'
    BY <2>12 DEF End, TypeOK
  <2>13. ASSUME NEW k \in Proc, Recycle(k) PROVE CustodyInv'
    BY <2>13 DEF Recycle, TypeOK
  <2>14. QED
    BY <2>1, <2>2, <2>3, <2>4, <2>5, <2>6, <2>7, <2>8, <2>9, <2>10, <2>11, <2>12, <2>13 DEF Next
<1>3. QED
  BY <1>1, <1>2, TypeCorrect, PTL DEF Spec, CustodyInv

\* The instances implement Custody: their lock files, pidfiles and identity checks
\* let none of them signal what another live one keeps, or a stranger.
THEOREM ImplementsCustody == Spec => OnlyKeepersSignal
<1> DEFINE up == {s \in Slot : Alive(s)}
           servers == {k \in Proc : Running(k)}
           who == [k \in Proc |-> told[k].by]
<1>1. Init => Custodians!Init
  BY DEF Init, Custodians!Init, Running, Silence
<1>2. CustodyInv /\ [Next]_vars => [Custodians!Next]_(Custodians!vars)
  <2> SUFFICES ASSUME CustodyInv, [Next]_vars
               PROVE  Custodians!Next \/ UNCHANGED Custodians!vars
    OBVIOUS
  <2> USE NobodyElse DEF CustodyInv, TypeOK
  <2>0. ASSUME NEW s \in Slot, NEW k \in Proc, NEW signal, SignalIfMatches(s, k, signal),
               UNCHANGED <<life, keeper>>, life[s] \notin {"new", "down"},
               Running(k) => keeper[k] \in {s, Nobody}
        PROVE  Custodians!Next \/ UNCHANGED Custodians!vars
    <3>1. up' = up /\ servers' = servers /\ harmed' = harmed
      BY <2>0 DEF SignalIfMatches, Running
    <3>2. CASE Running(k)
      <4>1. who' = [who EXCEPT ![k] = s]
        BY <2>0, <3>2 DEF SignalIfMatches, Tell
      <4>2. Custodians!Stop(s, k)
        BY <2>0, <3>1, <3>2, <4>1 DEF Custodians!Stop
      <4>3. QED
        BY <4>2 DEF Custodians!Next
    <3>3. CASE ~Running(k)
      BY <2>0, <3>1, <3>3 DEF SignalIfMatches, Custodians!vars
    <3>4. QED
      BY <3>2, <3>3
  <2>1. ASSUME up' = up, UNCHANGED <<st, keeper, told, harmed>>
        PROVE  UNCHANGED Custodians!vars
    BY <2>1 DEF Custodians!vars, Running
  <2>2. ASSUME NEW s \in Slot, s \in up, up' = up \ {s}, keeper' = Orphaned(s),
               UNCHANGED <<st, told, harmed>>
        PROVE  Custodians!Next
    <3>1. Custodians!Part(s)
      BY <2>2 DEF Custodians!Part, Orphaned, Running
    <3>2. QED
      BY <3>1 DEF Custodians!Next
  <2>3. CASE UNCHANGED vars
    BY <2>1, <2>3 DEF vars, process
  <2>4. ASSUME NEW s \in Slot, Open(s) PROVE Custodians!Next
    <3>1. up' = up \cup {s} /\ s \notin up
      BY <2>4 DEF Open
    <3>2. Custodians!Join(s)
      BY <2>4, <3>1 DEF Open, process, Custodians!Join, Running
    <3>3. QED
      BY <3>2 DEF Custodians!Next
  <2>5. ASSUME NEW s \in Slot, Acquire(s)
        PROVE  Custodians!Next \/ UNCHANGED Custodians!vars
    <3>1. CASE s \in dir
      <4>1. up' = up
        BY <2>5, <3>1 DEF Acquire
      <4>2. QED
        BY <2>1, <2>5, <4>1 DEF Acquire, process
    <3>2. CASE s \notin dir
      <4>1. s \in up /\ up' = up \ {s}
        BY <2>5, <3>2 DEF Acquire
      <4>2. \A k \in Proc : keeper[k] # s
        BY <2>5 DEF Acquire, Recording
      <4>3. keeper' = Orphaned(s)
        BY <2>5, <4>2 DEF Acquire, Orphaned
      <4>4. QED
        BY <2>2, <2>5, <4>1, <4>3 DEF Acquire, process
    <3>3. QED
      BY <3>1, <3>2
  <2>6. ASSUME NEW s \in Slot, ScanOwn(s) \/ Cleanup(s) \/ Age(s)
        PROVE  UNCHANGED Custodians!vars
    <3>1. up' = up
      BY <2>6 DEF ScanOwn, Cleanup, Age, Reaping
    <3>2. QED
      BY <2>1, <2>6, <3>1 DEF ScanOwn, Cleanup, Age, process
  <2>7. ASSUME NEW s \in Slot, Leave(s) PROVE Custodians!Next
    <3>1. s \in up /\ up' = up \ {s}
      BY <2>7 DEF Leave
    <3>2. QED
      BY <2>2, <2>7, <3>1 DEF Leave, process
  <2>8. ASSUME NEW s \in Slot, Crash(s) PROVE Custodians!Next
    <3>1. s \in up /\ up' = up \ {s}
      BY <2>8 DEF Crash
    <3>2. QED
      BY <2>2, <2>8, <3>1 DEF Crash, process
  <2>9. ASSUME NEW s \in Slot, NEW d \in Slot, ScanDir(s, d)
        PROVE  UNCHANGED Custodians!vars
    BY <2>1, <2>9 DEF ScanDir, process
  <2>10. ASSUME NEW s \in Slot, NEW k \in Proc, Serve(s, k)
         PROVE  Custodians!Next \/ UNCHANGED Custodians!vars
    <3>1. CASE Spawn(s, k)
      <4>1. up' = up /\ s \in up
        BY <3>1 DEF Spawn
      <4>2. servers' = servers \cup {k} /\ k \notin servers
        BY <3>1 DEF Spawn, Running
      <4>3. Custodians!Spawn(s, k)
        BY <3>1, <4>1, <4>2 DEF Spawn, Custodians!Spawn
      <4>4. QED
        BY <4>3 DEF Custodians!Next
    <3>2. CASE Ready(s, k) \/ LaunchFails(s, k) \/ Waited(s, k)
      BY <2>1, <3>2 DEF Ready, LaunchFails, Waited, process
    <3>3. CASE ShutDown(s, k) \/ ShutDownEnds(s, k) \/ Drop(s, k)
      BY <2>0, <3>3 DEF ShutDown, ShutDownEnds, Drop, Recording
    <3>4. QED
      BY <2>10, <3>1, <3>2, <3>3 DEF Serve
  <2>11. ASSUME NEW s \in Slot, NEW k \in Proc, Reap(s, k)
         PROVE  Custodians!Next \/ UNCHANGED Custodians!vars
    <3>1. CASE Terminate(s, k)
      BY <2>0, <3>1 DEF Terminate, Aiming
    <3>2. CASE ForceKill(s, k)
      <4>1. k \in targets[s]
        BY <3>2 DEF ForceKill, Aiming, NoAim
      <4>2. QED
        BY <2>0, <3>2, <4>1 DEF ForceKill, Aiming
    <3>3. CASE Reaped(s, k) \/ GiveUp(s, k)
      BY <2>1, <3>3 DEF Reaped, GiveUp, process
    <3>4. QED
      BY <2>11, <3>1, <3>2, <3>3 DEF Reap
  <2>12. ASSUME NEW k \in Proc, End(k) PROVE Custodians!Next
    <3>1. up' = up /\ servers' = servers \ {k} /\ k \in servers
      BY <2>12 DEF End, Running
    <3>2. who' = [who EXCEPT ![k] = Nobody]
      BY <2>12 DEF End, Silence
    <3>3. Custodians!End(k)
      BY <2>12, <3>1, <3>2 DEF End, Custodians!End
    <3>4. QED
      BY <3>3 DEF Custodians!Next
  <2>13. ASSUME NEW k \in Proc, Recycle(k) PROVE UNCHANGED Custodians!vars
    BY <2>1, <2>13 DEF Recycle
  <2>14. QED
    BY <2>3, <2>4, <2>5, <2>6, <2>7, <2>8, <2>9, <2>10, <2>11, <2>12, <2>13 DEF Next
<1>3. QED
  BY <1>1, <1>2, CustodyHolds, PTL DEF Spec, OnlyKeepersSignal, Custodians!Spec

-----------------------------------------------------------------------------
(* Records *)

\* A steady directory is removed only after its last owner, and while it is old.
Staleness ==
  /\ old \subseteq LongLived
  /\ \A s \in Slot :
       /\ life[s] = "new" => s \notin dir
       /\ s \in Steady /\ life[s] = "opening" => s \notin old
       /\ s \in Steady /\ life[s] \in {"cross", "joined", "own", "up"} => s \in dir
       /\ stale[s] \subseteq LongLived
       /\ \A d \in stale[s] \cap Steady : life[d] = "down" /\ (d \in dir => d \in old)

Filed == \A k \in Proc : file[k] \in Slot => file[k] \in dir

Handles ==
  \A k \in Proc :
    /\ grip[k] # "none" => keeper[k] \in Slot
    /\ /\ Running(k) /\ keeper[k] \in Steady
       /\ grip[k] \in {"held", "stopping"} \/ (grip[k] = "launching" /\ k \in Rpc)
       => file[k] = keeper[k]

Doomed == \A s \in Slot : \A k \in doomed[s] : st[k] = "gone"

RecordInv == Staleness /\ Filed /\ Handles /\ Doomed

LEMMA RecordHolds == Spec => []RecordInv
<1>1. Init => RecordInv
  BY NobodyElse DEF Init, RecordInv, Staleness, Filed, Handles, Doomed, Running
<1>2. CustodyInv /\ RecordInv /\ [Next]_vars => RecordInv'
  <2> SUFFICES ASSUME CustodyInv, RecordInv, [Next]_vars PROVE RecordInv'
    OBVIOUS
  <2> USE NobodyElse DEF CustodyInv, TypeOK, Recording, Locking, Aiming, RecordInv, Staleness,
                         Steady, Filed, Handles, Doomed, process, disk, reaping,
                         SignalIfMatches, FilesWithout,
                         Running
  <2>1. CASE UNCHANGED vars
    BY <2>1 DEF vars
  <2>2. ASSUME NEW s \in Slot, Open(s) PROVE RecordInv'
    BY <2>2 DEF Open
  <2>3. ASSUME NEW s \in Slot, Acquire(s) PROVE RecordInv'
    BY <2>3 DEF Acquire
  <2>4. ASSUME NEW s \in Slot, ScanOwn(s) PROVE RecordInv'
    BY <2>4 DEF ScanOwn, Recorded
  <2>5. ASSUME NEW s \in Slot, Cleanup(s) PROVE RecordInv'
    BY <2>5 DEF Cleanup, Reaping
  <2>6. ASSUME NEW s \in Slot, Age(s) PROVE RecordInv'
    BY <2>6 DEF Age
  <2>7. ASSUME NEW s \in Slot, Leave(s) PROVE RecordInv'
    BY <2>7 DEF Leave, Orphaned
  <2>8. ASSUME NEW s \in Slot, Crash(s) PROVE RecordInv'
    BY <2>8 DEF Crash, Orphaned
  <2>9. ASSUME NEW s \in Slot, NEW d \in Slot, ScanDir(s, d) PROVE RecordInv'
    <3>1. CASE d \in dir \ lock
      <4>1. /\ \A r \in Slot : r # s => doomed'[r] = doomed[r] /\ stale'[r] = stale[r]
            /\ doomed'[s] = doomed[s] \cup {i \in Recorded(d) : ~Running(i)}
            /\ stale'[s] = stale[s] \cup ({d} \cap old)
        BY <2>9, <3>1 DEF ScanDir
      <4>2. UNCHANGED <<life, dir, old, st, keeper, grip, file>>
        BY <2>9 DEF ScanDir
      <4>3. \A i \in Recorded(d) : ~Running(i) => st[i] = "gone"
        BY DEF Recorded
      <4>4. d \in old => d \in LongLived /\ (d \in Steady => life[d] = "down")
        BY <3>1 DEF Life
      <4>5. Staleness'
        <5>1. ASSUME NEW r \in Slot
              PROVE  /\ stale'[r] \subseteq LongLived
                     /\ \A e \in stale'[r] \cap Steady : life[e] = "down" /\ (e \in dir => e \in old)
          BY <4>1, <4>4
        <5>2. QED
          BY <4>2, <5>1
      <4>6. Filed' /\ Handles' /\ Doomed'
        BY <4>1, <4>2, <4>3
      <4>7. QED
        BY <4>5, <4>6
    <3>2. CASE d \notin dir \ lock
      BY <2>9, <3>2 DEF ScanDir
    <3>3. QED
      BY <3>1, <3>2
  <2>10. ASSUME NEW s \in Slot, NEW k \in Proc, Serve(s, k) PROVE RecordInv'
    <3>1. CASE Spawn(s, k)
      BY <3>1 DEF Spawn
    <3>2. CASE Ready(s, k)
      <4>1. /\ UNCHANGED <<life, dir, old, st, keeper, doomed, stale>>
            /\ keeper[k] = s /\ grip[k] = "launching" /\ Running(k)
        BY <3>2 DEF Ready
      <4>2. \A i \in Proc : i # k => grip'[i] = grip[i] /\ file'[i] = file[i]
        BY <3>2 DEF Ready
      <4>3. \/ k \in Rpc /\ grip'[k] = "held" /\ file'[k] = file[k]
            \/ s \in dir /\ grip'[k] = "held" /\ file'[k] = s
            \/ grip'[k] = "none" /\ file'[k] = file[k]
        BY <3>2 DEF Ready
      <4>4. Staleness' /\ Doomed'
        BY <4>1
      <4>5. Filed'
        BY <4>1, <4>2, <4>3
      <4>6. Handles'
        <5>1. ASSUME NEW i \in Proc, i # k
              PROVE  /\ grip'[i] # "none" => keeper'[i] \in Slot
                     /\ /\ Running(i)' /\ keeper'[i] \in Steady
                        /\ grip'[i] \in {"held", "stopping"} \/ (grip'[i] = "launching" /\ i \in Rpc)
                        => file'[i] = keeper'[i]
          BY <4>1, <4>2, <5>1
        <5>2. s \in Slot /\ keeper'[k] = s
          BY <4>1
        <5>3. k \in Rpc /\ s \in Steady => file[k] = s
          BY <4>1
        <5>4. grip'[k] = "none" \/ (grip'[k] = "held" /\ (s \in Steady => file'[k] = s))
          BY <4>3, <5>3
        <5>5. QED
          BY <5>1, <5>2, <5>4
      <4>7. QED
        BY <4>4, <4>5, <4>6
    <3>3. CASE LaunchFails(s, k)
      BY <3>3 DEF LaunchFails
    <3>4. CASE Waited(s, k)
      BY <3>4 DEF Waited
    <3>5. CASE ShutDown(s, k)
      BY <3>5 DEF ShutDown
    <3>6. CASE ShutDownEnds(s, k)
      BY <3>6 DEF ShutDownEnds
    <3>7. CASE Drop(s, k)
      BY <3>7 DEF Drop
    <3>8. QED
      BY <2>10, <3>1, <3>2, <3>3, <3>4, <3>5, <3>6, <3>7 DEF Serve
  <2>11. ASSUME NEW s \in Slot, NEW k \in Proc, Reap(s, k) PROVE RecordInv'
    <3>1. CASE Terminate(s, k)
      BY <3>1 DEF Terminate
    <3>2. CASE ForceKill(s, k)
      BY <3>2 DEF ForceKill
    <3>3. CASE Reaped(s, k)
      BY <3>3 DEF Reaped, Free
    <3>4. CASE GiveUp(s, k)
      BY <3>4 DEF GiveUp
    <3>5. QED
      BY <2>11, <3>1, <3>2, <3>3, <3>4 DEF Reap
  <2>12. ASSUME NEW k \in Proc, End(k) PROVE RecordInv'
    BY <2>12 DEF End
  <2>13. ASSUME NEW k \in Proc, Recycle(k) PROVE RecordInv'
    BY <2>13 DEF Recycle
  <2>14. QED
    BY <2>1, <2>2, <2>3, <2>4, <2>5, <2>6, <2>7, <2>8, <2>9, <2>10, <2>11, <2>12, <2>13 DEF Next
<1>3. QED
  BY <1>1, <1>2, CustodyHolds, PTL DEF Spec

\* A server in use is recorded in the locked directory of its owner, unless the owner
\* has the pid of an instance that ran for long.
THEOREM HeldRecorded == Spec => []HeldIsRecorded
<1>1. CustodyInv /\ RecordInv => HeldIsRecorded
  BY NobodyElse DEF Steady, CustodyInv, TypeOK, Recording, RecordInv, Handles, HeldIsRecorded
<1>2. QED
  BY <1>1, CustodyHolds, RecordHolds, PTL

\* What is recorded in a directory about to be removed, or in its own by an instance
\* that cleans up, is about to be ended.
Traces ==
  \A s \in Slot, k \in Proc \ Stuck :
    Running(k) /\ file[k] \in Steady =>
      /\ file[k] \in stale[s] => k \in targets[s]
      /\ life[s] = "own" /\ file[k] = s => k \in targets[s]
      /\ life[s] = "up" /\ file[k] = s => keeper[k] = s

LEMMA TracesHold == Spec => []Traces
<1>1. Init => Traces
  BY NobodyElse DEF Init, Traces, Running
<1>2. CustodyInv /\ RecordInv /\ Traces /\ [Next]_vars => Traces'
  <2> SUFFICES ASSUME CustodyInv, RecordInv, Traces, [Next]_vars PROVE Traces'
    OBVIOUS
  <2> USE NobodyElse DEF CustodyInv, TypeOK, Recording, Aiming, RecordInv, Staleness, Traces, Steady,
                         process, disk, reaping, SignalIfMatches, FilesWithout, Running
  <2>1. CASE UNCHANGED vars
    BY <2>1 DEF vars
  <2>2. ASSUME NEW s \in Slot, Open(s) PROVE Traces'
    BY <2>2 DEF Open
  <2>3. ASSUME NEW s \in Slot, Acquire(s) PROVE Traces'
    BY <2>3 DEF Acquire
  <2>4. ASSUME NEW s \in Slot, ScanOwn(s) PROVE Traces'
    <3>1. /\ \A r \in Slot : r # s => targets'[r] = targets[r] /\ life'[r] = life[r]
          /\ targets'[s] = {i \in Recorded(s) : Running(i)}
          /\ life'[s] = "own" /\ life[s] = "joined"
      BY <2>4 DEF ScanOwn
    <3>2. UNCHANGED <<st, keeper, file, stale>>
      BY <2>4 DEF ScanOwn
    <3>3. \A k \in Proc \ Stuck : Running(k) /\ file[k] \in Steady => file[k] \notin stale[s]
      BY <3>1
    <3>4. QED
      BY <3>1, <3>2, <3>3 DEF Recorded
  <2>5. ASSUME NEW s \in Slot, Cleanup(s) PROVE Traces'
    BY <2>5 DEF Cleanup, Reaping
  <2>6. ASSUME NEW s \in Slot, Age(s) PROVE Traces'
    BY <2>6 DEF Age
  <2>7. ASSUME NEW s \in Slot, Leave(s) PROVE Traces'
    BY <2>7 DEF Leave, Orphaned
  <2>8. ASSUME NEW s \in Slot, Crash(s) PROVE Traces'
    BY <2>8 DEF Crash, Orphaned
  <2>9. ASSUME NEW s \in Slot, NEW d \in Slot, ScanDir(s, d) PROVE Traces'
    <3>1. CASE d \in dir \ lock
      <4>1. /\ \A r \in Slot : r # s => targets'[r] = targets[r] /\ stale'[r] = stale[r]
            /\ targets'[s] = targets[s] \cup {i \in Recorded(d) : Running(i)}
            /\ stale'[s] = stale[s] \cup ({d} \cap old)
        BY <2>9, <3>1 DEF ScanDir
      <4>2. UNCHANGED <<life, st, keeper, file>>
        BY <2>9 DEF ScanDir
      <4>3. QED
        BY <4>1, <4>2 DEF Recorded
    <3>2. CASE d \notin dir \ lock
      BY <2>9, <3>2 DEF ScanDir
    <3>3. QED
      BY <3>1, <3>2
  <2>10. ASSUME NEW s \in Slot, NEW k \in Proc, Serve(s, k) PROVE Traces'
    <3>1. CASE Spawn(s, k)
      BY <3>1 DEF Spawn
    <3>2. CASE Ready(s, k)
      <4>1. UNCHANGED <<life, st, keeper, targets, stale>> /\ keeper[k] = s
        BY <3>2 DEF Ready
      <4>2. \A i \in Proc : file'[i] = file[i] \/ (i = k /\ file'[i] = s)
        BY <3>2 DEF Ready
      <4>3. life[s] = "up" /\ (s \in Steady => \A r \in Slot : s \notin stale[r])
        BY <4>1
      <4>4. QED
        BY <4>1, <4>2, <4>3
    <3>3. CASE LaunchFails(s, k)
      BY <3>3 DEF LaunchFails
    <3>4. CASE Waited(s, k)
      BY <3>4 DEF Waited
    <3>5. CASE ShutDown(s, k)
      BY <3>5 DEF ShutDown
    <3>6. CASE ShutDownEnds(s, k)
      BY <3>6 DEF ShutDownEnds
    <3>7. CASE Drop(s, k)
      BY <3>7 DEF Drop
    <3>8. QED
      BY <2>10, <3>1, <3>2, <3>3, <3>4, <3>5, <3>6, <3>7 DEF Serve
  <2>11. ASSUME NEW s \in Slot, NEW k \in Proc, Reap(s, k) PROVE Traces'
    <3>1. CASE Terminate(s, k)
      BY <3>1 DEF Terminate
    <3>2. CASE ForceKill(s, k)
      BY <3>2 DEF ForceKill
    <3>3. CASE Reaped(s, k)
      BY <3>3 DEF Reaped, Free
    <3>4. CASE GiveUp(s, k)
      BY <3>4 DEF GiveUp
    <3>5. QED
      BY <2>11, <3>1, <3>2, <3>3, <3>4 DEF Reap
  <2>12. ASSUME NEW k \in Proc, End(k) PROVE Traces'
    BY <2>12 DEF End
  <2>13. ASSUME NEW k \in Proc, Recycle(k) PROVE Traces'
    BY <2>13 DEF Recycle
  <2>14. QED
    BY <2>1, <2>2, <2>3, <2>4, <2>5, <2>6, <2>7, <2>8, <2>9, <2>10, <2>11, <2>12, <2>13 DEF Next
<1>3. QED
  BY <1>1, <1>2, CustodyHolds, RecordHolds, PTL DEF Spec

\* No instance removes the pidfile of an orphan that still runs, and what no signal
\* ends keeps its pidfile until its directory is old or its new owner leaves.
THEOREM TraceKept == Spec => TraceIsKept
<1> DEFINE Kept ==
      \A k \in Proc :
        /\ file[k] \in Steady /\ Orphan(k) /\ Orphan(k)'
        /\ k \in Stuck => file[k] \notin old /\ life[file[k]] # "up"
        => file'[k] = file[k]
<1>1. CustodyInv /\ RecordInv /\ Traces /\ [Next]_vars => [Kept]_vars
  <2> SUFFICES ASSUME CustodyInv, RecordInv, Traces, [Next]_vars,
                      NEW k \in Proc, file[k] \in Steady, Orphan(k),
                      k \in Stuck => file[k] \notin old /\ life[file[k]] # "up"
               PROVE  file'[k] = file[k]
    BY DEF vars
  <2> USE NobodyElse DEF CustodyInv, TypeOK, Recording, RecordInv, Staleness, Filed, Steady,
                         Doomed, Traces, Orphan, Running,
                         FilesWithout, disk, process, reaping
  <2>1. CASE UNCHANGED vars
    BY <2>1 DEF vars
  <2>2. ASSUME NEW s \in Slot, Cleanup(s) PROVE file'[k] = file[k]
    BY <2>2 DEF Cleanup
  <2>3. ASSUME NEW s \in Slot, Leave(s) PROVE file'[k] = file[k]
    BY <2>3 DEF Leave
  <2>4. ASSUME NEW s \in Slot, Open(s) \/ Acquire(s) \/ ScanOwn(s) \/ Age(s) \/ Crash(s)
        PROVE  file'[k] = file[k]
    BY <2>4 DEF Open, Acquire, ScanOwn, Age, Crash
  <2>5. ASSUME NEW s \in Slot, NEW d \in Slot, ScanDir(s, d) PROVE file'[k] = file[k]
    BY <2>5 DEF ScanDir
  <2>6. ASSUME NEW s \in Slot, NEW i \in Proc, Serve(s, i) PROVE file'[k] = file[k]
    <3>1. CASE Spawn(s, i)
      BY <3>1 DEF Spawn
    <3>2. CASE Ready(s, i)
      BY <3>2 DEF Ready
    <3>3. CASE LaunchFails(s, i) \/ Waited(s, i) \/ ShutDown(s, i)
      BY <3>3 DEF LaunchFails, Waited, ShutDown
    <3>4. CASE ShutDownEnds(s, i) \/ Drop(s, i)
      BY <3>4 DEF ShutDownEnds, Drop
    <3>5. QED
      BY <2>6, <3>1, <3>2, <3>3, <3>4 DEF Serve
  <2>7. ASSUME NEW s \in Slot, NEW i \in Proc, Reap(s, i) PROVE file'[k] = file[k]
    BY <2>7 DEF Reap, Terminate, Reaped, ForceKill, GiveUp
  <2>8. ASSUME NEW i \in Proc, End(i) \/ Recycle(i) PROVE file'[k] = file[k]
    BY <2>8 DEF End, Recycle
  <2>9. QED
    BY <2>1, <2>2, <2>3, <2>4, <2>5, <2>6, <2>7, <2>8 DEF Next
<1>2. QED
  BY <1>1, CustodyHolds, RecordHolds, TracesHold, PTL DEF Spec, TraceIsKept

=============================================================================
