------------------------------- MODULE Custody --------------------------------
(***************************************************************************)
(* What the instances of one machine promise each other about the server     *)
(* processes they start, with neither lock files, pidfiles nor identity      *)
(* checks: a server has a keeper as long as the instance that started it     *)
(* lives.  Only the keeper signals it; once the keeper is gone any instance  *)
(* may.  Processes that no instance started are never signalled.             *)
(***************************************************************************)
CONSTANTS Slot, Proc, Nobody

VARIABLES
  alive,     \* the live instances
  running,   \* the server processes
  keeper,    \* [Proc -> Slot \cup {Nobody}]
  told,      \* [Proc -> who has signalled it last, or Nobody]
  harmed     \* the processes of others that were signalled

vars == <<alive, running, keeper, told, harmed>>

Init ==
  /\ alive = {}
  /\ running = {}
  /\ keeper = [k \in Proc |-> Nobody]
  /\ told = [k \in Proc |-> Nobody]
  /\ harmed = {}

Join(s) ==
  /\ s \notin alive
  /\ alive' = alive \cup {s}
  /\ UNCHANGED <<running, keeper, told, harmed>>

\* An instance leaves or crashes; what it still kept is an orphan.
Part(s) ==
  /\ s \in alive
  /\ alive' = alive \ {s}
  /\ keeper' = [k \in Proc |-> IF keeper[k] = s THEN Nobody ELSE keeper[k]]
  /\ UNCHANGED <<running, told, harmed>>

Spawn(s, k) ==
  /\ s \in alive
  /\ k \notin running
  /\ running' = running \cup {k}
  /\ keeper' = [keeper EXCEPT ![k] = s]
  /\ UNCHANGED <<alive, told, harmed>>

End(k) ==
  /\ k \in running
  /\ running' = running \ {k}
  /\ told' = [told EXCEPT ![k] = Nobody]
  /\ UNCHANGED <<alive, keeper, harmed>>

Stop(s, k) ==
  /\ s \in alive
  /\ k \in running
  /\ keeper[k] \in {s, Nobody}
  /\ told' = [told EXCEPT ![k] = s]
  /\ UNCHANGED <<alive, running, keeper, harmed>>

Next ==
  \/ \E s \in Slot : Join(s) \/ Part(s)
  \/ \E s \in Slot, k \in Proc : Spawn(s, k) \/ Stop(s, k)
  \/ \E k \in Proc : End(k)

Spec == Init /\ [][Next]_vars
=============================================================================
