---------------------------- MODULE MCMembership ----------------------------
EXTENDS Membership, TLC

Symmetry == Permutations(Node)

\* The behaviours of HousekeptSpec in which the peer goes down at most once and
\* for good, says nothing, and nobody routes to it: enough to refute a promise
\* about peers that are gone.
Once ==
  /\ alive' => alive
  /\ leavings' = {}
  /\ \A n \in Node : ~RouteFailed(n)
OnceSpec == Init /\ [][Next /\ Once]_vars /\ Fairness /\ Housekeeping
=============================================================================
