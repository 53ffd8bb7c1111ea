------------------------------ MODULE MCElection ------------------------------
EXTENDS Election, TLC

CONSTANTS a, b

Nodes == {a, b}
MCRank == (a :> 2) @@ (b :> 1)
TooSmall == (a :> 12) @@ (b :> 10)        \* neither holds the model alone
LargeEnough == (a :> 24) @@ (b :> 23)     \* both do
Plenty == (a :> 32) @@ (b :> 0)
Tight == (a :> 16) @@ (b :> 0)            \* b expects a to run out of memory, a does not
Bytes20 == [n \in Nodes |-> 20]
Paths == [n \in Nodes |-> [m \in Nodes |-> {"near"}]]
Unmeasured == [n \in Nodes |-> [m \in Nodes |-> IF n = b THEN {"near"} ELSE {"none", "near"}]]
NoNode == {}
OnlyA == {a}
\* Bound: once the fault has struck, launches succeed.
OneMisfortune ==
  faults = 0 \/ \A n \in Faulty : pc[n] \notin {"failed", "proxyless"} /\ ~backoff[n]
=============================================================================
