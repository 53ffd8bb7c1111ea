----------------------------- MODULE MCBlackboard -----------------------------
EXTENDS Blackboard

CONSTANTS a, r, b

\* The second item comes in the same second as the first or a later one.
TwoAtATime == {[id |-> 1, time |-> 1], [id |-> 2, time |-> 1], [id |-> 2, time |-> 2]}

Nodes == {a, r, b}
Line == {{a, r}, {r, b}}      \* b is reached over r
OnlyA == {a}
OnlyB == {b}
Ends == {a, b}
Meeting == {<<a, b>>}
=============================================================================
