----------------------------- MODULE MCInstances ------------------------------
EXTENDS Instances, TLC

CONSTANTS s1, s2, p1, p2

Slots == {s1, s2}
Procs == {p1, p2}
OneRpc == {p1}
Again == {s1}                 \* its pid comes back within the hour
Lasting == {s2}               \* it runs for more than an hour, once
Nothing == {}
Hung == {p2}                  \* no signal ends it
=============================================================================
