------------------------------- MODULE MCRouting -------------------------------
EXTENDS Routing, TLC

CONSTANTS p1, p2, m, r1, r2

Peers == {p1, p2}
Models == {m}
OneRequest == {r1}
TwoRequests == {r1, r2}
NoPeer == {}
OnePeer == {p1}
NoRoute == {}
TheOther == {p2}
RequestSymmetry == Permutations(TwoRequests)
\* Bound: of the requests, the probe, an audit and a turn of the loop with the peers
\* still to be looked at or the table to be published, at most two are under way.
TurnUnderWay == unread \/ loop.st \in {"turn", "send"}
TwoAtOnce ==
  Cardinality({r \in Request : request[r].st # "idle"}) + Cardinality(audit)
    + (IF probe.st = "rest" THEN 0 ELSE 1) + (IF TurnUnderWay THEN 1 ELSE 0) <= 2
OneRoute == {<<p1, m>>}
=============================================================================
