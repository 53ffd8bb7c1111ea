---------------------------- MODULE MCConfigSync ----------------------------
EXTENDS ConfigSync, TLC
Symmetry == Permutations(Subscriber \ Old) \cup Permutations(Wire \ (Pinned \cup {Default}))
=============================================================================
