------------------------------ MODULE MCLazyRpc ------------------------------
EXTENDS LazyRpc, TLC
Symmetry == Permutations(Loop)
=============================================================================
