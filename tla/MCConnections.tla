---------------------------- MODULE MCConnections ----------------------------
EXTENDS Connections, TLC

Symmetry == Permutations(Conn) \cup Permutations(Node)
=============================================================================
