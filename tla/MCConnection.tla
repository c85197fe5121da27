---------------------------- MODULE MCConnection ----------------------------
EXTENDS Connection, TLC

Symmetry == Permutations(Conn) \cup Permutations(Site)
=============================================================================
