----------------------------- MODULE MCSyncMapLin ----------------------------
EXTENDS SyncMapLin, TLC

Symmetry == Permutations(Thread) \cup Permutations(Key)
=============================================================================
