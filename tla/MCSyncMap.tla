----------------------------- MODULE MCSyncMap -----------------------------
EXTENDS SyncMap, TLC

Symmetry == Permutations(Thread) \cup Permutations(Key)
=============================================================================
