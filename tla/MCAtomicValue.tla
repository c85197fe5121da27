--------------------------- MODULE MCAtomicValue ---------------------------
EXTENDS AtomicValue, TLC

Symmetry == Permutations(Thread)
=============================================================================
