--------------------------- MODULE MCProjectLock ---------------------------
EXTENDS ProjectLock, TLC

Symmetry == Permutations(Procs)
=============================================================================
