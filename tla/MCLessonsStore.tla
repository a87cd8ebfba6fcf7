--------------------------- MODULE MCLessonsStore ---------------------------
EXTENDS LessonsStore, TLC

CONSTANTS a, b, c, d

\* a and b share a root cause; the others have one of their own.
MCCause == [e \in Entries |-> IF e = b THEN a ELSE e]

Symmetry == Permutations(Procs)
=============================================================================
