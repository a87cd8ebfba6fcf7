--------------------------- MODULE MCStateSession ---------------------------
(* Small projects for StateSession: two processes at most, one decision in *)
(* STATE.md and two to come.                                               *)
EXTENDS StateSession, TLC

CONSTANTS d0, d1, d2, f0, f1

MCInitDecs == <<d0>>
MCDecisions == {d0, d1, d2}
MCFields == {f0, f1}

MCLocked == {"patch", "decision"}
MCDecide == {"decision"}
MCAll == LockedKinds \cup OpenKinds

\* Only the decisions to come are interchangeable.
Symmetry == Permutations(Procs) \cup Permutations({d1, d2})
=============================================================================
