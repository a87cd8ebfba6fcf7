------------------------------ MODULE RunChain ------------------------------
(***************************************************************************)
(* What the workflows of a phase may rely on when they hand over to each   *)
(* other: there is one run, each step adds to it, and a restart replaces   *)
(* it as a whole by a later run that has one step.                         *)
(***************************************************************************)
EXTENDS Naturals

CONSTANTS Steps, Runs
VARIABLES run,          \* the run a reader resumes, 0 if there is none
          steps         \* the steps it finds of that run

vars == <<run, steps>>

Init == run = 0 /\ steps = {}

Extend(s) == run # 0 /\ steps' = steps \cup {s} /\ UNCHANGED run

Start(r, s) == r > run /\ run' = r /\ steps' = {s}

Next == \E s \in Steps : Extend(s) \/ \E r \in Runs : Start(r, s)

Spec == Init /\ [][Next]_vars
=============================================================================
