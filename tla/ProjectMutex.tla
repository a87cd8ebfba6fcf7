---------------------------- MODULE ProjectMutex ----------------------------
(***************************************************************************)
(* What `withProjectLock` promises its callers: at most one process at a   *)
(* time runs a protected task.  A process enters when nobody is inside,    *)
(* and leaves when its task ends (or when the process dies).               *)
(***************************************************************************)
CONSTANT Procs          \* the processes that mutate one project
VARIABLE inside         \* those that are running a protected task

Init == inside = {}

Enter(p) == inside = {} /\ inside' = {p}
Leave(p) == p \in inside /\ inside' = inside \ {p}

Next == \E p \in Procs : Enter(p) \/ Leave(p)

Spec == Init /\ [][Next]_inside
=============================================================================
