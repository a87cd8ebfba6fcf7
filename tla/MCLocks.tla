------------------------------- MODULE MCLocks -------------------------------
(***************************************************************************)
(* The lock of the project and the marker of a background analysis, both   *)
(* left behind by a process that dies.  A behaviour is about one of them.  *)
(***************************************************************************)
EXTENDS ProjectLock, CodebaseIntel

VARIABLE subject        \* what this behaviour is about

MCInit ==
  /\ LockInit /\ IntelInit
  /\ \/ subject = "lock" /\ intel = Blank /\ \A s \in Sources : tree[s] = Missing
     \/ subject = "marker"

MCNext ==
  /\ \/ subject = "lock" /\ LockNext /\ UNCHANGED intelVars
     \/ subject = "marker" /\ IntelNext /\ UNCHANGED lockVars
  /\ UNCHANGED subject

\* Commands run to their end, time passes, and init commands keep coming as long as
\* the project is worked on.  What LockFairness speaks of has not begun in a behaviour
\* about the marker.
MarkerFairness ==
  /\ \A a \in Analysts : WF_intelVars(AnalystWorks(a))
  /\ WF_intelVars(MarkerAges)
  /\ WF_intelVars(subject = "marker" /\ \E a \in Analysts : Trigger(a))

MCSpec ==
  /\ MCInit /\ [][MCNext]_<<lockVars, intelVars, subject>>
  /\ LockFairness /\ MarkerFairness
=============================================================================
