-------------------------- MODULE MCPlanningWatch --------------------------
(* Two names for cycles: enough to see two at once if the code let them.   *)
EXTENDS PlanningWatch
=============================================================================
