--------------------------- MODULE MCIdleValidator ---------------------------
(***************************************************************************)
(* Calls of onIdle, the notifier they share with a hook, and the notifier  *)
(* alone, with whatever three callers say to it.  A behaviour is about the *)
(* one or the other; what the other's fairness speaks of is not enabled    *)
(* in it.                                                                  *)
(***************************************************************************)
EXTENDS IdleValidator

VARIABLE subject        \* what this behaviour is about

MCInit == IdleInit /\ subject \in {"validator", "notifier"}

MCNext ==
  /\ \/ subject = "validator" /\ IdleNext
     \/ subject = "notifier" /\ (NotifierNext \/ Say) /\ UNCHANGED validatorVars
  /\ UNCHANGED subject

MCSpec ==
  MCInit /\ [][MCNext]_<<idleVars, subject>> /\ IdleFairness /\ NotifierFairness
=============================================================================
