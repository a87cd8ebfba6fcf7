------------------------------ MODULE MCHooks ------------------------------
(***************************************************************************)
(* The hooks of the plugin: how a call of one ends, and what becomes of    *)
(* the refreshes that hooks ask for when cmux fails.  A behaviour is about *)
(* one of the two, and the other part has not begun: nothing fairness      *)
(* speaks of is enabled in it.                                             *)
(***************************************************************************)
EXTENDS SafeHook, CmuxAttention

VARIABLE subject        \* what this behaviour is about

MCInit ==
  /\ HookInit /\ AttentionStart
  /\ \/ subject = "hook" /\ asked = "no"
        /\ signal = "blocked" /\ cmux = "attached" /\ cached = "attached"
     \/ subject = "attention" /\ asked = "once"

MCNext ==
  /\ \/ subject = "hook" /\ HookNext /\ UNCHANGED attentionVars
     \/ subject = "attention" /\ AttentionNext /\ UNCHANGED hookVars
  /\ UNCHANGED subject

MCSpec ==
  /\ MCInit /\ [][MCNext]_<<hookVars, attentionVars, subject>>
  /\ HookFairness /\ AttentionFairness
=============================================================================
