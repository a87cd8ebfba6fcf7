-------------------------- MODULE MCPlanningStores --------------------------
(***************************************************************************)
(* What the commands of several processes keep under .planning: stores     *)
(* behind the JSON mutator, the handoff files of a phase, MEMORY.md, and   *)
(* the phase directories with ROADMAP.md.  The first two share the project *)
(* lock, the others do not use it, and they share nothing else: a          *)
(* behaviour is about one of them, and a holder that works on another one  *)
(* is a slow holder, or one that dies.                                     *)
(***************************************************************************)
EXTENDS JsonStore, PhaseHandoff, StructuredMemory, PhaseLifecycle, TLC

VARIABLE subject        \* what this behaviour is about

MCInit ==
  /\ LockInit /\ StoreInit /\ HandoffInit /\ MemoryInit /\ PhaseInit
  /\ subject \in {"json", "handoff", "memory", "phases"}
  /\ subject # "memory" => memory = NoMemory
  /\ subject # "phases" => dirs = << >>

documentVars == <<handoffVars, memoryVars>>

MCNext ==
  /\ \/ subject = "json" /\ JsonNext /\ UNCHANGED <<documentVars, phaseVars>>
     \/ subject = "handoff" /\ HandoffNext /\ UNCHANGED <<storeVars, memoryVars, phaseVars>>
     \/ subject = "memory" /\ MemoryNext /\ UNCHANGED <<jsonVars, handoffVars, phaseVars>>
     \/ subject = "phases" /\ PhaseNext /\ UNCHANGED <<jsonVars, documentVars>>
  /\ UNCHANGED subject

MCSpec ==
  MCInit /\ [][MCNext]_<<jsonVars, documentVars, phaseVars, subject>>

\* The planners and the writers are the same processes.
Symmetry == Permutations(Procs)
=============================================================================
