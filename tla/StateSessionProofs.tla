------------------------- MODULE StateSessionProofs -------------------------
(***************************************************************************)
(* The session state, for any number of processes, commands of every kind  *)
(* and decisions.  A command uses the position or the decision it was      *)
(* given only where it has one (Apt), so everything keeps its type.  The   *)
(* lock it takes part of the time excludes as it does alone, although a    *)
(* process may also die outside of it.  And whenever the recorded mtime is *)
(* stale and no edit made it so, some process still owes the record.       *)
(*                                                                         *)
(* Of commands that do all their work under the lock more is proved.  The  *)
(* one that is inside is alone with both copies (LockedCases), so each     *)
(* invariant says what holds while nobody has begun (...Rest) and what the *)
(* one inside knows at each of its steps (...Kept).                        *)
(***************************************************************************)
EXTENDS StateSession, ProjectLockProofs

USE DEF LockedSteps, OpenSteps, SharedSteps

Steps == LockedSteps \cup OpenSteps \cup SharedSteps
CommandType == [kind : Kinds \cup {"none", "metric"}, field : Fields \cup {None},
                dec : Decisions \cup {None}]
LockedOnes == {"patch", "decision", "completeDecide"}

\* What a command is, at the steps where its kind, position or decision is used.
Apt(k, o, s) ==
  /\ o.kind \in {"patch", "advance", "progress"} => o.field \in Fields
  /\ o.kind \in {"decision", "completeDecide"} => o.dec \in Decisions
  /\ o.kind = "complete" => o.dec = None
  /\ k # "idle" => o.kind \in LockedOnes
  /\ k = "idle" /\ s \in {"import", "imported"} => o.kind \in {"advance", "progress", "metric"}
  /\ k \notin {"idle", "held"} => s = "import"
  /\ s = "a_write" => o.kind = "advance"
  /\ s = "sql" => o.kind \in {"advance", "progress"}
  /\ s = "t_read" => o.kind \in {"progress", "metric"}
  /\ s \in {"t_write", "t_stamp"} /\ o.kind # "metric" => o.field \in Fields
  /\ s \in {"c_batch", "c_write", "c_stamp"} => o.kind \in {"complete", "completeDecide"}
  /\ s = "c_decide" => o.kind = "completeDecide"

SessionInv == SessionTypeOK /\ \A p \in Procs : Apt(pc[p], op[p], step[p])

-----------------------------------------------------------------------------
LEMMA SessionInitially == SessionInit => SessionInv /\ HoldsOwn
<1> SUFFICES ASSUME SessionInit PROVE SessionInv /\ HoldsOwn  OBVIOUS
<1>1. LockTypeOK /\ HoldsOwn
  BY LockInvInitially DEF SessionInit, LockInv
<1>2. InitDoc \in Doc /\ NoOp \in CommandType /\ [row |-> None, decs |-> <<>>] \in Db
  BY StateConstants DEF InitDoc, Doc, NoOp, CommandType, Db
<1>3. expected \subseteq Decisions
  BY StateConstants DEF SessionInit, ToSet
<1>4. SessionTypeOK
  BY <1>1, <1>2, <1>3, StateConstants DEF SessionInit, SessionTypeOK, CommandType
<1>5. ASSUME NEW p \in Procs PROVE Apt(pc[p], op[p], step[p])
  BY DEF SessionInit, LockInit, NoOp, Apt
<1> QED  BY <1>1, <1>4, <1>5 DEF SessionInv

\* To the lock a command is one of its processes, except that a process may also die
\* outside of it.
LEMMA SessionLockStep ==
  ASSUME [SessionNext]_sessionVars
  PROVE  \/ [LockNext]_lockVars
         \/ UNCHANGED <<pc, lockDir, left, robbed>> /\ crashes < MaxCrashes /\ crashes' = crashes + 1
<1>1. CASE GrowOld
  BY <1>1 DEF GrowOld, LockNext
<1>2. ASSUME NEW p \in Procs, LockLoop(p) \/ BeginLocked(p) \/ CompleteDecide(p) \/ FinishState(p)
      PROVE  LockNext
  BY <1>2 DEF LockLoop, BeginLocked, CompleteDecide, FinishState, LockNext, LockStep
<1>3. ASSUME NEW p \in Procs, Die(p)
      PROVE  \/ LockNext
             \/ UNCHANGED <<pc, lockDir, left, robbed>> /\ crashes < MaxCrashes /\ crashes' = crashes + 1
  BY <1>3 DEF Die, LockNext, LockStep
<1>4. CASE UserEdits \/ InvalidateState \/ InvalidateDecisions \/ ClearForCwd \/ UNCHANGED sessionVars
  BY <1>4 DEF UserEdits, InvalidateState, InvalidateDecisions, ClearForCwd, sessionVars, lockVars
<1>5. ASSUME NEW p \in Procs, BeginOpen(p) \/ Import(p) \/ StampImport(p)
      PROVE  UNCHANGED lockVars
  BY <1>5 DEF BeginOpen, Import, StampImport
<1>6. ASSUME NEW p \in Procs, LockedStep(p), ~FinishState(p)
      PROVE  UNCHANGED lockVars
  BY <1>6 DEF LockedStep, LoadState, WriteState, PersistState, StampState, RestoreState, RestampState
<1>7. ASSUME NEW p \in Procs, OpenStep(p), ~CompleteDecide(p)
      PROVE  UNCHANGED lockVars
  BY <1>7 DEF OpenStep, AdvanceWrite, StoreRow, StampAdvance, CompleteBatch, CompleteWrite,
              StampComplete, RepairRead, TailRead, TailWrite, StampTail
<1> QED  BY <1>1, <1>2, <1>3, <1>4, <1>5, <1>6, <1>7 DEF SessionNext

LEMMA SessionKeepsLock ==
  ASSUME LockInv, [SessionNext]_sessionVars
  PROVE  LockInv'
<1>1. CASE [LockNext]_lockVars
  BY <1>1, LockInvPreserved
<1>2. CASE UNCHANGED <<pc, lockDir, left, robbed>> /\ crashes < MaxCrashes /\ crashes' = crashes + 1
  BY <1>2, BoundsNat DEF LockInv, LockTypeOK, HoldsOwn
<1> QED  BY <1>1, <1>2, SessionLockStep

\* Both copies, and the recorded mtime.
LEMMA SessionDocs ==
  ASSUME SessionInv, [SessionNext]_sessionVars
  PROVE  md' \in Doc /\ db' \in Db /\ mtime' \in {"missing", "fresh", "stale"}
<1> USE DEF SessionInv
<1> DEFINE Typed == md' \in Doc /\ db' \in Db /\ mtime' \in {"missing", "fresh", "stale"}
<1>1. ASSUME NEW doc \in Doc, WriteMd(doc) PROVE md' \in Doc /\ mtime' \in {"missing", "fresh", "stale"}
  BY <1>1 DEF WriteMd, SessionTypeOK
<1>2. ASSUME NEW doc \in Doc, NEW v \in Fields PROVE [doc EXCEPT !.field = v] \in Doc
  BY DEF Doc
<1>11. ASSUME WriteThrows PROVE md' \in Doc /\ mtime' \in {"missing", "fresh", "stale"}
  BY <1>1, <1>11 DEF WriteThrows, SessionTypeOK
<1>3. ASSUME NEW p \in Procs, LockedStep(p) PROVE Typed
  <2>1. CASE LoadState(p)  BY <2>1 DEF LoadState, docVars, SessionTypeOK
  <2>2. CASE WriteState(p)  BY <1>1, <2>2 DEF WriteState, SessionTypeOK
  <2>3. CASE PersistState(p)  BY <2>3 DEF PersistState, SessionTypeOK, Doc, Db
  <2>4. CASE StampState(p)  BY <2>4 DEF StampState, Stamp, SessionTypeOK
  <2>5. CASE RestoreState(p)  BY <1>1, <2>5 DEF RestoreState, SessionTypeOK
  <2>6. CASE RestampState(p)  BY <2>6 DEF RestampState, Stamp, SessionTypeOK
  <2>7. CASE FinishState(p)  BY <2>7 DEF FinishState, docVars, SessionTypeOK
  <2> QED  BY <1>3, <2>1, <2>2, <2>3, <2>4, <2>5, <2>6, <2>7 DEF LockedStep
<1>4. ASSUME NEW p \in Procs, OpenStep(p) PROVE Typed
  <2>1. CASE AdvanceWrite(p)
    <3>1. op[p].field \in Fields  BY <2>1 DEF AdvanceWrite, Open, Apt
    <3> QED  BY <1>1, <1>2, <1>11, <2>1, <3>1 DEF AdvanceWrite, SessionTypeOK
  <2>2. CASE StoreRow(p)
    <3>1. op[p].field \in Fields  BY <2>2 DEF StoreRow, Open, Apt
    <3> QED  BY <2>2, <3>1 DEF StoreRow, SessionTypeOK, Db
  <2>3. CASE StampAdvance(p) \/ StampComplete(p) \/ StampTail(p)
    BY <2>3 DEF StampAdvance, StampComplete, StampTail, Stamp, SessionTypeOK
  <2>4. CASE CompleteBatch(p)
    <3>1. op[p].field \in Fields \cup {None}  BY DEF SessionTypeOK
    <3> QED  BY <2>4, <3>1 DEF CompleteBatch, SessionTypeOK, Db
  <2>5. CASE CompleteWrite(p)
    BY <1>1, <1>2, <1>11, <2>5 DEF CompleteWrite, SessionTypeOK
  <2>6. CASE CompleteDecide(p) \/ RepairRead(p) \/ TailRead(p)
    BY <2>6 DEF CompleteDecide, RepairRead, TailRead, docVars, SessionTypeOK
  <2>7. CASE TailWrite(p)
    <3>1. op[p].kind # "metric" => op[p].field \in Fields  BY <2>7 DEF TailWrite, Open, Apt
    <3> QED  BY <1>1, <1>2, <1>11, <2>7, <3>1 DEF TailWrite, SessionTypeOK
  <2> QED  BY <1>4, <2>1, <2>2, <2>3, <2>4, <2>5, <2>6, <2>7 DEF OpenStep
<1>5. ASSUME NEW p \in Procs, Import(p) PROVE Typed
  <2>1. [row |-> md.field, decs |-> db.decs \o md.decs] \in Db /\ [db EXCEPT !.row = None] \in Db
    <3>1. db.decs \in Seq(Decisions) /\ md.decs \in Seq(Decisions) /\ md.field \in Fields
      BY DEF SessionTypeOK, Doc, Db
    <3>2. db.decs \o md.decs \in Seq(Decisions)
      BY <3>1
    <3>3. [db EXCEPT !.row = None] \in Db
      BY DEF SessionTypeOK, Db
    <3> QED  BY <3>1, <3>2, <3>3 DEF Db
  <2> QED  BY <1>5, <2>1 DEF Import, SessionTypeOK
<1>6. ASSUME NEW p \in Procs, StampImport(p) PROVE Typed
  BY <1>6 DEF StampImport, Stamp, SessionTypeOK
<1>7. ASSUME NEW p \in Procs, BeginLocked(p) \/ BeginOpen(p) \/ LockLoop(p) \/ Die(p) PROVE Typed
  BY <1>7 DEF BeginLocked, BeginOpen, LockLoop, Die, docVars, SessionTypeOK
<1>8. CASE UserEdits
  <2>1. ASSUME NEW i \in 1..Len(md.decs) PROVE [md EXCEPT !.decs = RemoveAt(@, i)] \in Doc
    <3>1. md.decs \in Seq(Decisions)  BY DEF SessionTypeOK, Doc
    <3>2. RemoveAt(md.decs, i) \in Seq(Decisions)  BY <3>1 DEF RemoveAt
    <3> QED  BY <3>2 DEF SessionTypeOK, Doc
  <2> QED  BY <1>1, <1>2, <1>8, <2>1 DEF UserEdits, SessionTypeOK
<1>9. CASE InvalidateState \/ InvalidateDecisions \/ ClearForCwd
  <2>1. [db EXCEPT !.row = None] \in Db
    BY DEF SessionTypeOK, Db
  <2>2. <<>> \in Seq(Decisions)
    OBVIOUS
  <2>3. [db EXCEPT !.decs = <<>>] \in Db
    BY <2>2 DEF SessionTypeOK, Db
  <2> QED  BY <1>9, <2>1, <2>3
           DEF InvalidateState, InvalidateDecisions, ClearForCwd, SessionTypeOK
<1>10. CASE GrowOld \/ UNCHANGED sessionVars
  BY <1>10 DEF GrowOld, sessionVars, docVars, SessionTypeOK
<1> QED  BY <1>3, <1>4, <1>5, <1>6, <1>7, <1>8, <1>9, <1>10 DEF SessionNext

\* What the commands have read and computed.
LEMMA SessionTexts ==
  ASSUME SessionInv, [SessionNext]_sessionVars
  PROVE  content' \in [Procs -> Doc] /\ model' \in [Procs -> Doc]
<1> USE DEF SessionInv
<1>1. InitDoc \in Doc /\ md \in Doc /\ content \in [Procs -> Doc] /\ model \in [Procs -> Doc]
  BY StateConstants DEF InitDoc, Doc, SessionTypeOK
<1>2. ASSUME NEW p \in Procs, LoadState(p)
      PROVE  content' \in [Procs -> Doc] /\ model' \in [Procs -> Doc]
  <2>1. Canonical \in Doc
    <3>1. db.decs \in Seq(Decisions) /\ (db.row \notin {None, NullRow} => db.row \in Fields)
      BY DEF SessionTypeOK, Db
    <3>2. LastDecs(db.decs) \in Seq(Decisions)
      <4>1. Len(db.decs) \in Nat /\ Limit \in Nat
        BY <3>1, StateConstants
      <4> DEFINE first == 1 + (IF Len(db.decs) > Limit THEN Len(db.decs) - Limit ELSE 0)
      <4>2. first \in Nat /\ first >= 1
        BY <4>1
      <4>3. SubSeq(db.decs, first, Len(db.decs)) \in Seq(Decisions)
        <5> HIDE DEF first
        <5> QED  BY <3>1, <4>1, <4>2
      <4> QED  BY <4>3 DEF LastDecs
    <3> QED  BY <1>1, <3>1, <3>2 DEF Canonical, Doc
  <2>2. Applied(Canonical, op[p]) \in Doc
    <3>1. op[p].kind = "patch" => op[p].field \in Fields
      BY DEF Apt
    <3>2. op[p].kind # "patch" => op[p].dec \in Decisions
      BY <1>2 DEF LoadState, Locked, Apt, LockedOnes
    <3> HIDE DEF SessionInv
    <3>3. ASSUME NEW c \in Doc PROVE Applied(c, op[p]) \in Doc
      <4>1. CASE op[p].kind = "patch"
        BY <3>1, <4>1 DEF Applied, Doc
      <4>2. CASE op[p].kind # "patch"
        <5>1. Append(c.decs, op[p].dec) \in Seq(Decisions)
          BY <3>2, <4>2 DEF Doc
        <5> QED  BY <4>2, <5>1 DEF Applied, Doc
      <4> QED  BY <4>1, <4>2
    <3> QED  BY <2>1, <3>3
  <2> QED  BY <1>1, <1>2, <2>2 DEF LoadState
<1>3. \/ \E p \in Procs : LoadState(p)
      \/ /\ UNCHANGED content \/ \E p \in Procs, d \in {InitDoc, md} : content' = [content EXCEPT ![p] = d]
         /\ UNCHANGED model \/ \E p \in Procs : model' = [model EXCEPT ![p] = InitDoc]
  <2> DEFINE Read == \/ UNCHANGED content
                     \/ \E p \in Procs, d \in {InitDoc, md} : content' = [content EXCEPT ![p] = d]
  <2>1. ASSUME NEW p \in Procs, LockedStep(p), ~LoadState(p), ~FinishState(p)
        PROVE  UNCHANGED <<content, model>>
    BY <2>1 DEF LockedStep, WriteState, PersistState, StampState, RestoreState, RestampState
  <2>2. ASSUME NEW p \in Procs, FinishState(p)
        PROVE  content' = [content EXCEPT ![p] = InitDoc] /\ model' = [model EXCEPT ![p] = InitDoc]
    BY <2>2 DEF FinishState, ForgetText, ForgetModel
  <2>3. ASSUME NEW p \in Procs, OpenStep(p) PROVE Read /\ UNCHANGED model
    BY <2>3 DEF OpenStep, AdvanceWrite, StoreRow, StampAdvance, CompleteBatch, CompleteWrite,
                StampComplete, CompleteDecide, RepairRead, TailRead, TailWrite, StampTail, ForgetText
  <2>4. ASSUME NEW p \in Procs, BeginOpen(p) PROVE Read /\ UNCHANGED model
    BY <2>4 DEF BeginOpen
  <2>5. ASSUME NEW p \in Procs, BeginLocked(p) \/ LockLoop(p) \/ Import(p) \/ StampImport(p) \/ Die(p)
        PROVE  UNCHANGED <<content, model>>
    BY <2>5 DEF BeginLocked, LockLoop, Import, StampImport, Die
  <2>6. CASE GrowOld \/ UserEdits \/ InvalidateState \/ InvalidateDecisions \/ ClearForCwd
               \/ UNCHANGED sessionVars
    BY <2>6 DEF GrowOld, UserEdits, InvalidateState, InvalidateDecisions, ClearForCwd,
                procVars, sessionVars
  <2> QED  BY <2>1, <2>2, <2>3, <2>4, <2>5, <2>6 DEF SessionNext
<1> QED  BY <1>1, <1>2, <1>3

\* What a step may add to the failures: none, one that is noticed, or a lapse.
LEMMA StepFails == ASSUME [SessionNext]_sessionVars PROVE NoFault \/ Fault \/ Lapse
<1>1. Stamp => NoFault \/ Lapse
  BY DEF Stamp
<1>2. WriteThrows => Fault \/ Lapse
  BY DEF WriteThrows
<1>3. UNCHANGED bounds => NoFault
  BY DEF bounds, NoFault
<1>4. UNCHANGED failures => NoFault
  BY DEF NoFault
<1>5. ASSUME NEW p \in Procs, LockedStep(p) PROVE NoFault \/ Fault \/ Lapse
  BY <1>1, <1>3, <1>5 DEF LockedStep, LoadState, WriteState, PersistState, StampState, RestoreState,
                          RestampState, FinishState
<1>6. ASSUME NEW p \in Procs, OpenStep(p) PROVE NoFault \/ Fault \/ Lapse
  BY <1>1, <1>2, <1>3, <1>6
     DEF OpenStep, AdvanceWrite, StoreRow, StampAdvance, CompleteBatch, CompleteWrite, StampComplete,
         CompleteDecide, RepairRead, TailRead, TailWrite, StampTail
<1>7. ASSUME NEW p \in Procs, BeginLocked(p) \/ BeginOpen(p) \/ LockLoop(p) \/ Import(p)
               \/ StampImport(p) \/ Die(p)
      PROVE  NoFault \/ Fault \/ Lapse
  BY <1>1, <1>3, <1>4, <1>7 DEF BeginLocked, BeginOpen, LockLoop, Import, StampImport, Die
<1>8. CASE GrowOld \/ UserEdits \/ InvalidateState \/ InvalidateDecisions \/ ClearForCwd
  BY <1>3, <1>4, <1>8 DEF GrowOld, UserEdits, InvalidateState, InvalidateDecisions, ClearForCwd
<1>9. CASE UNCHANGED sessionVars
  BY <1>3, <1>9 DEF sessionVars
<1> QED  BY <1>5, <1>6, <1>7, <1>8, <1>9 DEF SessionNext

\* The history, the plugin and the counters.
LEMMA SessionCounts ==
  ASSUME SessionInv, [SessionNext]_sessionVars
  PROVE  /\ expected' \subseteq Decisions
         /\ plugin' \in {"rest", "decisions", "clear"} /\ wipes' \in 0..MaxWipes
         /\ ops' \in 0..MaxOps /\ edits' \in 0..MaxEdits /\ faults' \in 0..MaxFaults
         /\ lapses' \in 0..faults'
<1> USE DEF SessionInv
<1>1. expected' \subseteq Decisions
  <2>1. \A p \in Procs : op[p].dec \in Decisions \cup {None}
    BY DEF SessionTypeOK
  <2>2. ASSUME NEW p \in Procs, FinishState(p) PROVE expected' \subseteq Decisions
    BY <2>1, <2>2 DEF FinishState, SessionTypeOK
  <2>3. CASE UserEdits
    BY <2>3 DEF UserEdits, SessionTypeOK
  <2>4. ASSUME ~UserEdits, \A p \in Procs : ~FinishState(p) PROVE UNCHANGED expected
    BY <2>4 DEF SessionNext, GrowOld, InvalidateState, InvalidateDecisions, ClearForCwd, sessionVars,
       BeginLocked, BeginOpen, LockLoop, Import, StampImport, Die, LockedStep, OpenStep, LoadState,
       WriteState, PersistState, StampState, RestoreState, RestampState, AdvanceWrite, StoreRow,
       StampAdvance, CompleteBatch, CompleteWrite, StampComplete, CompleteDecide, RepairRead,
       TailRead, TailWrite, StampTail
  <2> QED  BY <2>2, <2>3, <2>4 DEF SessionTypeOK
<1>2. plugin' \in {"rest", "decisions", "clear"} /\ wipes' \in 0..MaxWipes
  <2>1. CASE InvalidateState \/ InvalidateDecisions \/ ClearForCwd
    BY <2>1, StateConstants DEF InvalidateState, InvalidateDecisions, ClearForCwd, SessionTypeOK
  <2>2. ASSUME ~(InvalidateState \/ InvalidateDecisions \/ ClearForCwd) PROVE UNCHANGED pluginVars
    BY <2>2 DEF SessionNext, GrowOld, UserEdits, sessionVars,
       BeginLocked, BeginOpen, LockLoop, Import, StampImport, Die, LockedStep, OpenStep, LoadState,
       WriteState, PersistState, StampState, RestoreState, RestampState, FinishState, AdvanceWrite,
       StoreRow, StampAdvance, CompleteBatch, CompleteWrite, StampComplete, CompleteDecide, RepairRead,
       TailRead, TailWrite, StampTail
  <2> QED  BY <2>1, <2>2 DEF SessionTypeOK, pluginVars
<1>3. /\ UNCHANGED ops \/ (ops < MaxOps /\ ops' = ops + 1)
      /\ UNCHANGED edits \/ (edits < MaxEdits /\ edits' = edits + 1)
  BY DEF SessionNext, GrowOld, UserEdits, InvalidateState, InvalidateDecisions, ClearForCwd, sessionVars,
     bounds, Begin, BeginLocked, BeginOpen, LockLoop, Import, StampImport, Die, LockedStep, OpenStep,
     LoadState, WriteState, PersistState, StampState, RestoreState, RestampState, FinishState,
     AdvanceWrite, StoreRow, StampAdvance, CompleteBatch, CompleteWrite, StampComplete,
     CompleteDecide, RepairRead, TailRead, TailWrite, StampTail
<1>4. faults' \in 0..MaxFaults /\ lapses' \in 0..faults'
  BY StepFails, StateConstants DEF Fault, Lapse, Fails, NoFault, failures, SessionTypeOK
<1> QED  BY <1>1, <1>2, <1>3, <1>4, StateConstants DEF SessionTypeOK

\* Where the commands stand: each step moves one process, if any, and leaves it at a
\* step its operation is apt for.
Moves(p) ==
  /\ step'[p] \in Steps /\ op'[p] \in CommandType /\ Apt(pc'[p], op'[p], step'[p])
  /\ step' = [step EXCEPT ![p] = step'[p]] /\ op' = [op EXCEPT ![p] = op'[p]]
  /\ \A q \in Procs \ {p} : pc'[q] = pc[q]

LEMMA SessionBegins ==
  ASSUME SessionInv, NEW p \in Procs, BeginLocked(p) \/ BeginOpen(p)
  PROVE  Moves(p)
<1> USE DEF SessionInv
<1>1. step \in [Procs -> Steps] /\ op \in [Procs -> CommandType] /\ pc \in [Procs -> PcValues]
  BY DEF SessionTypeOK, LockTypeOK, Steps, CommandType
<1>2. PICK o \in Commands : op' = [op EXCEPT ![p] = o] /\ op'[p] = o
  BY <1>1 DEF BeginLocked, BeginOpen, Begin
<1>3. /\ o \in CommandType
      /\ o.kind \in {"patch", "advance", "progress"} => o.field \in Fields
      /\ o.kind \in {"decision", "completeDecide"} => o.dec \in Decisions
      /\ o.kind = "complete" => o.dec = None
      /\ o.kind \in LockedKinds \cup OpenKinds
  BY StateConstants DEF Commands, CommandType, Unused, LockedKinds, OpenKinds
<1>4. CASE BeginLocked(p)
  <2>1. o.kind \in {"patch", "decision"}
    BY <1>1, <1>2, <1>3, <1>4 DEF BeginLocked, Begin, LockedKinds, Commands
  <2>2. step' = [step EXCEPT ![p] = "import"] /\ pc' = [pc EXCEPT ![p] = "mkdir"]
    BY <1>4 DEF BeginLocked, Then, Call, Goto
  <2> QED  BY <1>1, <1>2, <1>3, <2>1, <2>2 DEF Moves, Apt, LockedOnes, Steps, PcValues
<1>5. CASE BeginOpen(p)
  <2>1. pc[p] = "idle" /\ UNCHANGED pc /\ o.kind \in OpenKinds
    BY <1>1, <1>2, <1>3, <1>5 DEF BeginOpen, Begin, lockVars, OpenKinds
  <2>2. step' = [step EXCEPT ![p] = CASE o.kind = "advance" -> "a_write"
                                      [] o.kind \in {"progress", "metric"} -> "import"
                                      [] OTHER -> "c_batch"]
    BY <1>2, <1>5 DEF BeginOpen, Then
  <2> QED  BY <1>1, <1>2, <1>3, <2>1, <2>2 DEF Moves, Apt, LockedOnes, Steps, OpenKinds
<1> QED  BY <1>4, <1>5

LEMMA SessionLocks ==
  ASSUME SessionInv, NEW p \in Procs, LockLoop(p) \/ CompleteDecide(p) \/ FinishState(p) \/ Die(p)
  PROVE  Moves(p)
<1> USE DEF SessionInv
<1>1. step \in [Procs -> Steps] /\ op \in [Procs -> CommandType] /\ pc \in [Procs -> PcValues]
  BY DEF SessionTypeOK, LockTypeOK, Steps, CommandType
<1>2. Apt(pc[p], op[p], step[p]) /\ UNCHANGED op
  BY DEF LockLoop, CompleteDecide, FinishState, Die
<1>3. CASE LockLoop(p)
  <2>1. CASE GiveUp(p)
    BY <1>1, <1>2, <1>3, <2>1 DEF LockLoop, GiveUp, Goto, Then, AfterMutation, Moves, Apt, Steps, LockedOnes
  <2>2. CASE ~GiveUp(p)
    <3>1. pc[p] \notin {"idle", "held"} /\ UNCHANGED step
      BY <1>3, <2>2 DEF LockLoop, Acquiring, Acquire, Exists, Inspect, RemoveStale, Wait
    <3>2. PICK l \in PcValues \ {"idle"} : pc' = [pc EXCEPT ![p] = l]
      BY <1>3, <2>2 DEF LockLoop, Acquiring, Acquire, Exists, Inspect, RemoveStale, Wait, Goto, PcValues
    <3> QED  BY <1>1, <1>2, <3>1, <3>2 DEF Moves, Apt
  <2> QED  BY <2>1, <2>2
<1>4. CASE CompleteDecide(p)
  BY <1>1, <1>2, <1>4 DEF CompleteDecide, Call, Goto, Then, Moves, Apt, Steps, LockedOnes
<1>5. CASE FinishState(p)
  BY <1>1, <1>2, <1>5 DEF FinishState, Release, Goto, Then, AfterMutation, Moves, Apt, Steps, LockedOnes
<1>6. CASE Die(p)
  BY <1>1, <1>2, <1>6 DEF Die, Crash, Goto, Then, Moves, Apt, Steps, LockedOnes
<1> QED  BY <1>3, <1>4, <1>5, <1>6

LEMMA SessionWorks ==
  ASSUME SessionInv, NEW p \in Procs,
         \/ Import(p) \/ StampImport(p)
         \/ LockedStep(p) /\ ~FinishState(p)
         \/ OpenStep(p) /\ ~CompleteDecide(p)
  PROVE  Moves(p)
<1> USE DEF SessionInv
<1>1. step \in [Procs -> Steps] /\ op \in [Procs -> CommandType] /\ pc \in [Procs -> PcValues]
  BY DEF SessionTypeOK, LockTypeOK, Steps, CommandType
<1>2. Apt(pc[p], op[p], step[p])
  OBVIOUS
<1>3. UNCHANGED pc
  BY DEF lockVars, Import, StampImport, LockedStep, LoadState, WriteState, PersistState, StampState,
         RestoreState, RestampState, OpenStep, AdvanceWrite, StoreRow, StampAdvance, CompleteBatch,
         CompleteWrite, StampComplete, RepairRead, TailRead, TailWrite, StampTail
<1>4. CASE Import(p)
  BY <1>1, <1>2, <1>3, <1>4 DEF Import, Importing, Then, AfterImport, Moves, Apt, Steps, LockedOnes
<1>5. CASE StampImport(p)
  BY <1>1, <1>2, <1>3, <1>5 DEF StampImport, Then, AfterImport, Moves, Apt, Steps, LockedOnes
<1>6. ASSUME NEW s \in {"write", "persist", "stamp", "restore", "restamp", "done", "failed", "none"},
             step' = [step EXCEPT ![p] = s], UNCHANGED op, pc[p] \in {"idle", "held"}
      PROVE  Moves(p)
  BY <1>1, <1>2, <1>3, <1>6 DEF Moves, Apt, Steps
<1>7. CASE LockedStep(p) /\ ~FinishState(p)
  BY <1>6, <1>7 DEF LockedStep, LoadState, WriteState, PersistState, StampState, RestoreState,
                    RestampState, Locked, Then
<1>8. CASE TailsLeft(p) /\ pc[p] = "idle"
  <2>1. op' = [op EXCEPT ![p].kind = "metric"] /\ step' = [step EXCEPT ![p] = "import"]
    BY <1>8 DEF TailsLeft, Then
  <2>2. op'[p] \in CommandType /\ op'[p].kind = "metric" /\ op' = [op EXCEPT ![p] = op'[p]]
    BY <1>1, <2>1 DEF CommandType
  <2> QED  BY <1>1, <1>3, <1>8, <2>1, <2>2 DEF Moves, Apt, Steps
<1>9. CASE OpenStep(p) /\ ~CompleteDecide(p)
  <2>1. CASE AdvanceWrite(p)
    BY <1>1, <1>2, <1>3, <2>1 DEF AdvanceWrite, Open, Then, Moves, Apt, Steps, LockedOnes
  <2>2. CASE StoreRow(p)
    BY <1>1, <1>2, <1>3, <2>2 DEF StoreRow, Open, Then, Moves, Apt, Steps, LockedOnes
  <2>3. CASE StampAdvance(p)
    BY <1>6, <2>3 DEF StampAdvance, Open, Then
  <2>4. CASE CompleteBatch(p)
    BY <1>1, <1>2, <1>3, <2>4 DEF CompleteBatch, Open, Then, Moves, Apt, Steps, LockedOnes
  <2>5. CASE CompleteWrite(p)
    BY <1>1, <1>2, <1>3, <2>5 DEF CompleteWrite, Open, Then, Moves, Apt, Steps, LockedOnes
  <2>6. CASE StampComplete(p)
    BY <1>1, <1>2, <1>3, <2>6 DEF StampComplete, Open, Then, Moves, Apt, Steps, LockedOnes
  <2>7. CASE RepairRead(p)
    <3>1. pc[p] = "idle" /\ op[p].field \in Fields \cup {None}
      BY <1>1, <2>7 DEF RepairRead, Open, CommandType
    <3>2. TailsLeft(p) \/ (op[p].field \in Fields /\ UNCHANGED op /\ step' = [step EXCEPT ![p] = "t_write"])
      BY <2>7, <3>1 DEF RepairRead, Then
    <3> QED  BY <1>1, <1>2, <1>3, <1>8, <3>1, <3>2 DEF Moves, Apt, Steps
  <2>8. CASE TailRead(p)
    BY <1>1, <1>2, <1>3, <2>8 DEF TailRead, Open, Then, Moves, Apt, Steps, LockedOnes
  <2>9. CASE TailWrite(p)
    <3>1. CASE step' = [step EXCEPT ![p] = "t_stamp"] /\ UNCHANGED op
      BY <1>1, <1>2, <1>3, <2>9, <3>1 DEF TailWrite, Open, Moves, Apt, Steps, LockedOnes
    <3>2. CASE AfterTail(p)
      BY <1>6, <1>8, <2>9, <3>2 DEF TailWrite, Open, AfterTail, Then
    <3> QED  BY <2>9, <3>1, <3>2 DEF TailWrite, Then
  <2>10. CASE StampTail(p)
    BY <1>6, <1>8, <2>10 DEF StampTail, Open, AfterTail, Then
  <2> QED  BY <1>9, <2>1, <2>2, <2>3, <2>4, <2>5, <2>6, <2>7, <2>8, <2>9, <2>10 DEF OpenStep
<1> QED  BY <1>4, <1>5, <1>7, <1>9

LEMMA SessionStands ==
  ASSUME SessionInv, [SessionNext]_sessionVars
  PROVE  /\ step' \in [Procs -> Steps] /\ op' \in [Procs -> CommandType]
         /\ \A p \in Procs : Apt(pc'[p], op'[p], step'[p])
<1> USE DEF SessionInv
<1>1. step \in [Procs -> Steps] /\ op \in [Procs -> CommandType]
  BY DEF SessionTypeOK, Steps, CommandType
<1>2. CASE \E p \in Procs : Moves(p)
  BY <1>1, <1>2 DEF Moves
<1>3. CASE GrowOld \/ UserEdits \/ InvalidateState \/ InvalidateDecisions \/ ClearForCwd
             \/ UNCHANGED sessionVars
  BY <1>1, <1>3 DEF GrowOld, Age, UserEdits, InvalidateState, InvalidateDecisions, ClearForCwd,
                    lockVars, procVars, sessionVars
<1> QED  BY <1>2, <1>3, SessionBegins, SessionLocks, SessionWorks DEF SessionNext, LockedStep, OpenStep

LEMMA SessionKeeps ==
  ASSUME SessionInv, HoldsOwn, [SessionNext]_sessionVars
  PROVE  SessionInv' /\ HoldsOwn'
<1>1. LockInv'
  BY SessionKeepsLock DEF SessionInv, SessionTypeOK, LockInv
<1>2. SessionTypeOK'
  BY <1>1, SessionDocs, SessionTexts, SessionCounts, SessionStands
     DEF LockInv, SessionTypeOK, Steps, CommandType
<1> QED  BY <1>1, <1>2, SessionStands DEF SessionInv, LockInv

LEMMA SessionInvariance == SessionSpec => [](SessionInv /\ HoldsOwn)
<1>1. SessionInv /\ HoldsOwn /\ [SessionNext]_sessionVars => (SessionInv /\ HoldsOwn)'
  BY SessionKeeps
<1> QED  BY <1>1, SessionInitially, PTL DEF SessionSpec

SumsGrow(e, f, w, c, e1, f1, w1, c1) ==
  /\ e + f + w + c = 0 <=> e = 0 /\ f = 0 /\ w = 0 /\ c = 0
  /\ e1 + f1 + w1 + c1 <= 1 =>
       /\ e + f + w + c \in {0, 1} /\ e1 + f1 + w1 + c1 \in {0, 1}
       /\ e1 + f1 + w1 + c1 = 0 => e + f + w + c = 0
       /\ e1 + f1 + w1 + c1 = e + f + w + c \/ e + f + w + c = 1 =>
            e1 = e /\ f1 = f /\ w1 = w /\ c1 = c
       /\ w # 0 => e = 0 /\ f = 0 /\ c = 0
       /\ f1 # f => w1 = 0

LEMMA Sums ==
  ASSUME NEW e \in Nat, NEW f \in Nat, NEW w \in Nat, NEW c \in Nat, NEW e1, NEW f1, NEW w1, NEW c1,
         e1 \in {e, e + 1}, f1 \in {f, f + 1}, w1 \in {w, w + 1}, c1 \in {c, c + 1}
  PROVE  SumsGrow(e, f, w, c, e1, f1, w1, c1)
BY DEF SumsGrow

\* The counters only count up.
LEMMA CountsGrow ==
  ASSUME SessionInv, [SessionNext]_sessionVars
  PROVE  /\ edits \in Nat /\ faults \in Nat /\ crashes \in Nat /\ wipes \in Nat
         /\ edits' \in {edits, edits + 1} /\ faults' \in {faults, faults + 1}
         /\ crashes' \in {crashes, crashes + 1} /\ wipes' \in {wipes, wipes + 1}
         /\ lapses \in Nat /\ lapses <= faults
         /\ \/ UNCHANGED failures
            \/ faults' = faults + 1 /\ lapses' \in {lapses, lapses + 1}
         /\ troubles = 0 <=> edits = 0 /\ faults = 0 /\ wipes = 0 /\ crashes = 0
         /\ troubles' <= 1 =>
              /\ troubles \in {0, 1} /\ troubles' \in {0, 1}
              /\ troubles' = 0 => troubles = 0
              /\ troubles' = troubles \/ troubles = 1 => UNCHANGED <<edits, faults, wipes, crashes>>
              /\ wipes # 0 => edits = 0 /\ faults = 0 /\ crashes = 0
              /\ faults' # faults => wipes' = 0
<1>1. edits \in Nat /\ faults \in Nat /\ crashes \in Nat /\ wipes \in Nat
  BY StateConstants, BoundsNat DEF SessionInv, SessionTypeOK, LockTypeOK
<1>6. /\ lapses \in Nat /\ lapses <= faults
      /\ \/ UNCHANGED failures
         \/ faults' = faults + 1 /\ lapses' \in {lapses, lapses + 1}
  BY StepFails, StateConstants DEF SessionInv, SessionTypeOK, NoFault, Fault, Lapse, Fails
<1>2. edits' \in {edits, edits + 1} /\ faults' \in {faults, faults + 1}
  <2>1. edits' \in {edits, edits + 1}
    BY DEF SessionNext, GrowOld, UserEdits, InvalidateState, InvalidateDecisions, ClearForCwd, sessionVars,
       bounds, BeginLocked, BeginOpen, LockLoop, Import, StampImport, Die, LockedStep, OpenStep,
       LoadState, WriteState, PersistState, StampState, RestoreState, RestampState, FinishState,
       AdvanceWrite, StoreRow, StampAdvance, CompleteBatch, CompleteWrite, StampComplete,
       CompleteDecide, RepairRead, TailRead, TailWrite, StampTail
  <2> QED  BY <1>6, <2>1 DEF failures
<1>3. wipes' \in {wipes, wipes + 1}
  BY DEF SessionNext, GrowOld, UserEdits, InvalidateState, InvalidateDecisions, ClearForCwd, sessionVars,
     pluginVars, BeginLocked, BeginOpen, LockLoop, Import, StampImport, Die, LockedStep, OpenStep,
     LoadState, WriteState, PersistState, StampState, RestoreState, RestampState, FinishState,
     AdvanceWrite, StoreRow, StampAdvance, CompleteBatch, CompleteWrite, StampComplete,
     CompleteDecide, RepairRead, TailRead, TailWrite, StampTail
<1>4. crashes' \in {crashes, crashes + 1}
  BY SessionLockStep DEF LockNext, LockStep, Call, Acquiring, Acquire, Exists, Inspect, RemoveStale,
     GiveUp, Wait, Release, Crash, Age, lockVars
<1>5. /\ troubles = 0 <=> edits = 0 /\ faults = 0 /\ wipes = 0 /\ crashes = 0
      /\ troubles' <= 1 =>
              /\ troubles \in {0, 1} /\ troubles' \in {0, 1}
              /\ troubles' = 0 => troubles = 0
              /\ troubles' = troubles \/ troubles = 1 => UNCHANGED <<edits, faults, wipes, crashes>>
              /\ wipes # 0 => edits = 0 /\ faults = 0 /\ crashes = 0
              /\ faults' # faults => wipes' = 0
  <2>1. SumsGrow(edits, faults, wipes, crashes, edits', faults', wipes', crashes')
    BY <1>1, <1>2, <1>3, <1>4, Sums
  <2> QED  BY <2>1, Zenon DEF SumsGrow, troubles
<1> QED  BY <1>1, <1>2, <1>3, <1>4, <1>5, <1>6

-----------------------------------------------------------------------------
\* The session state keeps its type, whatever commands run.
THEOREM SessionTyping == SessionSpec => []SessionTypeOK
BY SessionInvariance, PTL DEF SessionInv

\* Commands that lock part of their work, and processes that die before or after it,
\* take nothing from what the project lock promises (src/lib/project-lock.js).
THEOREM SessionExcludes == SessionSpec => []ExclusiveUntilRobbed
BY SessionInvariance, OneInside, PTL

-----------------------------------------------------------------------------
\* A process that has written STATE.md, or will import it, and is going to record its
\* mtime.
Owes(p) ==
  \/ step[p] \in {"persist", "stamp", "restore", "restamp", "imported", "c_stamp", "t_stamp"}
  \/ step[p] = "import" /\ pc[p] \in {"idle", "held"}

Recorded ==
  edits = 0 /\ crashes = 0 /\ lapses = 0 /\ faults <= 1 =>
    /\ mtime = "stale" => \E p \in Procs : Owes(p)
    /\ \A p \in Procs : step[p] = "restore" => faults = 1

\* What one process owes, nobody else settles.
LEMMA OthersOwe ==
  ASSUME SessionInv, NEW p \in Procs, Moves(p)
  PROVE  \A q \in Procs \ {p} : step'[q] = step[q] /\ (Owes(q) => Owes(q)')
BY DEF Moves, Owes, SessionInv, SessionTypeOK

LEMMA RecordedStep ==
  ASSUME SessionInv, Recorded, [SessionNext]_sessionVars
  PROVE  Recorded'
<1> SUFFICES ASSUME edits' = 0, crashes' = 0, lapses' = 0, faults' <= 1
             PROVE  /\ mtime' = "stale" => \E p \in Procs : Owes(p)'
                    /\ \A p \in Procs : step'[p] = "restore" => faults' = 1
  BY DEF Recorded
<1> DEFINE Goal == /\ mtime' = "stale" => \E p \in Procs : Owes(p)'
                   /\ \A p \in Procs : step'[p] = "restore" => faults' = 1
<1> USE DEF SessionInv
<1>1. edits \in Nat /\ crashes \in Nat /\ faults \in Nat /\ lapses \in Nat
  BY CountsGrow
<1>2. /\ edits <= edits' /\ crashes <= crashes' /\ lapses <= lapses'
      /\ UNCHANGED faults \/ faults' = faults + 1
  BY <1>1, CountsGrow DEF failures
<1>3. edits = 0 /\ crashes = 0 /\ lapses = 0 /\ ~Lapse /\ faults <= 1 /\ faults' \in Nat
  BY <1>1, <1>2 DEF Lapse
<1>4. /\ mtime = "stale" => \E p \in Procs : Owes(p)
      /\ \A p \in Procs : step[p] = "restore" => faults = 1 /\ UNCHANGED faults
  BY <1>1, <1>2, <1>3 DEF Recorded
<1>5. \A p \in Procs : step[p] \in Steps
  BY DEF SessionTypeOK, Steps
\* A step of a process: it must not forget what it owes, nor what it writes.
<1>6. ASSUME NEW p \in Procs, Moves(p),
             mtime' = "stale" => Owes(p)' \/ (mtime = "stale" /\ ~Owes(p)),
             step'[p] = "restore" => faults' = 1
      PROVE  Goal
  BY <1>3, <1>4, <1>6, OthersOwe
<1>7. ASSUME NEW p \in Procs, WriteMd(md'), Owes(p)', Moves(p), step'[p] # "restore" PROVE Goal
  BY <1>6, <1>7
<1>8. ASSUME NEW p \in Procs, Stamp, Moves(p), step'[p] # "restore" PROVE Goal
  BY <1>3, <1>6, <1>8 DEF Stamp
<1>9. ASSUME NEW p \in Procs, LockedStep(p) PROVE Goal
  <2>1. Moves(p)
    BY <1>9, SessionLocks, SessionWorks
  <2>2. CASE LoadState(p)
    BY <1>6, <2>1, <2>2 DEF LoadState, Locked, Then, Owes, docVars, SessionTypeOK
  <2>3. CASE WriteState(p)
    BY <1>3, <1>6, <2>1, <2>3 DEF WriteState, Fault, Fails, Locked, Then, Owes, SessionTypeOK
  <2>4. CASE PersistState(p)
    BY <1>3, <1>6, <2>1, <2>4 DEF PersistState, Fault, Fails, Then, Owes, SessionTypeOK
  <2>5. CASE StampState(p) \/ RestampState(p)
    BY <1>8, <2>1, <2>5 DEF StampState, RestampState, Then, SessionTypeOK
  <2>6. CASE RestoreState(p)
    <3>1. UNCHANGED faults
      BY <1>4, <2>6 DEF RestoreState, Locked
    <3> QED  BY <1>1, <1>6, <2>1, <2>6, <3>1 DEF RestoreState, Fault, Fails, Then, Owes, SessionTypeOK
  <2>7. CASE FinishState(p)
    BY <1>6, <2>1, <2>7 DEF FinishState, AfterMutation, Then, Owes, docVars, SessionTypeOK
  <2> QED  BY <1>9, <2>2, <2>3, <2>4, <2>5, <2>6, <2>7 DEF LockedStep
<1>10. ASSUME NEW p \in Procs, OpenStep(p) PROVE Goal
  <2>1. Moves(p)
    BY <1>10, SessionLocks, SessionWorks
  <2>2. CASE AdvanceWrite(p) \/ CompleteWrite(p) \/ TailWrite(p)
    <3>1. pc'[p] = "idle" /\ step'[p] # "restore" /\ ~Owes(p)
      BY <2>2 DEF AdvanceWrite, CompleteWrite, TailWrite, AfterTail, TailsLeft, Open, Then, Owes, lockVars,
                  SessionTypeOK
    <3>2. step'[p] \in {"import", "c_stamp", "t_stamp"} \/ UNCHANGED mtime
      BY <1>3, <2>2 DEF AdvanceWrite, CompleteWrite, TailWrite, WriteThrows, Then, SessionTypeOK
    <3> QED  BY <1>6, <2>1, <3>1, <3>2 DEF Owes
  <2>3. CASE StampAdvance(p) \/ StampComplete(p) \/ StampTail(p)
    BY <1>8, <2>1, <2>3 DEF StampAdvance, StampComplete, StampTail, AfterTail, TailsLeft, Then, SessionTypeOK
  <2>4. CASE StoreRow(p) \/ CompleteBatch(p) \/ CompleteDecide(p) \/ RepairRead(p) \/ TailRead(p)
    <3>1. UNCHANGED mtime /\ ~Owes(p)
      BY <2>4 DEF StoreRow, CompleteBatch, CompleteDecide, RepairRead, TailRead, Open, Owes, docVars
    <3>2. step'[p] # "restore"
      BY <2>4 DEF StoreRow, CompleteBatch, CompleteDecide, RepairRead, TailRead, TailsLeft, Then, SessionTypeOK
    <3> QED  BY <1>6, <2>1, <3>1, <3>2
  <2> QED  BY <1>10, <2>2, <2>3, <2>4 DEF OpenStep
<1>11. ASSUME NEW p \in Procs, Import(p) PROVE Goal
  <2>1. Moves(p) /\ UNCHANGED mtime
    BY <1>11, SessionWorks DEF Import
  <2>2. step'[p] = (IF NeedsImport THEN "imported" ELSE AfterImport(p))
    BY <1>11 DEF Import, Then, SessionTypeOK
  <2>3. step'[p] # "restore" /\ (mtime = "stale" => step'[p] = "imported")
    BY <2>2 DEF NeedsImport, AfterImport
  <2> QED  BY <1>6, <2>1, <2>3 DEF Owes
<1>12. ASSUME NEW p \in Procs, StampImport(p) PROVE Goal
  <2>1. Moves(p) /\ Stamp
    BY <1>12, SessionWorks DEF StampImport
  <2>2. step'[p] # "restore"
    BY <1>12 DEF StampImport, Then, AfterImport, SessionTypeOK
  <2> QED  BY <1>8, <2>1, <2>2
<1>13. ASSUME NEW p \in Procs, LockLoop(p) PROVE Goal
  <2>1. Moves(p) /\ UNCHANGED mtime
    BY <1>13, SessionLocks DEF LockLoop, docVars
  <2>2. pc[p] \notin {"idle", "held"} /\ step'[p] \in {step[p], "none", "r_read"}
    BY <1>13 DEF LockLoop, Acquiring, Acquire, Exists, Inspect, RemoveStale, GiveUp, Wait, Then,
                 AfterMutation, SessionTypeOK
  <2>3. step[p] = "import" /\ ~Owes(p)
    BY <2>2 DEF Apt, Owes
  <2> QED  BY <1>6, <2>1, <2>2, <2>3
<1>14. ASSUME NEW p \in Procs, BeginLocked(p) \/ BeginOpen(p) PROVE Goal
  <2>1. Moves(p) /\ UNCHANGED mtime /\ step[p] = "none"
    BY <1>14, SessionBegins DEF BeginLocked, BeginOpen, Begin, docVars
  <2>2. step'[p] # "restore"
    BY <1>14 DEF BeginLocked, BeginOpen, Then, SessionTypeOK
  <2> QED  BY <1>6, <2>1, <2>2 DEF Owes
<1>15. ASSUME NEW p \in Procs, Die(p) PROVE FALSE
  BY <1>1, <1>3, <1>15 DEF Die, Crash
<1>16. CASE UserEdits
  BY <1>1, <1>3, <1>16 DEF UserEdits
<1>17. CASE GrowOld \/ InvalidateState \/ InvalidateDecisions \/ ClearForCwd \/ UNCHANGED sessionVars
  <2>1. UNCHANGED <<step, pc, faults>> /\ mtime' \in {mtime, "missing"}
    BY <1>3, <1>17 DEF GrowOld, Age, InvalidateState, InvalidateDecisions, ClearForCwd, sessionVars,
                       procVars, docVars, bounds, failures, NoFault, lockVars
  <2> QED  BY <1>4, <2>1 DEF Owes
<1> QED  BY <1>9, <1>10, <1>11, <1>12, <1>13, <1>14, <1>15, <1>16, <1>17 DEF SessionNext

\* No command leaves its own write of STATE.md behind as somebody else's edit: for any
\* number of commands, locked and not, in whatever order they write STATE.md and
\* record its mtime, and with one write among them that throws (src/commands/state.js,
\* src/lib/state-session-mutator.js).  What it takes is a lapse: an updateMtime whose
\* SQL fails unseen (src/lib/planning-cache.js:223-235), a write that is cut short.
THEOREM SessionRecordsOwnWrites == SessionSpec => []OwnWritesRecorded
<1>1. SessionInit => Recorded
  BY StateConstants DEF SessionInit, Recorded
<1>2. SessionInv /\ Recorded /\ [SessionNext]_sessionVars => Recorded'
  BY RecordedStep
<1>3. Recorded => OwnWritesRecorded
  BY DEF Recorded, OwnWritesRecorded, AtRest, Owes
<1> QED  BY <1>1, <1>2, <1>3, SessionInvariance, PTL DEF SessionSpec

-----------------------------------------------------------------------------
\* Where every command mutates under the lock (Kinds \subseteq LockedKinds), the one
\* that is inside is alone with both copies: only the user and the plugin interfere.

\* Two operations never record the same decision, and what STATE.md is owed was recorded
\* by an operation that is over.
LockedOnly(p) ==
  /\ op[p].kind \in LockedKinds \cup {"none"}
  /\ op[p].kind # "decision" => op[p].dec = None
  /\ step[p] \in LockedSteps \cup SharedSteps
  /\ pc[p] = "idle" <=> step[p] = "none"
  /\ \A q \in Procs \ {p} : op[p].dec = op[q].dec => op[p].dec = None
  /\ step[p] # "none" => op[p].dec \notin expected

LockedInv ==
  /\ SessionInv /\ HoldsOwn
  /\ wipes = 0 => plugin = "rest"
  /\ \A p \in Procs : LockedOnly(p)

Holds(p, steps) == pc[p] = "held" /\ step[p] \in steps

\* Nobody who is inside has done anything yet.
Resting == \A p \in Procs : pc[p] = "held" => step[p] = "import"

\* The process that is inside goes on, or gets out.
Works(p) ==
  /\ pc[p] = "held" /\ UNCHANGED <<pc, op>> /\ ~FinishState(p)
  /\ Import(p) \/ StampImport(p) \/ LockedStep(p)
  /\ \A q \in Procs \ {p} : pc[q] # "held" /\ step'[q] = step[q]

Leaves(p) ==
  /\ pc[p] = "held" /\ (FinishState(p) \/ Die(p))
  /\ UNCHANGED op /\ step'[p] = "none"
  /\ \A q \in Procs : pc'[q] # "held"
  /\ \A q \in Procs \ {p} : pc[q] # "held" /\ step'[q] = step[q]

\* Something happens outside: a command begins, waits, gets in or dies; the lock ages.
Elsewhere ==
  /\ UNCHANGED <<docVars, content, model, expected, edits, failures, pluginVars>>
  /\ crashes' \in {crashes, crashes + 1}
  /\ Resting' => Resting
  /\ \A p \in Procs :
       /\ pc'[p] = "held" => step'[p] = "import" \/ (pc[p] = "held" /\ step'[p] = step[p])
       /\ step'[p] # "none" =>
            \/ step'[p] = step[p] /\ op'[p] = op[p]
            \/ step'[p] = "import" /\ op'[p].dec \notin ToSet(md.decs) \cup expected

\* With no process that could be in the way of another one.
Beside == UserEdits \/ InvalidateState \/ InvalidateDecisions \/ ClearForCwd

LEMMA LockedInitially == SessionInit => LockedInv
BY SessionInitially, StateConstants DEF LockedInv, LockedOnly, SessionInit, LockInit, NoOp, LockedKinds

\* What the actions of a command are, when every command mutates under the lock.
LEMMA LockedActions ==
  ASSUME Kinds \subseteq LockedKinds, LockedInv, NEW p \in Procs
  PROVE  ~BeginOpen(p) /\ ~OpenStep(p)
<1>1. ~BeginOpen(p)
  <2> SUFFICES ASSUME BeginOpen(p) PROVE FALSE  OBVIOUS
  <2>1. PICK o \in Commands : o.kind \in OpenKinds
    BY DEF BeginOpen, Begin
  <2>2. o.kind \in Kinds
    BY DEF Commands
  <2> QED  BY <2>1, <2>2 DEF LockedKinds, OpenKinds
<1>2. ~OpenStep(p)
  BY DEF LockedInv, LockedOnly, OpenStep, AdvanceWrite, StoreRow, StampAdvance, CompleteBatch,
     CompleteWrite, StampComplete, CompleteDecide, RepairRead, TailRead, TailWrite, StampTail, Open
<1> QED  BY <1>1, <1>2

\* Beginning an operation.
LEMMA LockedBegins ==
  ASSUME Kinds \subseteq LockedKinds, LockedInv, NEW p \in Procs, BeginLocked(p)
  PROVE  /\ pc[p] = "idle" /\ pc' = [pc EXCEPT ![p] = "mkdir"]
         /\ step' = [step EXCEPT ![p] = "import"]
         /\ op' = [op EXCEPT ![p] = op'[p]] /\ op'[p].kind \in LockedKinds
         /\ op'[p].kind # "decision" => op'[p].dec = None
         /\ op'[p].dec # None => op'[p].dec \in Unused
<1> USE DEF LockedInv, SessionInv
<1>1. op \in [Procs -> CommandType]
  BY DEF SessionTypeOK, CommandType
<1>2. PICK o \in Commands : o.kind \in LockedKinds /\ op' = [op EXCEPT ![p] = o] /\ op'[p] = o
  BY <1>1 DEF BeginLocked, Begin
<1>3. o.kind # "decision" => o.dec = None
  BY <1>2 DEF Commands, LockedKinds
<1>4. o.dec # None => o.dec \in Unused
  BY <1>2 DEF Commands, LockedKinds
<1>5. pc[p] = "idle" /\ pc' = [pc EXCEPT ![p] = "mkdir"] /\ step' = [step EXCEPT ![p] = "import"]
  BY DEF BeginLocked, Call, Goto, Then
<1> HIDE DEF LockedInv, SessionInv
<1> QED  BY <1>2, <1>3, <1>4, <1>5

LEMMA LockedOnlyKept ==
  ASSUME Kinds \subseteq LockedKinds, LockedInv, [SessionNext]_sessionVars, NEW q \in Procs
  PROVE  LockedOnly(q)'
<1> USE DEF LockedInv, SessionInv
<1>1. /\ step \in [Procs -> Steps] /\ op \in [Procs -> CommandType] /\ pc \in [Procs -> PcValues]
      /\ expected \subseteq Decisions /\ None \notin Decisions
      /\ \A r \in Procs : LockedOnly(r)
  BY StateConstants DEF SessionTypeOK, LockTypeOK, Steps, CommandType
<1> HIDE DEF LockedInv, SessionInv
\* A step of one process that begins nothing and records nothing.
<1>2. ASSUME NEW p \in Procs, UNCHANGED <<op, expected>>, NEW s \in LockedSteps \cup SharedSteps,
             step' = [step EXCEPT ![p] = s], s # "none" => step[p] # "none",
             pc'[p] = "idle" <=> s = "none", \A r \in Procs \ {p} : pc'[r] = pc[r]
      PROVE  LockedOnly(q)'
  BY <1>1, <1>2 DEF LockedOnly
<1>3. ASSUME NEW p \in Procs, BeginLocked(p) PROVE LockedOnly(q)'
  <2>1. /\ pc' = [pc EXCEPT ![p] = "mkdir"] /\ step' = [step EXCEPT ![p] = "import"]
        /\ op' = [op EXCEPT ![p] = op'[p]] /\ op'[p].kind \in LockedKinds
        /\ op'[p].kind # "decision" => op'[p].dec = None
        /\ op'[p].dec # None => op'[p].dec \in Unused
    BY <1>3, LockedBegins
  <2>2. UNCHANGED expected
    BY <1>3 DEF BeginLocked
  <2>3. op'[p].dec # None => op'[p].dec \notin expected /\ \A r \in Procs : op[r].dec # op'[p].dec
    BY <2>1 DEF Unused
  <2>4. CASE q = p
    BY <1>1, <2>1, <2>2, <2>3, <2>4 DEF LockedOnly
  <2>5. CASE q # p
    BY <1>1, <2>1, <2>2, <2>3, <2>5 DEF LockedOnly
  <2> QED  BY <2>4, <2>5
<1>4. ASSUME NEW p \in Procs, LockLoop(p) PROVE LockedOnly(q)'
  <2>1. UNCHANGED <<op, expected>>
    BY <1>4 DEF LockLoop
  <2>2. pc[p] \notin {"idle", "held"} /\ step[p] = "import" /\ op[p].kind \in LockedKinds \cup {"none"}
    BY <1>1, <1>4 DEF LockLoop, Acquiring, Acquire, Exists, Inspect, RemoveStale, GiveUp, Wait,
                      LockedInv, SessionInv, Apt, LockedOnly
  <2>3. CASE GiveUp(p)
    <3>1. step' = [step EXCEPT ![p] = "none"] /\ pc' = [pc EXCEPT ![p] = "idle"]
      BY <1>4, <2>2, <2>3 DEF LockLoop, GiveUp, Goto, Then, AfterMutation, LockedKinds
    <3> QED  BY <1>1, <1>2, <2>1, <3>1
  <2>4. CASE ~GiveUp(p)
    <3>1. UNCHANGED step
      BY <1>4, <2>4 DEF LockLoop
    <3>2. PICK l \in PcValues \ {"idle"} : pc' = [pc EXCEPT ![p] = l]
      BY <1>4, <2>4 DEF LockLoop, Acquiring, Acquire, Exists, Inspect, RemoveStale, Wait, Goto, PcValues
    <3> QED  BY <1>1, <2>1, <2>2, <3>1, <3>2 DEF LockedOnly
  <2> QED  BY <2>3, <2>4
<1>5. ASSUME NEW p \in Procs, Import(p) \/ StampImport(p) PROVE LockedOnly(q)'
  <2>1. pc[p] = "held" /\ UNCHANGED <<pc, op, expected>>
    BY <1>1, <1>5 DEF Import, Importing, StampImport, lockVars, LockedInv, SessionInv, LockedOnly, Apt
  <2>2. PICK s \in {"imported", "load"} : step' = [step EXCEPT ![p] = s]
    BY <1>5, <2>1 DEF Import, StampImport, AfterImport, Then
  <2> QED  BY <1>1, <1>2, <1>5, <2>1, <2>2 DEF Import, Importing, StampImport
<1>6. ASSUME NEW p \in Procs, LockedStep(p), ~FinishState(p) PROVE LockedOnly(q)'
  <2>1. pc[p] = "held" /\ UNCHANGED <<pc, op, expected>> /\ step[p] # "none"
    BY <1>6 DEF LockedStep, LoadState, WriteState, PersistState, StampState, RestoreState, RestampState,
                Locked, lockVars
  <2>2. PICK s \in LockedSteps : step' = [step EXCEPT ![p] = s]
    BY <1>6 DEF LockedStep, LoadState, WriteState, PersistState, StampState, RestoreState,
                RestampState, Then
  <2> QED  BY <1>1, <1>2, <2>1, <2>2
<1>7. ASSUME NEW p \in Procs, FinishState(p) PROVE LockedOnly(q)'
  <2>1. op[p].kind \in LockedKinds \cup {"none"} /\ UNCHANGED op
    BY <1>1, <1>7 DEF LockedOnly, FinishState
  <2>2. step' = [step EXCEPT ![p] = "none"] /\ pc' = [pc EXCEPT ![p] = "idle"]
    BY <1>7, <2>1 DEF FinishState, Release, Goto, Then, AfterMutation, LockedKinds
  <2>3. expected' \subseteq expected \cup ({op[p].dec} \ {None})
    BY <1>7 DEF FinishState
  <2>4. CASE q = p
    BY <1>1, <2>1, <2>2, <2>4 DEF LockedOnly
  <2>5. CASE q # p
    <3>1. LockedOnly(q) /\ op'[q] = op[q] /\ step'[q] = step[q] /\ pc'[q] = pc[q]
      BY <1>1, <2>1, <2>2, <2>5
    <3>2. op[q].dec \in expected' => op[q].dec \in expected
      BY <1>1, <2>3, <2>5, <3>1 DEF LockedOnly
    <3> QED  BY <2>1, <3>1, <3>2 DEF LockedOnly
  <2> QED  BY <2>4, <2>5
<1>8. ASSUME NEW p \in Procs, Die(p) PROVE LockedOnly(q)'
  <2>1. step[p] # "none" => pc[p] # "idle"
    BY <1>1 DEF LockedOnly
  <2>2. step' = [step EXCEPT ![p] = "none"] /\ pc' = [pc EXCEPT ![p] = "idle"] /\ UNCHANGED <<op, expected>>
    BY <1>8, <2>1 DEF Die, Crash, Goto, Then
  <2> QED  BY <1>1, <1>2, <2>2
<1>9. CASE GrowOld \/ UserEdits \/ InvalidateState \/ InvalidateDecisions \/ ClearForCwd
             \/ UNCHANGED sessionVars
  <2>1. UNCHANGED <<pc, step, op>>
    BY <1>9 DEF GrowOld, Age, UserEdits, InvalidateState, InvalidateDecisions, ClearForCwd, sessionVars,
                procVars, lockVars
  <2>2. expected' \subseteq expected
    BY <1>9 DEF GrowOld, UserEdits, InvalidateState, InvalidateDecisions, ClearForCwd, sessionVars
  <2> QED  BY <1>1, <2>1, <2>2 DEF LockedOnly
<1> QED  BY <1>3, <1>4, <1>5, <1>6, <1>7, <1>8, <1>9, LockedActions DEF SessionNext

LEMMA LockedKeeps ==
  ASSUME Kinds \subseteq LockedKinds, LockedInv, [SessionNext]_sessionVars
  PROVE  LockedInv'
<1>1. (wipes = 0 => plugin = "rest")'
  <2>1. wipes \in Nat /\ (wipes = 0 => plugin = "rest")
    BY StateConstants DEF LockedInv, SessionInv, SessionTypeOK
  <2>2. CASE InvalidateState
    BY <2>1, <2>2 DEF InvalidateState
  <2>3. CASE InvalidateDecisions \/ ClearForCwd
    BY <2>1, <2>3 DEF InvalidateDecisions, ClearForCwd
  <2>4. ASSUME ~(InvalidateState \/ InvalidateDecisions \/ ClearForCwd) PROVE UNCHANGED pluginVars
    BY <2>4, LockedActions DEF SessionNext, GrowOld, UserEdits, sessionVars,
       BeginLocked, LockLoop, Import, StampImport, Die, LockedStep, LoadState,
       WriteState, PersistState, StampState, RestoreState, RestampState, FinishState
  <2> QED  BY <2>1, <2>2, <2>3, <2>4 DEF pluginVars
<1> QED  BY <1>1, SessionKeeps, LockedOnlyKept DEF LockedInv

\* Until a stale break, what happens is one of these.
LEMMA LockedCases ==
  ASSUME Kinds \subseteq LockedKinds, LockedInv, [SessionNext]_sessionVars, ~robbed'
  PROVE  /\ ~robbed
         /\ \/ \E p \in Procs : Works(p)
            \/ \E p \in Procs : Leaves(p)
            \/ Elsewhere
            \/ Beside /\ UNCHANGED <<lockVars, procVars>>
<1>1. LockInv /\ LockInv' /\ LockTypeOK /\ HoldsOwn
  BY SessionKeepsLock DEF LockedInv, SessionInv, SessionTypeOK, LockInv
<1>2. ~robbed
  <2>1. CASE [LockNext]_lockVars
    BY <1>1, <2>1, RobbedSteps DEF lockVars
  <2>2. CASE UNCHANGED <<pc, lockDir, left, robbed>>
    BY <2>2
  <2> QED  BY <2>1, <2>2, SessionLockStep
<1>3. /\ step \in [Procs -> Steps] /\ op \in [Procs -> CommandType] /\ pc \in [Procs -> PcValues]
      /\ crashes \in Nat /\ None \notin Decisions
      /\ \A r \in Procs : LockedOnly(r) /\ Apt(pc[r], op[r], step[r])
  BY <1>1, StateConstants, BoundsNat DEF LockedInv, SessionInv, SessionTypeOK, LockTypeOK, Steps, CommandType
<1>4. ASSUME NEW p \in Procs, pc[p] = "held" PROVE \A q \in Procs \ {p} : pc[q] # "held"
  BY <1>1, <1>2, <1>4, HolderAlone
<1>5. ASSUME NEW p \in Procs, Import(p) \/ StampImport(p) \/ (LockedStep(p) /\ ~FinishState(p))
      PROVE  Works(p)
  <2>1. pc[p] = "held" /\ UNCHANGED <<pc, op>> /\ ~FinishState(p)
    BY <1>3, <1>5 DEF Import, Importing, StampImport, lockVars, LockedOnly, Apt, LockedStep, LoadState,
                      WriteState, PersistState, StampState, RestoreState, RestampState, Locked, FinishState
  <2>2. PICK s \in Steps : step' = [step EXCEPT ![p] = s]
    BY <1>5, <2>1 DEF Import, StampImport, AfterImport, LockedStep, LoadState, WriteState, PersistState,
                      StampState, RestoreState, RestampState, Then, Steps
  <2> QED  BY <1>3, <1>4, <1>5, <2>1, <2>2 DEF Works
<1>6. ASSUME NEW p \in Procs, FinishState(p) PROVE Leaves(p)
  <2>1. pc[p] = "held" /\ UNCHANGED op /\ op[p].kind \in LockedKinds \cup {"none"}
    BY <1>3, <1>6 DEF FinishState, Release, LockedOnly
  <2>2. step' = [step EXCEPT ![p] = "none"] /\ pc' = [pc EXCEPT ![p] = "idle"]
    BY <1>6, <2>1 DEF FinishState, Release, Goto, Then, AfterMutation, LockedKinds
  <2> QED  BY <1>3, <1>4, <1>6, <2>1, <2>2 DEF Leaves
\* Steps outside: one process at most moves.
<1>7. ASSUME NEW p \in Procs, pc[p] # "held", \A q \in Procs \ {p} : pc'[q] = pc[q],
             NEW s \in {"import", "none"}, step' = [step EXCEPT ![p] = s],
             \/ UNCHANGED op /\ s \in {step[p], "none"}
             \/ /\ op' = [op EXCEPT ![p] = op'[p]] /\ s = "import"
                /\ op'[p].dec \notin ToSet(md.decs) \cup expected,
             pc'[p] = "held" => s = "import" /\ \A q \in Procs : pc[q] # "held",
             UNCHANGED <<docVars, content, model, expected, edits, failures, pluginVars>>,
             crashes' \in {crashes, crashes + 1}
      PROVE  Elsewhere
  <2>1. Resting' => Resting
    BY <1>3, <1>7 DEF Resting
  <2>2. ASSUME NEW q \in Procs
        PROVE  /\ pc'[q] = "held" => step'[q] = "import" \/ (pc[q] = "held" /\ step'[q] = step[q])
               /\ step'[q] # "none" =>
                    \/ step'[q] = step[q] /\ op'[q] = op[q]
                    \/ step'[q] = "import" /\ op'[q].dec \notin ToSet(md.decs) \cup expected
    <3>1. CASE q = p
      BY <1>3, <1>7, <3>1
    <3>2. CASE q # p
      BY <1>3, <1>7, <3>2
    <3> QED  BY <3>1, <3>2
  <2> QED  BY <1>7, <2>1, <2>2 DEF Elsewhere
<1>8. ASSUME NEW p \in Procs, BeginLocked(p) PROVE Elsewhere
  <2>1. /\ pc[p] = "idle" /\ pc' = [pc EXCEPT ![p] = "mkdir"]
        /\ step' = [step EXCEPT ![p] = "import"] /\ op' = [op EXCEPT ![p] = op'[p]]
        /\ op'[p].dec # None => op'[p].dec \in Unused
    BY <1>8, LockedBegins
  <2>2. op'[p].dec \notin ToSet(md.decs) \cup expected
    <3>1. expected \subseteq Decisions /\ ToSet(md.decs) \subseteq Decisions
      BY DEF LockedInv, SessionInv, SessionTypeOK, Doc, ToSet
    <3> QED  BY <1>3, <2>1, <3>1 DEF Unused
  <2>3. UNCHANGED <<docVars, content, model, expected, edits, failures, pluginVars, crashes>>
    BY <1>8 DEF BeginLocked, Call
  <2> QED  BY <1>3, <1>7, <2>1, <2>2, <2>3
<1>9. ASSUME NEW p \in Procs, LockLoop(p) PROVE Elsewhere
  <2>1. UNCHANGED <<docVars, op, content, model, expected, edits, failures, pluginVars, crashes>>
    BY <1>9 DEF LockLoop, bounds, Acquiring, Acquire, Exists, Inspect, RemoveStale, GiveUp, Wait
  <2>2. pc[p] \notin {"idle", "held"} /\ \A q \in Procs \ {p} : pc'[q] = pc[q]
    BY <1>3, <1>9 DEF LockLoop, Acquiring, Acquire, Exists, Inspect, RemoveStale, GiveUp, Wait, Goto
  <2>3. step[p] = "import" /\ op[p].kind \in LockedKinds \cup {"none"}
    BY <1>3, <2>2 DEF LockedOnly, Apt
  <2>4. PICK s \in {"import", "none"} :
          /\ step' = [step EXCEPT ![p] = s]
          /\ pc'[p] = "held" => s = "import"
    <3>1. CASE GiveUp(p)
      BY <1>3, <1>9, <2>3, <3>1 DEF LockLoop, GiveUp, Goto, Then, AfterMutation, LockedKinds
    <3>2. CASE ~GiveUp(p)
      BY <1>3, <1>9, <2>3, <3>2 DEF LockLoop
    <3> QED  BY <3>1, <3>2
  <2>5. pc'[p] = "held" => \A q \in Procs : pc[q] # "held"
    <3> SUFFICES ASSUME pc'[p] = "held", NEW q \in Procs, pc[q] = "held" PROVE FALSE
      OBVIOUS
    <3>1. p # q /\ pc'[q] = "held"
      BY <2>2
    <3>2. {p} = {q}
      BY <1>1, <3>1 DEF LockInv, HoldsOwn
    <3> QED  BY <3>1, <3>2
  <2> QED  BY <1>3, <1>7, <2>1, <2>2, <2>3, <2>4, <2>5
<1>10. ASSUME NEW p \in Procs, Die(p) PROVE Leaves(p) \/ Elsewhere
  <2>1. step[p] # "none" => pc[p] # "idle"
    BY <1>3 DEF LockedOnly
  <2>2. /\ pc' = [pc EXCEPT ![p] = "idle"] /\ step' = [step EXCEPT ![p] = "none"]
        /\ UNCHANGED <<docVars, op, content, model, expected, edits, failures, pluginVars>>
        /\ crashes' = crashes + 1
    BY <1>10, <2>1 DEF Die, Crash, Goto, Then, bounds
  <2>3. CASE pc[p] = "held"
    BY <1>3, <1>4, <1>10, <2>2, <2>3 DEF Leaves
  <2>4. CASE pc[p] # "held"
    BY <1>3, <1>7, <2>2, <2>4
  <2> QED  BY <2>3, <2>4
<1>11. CASE GrowOld \/ UNCHANGED sessionVars
  <2>1. /\ UNCHANGED <<docVars, content, model, expected, edits, failures, pluginVars>>
        /\ UNCHANGED <<pc, crashes, step, op>>
    BY <1>11 DEF GrowOld, Age, sessionVars, lockVars, bounds, procVars
  <2>2. Resting' => Resting
    BY <2>1 DEF Resting
  <2> QED  BY <1>2, <2>1, <2>2 DEF Elsewhere
<1>12. CASE Beside
  <2>1. UNCHANGED lockVars /\ UNCHANGED procVars
    BY <1>12 DEF Beside, UserEdits, InvalidateState, InvalidateDecisions, ClearForCwd
  <2> QED  BY <1>2, <1>12, <2>1
<1> QED  BY <1>2, <1>5, <1>6, <1>8, <1>9, <1>10, <1>11, <1>12, LockedActions DEF SessionNext, Beside

\* Whoever is inside and past its import is the only one, and nobody else gets in.
LEMMA WorksAlone ==
  ASSUME LockedInv, NEW p \in Procs, Works(p)
  PROVE  /\ pc'[p] = "held" /\ op'[p] = op[p]
         /\ \A q \in Procs : pc'[q] = "held" => q = p
         /\ step'[p] # "import" => ~Resting'
         /\ step[p] = "import" => Resting
BY DEF Works, Resting

LEMMA WorksCounts ==
  ASSUME NEW p \in Procs, Works(p)
  PROVE  /\ UNCHANGED <<edits, wipes, crashes, plugin, expected>>
         /\ UNCHANGED faults => UNCHANGED troubles
<1>1. UNCHANGED <<edits, wipes, crashes, plugin, expected>>
  BY DEF Works, Import, StampImport, LockedStep, LoadState, WriteState, PersistState, StampState,
         RestoreState, RestampState, lockVars, bounds, pluginVars
<1> QED  BY <1>1 DEF troubles

\* The user and the plugin show in the counters.
LEMMA BesideCounts ==
  ASSUME LockedInv, Beside
  PROVE  /\ wipes' = 0 => UserEdits
         /\ edits' = 0 => ~UserEdits
<1>1. edits \in Nat /\ wipes \in Nat /\ (wipes = 0 => plugin = "rest")
  BY StateConstants DEF LockedInv, SessionInv, SessionTypeOK
<1>2. wipes' = 0 => UserEdits
  <2>1. ~InvalidateState \/ wipes' # 0
    BY <1>1 DEF InvalidateState
  <2>2. InvalidateDecisions \/ ClearForCwd => wipes' # 0
    BY <1>1 DEF InvalidateDecisions, ClearForCwd
  <2> QED  BY <2>1, <2>2 DEF Beside
<1>3. edits' = 0 => ~UserEdits
  BY <1>1 DEF UserEdits
<1> QED  BY <1>2, <1>3

-----------------------------------------------------------------------------
\* Where one trouble is all there may be, a failure is the first.
LEMMA FirstFault ==
  ASSUME LockedInv, [SessionNext]_sessionVars, troubles' <= 1, Fault \/ Lapse
  PROVE  troubles = 0 /\ troubles' = 1 /\ faults = 0 /\ faults' = 1 /\ wipes' = 0
<1>1. faults \in Nat /\ faults' # faults
  BY CountsGrow DEF LockedInv, Fault, Lapse, Fails
<1>2. troubles = 0 /\ troubles' = 1 /\ wipes' = 0 /\ faults = 0
  BY <1>1, CountsGrow DEF LockedInv
<1> QED  BY <1>2 DEF Fault, Lapse, Fails

-----------------------------------------------------------------------------
Copy(doc) == [row |-> doc.field, decs |-> doc.decs]

\* Before the first trouble the two copies are equal at every step at which no write of
\* STATE.md waits for its counterpart; the first trouble leaves them equal, or to be
\* imported.
CopiesKept(p) ==
  /\ Holds(p, {"imported", "load", "write"}) /\ troubles = 0 => db = Copy(md)
  /\ Holds(p, {"load", "write"}) /\ troubles = 0 => mtime = "fresh"
  /\ Holds(p, {"write"}) => content[p] = md
  /\ Holds(p, {"persist"}) =>
       md = model[p] /\ (troubles = 0 => mtime = "stale" /\ db = Copy(content[p]))
  /\ Holds(p, {"restore"}) => faults = 1 /\ db = Copy(content[p])
  /\ Holds(p, {"stamp", "done", "restamp", "failed"}) => db = Copy(md)
  /\ Holds(p, {"done", "failed"}) => mtime = "fresh" \/ troubles = 1

CopiesRest ==
  /\ mtime = "fresh" => db = Copy(md)
  /\ mtime = "missing" => \/ db = [row |-> None, decs |-> <<>>]
                          \/ troubles = 1 /\ db = Copy(md)
  /\ mtime = "stale" => troubles = 1

CopiesInv ==
  ~robbed /\ wipes = 0 /\ edits = 0 /\ troubles <= 1 =>
    /\ Resting => CopiesRest
    /\ \A p \in Procs : CopiesKept(p)

LEMMA CopiesWorks ==
  ASSUME LockedInv, [SessionNext]_sessionVars, NEW p \in Procs, Works(p), wipes' = 0, edits' = 0,
         troubles' <= 1, CopiesKept(p), Resting => CopiesRest
  PROVE  step'[p] # "import" /\ CopiesKept(p)'
<1>1. /\ step \in [Procs -> Steps] /\ content \in [Procs -> Doc] /\ model \in [Procs -> Doc]
      /\ mtime \in {"missing", "fresh", "stale"} /\ md \in Doc
  BY DEF LockedInv, SessionInv, SessionTypeOK, Steps
<1>2. pc[p] = "held" /\ pc'[p] = "held"
  BY DEF Works
<1>3. /\ faults \in Nat /\ troubles \in {0, 1} /\ troubles' \in {0, 1} /\ (troubles' = 0 => troubles = 0)
      /\ troubles' = troubles \/ troubles = 1 => UNCHANGED faults
      /\ troubles = 0 => faults = 0
  BY CountsGrow DEF LockedInv
<1>4. UNCHANGED faults => UNCHANGED troubles
  BY WorksCounts
<1>5. CASE Import(p)
  <2>1. UNCHANGED <<md, mtime, content, model>> /\ step[p] = "import"
    BY <1>5 DEF Import, Importing
  <2>2. CASE NeedsImport
    <3>1. step'[p] = "imported"
      BY <1>1, <1>5, <2>2 DEF Import, Then
    <3>2. troubles' = 0 => db' = Copy(md)
      <4> SUFFICES ASSUME troubles' = 0 PROVE db' = Copy(md)  OBVIOUS
      <4>1. troubles = 0 /\ faults' = faults
        BY <1>3
      <4>2. db = [row |-> None, decs |-> <<>>]
        BY <1>1, <2>1, <2>2, <4>1, WorksAlone DEF NeedsImport, CopiesRest
      <4>3. db' = [row |-> md.field, decs |-> db.decs \o md.decs]
        <5>1. ~Fault /\ ~Lapse
          BY <4>1, FirstFault
        <5> QED  BY <1>5, <2>2, <5>1 DEF Import
      <4>4. md.decs \in Seq(Decisions)
        BY <1>1 DEF Doc
      <4>5. db.decs \o md.decs = md.decs
        BY <4>2, <4>4
      <4> QED  BY <4>3, <4>5 DEF Copy
    <3> QED  BY <1>2, <2>1, <3>1, <3>2 DEF CopiesKept, Holds
  <2>3. CASE ~NeedsImport
    <3>1. step'[p] = "load" /\ UNCHANGED <<db, faults>>
      BY <1>1, <1>2, <1>5, <2>3 DEF Import, Then, AfterImport, NoFault, failures
    <3>2. troubles' = 0 => mtime = "fresh" /\ db = Copy(md)
      <4>1. troubles' = troubles
        BY <1>4, <3>1
      <4> QED  BY <1>1, <2>1, <2>3, <4>1, WorksAlone DEF NeedsImport, CopiesRest
    <3> QED  BY <1>2, <2>1, <3>1, <3>2 DEF CopiesKept, Holds
  <2> QED  BY <2>2, <2>3
<1>6. CASE StampImport(p)
  <2>1. step'[p] = "load" /\ UNCHANGED <<md, db>> /\ step[p] = "imported"
    BY <1>1, <1>2, <1>6 DEF StampImport, Stamp, Then, AfterImport
  <2>2. (mtime' = "fresh" /\ UNCHANGED faults) \/ troubles' = 1
    BY <1>6, FirstFault DEF StampImport, Stamp, NoFault, failures
  <2> QED  BY <1>2, <1>4, <2>1, <2>2 DEF CopiesKept, Holds
<1>7. CASE LoadState(p)
  <2>1. /\ step[p] = "load" /\ step'[p] = "write" /\ UNCHANGED <<md, db, mtime, faults>>
        /\ content'[p] = md
    BY <1>1, <1>7 DEF LoadState, Locked, Then, docVars, bounds, failures
  <2> QED  BY <1>2, <1>4, <2>1 DEF CopiesKept, Holds
<1>8. CASE WriteState(p)
  <2>1. step[p] = "write" /\ UNCHANGED <<db, content, model>> /\ content[p] = md
    BY <1>2, <1>8 DEF WriteState, Locked, CopiesKept, Holds
  <2>2. CASE step'[p] = "persist" /\ WriteMd(model[p]) /\ NoFault
    BY <1>2, <1>4, <2>1, <2>2 DEF CopiesKept, Holds, WriteMd, NoFault, failures
  <2>3. CASE step'[p] = "restore" /\ Fault /\ UNCHANGED <<md, mtime>>
    <3>1. troubles = 0 /\ troubles' = 1 /\ faults' = 1
      BY <2>3, FirstFault
    <3> QED  BY <1>2, <2>1, <2>3, <3>1 DEF CopiesKept, Holds
  <2> QED  BY <1>1, <1>8, <2>2, <2>3 DEF WriteState, Then
<1>9. CASE PersistState(p)
  <2>1. step[p] = "persist" /\ UNCHANGED <<md, mtime, content, model>> /\ md = model[p]
    BY <1>2, <1>9 DEF PersistState, Locked, CopiesKept, Holds
  <2>2. CASE step'[p] = "stamp" /\ db' = Copy(model[p])
    BY <1>2, <2>1, <2>2 DEF CopiesKept, Holds, Copy
  <2>3. CASE step'[p] = "restore" /\ Fault /\ UNCHANGED db
    <3>1. troubles = 0 /\ troubles' = 1 /\ faults' = 1
      BY <2>3, FirstFault
    <3> QED  BY <1>2, <2>1, <2>3, <3>1 DEF CopiesKept, Holds, Copy
  <2> QED  BY <1>1, <1>9, <2>2, <2>3 DEF PersistState, Then, Copy
<1>10. CASE StampState(p) \/ RestampState(p)
  <2>1. step[p] \in {"stamp", "restamp"} /\ step'[p] \in {"done", "failed"} /\ UNCHANGED <<md, db>>
    BY <1>1, <1>10 DEF StampState, RestampState, Locked, Then, Stamp
  <2>2. mtime' = "fresh" \/ troubles' = 1
    BY <1>10, FirstFault DEF StampState, RestampState, Stamp
  <2> QED  BY <1>2, <2>1, <2>2 DEF CopiesKept, Holds
<1>11. CASE RestoreState(p)
  <2>1. step[p] = "restore" /\ UNCHANGED <<db, content>> /\ faults = 1 /\ db = Copy(content[p])
    BY <1>2, <1>11 DEF RestoreState, Locked, CopiesKept, Holds
  <2>2. step'[p] = "restamp" /\ WriteMd(content[p]) /\ UNCHANGED faults
    BY <1>3, <1>1, <1>11, <2>1 DEF RestoreState, Then, Fault, Fails, NoFault, failures
  <2> QED  BY <1>2, <2>1, <2>2 DEF CopiesKept, Holds, WriteMd
<1> QED  BY <1>5, <1>6, <1>7, <1>8, <1>9, <1>10, <1>11 DEF Works, LockedStep

LEMMA CopiesStep ==
  ASSUME Kinds \subseteq LockedKinds, LockedInv, CopiesInv, [SessionNext]_sessionVars
  PROVE  CopiesInv'
<1> SUFFICES ASSUME ~robbed', wipes' = 0, edits' = 0, troubles' <= 1
             PROVE  (Resting' => CopiesRest') /\ \A p \in Procs : CopiesKept(p)'
  BY DEF CopiesInv
<1>1. /\ wipes = 0 /\ edits = 0 /\ troubles \in {0, 1} /\ troubles' \in {0, 1}
      /\ troubles' = 0 => troubles = 0
      /\ troubles' = troubles \/ troubles = 1 => UNCHANGED crashes
      /\ troubles = 0 => faults = 0
      /\ crashes \in Nat
  BY CountsGrow DEF LockedInv
<1>2. (Resting => CopiesRest) /\ \A p \in Procs : CopiesKept(p)
  BY <1>1, LockedCases DEF CopiesInv
<1>3. ASSUME NEW p \in Procs, Works(p) PROVE (Resting' => CopiesRest') /\ \A q \in Procs : CopiesKept(q)'
  <2>1. step'[p] # "import" /\ CopiesKept(p)'
    BY <1>2, <1>3, CopiesWorks
  <2>2. ~Resting' /\ \A q \in Procs : pc'[q] = "held" => q = p
    BY <1>3, <2>1, WorksAlone
  <2> QED  BY <2>1, <2>2 DEF CopiesKept, Holds
<1>4. ASSUME NEW p \in Procs, Leaves(p) PROVE (Resting' => CopiesRest') /\ \A q \in Procs : CopiesKept(q)'
  <2>1. UNCHANGED <<md, db, mtime>> /\ pc[p] = "held" /\ \A q \in Procs : pc'[q] # "held"
    BY <1>4 DEF Leaves, FinishState, Die, docVars
  <2>2. CASE FinishState(p)
    <3>1. step[p] \in {"done", "failed"} /\ UNCHANGED <<faults, edits, wipes, crashes>>
      BY <2>2 DEF FinishState, bounds, failures, pluginVars, Release
    <3>2. UNCHANGED troubles /\ mtime \in {"missing", "fresh", "stale"}
      BY <3>1 DEF troubles, LockedInv, SessionInv, SessionTypeOK
    <3> QED  BY <1>2, <2>1, <3>1, <3>2 DEF CopiesKept, CopiesRest, Holds
  <2>3. CASE Die(p)
    <3>1. troubles = 0 /\ troubles' = 1
      <4>1. crashes' # crashes
        BY <1>1, <2>1, <2>3 DEF Die, Crash
      <4> QED  BY <1>1, <4>1
    <3>2. step[p] \in (LockedSteps \cup SharedSteps) \ {"none"} /\ mtime \in {"missing", "fresh", "stale"}
      BY <2>1 DEF LockedInv, LockedOnly, SessionInv, SessionTypeOK
    <3>3. CASE step[p] = "import"
      BY <1>2, <1>4, <2>1, <3>1, <3>3 DEF CopiesKept, CopiesRest, Holds, Resting, Leaves
    <3>4. CASE step[p] # "import"
      BY <1>1, <1>2, <2>1, <3>1, <3>2, <3>4 DEF CopiesKept, CopiesRest, Holds
    <3> QED  BY <3>3, <3>4
  <2> QED  BY <1>4, <2>2, <2>3 DEF Leaves
<1>5. CASE Elsewhere
  <2>1. UNCHANGED <<md, db, mtime, content, model, faults>> /\ (Resting' => Resting)
    BY <1>5 DEF Elsewhere, docVars, failures
  <2>2. Resting' => CopiesRest'
    BY <1>1, <1>2, <2>1 DEF CopiesRest
  <2>3. ASSUME NEW q \in Procs PROVE CopiesKept(q)'
    <3>1. pc'[q] = "held" => step'[q] = "import" \/ (pc[q] = "held" /\ step'[q] = step[q])
      BY <1>5 DEF Elsewhere
    <3> QED  BY <1>1, <1>2, <2>1, <3>1 DEF CopiesKept, Holds
  <2> QED  BY <2>2, <2>3
<1>6. CASE Beside
  BY <1>6, BesideCounts
<1> QED  BY <1>3, <1>4, <1>5, <1>6, LockedCases

\* Whatever number of commands mutate under the lock: one write that fails, or one
\* process that dies, leaves copies that are equal or will be imported
\* (applyStateSessionMutation, src/lib/state-session-mutator.js).
THEOREM SessionCopiesAgree ==
  ASSUME Kinds \subseteq LockedKinds
  PROVE  SessionSpec => []CopiesAgree
<1>1. SessionInit => LockedInv /\ CopiesInv
  <2> SUFFICES ASSUME SessionInit PROVE CopiesInv
    BY LockedInitially
  <2>1. CopiesRest /\ \A p \in Procs : CopiesKept(p)
    BY DEF SessionInit, LockInit, CopiesRest, CopiesKept, Holds
  <2> QED  BY <2>1 DEF CopiesInv
<1>2. LockedInv /\ CopiesInv /\ [SessionNext]_sessionVars => (LockedInv /\ CopiesInv)'
  BY LockedKeeps, CopiesStep
<1>3. LockedInv /\ CopiesInv => CopiesAgree
  BY DEF LockedInv, LockedOnly, CopiesInv, CopiesAgree, AtRest, Resting, CopiesRest, Copy
<1> QED  BY <1>1, <1>2, <1>3, PTL DEF SessionSpec

-----------------------------------------------------------------------------
\* The row says what STATE.md says, or nothing.
Fits(doc) == db.row \in {None, doc.field}

\* An import that is due gives the row the position of STATE.md before any operation is
\* applied; only a process that dies or an mtime that could not be recorded leaves a
\* row that does not fit, and a stale mtime with it.
PositionRest ==
  /\ IF mtime = "stale" THEN troubles = 1 /\ wipes = 0 ELSE Fits(md)
  /\ troubles = 0 /\ mtime = "missing" => db.row = None

PositionKept(p) ==
  /\ Holds(p, {"imported", "load", "write", "stamp", "done", "restamp", "failed"}) => Fits(md)
  /\ Holds(p, {"write"}) =>
       content[p] = md /\ (op[p].kind = "decision" => model[p].field = content[p].field)
  /\ Holds(p, {"load", "write", "done", "failed"}) /\ troubles = 0 => mtime = "fresh"
  /\ Holds(p, {"done", "failed"}) => (mtime = "stale" => troubles = 1 /\ wipes = 0)
  /\ Holds(p, {"persist"}) => md = model[p] /\ (troubles = 0 => mtime = "stale")
  /\ Holds(p, {"persist", "restore"}) => Fits(content[p])
  /\ Holds(p, {"restore"}) => faults = 1

PositionInv ==
  ~robbed /\ edits = 0 /\ troubles <= 1 =>
    (Resting => PositionRest) /\ \A p \in Procs : PositionKept(p)

LEMMA PositionWorks ==
  ASSUME LockedInv, [SessionNext]_sessionVars, NEW p \in Procs, Works(p), edits' = 0,
         troubles' <= 1, PositionKept(p), Resting => PositionRest
  PROVE  step'[p] # "import" /\ PositionKept(p)'
<1>1. /\ step \in [Procs -> Steps] /\ content \in [Procs -> Doc] /\ model \in [Procs -> Doc]
      /\ mtime \in {"missing", "fresh", "stale"} /\ md \in Doc /\ db \in Db
  BY DEF LockedInv, SessionInv, SessionTypeOK, Steps
<1>2. pc[p] = "held" /\ pc'[p] = "held" /\ op' = op
  BY DEF Works
<1>3. /\ faults \in Nat /\ troubles \in {0, 1} /\ troubles' \in {0, 1} /\ (troubles' = 0 => troubles = 0)
      /\ troubles' = troubles \/ troubles = 1 => UNCHANGED faults
      /\ troubles = 0 => faults = 0
  BY CountsGrow DEF LockedInv
<1>4. UNCHANGED faults => UNCHANGED troubles
  BY WorksCounts
<1>5. CASE Import(p)
  <2>1. UNCHANGED <<md, mtime, content, model>> /\ step[p] = "import"
    BY <1>5 DEF Import, Importing
  <2>2. CASE NeedsImport
    <3>1. step'[p] = "imported"
      BY <1>1, <1>5, <2>2 DEF Import, Then
    <3>2. Fits(md)'
      <4>1. mtime = "stale" => ~Lapse
        BY <2>1, FirstFault, WorksAlone DEF PositionRest
      <4> QED  BY <1>1, <1>5, <2>1, <2>2, <4>1 DEF Import, Fits, Db
    <3> QED  BY <1>2, <2>1, <3>1, <3>2 DEF PositionKept, Holds
  <2>3. CASE ~NeedsImport
    <3>1. step'[p] = "load" /\ UNCHANGED <<db, faults>>
      BY <1>1, <1>2, <1>5, <2>3 DEF Import, Then, AfterImport, NoFault, failures
    <3>2. Fits(md)' /\ (troubles' = 0 => mtime' = "fresh")
      BY <1>1, <1>4, <2>1, <2>3, <3>1, WorksAlone DEF NeedsImport, PositionRest, Fits
    <3> QED  BY <1>2, <2>1, <3>1, <3>2 DEF PositionKept, Holds
  <2> QED  BY <2>2, <2>3
<1>6. CASE StampImport(p)
  <2>1. step'[p] = "load" /\ UNCHANGED <<md, db>> /\ step[p] = "imported"
    BY <1>1, <1>2, <1>6 DEF StampImport, Stamp, Then, AfterImport
  <2>2. mtime' = "fresh" \/ troubles' = 1
    BY <1>6, FirstFault DEF StampImport, Stamp
  <2> QED  BY <1>2, <2>1, <2>2 DEF PositionKept, Holds, Fits
<1>7. CASE LoadState(p)
  <2>1. /\ step[p] = "load" /\ step'[p] = "write" /\ UNCHANGED <<md, db, mtime, faults>>
        /\ content'[p] = md /\ model'[p] = Applied(Canonical, op[p])
    BY <1>1, <1>7 DEF LoadState, Locked, Then, docVars, bounds, failures
  <2>2. Fits(md) /\ Canonical.field = md.field
    BY <1>1, <1>2, <2>1 DEF PositionKept, Holds, Canonical, Fits
  <2>3. op[p].kind = "decision" => model'[p].field = md.field
    <3>1. Applied(Canonical, op[p]).field = Canonical.field \/ op[p].kind = "patch"
      BY DEF Applied, Canonical
    <3> QED  BY <2>1, <2>2, <3>1
  <2> QED  BY <1>2, <1>4, <2>1, <2>2, <2>3 DEF PositionKept, Holds, Fits
<1>8. CASE WriteState(p)
  <2>1. step[p] = "write" /\ UNCHANGED <<db, content, model>> /\ content[p] = md /\ Fits(md)
    BY <1>2, <1>8 DEF WriteState, Locked, PositionKept, Holds
  <2>2. CASE step'[p] = "persist" /\ WriteMd(model[p]) /\ NoFault
    BY <1>2, <1>4, <2>1, <2>2 DEF PositionKept, Holds, WriteMd, NoFault, failures, Fits
  <2>3. CASE step'[p] = "restore" /\ Fault /\ UNCHANGED <<md, mtime>>
    <3>1. troubles = 0 /\ troubles' = 1 /\ faults' = 1
      BY <2>3, FirstFault
    <3> QED  BY <1>2, <2>1, <2>3, <3>1 DEF PositionKept, Holds, Fits
  <2> QED  BY <1>1, <1>8, <2>2, <2>3 DEF WriteState, Then
<1>9. CASE PersistState(p)
  <2>1. step[p] = "persist" /\ UNCHANGED <<md, mtime, content, model>> /\ md = model[p] /\ Fits(content[p])
    BY <1>2, <1>9 DEF PersistState, Locked, PositionKept, Holds
  <2>2. CASE step'[p] = "stamp" /\ db' = [row |-> model[p].field, decs |-> model[p].decs]
    BY <1>2, <2>1, <2>2 DEF PositionKept, Holds, Fits
  <2>3. CASE step'[p] = "restore" /\ Fault /\ UNCHANGED db
    <3>1. troubles = 0 /\ troubles' = 1 /\ faults' = 1
      BY <2>3, FirstFault
    <3> QED  BY <1>2, <2>1, <2>3, <3>1 DEF PositionKept, Holds, Fits
  <2> QED  BY <1>1, <1>9, <2>2, <2>3 DEF PersistState, Then
<1>10. CASE StampState(p) \/ RestampState(p)
  <2>1. step[p] \in {"stamp", "restamp"} /\ step'[p] \in {"done", "failed"} /\ UNCHANGED <<md, db>>
    BY <1>1, <1>10 DEF StampState, RestampState, Locked, Then, Stamp
  <2>2. mtime' = "fresh" \/ (troubles' = 1 /\ wipes' = 0)
    BY <1>10, FirstFault DEF StampState, RestampState, Stamp
  <2> QED  BY <1>2, <2>1, <2>2 DEF PositionKept, Holds, Fits
<1>11. CASE RestoreState(p)
  <2>1. step[p] = "restore" /\ UNCHANGED <<db, content>> /\ faults = 1 /\ Fits(content[p])
    BY <1>2, <1>11 DEF RestoreState, Locked, PositionKept, Holds
  <2>2. step'[p] = "restamp" /\ WriteMd(content[p])
    BY <1>1, <1>3, <1>11, <2>1 DEF RestoreState, Then, Fault, Fails
  <2> QED  BY <1>2, <2>1, <2>2 DEF PositionKept, Holds, WriteMd, Fits
<1> QED  BY <1>5, <1>6, <1>7, <1>8, <1>9, <1>10, <1>11 DEF Works, LockedStep

LEMMA PositionStep ==
  ASSUME Kinds \subseteq LockedKinds, LockedInv, PositionInv, [SessionNext]_sessionVars
  PROVE  PositionInv'
<1> DEFINE Goal == (Resting' => PositionRest') /\ \A p \in Procs : PositionKept(p)'
<1> SUFFICES ASSUME ~robbed', edits' = 0, troubles' <= 1
             PROVE  Goal
  BY DEF PositionInv
<1>1. /\ edits = 0 /\ troubles \in {0, 1} /\ troubles' \in {0, 1}
      /\ troubles' = 0 => troubles = 0
      /\ troubles' = troubles \/ troubles = 1 => UNCHANGED <<crashes, wipes>>
      /\ troubles = 0 => faults = 0 /\ crashes = 0
      /\ wipes # 0 => crashes = 0 /\ troubles = 1
      /\ crashes \in Nat /\ wipes \in Nat
  BY CountsGrow DEF LockedInv
<1>2. (Resting => PositionRest) /\ \A p \in Procs : PositionKept(p)
  BY <1>1, LockedCases DEF PositionInv
<1>3. ASSUME NEW p \in Procs, Works(p) PROVE Goal
  <2>1. step'[p] # "import" /\ PositionKept(p)'
    BY <1>2, <1>3, PositionWorks
  <2>2. ~Resting' /\ \A q \in Procs : pc'[q] = "held" => q = p
    BY <1>3, <2>1, WorksAlone
  <2> QED  BY <2>1, <2>2 DEF PositionKept, Holds
<1>4. ASSUME NEW p \in Procs, Leaves(p) PROVE Goal
  <2>1. UNCHANGED <<md, db, mtime>> /\ pc[p] = "held" /\ \A q \in Procs : pc'[q] # "held"
    BY <1>4 DEF Leaves, FinishState, Die, docVars
  <2>2. CASE FinishState(p)
    <3>1. step[p] \in {"done", "failed"} /\ UNCHANGED <<faults, edits, wipes, crashes>>
      BY <2>2 DEF FinishState, bounds, failures, pluginVars, Release
    <3>2. UNCHANGED troubles
      BY <3>1 DEF troubles
    <3> QED  BY <1>2, <2>1, <3>1, <3>2 DEF PositionKept, PositionRest, Holds, Fits
  <2>3. CASE Die(p)
    <3>1. troubles = 0 /\ troubles' = 1 /\ wipes' = 0
      <4>1. crashes' = crashes + 1 /\ UNCHANGED wipes
        BY <2>1, <2>3 DEF Die, Crash, pluginVars
      <4> QED  BY <1>1, <4>1
    <3>2. step[p] \in (LockedSteps \cup SharedSteps) \ {"none"} /\ mtime \in {"missing", "fresh", "stale"}
      BY <2>1 DEF LockedInv, LockedOnly, SessionInv, SessionTypeOK
    <3>3. CASE step[p] = "import"
      BY <1>2, <1>4, <2>1, <3>1, <3>3 DEF PositionKept, PositionRest, Holds, Resting, Leaves, Fits
    <3>4. CASE step[p] # "import"
      BY <1>1, <1>2, <2>1, <3>1, <3>2, <3>4 DEF PositionKept, PositionRest, Holds, Fits
    <3> QED  BY <3>3, <3>4
  <2> QED  BY <1>4, <2>2, <2>3 DEF Leaves
<1>5. CASE Elsewhere
  <2>1. UNCHANGED <<md, db, mtime, content, model, faults>> /\ (Resting' => Resting)
    BY <1>5 DEF Elsewhere, docVars, failures
  <2>2. Resting' => PositionRest'
    BY <1>1, <1>2, <2>1 DEF PositionRest, Fits
  <2>3. ASSUME NEW q \in Procs PROVE PositionKept(q)'
    <3>1. Holds(q, LockedSteps \cup {"imported"})' =>
            Holds(q, LockedSteps \cup {"imported"}) /\ step'[q] = step[q] /\ op'[q] = op[q]
      BY <1>5 DEF Elsewhere, Holds
    <3> QED  BY <1>1, <1>2, <2>1, <3>1 DEF PositionKept, Holds, Fits
  <2> QED  BY <2>2, <2>3
<1>6. ASSUME Beside, UNCHANGED <<lockVars, procVars>> PROVE Goal
  <2>1. UNCHANGED <<pc, crashes, step, op, content, model>> /\ ~UserEdits /\ UNCHANGED md
    BY <1>6, BesideCounts DEF lockVars, procVars, Beside, InvalidateState, InvalidateDecisions,
                              ClearForCwd
  <2>4. ~Lapse
    <3>1. wipes' # 0
      BY <1>6, <2>1, BesideCounts
    <3> QED  BY <3>1, FirstFault
  <2>5. UNCHANGED faults
    BY <1>6, <2>1, <2>4 DEF Beside, InvalidateState, InvalidateDecisions, ClearForCwd, NoFault, failures
  <2>2. CASE InvalidateState
    <3>1. UNCHANGED mtime /\ db'.row = None /\ troubles = 0 /\ troubles' = 1
      <4>1. wipes' # wipes
        BY <1>1, <2>2 DEF InvalidateState
      <4>2. db \in Db
        BY DEF LockedInv, SessionInv, SessionTypeOK
      <4> QED  BY <1>1, <2>2, <2>4, <4>1, <4>2 DEF InvalidateState, Db
    <3>2. Resting' => Resting
      BY <2>1 DEF Resting
    <3> QED  BY <1>1, <1>2, <2>1, <2>5, <3>1, <3>2 DEF PositionKept, PositionRest, Holds, Fits
  <2>3. CASE InvalidateDecisions \/ ClearForCwd
    <3>1. /\ wipes # 0 /\ UNCHANGED wipes /\ db'.row = db.row
          /\ mtime' \in {mtime, "missing"} /\ (InvalidateDecisions => UNCHANGED mtime)
      <4>1. db \in Db
        BY DEF LockedInv, SessionInv, SessionTypeOK
      <4> QED  BY <2>3, <4>1 DEF InvalidateDecisions, ClearForCwd, pluginVars, LockedInv, Db
    <3>2. troubles = 1 /\ troubles' = 1 /\ crashes = 0
      BY <1>1, <3>1
    <3>3. Resting' => Resting
      BY <2>1 DEF Resting
    <3> QED  BY <1>1, <1>2, <2>1, <2>5, <3>1, <3>2, <3>3 DEF PositionKept, PositionRest, Holds, Fits
  <2> QED  BY <1>6, <2>1, <2>2, <2>3 DEF Beside
<1> QED  BY <1>3, <1>4, <1>5, <1>6, LockedCases

\* state:add-decision leaves the position alone, whatever number of commands mutate
\* under the lock and whichever one thing goes wrong, the plugin's invalidations
\* included: what the row would say instead was imported before
\* (_checkAndReimportState, src/commands/state.js:48).
THEOREM SessionKeepsPosition ==
  ASSUME Kinds \subseteq LockedKinds
  PROVE  SessionSpec => DecisionKeepsPosition
<1>1. SessionInit => LockedInv /\ PositionInv
  <2> SUFFICES ASSUME SessionInit PROVE PositionInv
    BY LockedInitially
  <2>1. PositionRest /\ \A p \in Procs : PositionKept(p)
    BY DEF SessionInit, LockInit, PositionRest, PositionKept, Holds, Fits
  <2> QED  BY <2>1 DEF PositionInv
<1>2. LockedInv /\ PositionInv /\ [SessionNext]_sessionVars => (LockedInv /\ PositionInv)'
  BY LockedKeeps, PositionStep
<1>3. ASSUME LockedInv, PositionInv, NEW p \in Procs, WriteState(p), step'[p] = "persist",
             op[p].kind = "decision", edits = 0, ~robbed, troubles <= 1
      PROVE  md'.field = content[p].field
  <2>1. Holds(p, {"write"}) /\ PositionKept(p)
    BY <1>3 DEF WriteState, Locked, Holds, PositionInv
  <2>2. md' = model[p]
    BY <1>3 DEF WriteState, WriteMd, Then, LockedInv, SessionInv, SessionTypeOK
  <2> QED  BY <1>3, <2>1, <2>2 DEF PositionKept
<1>4. LockedInv /\ PositionInv /\ [SessionNext]_sessionVars =>
        [\A p \in Procs :
           WriteState(p) /\ step'[p] = "persist" /\ op[p].kind = "decision"
             /\ edits = 0 /\ ~robbed /\ troubles <= 1
             => md'.field = content[p].field]_sessionVars
  BY <1>3
<1> QED  BY <1>1, <1>2, <1>4, PTL DEF SessionSpec, DecisionKeepsPosition

-----------------------------------------------------------------------------
(* Decisions in sequences. *)

LEMMA ElementsTyped == ASSUME NEW s \in Seq(Decisions) PROVE ToSet(s) \subseteq Decisions /\ None \notin ToSet(s)
BY StateConstants DEF ToSet

LEMMA ElementsOfConcat ==
  ASSUME NEW s \in Seq(Decisions), NEW t \in Seq(Decisions)
  PROVE  ToSet(s \o t) = ToSet(s) \cup ToSet(t)
<1>1. ASSUME NEW e \in ToSet(s \o t) PROVE e \in ToSet(s) \cup ToSet(t)
  <2>1. PICK i \in 1..(Len(s) + Len(t)) : e = (s \o t)[i]
    BY DEF ToSet
  <2> QED  BY <2>1 DEF ToSet
<1>2. ASSUME NEW i \in 1..Len(s) PROVE s[i] \in ToSet(s \o t)
  <2>1. i \in 1..Len(s \o t) /\ (s \o t)[i] = s[i]
    OBVIOUS
  <2> QED  BY <2>1 DEF ToSet
<1>3. ASSUME NEW i \in 1..Len(t) PROVE t[i] \in ToSet(s \o t)
  <2>1. i + Len(s) \in 1..Len(s \o t) /\ (s \o t)[i + Len(s)] = t[i]
    OBVIOUS
  <2> QED  BY <2>1 DEF ToSet
<1>4. ToSet(s) \subseteq ToSet(s \o t)
  BY <1>2 DEF ToSet
<1>5. ToSet(t) \subseteq ToSet(s \o t)
  BY <1>3 DEF ToSet
<1> QED  BY <1>1, <1>4, <1>5

LEMMA ElementsOfAppend ==
  ASSUME NEW s \in Seq(Decisions), NEW d \in Decisions
  PROVE  ToSet(Append(s, d)) = ToSet(s) \cup {d} /\ Append(s, d) \in Seq(Decisions)
<1>1. ASSUME NEW e \in ToSet(Append(s, d)) PROVE e \in ToSet(s) \cup {d}
  <2>1. PICK i \in 1..(Len(s) + 1) : e = Append(s, d)[i]
    BY DEF ToSet
  <2> QED  BY <2>1 DEF ToSet
<1>2. ASSUME NEW i \in 1..Len(s) PROVE s[i] \in ToSet(Append(s, d))
  <2>1. i \in 1..Len(Append(s, d)) /\ Append(s, d)[i] = s[i]
    OBVIOUS
  <2> QED  BY <2>1 DEF ToSet
<1>3. d \in ToSet(Append(s, d))
  <2>1. Len(s) + 1 \in 1..Len(Append(s, d)) /\ Append(s, d)[Len(s) + 1] = d
    OBVIOUS
  <2> QED  BY <2>1 DEF ToSet
<1> QED  BY <1>1, <1>2, <1>3 DEF ToSet

LEMMA InjectiveAppend ==
  ASSUME NEW s \in Seq(Decisions), NEW d \in Decisions, IsInjective(s), d \notin ToSet(s)
  PROVE  IsInjective(Append(s, d))
<1> SUFFICES ASSUME NEW i \in 1..(Len(s) + 1), NEW j \in 1..(Len(s) + 1), Append(s, d)[i] = Append(s, d)[j]
             PROVE  i = j
  BY DEF IsInjective
<1>1. \A k \in 1..Len(s) : s[k] # d
  BY DEF ToSet
<1>2. \A k, l \in 1..Len(s) : s[k] = s[l] => k = l
  BY DEF IsInjective
<1> QED  BY <1>1, <1>2

LEMMA LastOfRows ==
  ASSUME NEW s \in Seq(Decisions)
  PROVE  /\ LastDecs(s) \in Seq(Decisions) /\ ToSet(LastDecs(s)) \subseteq ToSet(s)
         /\ Len(s) <= Limit => LastDecs(s) = s
         /\ IsInjective(s) => IsInjective(LastDecs(s))
<1> DEFINE first == 1 + (IF Len(s) > Limit THEN Len(s) - Limit ELSE 0)
<1>1. Len(s) \in Nat /\ Limit \in Nat \ {0}
  BY StateConstants
<1>2. first \in Nat /\ first >= 1 /\ first <= Len(s) + 1 /\ (Len(s) <= Limit => first = 1)
  BY <1>1
<1>3. LastDecs(s) = SubSeq(s, first, Len(s))
  BY DEF LastDecs
<1> HIDE DEF first
<1>4. LastDecs(s) \in Seq(Decisions) /\ Len(LastDecs(s)) = Len(s) - first + 1
  BY <1>1, <1>2, <1>3
<1>5. \A i \in 1..Len(LastDecs(s)) : first + i - 1 \in 1..Len(s) /\ LastDecs(s)[i] = s[first + i - 1]
  BY <1>1, <1>2, <1>3, <1>4
<1>6. ToSet(LastDecs(s)) \subseteq ToSet(s)
  BY <1>4, <1>5 DEF ToSet
<1>7. Len(s) <= Limit => LastDecs(s) = s
  BY <1>1, <1>2, <1>3
<1>8. IsInjective(s) => IsInjective(LastDecs(s))
  <2> SUFFICES ASSUME IsInjective(s), NEW i \in 1..Len(LastDecs(s)), NEW j \in 1..Len(LastDecs(s)),
                      LastDecs(s)[i] = LastDecs(s)[j]
               PROVE  i = j
    BY <1>4 DEF IsInjective
  <2>1. s[first + i - 1] = s[first + j - 1]
    BY <1>5
  <2>2. first + i - 1 = first + j - 1
    BY <1>5, <2>1 DEF IsInjective
  <2> QED  BY <1>2, <1>4, <2>2
<1> QED  BY <1>4, <1>6, <1>7, <1>8

LEMMA ElementsOfRemoveAt ==
  ASSUME NEW s \in Seq(Decisions), NEW i \in 1..Len(s)
  PROVE  ToSet(s) \ {s[i]} \subseteq ToSet(RemoveAt(s, i))
<1> DEFINE t == RemoveAt(s, i)
<1>1. Len(s) \in Nat
  OBVIOUS
<1>2. /\ SubSeq(s, 1, i - 1) \in Seq(Decisions) /\ Len(SubSeq(s, 1, i - 1)) = i - 1
      /\ \A j \in 1..(i - 1) : SubSeq(s, 1, i - 1)[j] = s[j]
  BY <1>1
<1>3. /\ SubSeq(s, i + 1, Len(s)) \in Seq(Decisions) /\ Len(SubSeq(s, i + 1, Len(s))) = Len(s) - i
      /\ \A j \in 1..(Len(s) - i) : SubSeq(s, i + 1, Len(s))[j] = s[j + i]
  BY <1>1
<1>4. ToSet(t) = ToSet(SubSeq(s, 1, i - 1)) \cup ToSet(SubSeq(s, i + 1, Len(s)))
  BY <1>2, <1>3, ElementsOfConcat DEF RemoveAt
<1>5. ASSUME NEW j \in 1..Len(s), s[j] # s[i] PROVE s[j] \in ToSet(t)
  <2>1. CASE j < i
    <3>1. j \in 1..(i - 1) /\ j \in DOMAIN SubSeq(s, 1, i - 1)
      BY <1>1, <1>2, <2>1
    <3>2. s[j] \in ToSet(SubSeq(s, 1, i - 1))
      BY <1>2, <3>1 DEF ToSet
    <3> QED  BY <1>4, <3>2
  <2>2. CASE j > i
    <3>1. j - i \in 1..(Len(s) - i) /\ j - i \in DOMAIN SubSeq(s, i + 1, Len(s)) /\ (j - i) + i = j
      BY <1>1, <1>3, <2>2
    <3>2. s[j] \in ToSet(SubSeq(s, i + 1, Len(s)))
      BY <1>3, <3>1 DEF ToSet
    <3> QED  BY <1>4, <3>2
  <2> QED  BY <1>1, <1>5, <2>1, <2>2
<1> QED  BY <1>5 DEF ToSet

-----------------------------------------------------------------------------
\* The canonical model has room for every row.
RowsFit == Len(db.decs) <= Limit

Elements(doc) == ToSet(doc.decs)

\* The rows are never ahead of STATE.md, and until a write fails no operation finds its
\* own decision there; so what it takes back is what it read.
RestoreRest ==
  /\ Elements(db) \subseteq Elements(md)
  /\ faults = 0 =>
       \A p \in Procs : step[p] \in {"import", "imported", "load"} => op[p].dec \notin Elements(md)

RestoreKept(p) ==
  /\ Holds(p, {"write", "persist"}) =>
       /\ Elements(db) \subseteq Elements(model[p])
       /\ Elements(model[p]) \subseteq Elements(content[p]) \cup {op[p].dec}
  /\ Holds(p, {"write"}) => md = content[p]
  /\ Holds(p, {"persist"}) => md = model[p]
  /\ Holds(p, {"write", "persist", "restore"}) => Elements(db) \subseteq Elements(content[p])
  /\ Holds(p, {"write", "persist"}) /\ faults = 0 => op[p].dec \notin Elements(content[p])
  /\ Holds(p, {"restore"}) => faults = 1
  /\ Holds(p, {"restore", "restamp", "failed"}) => op[p].dec \notin Elements(content[p])
  /\ Holds(p, {"restamp", "failed"}) => md = content[p]

RestoreInv ==
  ~robbed /\ edits = 0 /\ faults <= 1 => RestoreRest /\ \A p \in Procs : RestoreKept(p)

LEMMA RestoreWorks ==
  ASSUME LockedInv, [SessionNext]_sessionVars, RowsFit, NEW p \in Procs, Works(p), edits' = 0,
         faults' <= 1, RestoreKept(p), RestoreRest
  PROVE  RestoreRest' /\ RestoreKept(p)'
<1>1. /\ step \in [Procs -> Steps] /\ content \in [Procs -> Doc] /\ model \in [Procs -> Doc]
      /\ md \in Doc /\ db \in Db /\ None \notin Decisions
      /\ \A q \in Procs : LockedOnly(q) /\ op[q].dec \in Decisions \cup {None}
      /\ op[p].kind \in {"decision"} => op[p].dec \in Decisions
  BY StateConstants DEF LockedInv, SessionInv, SessionTypeOK, Steps, Apt
<1>2. /\ pc[p] = "held" /\ pc'[p] = "held" /\ op' = op
      /\ \A q \in Procs \ {p} : step'[q] = step[q]
  BY DEF Works
<1>3. faults \in {0, 1} /\ faults' \in {faults, faults + 1}
  <2>1. faults \in Nat /\ faults' \in {faults, faults + 1}
    BY CountsGrow DEF LockedInv
  <2> QED  BY <2>1
<1>4. \A doc \in Doc : doc.decs \in Seq(Decisions) /\ None \notin Elements(doc)
  BY ElementsTyped DEF Doc, Elements
\* As long as STATE.md stays what it is, so does what it does not contain.
<1>5. ASSUME UNCHANGED md, Elements(db') \subseteq Elements(md), UNCHANGED faults \/ faults' # 0,
             step'[p] \in {"import", "imported", "load"} => step[p] \in {"import", "imported", "load"}
      PROVE  RestoreRest'
  BY <1>2, <1>5 DEF RestoreRest, Elements
<1>14. Stamp => UNCHANGED faults \/ faults' # 0
  BY <1>3 DEF Stamp, NoFault, failures, Lapse, Fails
<1>6. CASE Import(p)
  <2>1. UNCHANGED <<md, content, model>> /\ step[p] = "import" /\ step'[p] \in {"imported", "load"}
    BY <1>1, <1>2, <1>6 DEF Import, Importing, Then, AfterImport
  <2>2. db'.decs = db.decs \/ db'.decs = db.decs \o md.decs
    BY <1>1, <1>6 DEF Import, Db
  <2>3. Elements(db') \subseteq Elements(md)
    <3>1. db.decs \in Seq(Decisions) /\ md.decs \in Seq(Decisions)
      BY <1>1 DEF Doc, Db
    <3>2. ToSet(db.decs \o md.decs) = ToSet(db.decs) \cup ToSet(md.decs)
      BY <3>1, ElementsOfConcat
    <3> QED  BY <2>2, <3>2 DEF Elements, RestoreRest
  <2>4. RestoreRest'
    BY <1>3, <1>5, <2>1, <2>3
  <2> QED  BY <1>2, <2>1, <2>4 DEF RestoreKept, Holds
<1>7. CASE StampImport(p)
  <2>1. step'[p] = "load" /\ UNCHANGED <<md, db>> /\ step[p] = "imported"
    BY <1>1, <1>2, <1>7 DEF StampImport, Stamp, Then, AfterImport
  <2>2. RestoreRest'
    BY <1>5, <1>14, <1>7, <2>1 DEF RestoreRest, StampImport
  <2> QED  BY <1>2, <2>1, <2>2 DEF RestoreKept, Holds
<1>8. CASE LoadState(p)
  <2>1. /\ step[p] = "load" /\ step'[p] = "write" /\ UNCHANGED <<md, db, faults>>
        /\ content'[p] = md /\ model'[p] = Applied(Canonical, op[p])
    BY <1>1, <1>8 DEF LoadState, Locked, Then, docVars, bounds, failures
  <2>2. Canonical.decs = db.decs /\ db.decs \in Seq(Decisions)
    <3>1. db.decs \in Seq(Decisions)
      BY <1>1 DEF Db
    <3> QED  BY <3>1, LastOfRows DEF RowsFit, Canonical
  <2>3. Elements(model'[p]) = Elements(db) \cup ({op[p].dec} \ {None})
    <3>1. CASE op[p].kind = "patch"
      <4>1. model'[p].decs = db.decs
        BY <2>1, <2>2, <3>1 DEF Applied, Canonical
      <4>2. op[p].dec = None
        BY <1>1, <3>1 DEF LockedOnly
      <4> QED  BY <4>1, <4>2 DEF Elements
    <3>2. CASE op[p].kind # "patch"
      <4>1. op[p].kind = "decision" /\ op[p].dec \in Decisions
        BY <1>1, <1>2, <2>1, <3>2 DEF LockedOnly, LockedInv, SessionInv, Apt, LockedOnes, LockedKinds
      <4>2. model'[p].decs = Append(db.decs, op[p].dec)
        BY <2>1, <2>2, <3>2 DEF Applied, Canonical
      <4> QED  BY <1>1, <2>2, <4>1, <4>2, ElementsOfAppend DEF Elements
    <3> QED  BY <3>1, <3>2
  <2>4. Elements(db) \subseteq Elements(md) /\ (faults = 0 => op[p].dec \notin Elements(md))
    BY <2>1 DEF RestoreRest
  <2>5. RestoreRest'
    BY <1>5, <2>1, <2>4
  <2> QED  BY <1>2, <2>1, <2>3, <2>4, <2>5 DEF RestoreKept, Holds
<1>9. CASE WriteState(p)
  <2>1. step[p] = "write" /\ UNCHANGED <<db, content, model>> /\ content[p] = md
    BY <1>2, <1>9 DEF WriteState, Locked, RestoreKept, Holds
  <2>2. CASE step'[p] = "persist" /\ WriteMd(model[p]) /\ NoFault
    <3>1. md' = model[p] /\ UNCHANGED faults
      BY <2>2 DEF WriteMd, NoFault, failures
    <3>2. ASSUME NEW q \in Procs, step'[q] \in {"import", "imported", "load"}, faults' = 0
          PROVE  op'[q].dec \notin Elements(md')
      <4>1. q # p /\ step[q] = step'[q] /\ op[q].dec \notin Elements(md)
        BY <1>2, <2>2, <3>1, <3>2 DEF RestoreRest
      <4>2. op[q].dec = op[p].dec => op[q].dec = None
        BY <1>1, <4>1 DEF LockedOnly
      <4>3. None \notin Elements(model[p])
        BY <1>1, <1>4
      <4> QED  BY <1>2, <2>1, <3>1, <4>1, <4>2, <4>3 DEF RestoreKept, Holds
    <3>3. RestoreRest'
      BY <1>2, <2>1, <3>1, <3>2 DEF RestoreRest, RestoreKept, Holds
    <3> QED  BY <1>2, <2>1, <2>2, <3>1, <3>3 DEF RestoreKept, Holds
  <2>3. CASE step'[p] = "restore" /\ Fault /\ UNCHANGED <<md, mtime>>
    <3>1. faults = 0 /\ faults' = 1
      BY <1>3, <2>3 DEF Fault, Fails
    <3>2. RestoreRest'
      BY <2>1, <2>3, <3>1 DEF RestoreRest
    <3> QED  BY <1>2, <2>1, <2>3, <3>1, <3>2 DEF RestoreKept, Holds
  <2> QED  BY <1>1, <1>9, <2>2, <2>3 DEF WriteState, Then
<1>10. CASE PersistState(p)
  <2>1. step[p] = "persist" /\ UNCHANGED <<md, content, model>> /\ md = model[p]
    BY <1>2, <1>10 DEF PersistState, Locked, RestoreKept, Holds
  <2>2. CASE step'[p] = "stamp" /\ db' = [row |-> model[p].field, decs |-> model[p].decs] /\ NoFault
    <3>1. Elements(db') = Elements(md)
      BY <2>1, <2>2 DEF Elements
    <3>2. RestoreRest'
      BY <1>5, <2>1, <2>2, <3>1 DEF NoFault, failures
    <3> QED  BY <1>2, <2>1, <2>2, <3>2 DEF RestoreKept, Holds
  <2>3. CASE step'[p] = "restore" /\ Fault /\ UNCHANGED db
    <3>1. faults = 0 /\ faults' = 1
      BY <1>3, <2>3 DEF Fault, Fails
    <3>2. RestoreRest'
      BY <2>1, <2>3, <3>1 DEF RestoreRest
    <3> QED  BY <1>2, <2>1, <2>3, <3>1, <3>2 DEF RestoreKept, Holds
  <2> QED  BY <1>1, <1>10, <2>2, <2>3 DEF PersistState, Then
<1>11. CASE StampState(p)
  <2>1. step[p] = "stamp" /\ step'[p] = "done" /\ UNCHANGED <<md, db>>
    BY <1>1, <1>11 DEF StampState, Locked, Then, Stamp
  <2>2. RestoreRest'
    BY <1>5, <1>11, <1>14, <2>1 DEF RestoreRest, StampState
  <2> QED  BY <1>2, <2>1, <2>2 DEF RestoreKept, Holds
<1>12. CASE RestampState(p)
  <2>1. step[p] = "restamp" /\ step'[p] = "failed" /\ UNCHANGED <<md, db, content>>
    BY <1>1, <1>12 DEF RestampState, Locked, Then, Stamp
  <2>2. RestoreRest'
    BY <1>5, <1>12, <1>14, <2>1 DEF RestoreRest, RestampState
  <2> QED  BY <1>2, <2>1, <2>2 DEF RestoreKept, Holds
<1>13. CASE RestoreState(p)
  <2>1. step[p] = "restore" /\ UNCHANGED <<db, content>> /\ faults = 1
    BY <1>2, <1>13 DEF RestoreState, Locked, RestoreKept, Holds
  <2>2. step'[p] = "restamp" /\ md' = content[p] /\ UNCHANGED faults
    BY <1>1, <1>3, <1>13, <2>1 DEF RestoreState, Then, Fault, Fails, NoFault, failures, WriteMd
  <2>3. RestoreRest'
    BY <1>2, <2>1, <2>2 DEF RestoreRest, RestoreKept, Holds
  <2> QED  BY <1>2, <2>1, <2>2, <2>3 DEF RestoreKept, Holds
<1> QED  BY <1>6, <1>7, <1>8, <1>9, <1>10, <1>11, <1>12, <1>13 DEF Works, LockedStep

LEMMA RestoreStep ==
  ASSUME Kinds \subseteq LockedKinds, LockedInv, RestoreInv, RowsFit, [SessionNext]_sessionVars
  PROVE  RestoreInv'
<1> DEFINE Goal == RestoreRest' /\ \A p \in Procs : RestoreKept(p)'
<1> SUFFICES ASSUME ~robbed', edits' = 0, faults' <= 1
             PROVE  Goal
  BY DEF RestoreInv
<1>1. edits = 0 /\ faults \in {0, 1} /\ (faults' = 0 => faults = 0)
  <2>1. edits \in Nat /\ faults \in Nat /\ edits' \in {edits, edits + 1} /\ faults' \in {faults, faults + 1}
    BY CountsGrow DEF LockedInv
  <2> QED  BY <2>1
<1>2. RestoreRest /\ \A p \in Procs : RestoreKept(p)
  BY <1>1, LockedCases DEF RestoreInv
<1>3. ASSUME NEW p \in Procs, Works(p) PROVE Goal
  <2>1. RestoreRest' /\ RestoreKept(p)'
    BY <1>2, <1>3, RestoreWorks
  <2>2. \A q \in Procs : pc'[q] = "held" => q = p
    BY <1>3, WorksAlone
  <2> QED  BY <2>1, <2>2 DEF RestoreKept, Holds
<1>4. ASSUME NEW p \in Procs, Leaves(p) PROVE Goal
  <2>1. UNCHANGED <<md, db, op, faults>> /\ \A q \in Procs : pc'[q] # "held"
    BY <1>4 DEF Leaves, FinishState, Die, docVars, bounds, failures
  <2>2. \A q \in Procs : step'[q] \in {step[q], "none"}
    BY <1>4 DEF Leaves
  <2> QED  BY <1>2, <2>1, <2>2 DEF RestoreRest, RestoreKept, Holds
<1>5. CASE Elsewhere
  <2>1. UNCHANGED <<md, db, content, model, faults>>
    BY <1>5 DEF Elsewhere, docVars, failures
  <2>2. ASSUME NEW q \in Procs, step'[q] \in {"import", "imported", "load"}, faults = 0
        PROVE  op'[q].dec \notin Elements(md)
    BY <1>2, <1>5, <2>2 DEF Elsewhere, RestoreRest, Elements
  <2>3. ASSUME NEW q \in Procs PROVE RestoreKept(q)'
    <3>1. Holds(q, LockedSteps \cup {"imported"})' =>
            Holds(q, LockedSteps \cup {"imported"}) /\ step'[q] = step[q] /\ op'[q] = op[q]
      BY <1>5 DEF Elsewhere, Holds
    <3> QED  BY <1>2, <2>1, <3>1 DEF RestoreKept, Holds
  <2> QED  BY <1>2, <2>1, <2>2, <2>3 DEF RestoreRest
<1>6. ASSUME Beside, UNCHANGED <<lockVars, procVars>> PROVE Goal
  <2>1. UNCHANGED <<pc, step, op, content, model>> /\ ~UserEdits /\ UNCHANGED md
    BY <1>6, BesideCounts DEF lockVars, procVars, Beside, InvalidateState, InvalidateDecisions,
                              ClearForCwd
  <2>3. UNCHANGED faults \/ faults' = faults + 1
    BY StepFails DEF NoFault, failures, Fault, Lapse, Fails
  <2>2. Elements(db') \subseteq Elements(db)
    <3>1. db \in Db
      BY DEF LockedInv, SessionInv, SessionTypeOK
    <3>2. db'.decs \in {db.decs, <<>>}
      BY <1>6, <2>1, <3>1 DEF Beside, InvalidateState, InvalidateDecisions, ClearForCwd, Db
    <3>3. ToSet(<<>>) = {}
      BY DEF ToSet
    <3> QED  BY <3>2, <3>3 DEF Elements
  <2> QED  BY <1>1, <1>2, <2>1, <2>2, <2>3 DEF RestoreRest, RestoreKept, Holds
<1> QED  BY <1>3, <1>4, <1>5, <1>6, LockedCases

\* A mutation that fails leaves STATE.md as it read it and its decision in neither copy
\* (the catch block, src/lib/state-session-mutator.js:421-428), as long as the canonical
\* model has room for all the rows: STATE.md loses the others, and an operation may then
\* name again a decision that is still a row.
THEOREM SessionFailureRestores ==
  ASSUME Kinds \subseteq LockedKinds
  PROVE  SessionSpec /\ []RowsFit => FailureRestores
<1>1. SessionInit => LockedInv /\ RestoreInv
  <2> SUFFICES ASSUME SessionInit PROVE RestoreRest /\ \A p \in Procs : RestoreKept(p)
    BY LockedInitially DEF RestoreInv
  <2>1. \A p \in Procs : pc[p] = "idle" /\ step[p] = "none"
    BY DEF SessionInit, LockInit
  <2>2. Elements(db) = {}
    BY DEF SessionInit, Elements, ToSet
  <2> QED  BY <2>1, <2>2 DEF RestoreRest, RestoreKept, Holds
<1>2. LockedInv /\ RestoreInv /\ RowsFit /\ [SessionNext]_sessionVars => (LockedInv /\ RestoreInv)'
  BY LockedKeeps, RestoreStep
<1>3. ASSUME LockedInv, RestoreInv, NEW p \in Procs, FinishState(p), step[p] = "failed", faults <= 1,
             edits = 0, ~robbed
      PROVE  md = content[p] /\ op[p].dec \notin ToSet(md.decs) \cup ToSet(db.decs)
  <2>1. Holds(p, {"failed"}) /\ RestoreKept(p) /\ RestoreRest
    BY <1>3 DEF FinishState, Release, Holds, RestoreInv
  <2> QED  BY <2>1 DEF RestoreKept, RestoreRest, Holds, Elements
<1>4. LockedInv /\ RestoreInv /\ [SessionNext]_sessionVars =>
        [\A p \in Procs :
           FinishState(p) /\ step[p] = "failed" /\ faults <= 1 /\ edits = 0 /\ ~robbed
             => md = content[p] /\ op[p].dec \notin ToSet(md.decs) \cup ToSet(db.decs)]_sessionVars
  BY <1>3
<1> QED  BY <1>1, <1>2, <1>4, PTL DEF SessionSpec, FailureRestores

-----------------------------------------------------------------------------
\* Own decision of an operation, if it has one.
Own(p) == {op[p].dec} \ {None}

\* What STATE.md is owed is in it and, once there is a row, in SQLite; what the operation
\* under way is going to add has got as far as its step says.
KeptRest ==
  /\ expected \subseteq Elements(md)
  /\ IF db.row = None THEN mtime = "missing" ELSE expected \subseteq Elements(db)

KeptOn(p) ==
  /\ Holds(p, LockedSteps \cup {"imported"}) => db.row # None
  /\ Holds(p, {"write", "persist"}) => expected \cup Own(p) \subseteq Elements(model[p])
  /\ Holds(p, {"persist", "stamp", "done"}) => Own(p) \subseteq Elements(md)
  /\ Holds(p, {"stamp", "done"}) => Own(p) \subseteq Elements(db)
  /\ ~Holds(p, {"restore", "restamp", "failed"})

KeptInv ==
  ~robbed /\ wipes = 0 /\ faults = lapses => KeptRest /\ \A p \in Procs : KeptOn(p)

\* What an operation loads, and what it adds.
LEMMA LoadedDecisions ==
  ASSUME LockedInv, NEW p \in Procs, LoadState(p)
  PROVE  /\ ToSet(LastDecs(db.decs)) \cup Own(p) = Elements(model'[p])
         /\ op[p].dec \notin ToSet(LastDecs(db.decs)) /\ IsInjective(db.decs) => IsInjective(model'[p].decs)
         /\ content'[p] = md /\ UNCHANGED <<md, db, mtime, op>>
         /\ step[p] = "load" /\ step'[p] = "write"
<1>1. /\ step \in [Procs -> Steps] /\ content \in [Procs -> Doc] /\ model \in [Procs -> Doc]
      /\ db \in Db /\ LockedOnly(p) /\ Apt(pc[p], op[p], step[p]) /\ None \notin Decisions
  BY StateConstants DEF LockedInv, SessionInv, SessionTypeOK, Steps
<1>2. /\ step[p] = "load" /\ step'[p] = "write" /\ UNCHANGED <<md, db, mtime, op>> /\ pc[p] = "held"
      /\ content'[p] = md /\ model'[p] = Applied(Canonical, op[p])
  BY <1>1 DEF LoadState, Locked, Then, docVars
<1>3. /\ Canonical.decs = LastDecs(db.decs) /\ LastDecs(db.decs) \in Seq(Decisions)
      /\ IsInjective(db.decs) => IsInjective(LastDecs(db.decs))
  BY <1>1, LastOfRows DEF Canonical, Db
<1>4. CASE op[p].kind = "patch"
  <2>1. model'[p].decs = LastDecs(db.decs) /\ Own(p) = {}
    BY <1>1, <1>2, <1>3, <1>4 DEF Applied, Canonical, LockedOnly, Own
  <2> QED  BY <1>2, <1>3, <2>1 DEF Elements
<1>5. CASE op[p].kind # "patch"
  <2>1. op[p].kind = "decision" /\ op[p].dec \in Decisions /\ Own(p) = {op[p].dec}
    BY <1>1, <1>2, <1>5 DEF LockedOnly, Apt, LockedOnes, LockedKinds, Own
  <2>2. model'[p].decs = Append(LastDecs(db.decs), op[p].dec)
    BY <1>2, <1>3, <1>5 DEF Applied, Canonical
  <2> QED  BY <1>2, <1>3, <2>1, <2>2, ElementsOfAppend, InjectiveAppend DEF Elements
<1> QED  BY <1>4, <1>5

LEMMA KeptWorks ==
  ASSUME LockedInv, [SessionNext]_sessionVars, RowsFit, NEW p \in Procs, Works(p), ~Fault,
         KeptOn(p), KeptRest
  PROVE  KeptRest' /\ KeptOn(p)'
<1>1. /\ step \in [Procs -> Steps] /\ content \in [Procs -> Doc] /\ model \in [Procs -> Doc]
      /\ md \in Doc /\ db \in Db /\ None \notin Fields
  BY StateConstants DEF LockedInv, SessionInv, SessionTypeOK, Steps
<1>2. pc[p] = "held" /\ pc'[p] = "held" /\ op' = op /\ expected' = expected /\ Own(p)' = Own(p)
  BY WorksCounts DEF Works, Own
<1>4. CASE Import(p)
  <2>1. UNCHANGED <<md, mtime, content, model>> /\ step[p] = "import"
    BY <1>4 DEF Import, Importing
  <2>2. CASE NeedsImport
    <3>1. /\ step'[p] = "imported"
          /\ \/ db' = [row |-> md.field, decs |-> db.decs \o md.decs]
             \/ UNCHANGED db /\ db.row # None
      BY <1>1, <1>4, <2>2 DEF Import, Then
    <3>4. CASE UNCHANGED db /\ db.row # None
      BY <1>2, <2>1, <3>1, <3>4 DEF KeptRest, KeptOn, Holds
    <3>5. CASE db' = [row |-> md.field, decs |-> db.decs \o md.decs]
      <4>1. Elements(db') = Elements(db) \cup Elements(md)
        <5>1. db.decs \in Seq(Decisions) /\ md.decs \in Seq(Decisions)
          BY <1>1 DEF Doc, Db
        <5> QED  BY <3>5, <5>1, ElementsOfConcat DEF Elements
      <4>2. db'.row # None
        BY <1>1, <3>5 DEF Doc
      <4> QED  BY <1>2, <2>1, <3>1, <4>1, <4>2 DEF KeptRest, KeptOn, Holds
    <3> QED  BY <3>1, <3>4, <3>5
  <2>3. CASE ~NeedsImport
    <3>1. step'[p] = "load" /\ UNCHANGED db
      BY <1>1, <1>2, <1>4, <2>3 DEF Import, Then, AfterImport
    <3>2. db.row # None
      BY <2>3 DEF NeedsImport, KeptRest
    <3> QED  BY <1>2, <2>1, <3>1, <3>2 DEF KeptRest, KeptOn, Holds
  <2> QED  BY <2>2, <2>3
<1>5. CASE StampImport(p)
  <2>1. step'[p] = "load" /\ UNCHANGED <<md, db>> /\ step[p] = "imported"
    BY <1>1, <1>2, <1>5 DEF StampImport, Stamp, Then, AfterImport
  <2> QED  BY <1>2, <2>1 DEF KeptRest, KeptOn, Holds
<1>6. CASE LoadState(p)
  <2>1. db.decs \in Seq(Decisions)
    BY <1>1 DEF Db
  <2>2. Elements(model'[p]) = Elements(db) \cup Own(p) /\ UNCHANGED <<md, db, mtime>>
    BY <1>6, <2>1, LastOfRows, LoadedDecisions DEF RowsFit, Elements
  <2>3. step[p] = "load" /\ step'[p] = "write"
    BY <1>6, LoadedDecisions
  <2> QED  BY <1>2, <2>2, <2>3 DEF KeptRest, KeptOn, Holds
<1>7. CASE WriteState(p)
  <2>1. /\ step[p] = "write" /\ step'[p] = "persist" /\ UNCHANGED <<db, content, model>>
        /\ md' = model[p]
    BY <1>1, <1>7 DEF WriteState, Locked, Then, WriteMd
  <2> QED  BY <1>2, <2>1 DEF KeptRest, KeptOn, Holds
<1>8. CASE PersistState(p)
  <2>1. /\ step[p] = "persist" /\ step'[p] = "stamp" /\ UNCHANGED <<md, content, model>>
        /\ db' = [row |-> model[p].field, decs |-> model[p].decs]
    BY <1>1, <1>8 DEF PersistState, Locked, Then
  <2>2. Elements(db') = Elements(model[p]) /\ db'.row # None
    BY <1>1, <2>1 DEF Elements, Doc
  <2> QED  BY <1>2, <2>1, <2>2 DEF KeptRest, KeptOn, Holds
<1>9. CASE StampState(p)
  <2>1. step[p] = "stamp" /\ step'[p] = "done" /\ UNCHANGED <<md, db>>
    BY <1>1, <1>9 DEF StampState, Locked, Then, Stamp
  <2> QED  BY <1>2, <2>1 DEF KeptRest, KeptOn, Holds
<1>10. CASE RestoreState(p) \/ RestampState(p)
  BY <1>10 DEF RestoreState, RestampState, Locked, KeptOn, Holds
<1> QED  BY <1>4, <1>5, <1>6, <1>7, <1>8, <1>9, <1>10 DEF Works, LockedStep

LEMMA KeptStep ==
  ASSUME Kinds \subseteq LockedKinds, LockedInv, KeptInv, RowsFit, [SessionNext]_sessionVars
  PROVE  KeptInv'
<1> DEFINE Goal == KeptRest' /\ \A p \in Procs : KeptOn(p)'
<1> SUFFICES ASSUME ~robbed', wipes' = 0, faults' = lapses'
             PROVE  Goal
  BY DEF KeptInv
<1>1. wipes = 0 /\ faults = lapses /\ ~Fault
  <2>1. wipes \in Nat /\ faults \in Nat /\ lapses \in Nat /\ lapses <= faults /\ wipes' \in {wipes, wipes + 1}
    BY CountsGrow DEF LockedInv
  <2>2. NoFault \/ Fault \/ Lapse
    BY StepFails
  <2> QED  BY <2>1, <2>2 DEF NoFault, failures, Fault, Lapse, Fails
<1>2. KeptRest /\ \A p \in Procs : KeptOn(p)
  BY <1>1, LockedCases DEF KeptInv
<1>3. ASSUME NEW p \in Procs, Works(p) PROVE Goal
  <2>1. KeptRest' /\ KeptOn(p)'
    BY <1>1, <1>2, <1>3, KeptWorks
  <2>2. \A q \in Procs : pc'[q] = "held" => q = p
    BY <1>3, WorksAlone
  <2> QED  BY <2>1, <2>2 DEF KeptOn, Holds
<1>4. ASSUME NEW p \in Procs, Leaves(p) PROVE Goal
  <2>1. UNCHANGED <<md, db, mtime>> /\ \A q \in Procs : pc'[q] # "held"
    BY <1>4 DEF Leaves, FinishState, Die, docVars
  <2>2. expected' = expected \/ (expected' = expected \cup Own(p) /\ Holds(p, {"done"}))
    BY <1>4 DEF Leaves, FinishState, Release, Die, Holds, Own
  <2> QED  BY <1>2, <2>1, <2>2 DEF KeptRest, KeptOn, Holds
<1>5. CASE Elsewhere
  <2>1. UNCHANGED <<md, db, mtime, content, model, expected>>
    BY <1>5 DEF Elsewhere, docVars, failures
  <2>2. ASSUME NEW q \in Procs PROVE KeptOn(q)'
    <3>1. Holds(q, LockedSteps \cup {"imported"})' =>
            Holds(q, LockedSteps \cup {"imported"}) /\ step'[q] = step[q] /\ op'[q] = op[q]
      BY <1>5 DEF Elsewhere, Holds
    <3> QED  BY <1>2, <2>1, <3>1 DEF KeptOn, Holds, Own
  <2> QED  BY <1>2, <2>1, <2>2 DEF KeptRest
<1>6. ASSUME Beside, UNCHANGED <<lockVars, procVars>> PROVE Goal
  <2>1. UNCHANGED <<pc, step, op, content, model>> /\ UserEdits
    BY <1>6, BesideCounts DEF lockVars, procVars
  <2>2. UNCHANGED db /\ (mtime = "missing" => mtime' = "missing")
    BY <2>1 DEF UserEdits, WriteMd
  <2>3. /\ expected' \subseteq expected /\ expected' \subseteq Elements(md')
        /\ \A q \in Procs : step[q] # "none" /\ Own(q) \subseteq Elements(md) => Own(q) \subseteq Elements(md')
    <3>1. md \in Doc /\ md.decs \in Seq(Decisions)
      BY DEF LockedInv, SessionInv, SessionTypeOK, Doc
    <3>2. CASE UNCHANGED expected /\ md'.decs = md.decs
      BY <1>2, <3>2 DEF KeptRest, Elements
    <3>3. ASSUME NEW i \in 1..Len(md.decs), md.decs[i] \in expected,
                 md'.decs = RemoveAt(md.decs, i), expected' = expected \ {md.decs[i]}
          PROVE  /\ expected' \subseteq expected /\ expected' \subseteq Elements(md')
                 /\ \A q \in Procs : step[q] # "none" /\ Own(q) \subseteq Elements(md) =>
                      Own(q) \subseteq Elements(md')
      <4>1. Elements(md) \ {md.decs[i]} \subseteq Elements(md')
        BY <3>1, <3>3, ElementsOfRemoveAt DEF Elements
      <4>2. \A q \in Procs : step[q] # "none" => md.decs[i] \notin Own(q)
        BY <3>3 DEF LockedInv, LockedOnly, Own
      <4> QED  BY <1>2, <3>3, <4>1, <4>2 DEF KeptRest
    <3>4. \/ UNCHANGED expected /\ md'.decs = md.decs
          \/ \E i \in 1..Len(md.decs) :
               /\ md.decs[i] \in expected /\ md'.decs = RemoveAt(md.decs, i)
               /\ expected' = expected \ {md.decs[i]}
      BY <2>1, <3>1 DEF UserEdits, WriteMd, Doc
    <3> QED  BY <3>2, <3>3, <3>4
  <2>4. KeptRest'
    BY <1>2, <2>2, <2>3 DEF KeptRest
  <2>5. ASSUME NEW q \in Procs PROVE KeptOn(q)'
    <3>1. Holds(q, LockedSteps) /\ Own(q) \subseteq Elements(md) => Own(q) \subseteq Elements(md')
      BY <2>3 DEF Holds
    <3>2. Own(q)' = Own(q)
      BY <2>1 DEF Own
    <3> QED  BY <1>2, <2>1, <2>2, <2>3, <3>1, <3>2 DEF KeptOn, Holds
  <2> QED  BY <2>4, <2>5
<1> QED  BY <1>3, <1>4, <1>5, <1>6, LockedCases

\* Without the plugin no decision is ever lost, whatever the user edits, whoever dies and
\* however many mtimes cannot be recorded (any other failed write is excluded), as long as
\* the canonical model has room for all the rows (loadCanonicalModel,
\* src/lib/state-session-mutator.js).
THEOREM SessionKeepsDecisions ==
  ASSUME Kinds \subseteq LockedKinds
  PROVE  SessionSpec /\ []RowsFit => []DecisionsKeptAlone
<1>1. SessionInit => LockedInv /\ KeptInv
  <2> SUFFICES ASSUME SessionInit PROVE KeptRest /\ \A p \in Procs : KeptOn(p)
    BY LockedInitially DEF KeptInv
  <2>1. \A p \in Procs : pc[p] = "idle" /\ step[p] = "none"
    BY DEF SessionInit, LockInit
  <2> QED  BY <2>1 DEF SessionInit, InitDoc, Elements, KeptRest, KeptOn, Holds
<1>2. LockedInv /\ KeptInv /\ RowsFit /\ [SessionNext]_sessionVars => (LockedInv /\ KeptInv)'
  BY LockedKeeps, KeptStep
<1>3. KeptInv => DecisionsKeptAlone
  BY DEF KeptInv, KeptRest, DecisionsKeptAlone, DecisionsKept, Elements
<1> QED  BY <1>1, <1>2, <1>3, PTL DEF SessionSpec

-----------------------------------------------------------------------------
\* No invalidation so far, or one that has got no further than the row.
RowOnly == wipes = 0 \/ plugin = "decisions"

\* Nothing but what STATE.md is owed and what the operation under way adds is in either
\* copy, and nothing twice; when there is something to import into the rows, there are
\* no rows.
OnceRest ==
  /\ IsInjective(md.decs) /\ IsInjective(db.decs)
  /\ ~RowOnly /\ db.row = None => db.decs = <<>>
  /\ Resting =>
       /\ Elements(md) \cup Elements(db) \subseteq expected
       /\ mtime # "stale"
       /\ RowOnly /\ mtime = "missing" => db.row = None /\ db.decs = <<>>

OnceKept(p) ==
  /\ Holds(p, {"imported", "load", "write", "restamp", "failed"}) =>
       Elements(md) \cup Elements(db) \subseteq expected
  /\ Holds(p, {"persist", "restore", "stamp", "done"}) => Elements(md) \subseteq expected \cup Own(p)
  /\ Holds(p, {"persist", "restore"}) => Elements(db) \subseteq expected
  /\ Holds(p, {"stamp", "done"}) => Elements(db) \subseteq expected \cup Own(p)
  /\ Holds(p, {"write", "persist"}) =>
       Elements(model[p]) \subseteq expected \cup Own(p) /\ IsInjective(model[p].decs)
  /\ Holds(p, {"write", "persist", "restore"}) =>
       Elements(content[p]) \subseteq expected /\ IsInjective(content[p].decs)
  /\ Holds(p, {"restore"}) => faults = 1
  /\ Holds(p, {"done", "failed"}) => mtime # "stale"
  /\ Holds(p, LockedSteps) /\ RowOnly => mtime # "missing"

OnceInv ==
  ~robbed /\ edits = 0 /\ crashes = 0 /\ lapses = 0 /\ faults <= 1 /\ wipes <= 1 =>
    OnceRest /\ \A p \in Procs : OnceKept(p)

LEMMA OnceWorks ==
  ASSUME LockedInv, [SessionNext]_sessionVars, NEW p \in Procs, Works(p), ~Lapse, faults' <= 1,
         OnceRest, OnceKept(p)
  PROVE  OnceRest' /\ OnceKept(p)'
<1>1. /\ step \in [Procs -> Steps] /\ content \in [Procs -> Doc] /\ model \in [Procs -> Doc]
      /\ md \in Doc /\ db \in Db /\ None \notin Fields
      /\ mtime \in {"missing", "fresh", "stale"}
      /\ LockedOnly(p)
  BY StateConstants DEF LockedInv, SessionInv, SessionTypeOK, Steps
<1>2. /\ pc[p] = "held" /\ pc'[p] = "held" /\ expected' = expected /\ Own(p)' = Own(p)
      /\ RowOnly' = RowOnly
  BY WorksCounts DEF Works, Own, RowOnly
<1>3. faults \in {0, 1} /\ faults' \in {faults, faults + 1}
  <2>1. faults \in Nat /\ faults' \in {faults, faults + 1}
    BY CountsGrow DEF LockedInv
  <2> QED  BY <2>1
<1>4. \A doc \in Doc : doc.decs \in Seq(Decisions)
  BY DEF Doc
<1>5. db.decs \in Seq(Decisions)
  BY <1>1 DEF Db
<1>6. step'[p] # "import" => ~Resting'
  BY WorksAlone
<1>7. CASE Import(p)
  <2>1. UNCHANGED <<md, mtime, content, model>> /\ step[p] = "import" /\ Resting
    BY <1>7, WorksAlone DEF Import, Importing
  <2>2. CASE NeedsImport
    <3>1. step'[p] = "imported"
      BY <1>1, <1>7, <2>2 DEF Import, Then
    <3>2. db.decs = <<>>
      BY <2>1, <2>2 DEF OnceRest, NeedsImport
    <3>3. db'.decs \in {<<>>, md.decs}
      <4>1. db'.decs = db.decs \o md.decs \/ db'.decs = db.decs
        BY <1>1, <1>7, <2>2 DEF Import, Db
      <4>2. md.decs \in Seq(Decisions)
        BY <1>1, <1>4
      <4> QED  BY <3>2, <4>1, <4>2
    <3>4. db'.row = None => db'.decs = <<>>
      BY <1>1, <1>7, <2>2, <3>2 DEF Import, Db, Doc
    <3>5. IsInjective(db'.decs) /\ Elements(db') \subseteq expected
      <4>1. ToSet(<<>>) = {} /\ IsInjective(<<>>)
        BY DEF ToSet, IsInjective
      <4> QED  BY <2>1, <3>3, <4>1 DEF OnceRest, Elements
    <3>6. OnceRest'
      BY <1>6, <2>1, <3>1, <3>4, <3>5 DEF OnceRest
    <3> QED  BY <1>2, <2>1, <3>1, <3>5, <3>6 DEF OnceKept, OnceRest, Holds
  <2>3. CASE ~NeedsImport
    <3>1. step'[p] = "load" /\ UNCHANGED db
      BY <1>1, <1>2, <1>7, <2>3 DEF Import, Then, AfterImport
    <3>2. RowOnly => mtime # "missing"
      BY <2>1, <2>3 DEF NeedsImport, OnceRest
    <3>3. OnceRest'
      BY <1>2, <1>6, <2>1, <3>1 DEF OnceRest
    <3> QED  BY <1>2, <2>1, <3>1, <3>2, <3>3 DEF OnceKept, OnceRest, Holds
  <2> QED  BY <2>2, <2>3
<1>8. CASE StampImport(p) \/ StampState(p) \/ RestampState(p)
  <2>1. /\ <<step[p], step'[p]>> \in {<<"imported", "load">>, <<"stamp", "done">>, <<"restamp", "failed">>}
        /\ UNCHANGED <<md, db>> /\ mtime' = "fresh"
    BY <1>1, <1>2, <1>8 DEF StampImport, StampState, RestampState, Locked, Stamp, Then, AfterImport
  <2>2. OnceRest'
    BY <1>2, <1>6, <2>1 DEF OnceRest
  <2> QED  BY <1>2, <2>1, <2>2 DEF OnceKept, Holds
<1>9. CASE LoadState(p)
  <2>1. /\ step[p] = "load" /\ step'[p] = "write" /\ UNCHANGED <<md, db, mtime>>
        /\ content'[p] = md /\ Elements(model'[p]) = ToSet(LastDecs(db.decs)) \cup Own(p)
    BY <1>9, LoadedDecisions
  <2>2. Elements(md) \cup Elements(db) \subseteq expected /\ (RowOnly => mtime # "missing")
    BY <1>2, <2>1 DEF OnceKept, Holds
  <2>3. ToSet(LastDecs(db.decs)) \subseteq expected
    BY <1>5, <2>2, LastOfRows DEF Elements
  <2>4. IsInjective(model'[p].decs)
    BY <1>1, <1>9, <2>1, <2>3, LoadedDecisions DEF LockedOnly, OnceRest
  <2>5. OnceRest'
    BY <1>2, <1>6, <2>1 DEF OnceRest
  <2> QED  BY <1>2, <2>1, <2>2, <2>3, <2>4, <2>5 DEF OnceKept, OnceRest, Holds
<1>10. CASE WriteState(p)
  <2>1. step[p] = "write" /\ UNCHANGED <<db, content, model>>
    BY <1>10 DEF WriteState, Locked
  <2>2. CASE step'[p] = "persist" /\ WriteMd(model[p])
    <3>1. md' = model[p] /\ (mtime # "missing" => mtime' # "missing")
      BY <2>2 DEF WriteMd
    <3>2. OnceRest'
      BY <1>2, <1>6, <2>1, <2>2, <3>1 DEF OnceRest, OnceKept, Holds
    <3> QED  BY <1>2, <2>1, <2>2, <3>1, <3>2 DEF OnceKept, Holds
  <2>3. CASE step'[p] = "restore" /\ Fault /\ UNCHANGED <<md, mtime>>
    <3>1. faults' = 1
      BY <1>3, <2>3 DEF Fault, Fails
    <3>2. OnceRest'
      BY <1>2, <1>6, <2>1, <2>3 DEF OnceRest
    <3> QED  BY <1>2, <2>1, <2>3, <3>1, <3>2 DEF OnceKept, Holds
  <2> QED  BY <1>1, <1>10, <2>2, <2>3 DEF WriteState, Then
<1>11. CASE PersistState(p)
  <2>1. step[p] = "persist" /\ UNCHANGED <<md, mtime, content, model>>
    BY <1>11 DEF PersistState, Locked
  <2>2. CASE step'[p] = "stamp" /\ db' = [row |-> model[p].field, decs |-> model[p].decs]
    <3>1. db'.row # None /\ db'.decs = model[p].decs /\ Elements(db') = Elements(model[p])
      BY <1>1, <2>2 DEF Doc, Elements
    <3>2. OnceRest'
      BY <1>2, <1>6, <2>1, <2>2, <3>1 DEF OnceRest, OnceKept, Holds
    <3> QED  BY <1>2, <2>1, <2>2, <3>1, <3>2 DEF OnceKept, Holds
  <2>3. CASE step'[p] = "restore" /\ Fault /\ UNCHANGED db
    <3>1. faults' = 1
      BY <1>3, <2>3 DEF Fault, Fails
    <3>2. OnceRest'
      BY <1>2, <1>6, <2>1, <2>3 DEF OnceRest
    <3> QED  BY <1>2, <2>1, <2>3, <3>1, <3>2 DEF OnceKept, Holds
  <2> QED  BY <1>1, <1>11, <2>2, <2>3 DEF PersistState, Then
<1>12. CASE RestoreState(p)
  <2>1. step[p] = "restore" /\ UNCHANGED <<db, content, model>> /\ faults = 1
    BY <1>2, <1>12 DEF RestoreState, Locked, OnceKept, Holds
  <2>2. step'[p] = "restamp" /\ md' = content[p] /\ (mtime # "missing" => mtime' # "missing")
    BY <1>1, <1>3, <1>12, <2>1 DEF RestoreState, Then, Fault, Fails, WriteMd
  <2>3. OnceRest'
    BY <1>2, <1>6, <2>1, <2>2 DEF OnceRest, OnceKept, Holds
  <2> QED  BY <1>2, <2>1, <2>2, <2>3 DEF OnceKept, Holds
<1> QED  BY <1>7, <1>8, <1>9, <1>10, <1>11, <1>12 DEF Works, LockedStep

LEMMA OnceStep ==
  ASSUME Kinds \subseteq LockedKinds, LockedInv, OnceInv, [SessionNext]_sessionVars
  PROVE  OnceInv'
<1> DEFINE Goal == OnceRest' /\ \A p \in Procs : OnceKept(p)'
<1> SUFFICES ASSUME ~robbed', edits' = 0, crashes' = 0, lapses' = 0, faults' <= 1, wipes' <= 1
             PROVE  Goal
  BY DEF OnceInv
<1>1. /\ edits = 0 /\ crashes = 0 /\ UNCHANGED crashes /\ faults <= 1 /\ crashes \in Nat
      /\ lapses = 0 /\ ~Lapse /\ (NoFault => UNCHANGED faults)
      /\ wipes \in {0, 1} /\ wipes' \in {wipes, wipes + 1}
  <2>1. /\ edits \in Nat /\ faults \in Nat /\ crashes \in Nat /\ wipes \in Nat
        /\ edits' \in {edits, edits + 1} /\ faults' \in {faults, faults + 1}
        /\ crashes' \in {crashes, crashes + 1} /\ wipes' \in {wipes, wipes + 1}
        /\ lapses \in Nat /\ (UNCHANGED lapses \/ lapses' \in {lapses, lapses + 1})
    BY CountsGrow DEF LockedInv, failures
  <2> QED  BY <2>1 DEF Lapse, NoFault, failures
<1>2. OnceRest /\ \A p \in Procs : OnceKept(p)
  BY <1>1, LockedCases DEF OnceInv
<1>3. ASSUME NEW p \in Procs, Works(p) PROVE Goal
  <2>1. OnceRest' /\ OnceKept(p)'
    BY <1>1, <1>2, <1>3, OnceWorks
  <2>2. \A q \in Procs : pc'[q] = "held" => q = p
    BY <1>3, WorksAlone
  <2> QED  BY <2>1, <2>2 DEF OnceKept, Holds
\* Nobody dies: what is over is done or has failed.
<1>4. ASSUME NEW p \in Procs, Leaves(p) PROVE Goal
  <2>1. FinishState(p) /\ Holds(p, {"done", "failed"})
    BY <1>1, <1>4 DEF Leaves, Die, Crash, FinishState, Release, Holds
  <2>2. UNCHANGED <<md, db, mtime, pluginVars>> /\ \A q \in Procs : pc'[q] # "held"
    BY <1>4, <2>1 DEF Leaves, FinishState, docVars
  <2>3. Elements(md) \cup Elements(db) \subseteq expected'
    BY <1>2, <2>1 DEF FinishState, OnceKept, Holds, Own
  <2>4. mtime # "stale" /\ (RowOnly => mtime # "missing")
    BY <1>2, <2>1 DEF OnceKept, Holds
  <2> QED  BY <1>2, <2>2, <2>3, <2>4 DEF OnceRest, OnceKept, Holds, Elements, RowOnly, pluginVars
<1>5. CASE Elsewhere
  <2>1. UNCHANGED <<md, db, mtime, content, model, expected, faults, plugin, wipes>> /\ (Resting' => Resting)
    BY <1>5 DEF Elsewhere, docVars, pluginVars, failures
  <2>2. OnceRest'
    BY <1>2, <2>1 DEF OnceRest, Elements, RowOnly
  <2>3. ASSUME NEW q \in Procs PROVE OnceKept(q)'
    <3>1. Holds(q, LockedSteps \cup {"imported"})' =>
            Holds(q, LockedSteps \cup {"imported"}) /\ step'[q] = step[q] /\ op'[q] = op[q]
      BY <1>5 DEF Elsewhere, Holds
    <3> QED  BY <1>2, <2>1, <3>1 DEF OnceKept, Holds, Own, RowOnly
  <2> QED  BY <2>2, <2>3
<1>6. ASSUME Beside, UNCHANGED <<lockVars, procVars>> PROVE Goal
  <2>1. UNCHANGED <<pc, step, op, content, model, md, faults, expected>> /\ ~UserEdits
    BY <1>1, <1>6, BesideCounts DEF lockVars, procVars, Beside, InvalidateState, InvalidateDecisions,
                                    ClearForCwd
  <2>2. Resting' = Resting
    BY <2>1 DEF Resting
  <2>3. \A q \in Procs : Own(q)' = Own(q)
    BY <2>1 DEF Own
  <2>4. db \in Db /\ (wipes = 0 => plugin = "rest")
    BY DEF LockedInv, SessionInv, SessionTypeOK
  <2>5. CASE InvalidateState
    <3>1. wipes = 0 /\ RowOnly /\ RowOnly' /\ UNCHANGED mtime /\ db'.row = None /\ db'.decs = db.decs
      BY <1>1, <2>4, <2>5 DEF InvalidateState, RowOnly, Db
    <3> QED  BY <1>2, <2>1, <2>2, <2>3, <3>1 DEF OnceRest, OnceKept, Holds, Elements
  <2>6. CASE InvalidateDecisions \/ ClearForCwd
    <3>1. ~RowOnly' /\ mtime' \in {mtime, "missing"} /\ (InvalidateDecisions => UNCHANGED mtime)
      BY <1>1, <2>4, <2>6 DEF InvalidateDecisions, ClearForCwd, RowOnly
    <3>2. db'.decs \in {db.decs, <<>>} /\ (db'.row = None => db'.decs = <<>>)
      <4>1. CASE InvalidateDecisions
        BY <1>1, <2>4, <4>1 DEF InvalidateDecisions, Db
      <4>2. CASE ClearForCwd
        BY <1>2, <2>4, <4>2 DEF ClearForCwd, OnceRest, RowOnly
      <4> QED  BY <2>6, <4>1, <4>2
    <3>3. IsInjective(db'.decs) /\ Elements(db') \subseteq Elements(db)
      <4>1. ToSet(<<>>) = {} /\ IsInjective(<<>>)
        BY DEF ToSet, IsInjective
      <4> QED  BY <1>2, <3>2, <4>1 DEF OnceRest, Elements
    <3> QED  BY <1>2, <2>1, <2>2, <2>3, <3>1, <3>2, <3>3 DEF OnceRest, OnceKept, Holds, Elements
  <2> QED  BY <1>6, <2>1, <2>5, <2>6 DEF Beside
<1> QED  BY <1>3, <1>4, <1>5, <1>6, LockedCases

\* One failed write and one invalidation by the plugin, whenever they come, do not list
\* a decision twice: an import finds no rows (_checkAndReimportState,
\* src/commands/state.js:48), and an operation records only what is not yet there.
\* Excepted is a failure that is a lapse: an mtime that updateMtime does not record
\* (src/lib/planning-cache.js:223-235) makes an import of rows that are there.
THEOREM SessionListsOnce ==
  ASSUME Kinds \subseteq LockedKinds, IsInjective(InitDecs)
  PROVE  SessionSpec => []DecisionsOnce
<1>1. SessionInit => LockedInv /\ OnceInv
  <2> SUFFICES ASSUME SessionInit PROVE OnceRest /\ \A p \in Procs : OnceKept(p)
    BY LockedInitially DEF OnceInv
  <2>1. \A p \in Procs : pc[p] = "idle" /\ step[p] = "none"
    BY DEF SessionInit, LockInit
  <2>2. ToSet(<<>>) = {} /\ IsInjective(<<>>)
    BY DEF ToSet, IsInjective
  <2> QED  BY <2>1, <2>2 DEF SessionInit, InitDoc, Elements, OnceRest, OnceKept, Holds
<1>2. LockedInv /\ OnceInv /\ [SessionNext]_sessionVars => (LockedInv /\ OnceInv)'
  BY LockedKeeps, OnceStep
<1>3. OnceInv => DecisionsOnce
  BY DEF OnceInv, OnceRest, DecisionsOnce
<1> QED  BY <1>1, <1>2, <1>3, PTL DEF SessionSpec
=============================================================================
