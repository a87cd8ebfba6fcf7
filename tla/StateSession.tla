---------------------------- MODULE StateSession ----------------------------
(***************************************************************************)
(* The session state that lives twice: in .planning/STATE.md and in the    *)
(* SQLite tables session_state and session_decisions.  Which copy is ahead *)
(* is decided by one recorded mtime (file_cache).                          *)
(*                                                                         *)
(* applyStateSessionMutation (src/lib/state-session-mutator.js) works      *)
(* under the project lock.  state:advance-plan, state:update-progress,     *)
(* state:record-metric and the batch path of state:complete-plan           *)
(* (src/commands/state.js) read and write both copies without it, and a    *)
(* user may edit STATE.md at any time.                                     *)
(*                                                                         *)
(* One scalar field stands for the position (current plan, status,         *)
(* progress), one list for the decisions; the metric tables and the        *)
(* sections of STATE.md that no SQLite row decides are left out.           *)
(***************************************************************************)
EXTENDS ProjectLock, SequencesExt

CONSTANTS Fields,       \* values of the position
          Decisions,    \* decisions that may be recorded, each once
          None,         \* no value, no row
          InitField, InitDecs,   \* what STATE.md says to begin with
          Kinds,        \* the kinds of command that are run
          MaxOps,       \* commands that are run (bound)
          MaxEdits,     \* edits by the user (bound)
          MaxFaults,    \* writes and SQL statements that fail (bound)
          MaxWipes,     \* invalidations by the editor plugin (bound)
          MaxTroubles,  \* edits, failures, invalidations and deaths together (bound)
          Limit         \* decisions the canonical model loads (500 in the code)

\* state:update and state:patch; state:add-decision.
LockedKinds == {"patch", "decision"}

\* state:advance-plan, state:update-progress, state:record-metric, and
\* state:complete-plan without and with --decision-summary.
OpenKinds == {"advance", "progress", "metric", "complete", "completeDecide"}

ASSUME StateConstants ==
  /\ InitField \in Fields /\ InitDecs \in Seq(Decisions)
  /\ None \notin Fields /\ None \notin Decisions
  /\ Kinds \subseteq LockedKinds \cup OpenKinds
  /\ MaxOps \in Nat /\ MaxEdits \in Nat /\ MaxFaults \in Nat
  /\ MaxWipes \in Nat /\ MaxTroubles \in Nat /\ Limit \in Nat \ {0}

VARIABLES md,           \* STATE.md: its field and decisions
          db,           \* SQLite: the session_state row and the decision rows
          mtime,        \* the recorded mtime: missing, fresh or stale
          step,         \* where each process stands in its command
          op,           \* the command each process runs
          content,      \* STATE.md as each process read it
          model,        \* the canonical model each process computed
          expected,     \* history: decisions STATE.md owes its readers
          ops, edits,   \* history: commands and edits so far (bounds)
          faults,       \* history: writes and statements that failed (bound)
          lapses,       \* history: those among them that nobody notices
          plugin,       \* what the plugin deletes next, "rest" if nothing
          wipes         \* history: how often it began to (bound)

failures == <<faults, lapses>>
bounds == <<ops, edits, failures>>
docVars == <<md, db, mtime>>
pluginVars == <<plugin, wipes>>
procVars == <<step, op, content, model>>
sessionVars == <<lockVars, docVars, procVars, expected, bounds, pluginVars>>

troubles == edits + faults + wipes + crashes

Doc == [field : Fields, decs : Seq(Decisions)]

\* A row whose columns are all null: it exists, and says nothing.
NullRow == "nulls"
Db == [row : Fields \cup {None, NullRow}, decs : Seq(Decisions)]

LockedSteps == {"load", "write", "persist", "stamp", "restore", "restamp",
                "done", "failed"}
OpenSteps == {"a_write", "sql", "a_stamp", "c_batch", "c_write", "c_stamp", "c_decide",
              "r_read", "t_read", "t_write", "t_stamp"}
SharedSteps == {"none", "import", "imported"}

SessionTypeOK ==
  /\ LockTypeOK
  /\ md \in Doc /\ db \in Db
  /\ mtime \in {"missing", "fresh", "stale"}
  /\ step \in [Procs -> LockedSteps \cup OpenSteps \cup SharedSteps]
  /\ op \in [Procs -> [kind : Kinds \cup {"none", "metric"}, field : Fields \cup {None},
                       dec : Decisions \cup {None}]]
  /\ content \in [Procs -> Doc] /\ model \in [Procs -> Doc]
  /\ expected \subseteq Decisions
  /\ plugin \in {"rest", "decisions", "clear"} /\ wipes \in 0..MaxWipes
  /\ ops \in 0..MaxOps /\ edits \in 0..MaxEdits /\ faults \in 0..MaxFaults
  /\ lapses \in 0..faults

NoOp == [kind |-> "none", field |-> None, dec |-> None]
InitDoc == [field |-> InitField, decs |-> InitDecs]

\* A project whose STATE.md was written by hand or came with a clone: the
\* cache database is new.
SessionInit ==
  /\ LockInit
  /\ md = InitDoc /\ db = [row |-> None, decs |-> <<>>] /\ mtime = "missing"
  /\ step = [p \in Procs |-> "none"] /\ op = [p \in Procs |-> NoOp]
  /\ content = [p \in Procs |-> InitDoc] /\ model = [p \in Procs |-> InitDoc]
  /\ expected = ToSet(InitDecs)
  /\ ops = 0 /\ edits = 0 /\ faults = 0 /\ lapses = 0
  /\ plugin = "rest" /\ wipes = 0

Then(p, s) == step' = [step EXCEPT ![p] = s]
Open(p, s) == pc[p] = "idle" /\ step[p] = s
Locked(p, s) == pc[p] = "held" /\ step[p] = s

\* A text or a model that no later step of the command looks at is forgotten.
ForgetText(p) == content' = [content EXCEPT ![p] = InitDoc]
ForgetModel(p) == model' = [model EXCEPT ![p] = InitDoc]

\* A write of STATE.md changes its mtime, not the recorded one.
WriteMd(doc) == md' = doc /\ mtime' = IF mtime = "missing" THEN "missing" ELSE "stale"

\* A file or SQL write fails.  A lapse is one that leaves a wrong mtime, or a row that
\* is outdated, and that nobody notices.
Fails == faults < MaxFaults /\ troubles < MaxTroubles /\ faults' = faults + 1
Fault == Fails /\ UNCHANGED lapses
Lapse == Fails /\ lapses' = lapses + 1
NoFault == UNCHANGED failures

\* updateMtime records the mtime the file has now, whoever wrote it; when that fails,
\* what is recorded stays ("Non-critical", src/lib/planning-cache.js:233).
Stamp ==
  /\ \/ mtime' = "fresh" /\ NoFault
     \/ UNCHANGED mtime /\ Lapse
  /\ UNCHANGED <<md, db>>

\* An unlocked writeFileSync throws: before it has touched the file, or after; what a
\* file that is cut short says is left out.
WriteThrows ==
  \/ Fault /\ UNCHANGED <<md, mtime>>
  \/ Lapse /\ WriteMd(md)
-----------------------------------------------------------------------------
(* _checkAndReimportState, called in the lock by the mutator and outside   *)
(* it by every other command.                                              *)

\* A stale mtime, or no mtime and no row.
NeedsImport == mtime = "stale" \/ (mtime = "missing" /\ db.row = None)

AfterImport(p) ==
  IF pc[p] = "held" THEN "load"
  ELSE IF op[p].kind \in {"advance", "progress"} THEN "sql" ELSE "t_read"

Importing(p) == pc[p] \in {"held", "idle"} /\ step[p] = "import"

\* Mutant: only a stale mtime is imported, never a missing one.
ImportStaleOnly(p) ==
  /\ Importing(p)
  /\ IF mtime = "stale"
       THEN db' = [row |-> md.field, decs |-> db.decs \o md.decs] /\ Then(p, "imported")
       ELSE Then(p, AfterImport(p)) /\ UNCHANGED db
  /\ UNCHANGED <<lockVars, md, mtime, op, content, model, expected, bounds, pluginVars>>

\* The row is deleted, then migrateStateFromMarkdown sets it from STATE.md and
\* adds STATE.md's decisions to those the database has.  Nobody notices when its
\* transaction fails, or when the deletion does: a row that is there is not migrated.
Import(p) ==
  /\ Importing(p)
  /\ IF NeedsImport
       THEN /\ \/ db' = [row |-> md.field, decs |-> db.decs \o md.decs] /\ NoFault
               \/ db' = [db EXCEPT !.row = None] /\ Fault
               \/ mtime = "stale" /\ db.row # None /\ UNCHANGED db /\ Lapse
            /\ Then(p, "imported")
       ELSE Then(p, AfterImport(p)) /\ UNCHANGED db /\ NoFault
  /\ UNCHANGED <<lockVars, md, mtime, op, content, model, expected, ops, edits, pluginVars>>

StampImport(p) ==
  /\ step[p] = "imported" /\ Stamp
  /\ Then(p, AfterImport(p))
  /\ UNCHANGED <<lockVars, op, content, model, expected, ops, edits, pluginVars>>
-----------------------------------------------------------------------------
\* loadCanonicalModel: SQLite wins where it has a value; the decisions are
\* SQLite's, and only the last Limit of them.
LastDecs(s) == SubSeq(s, 1 + (IF Len(s) > Limit THEN Len(s) - Limit ELSE 0), Len(s))
Canonical ==
  [field |-> IF db.row \in {None, NullRow} THEN md.field ELSE db.row,
   decs |-> LastDecs(db.decs)]

\* applyOperation: a patch sets the field, the others append a decision.
Applied(m, o) ==
  IF o.kind = "patch" THEN [m EXCEPT !.field = o.field]
                      ELSE [m EXCEPT !.decs = Append(@, o.dec)]

\* A decision is recorded by one command only.
Unused == Decisions \ (ToSet(md.decs) \cup expected \cup {op[p].dec : p \in Procs})

\* What may be asked for.  complete-plan finds the phase on disk, which
\* gives it a position to write to SQLite, or it does not (None).
Commands ==
  [kind : {"patch", "advance", "progress"} \cap Kinds, field : Fields, dec : {None}]
    \cup [kind : {"metric"} \cap Kinds, field : {None}, dec : {None}]
    \cup [kind : {"decision"} \cap Kinds, field : {None}, dec : Unused]
    \cup [kind : {"complete"} \cap Kinds, field : Fields \cup {None}, dec : {None}]
    \cup [kind : {"completeDecide"} \cap Kinds, field : Fields \cup {None}, dec : Unused]

Begin(p, kinds) ==
  /\ step[p] = "none" /\ ops < MaxOps
  /\ \E o \in Commands : o.kind \in kinds /\ op' = [op EXCEPT ![p] = o]
  /\ ops' = ops + 1

\* A command that mutates under the lock.
BeginLocked(p) ==
  /\ Begin(p, LockedKinds)
  /\ Call(p)
  /\ Then(p, "import")
  /\ UNCHANGED <<docVars, content, model, expected, edits, failures, pluginVars>>

\* One that does not; advance-plan and complete-plan read STATE.md now.
BeginOpen(p) ==
  /\ pc[p] = "idle" /\ Begin(p, OpenKinds)
  /\ content' = IF op'[p].kind \in {"progress", "metric"} THEN content
                ELSE [content EXCEPT ![p] = md]
  /\ Then(p, CASE op'[p].kind = "advance" -> "a_write"
               [] op'[p].kind \in {"progress", "metric"} -> "import"
               [] OTHER -> "c_batch")
  /\ UNCHANGED <<lockVars, docVars, model, expected, edits, failures, pluginVars>>

\* A locked mutation is over, done or not: complete-plan goes on.
AfterMutation(p) == IF op[p].kind = "completeDecide" THEN "r_read" ELSE "none"

\* Waiting for the lock; ELOCKED ends the mutation.
LockLoop(p) ==
  /\ Acquiring(p)
  /\ IF GiveUp(p) THEN Then(p, AfterMutation(p)) ELSE UNCHANGED step
  /\ UNCHANGED <<docVars, op, content, model, expected, bounds, pluginVars>>
-----------------------------------------------------------------------------
(* applyStateSessionMutation, under the lock.                              *)

\* Read STATE.md and the database, apply the operation.
LoadState(p) ==
  /\ Locked(p, "load")
  /\ content' = [content EXCEPT ![p] = md]
  /\ model' = [model EXCEPT ![p] = Applied(Canonical, op[p])]
  /\ Then(p, "write")
  /\ UNCHANGED <<lockVars, docVars, op, expected, bounds, pluginVars>>

\* writeFileAtomic(STATE.md).
WriteState(p) ==
  /\ Locked(p, "write")
  /\ \/ WriteMd(model[p]) /\ Then(p, "persist") /\ NoFault
     \/ Fault /\ Then(p, "restore") /\ UNCHANGED <<md, mtime>>
  /\ UNCHANGED <<lockVars, db, op, content, model, expected, ops, edits, pluginVars>>

\* Mutant: a failed bundle write is not noticed.
PersistIgnoresFailure(p) ==
  /\ Locked(p, "persist")
  /\ Then(p, "stamp")
  /\ \/ db' = [row |-> model[p].field, decs |-> model[p].decs] /\ NoFault
     \/ Fault /\ UNCHANGED db
  /\ UNCHANGED <<lockVars, md, mtime, op, content, model, expected, ops, edits, pluginVars>>

\* storeSessionBundle: one SQL transaction.
PersistState(p) ==
  /\ Locked(p, "persist")
  /\ \/ /\ db' = [row |-> model[p].field, decs |-> model[p].decs]
        /\ Then(p, "stamp") /\ NoFault
     \/ Fault /\ Then(p, "restore") /\ UNCHANGED db
  /\ UNCHANGED <<lockVars, md, mtime, op, content, model, expected, ops, edits, pluginVars>>

\* Mutant: updateMtime is not called after the mutation.
StampForgotten(p) ==
  /\ Locked(p, "stamp")
  /\ Then(p, "done")
  /\ UNCHANGED <<lockVars, docVars, op, content, model, expected, bounds, pluginVars>>

StampState(p) ==
  /\ Locked(p, "stamp") /\ Stamp
  /\ Then(p, "done")
  /\ UNCHANGED <<lockVars, op, content, model, expected, ops, edits, pluginVars>>

\* Mutant: what was written is left in place.
RestoreNothing(p) ==
  /\ Locked(p, "restore")
  /\ Then(p, "restamp")
  /\ UNCHANGED <<lockVars, docVars, op, content, model, expected, bounds, pluginVars>>

\* The catch block puts STATE.md back; if that throws too, it stops there.
RestoreState(p) ==
  /\ Locked(p, "restore")
  /\ \/ WriteMd(content[p]) /\ Then(p, "restamp") /\ NoFault
     \/ Fault /\ Then(p, "failed") /\ UNCHANGED <<md, mtime>>
  /\ UNCHANGED <<lockVars, db, op, content, model, expected, ops, edits, pluginVars>>

RestampState(p) ==
  /\ Locked(p, "restamp") /\ Stamp
  /\ Then(p, "failed")
  /\ UNCHANGED <<lockVars, op, content, model, expected, ops, edits, pluginVars>>

FinishState(p) ==
  /\ step[p] \in {"done", "failed"}
  /\ Release(p)
  /\ expected' = IF step[p] = "done" THEN expected \cup ({op[p].dec} \ {None})
                                     ELSE expected
  /\ Then(p, AfterMutation(p))
  /\ ForgetText(p) /\ ForgetModel(p)
  /\ UNCHANGED <<docVars, op, bounds, pluginVars>>
-----------------------------------------------------------------------------
(* cmdStateAdvancePlan and cmdStateUpdateProgress: the one writes STATE.md *)
(* first, the other SQLite; no lock.                                       *)

\* A write that throws is the end of the command.
AdvanceWrite(p) ==
  /\ Open(p, "a_write") /\ ForgetText(p)
  /\ \/ /\ WriteMd([content[p] EXCEPT !.field = op[p].field])
        /\ Then(p, "import") /\ NoFault
     \/ WriteThrows /\ Then(p, "none")
  /\ UNCHANGED <<lockVars, db, op, model, expected, ops, edits, pluginVars>>

\* storeSessionState({...state, ...}) if there is a row; that it failed nobody asks.
StoreRow(p) ==
  /\ Open(p, "sql")
  /\ \/ db' = (IF db.row = None THEN db ELSE [db EXCEPT !.row = op[p].field]) /\ NoFault
     \/ db.row # None /\ UNCHANGED db /\ Lapse
  /\ Then(p, CASE op[p].kind = "progress" -> "t_read"
               [] db.row = None -> "none"
               [] OTHER -> "a_stamp")
  /\ UNCHANGED <<lockVars, md, mtime, op, content, model, expected, ops, edits, pluginVars>>

StampAdvance(p) ==
  /\ Open(p, "a_stamp") /\ Stamp
  /\ Then(p, "none")
  /\ UNCHANGED <<lockVars, op, content, model, expected, ops, edits, pluginVars>>
-----------------------------------------------------------------------------
(* cmdStateCompletePlan, the batch path (canBatch("state") holds): SQLite  *)
(* first, then STATE.md, then the decision through the locked mutator,     *)
(* then repairStateCompletionReadback and the tails.                       *)

\* storeSessionBundleBatch, without an import.  The row gets the position, or
\* nulls: no phase was found, or --duration adds a second `state` bundle that
\* replaces the row.
CompleteBatch(p) ==
  /\ Open(p, "c_batch")
  /\ \/ /\ \E r \in ({op[p].field} \ {None}) \cup {NullRow} : db' = [db EXCEPT !.row = r]
        /\ Then(p, "c_write") /\ NoFault
     \/ Fault /\ Then(p, "none") /\ UNCHANGED db
  /\ UNCHANGED <<lockVars, md, mtime, op, content, model, expected, ops, edits, pluginVars>>

\* STATE.md gets the plan after the current one, whatever SQLite got.
CompleteWrite(p) ==
  /\ Open(p, "c_write") /\ ForgetText(p)
  /\ \/ /\ \E next \in Fields : WriteMd([content[p] EXCEPT !.field = next])
        /\ Then(p, "c_stamp") /\ NoFault
     \/ WriteThrows /\ Then(p, "none")
  /\ UNCHANGED <<lockVars, db, op, model, expected, ops, edits, pluginVars>>

StampComplete(p) ==
  /\ Open(p, "c_stamp") /\ Stamp
  /\ Then(p, IF op[p].dec = None THEN "r_read" ELSE "c_decide")
  /\ UNCHANGED <<lockVars, op, content, model, expected, ops, edits, pluginVars>>

CompleteDecide(p) ==
  /\ step[p] = "c_decide"
  /\ Call(p)
  /\ Then(p, "import")
  /\ UNCHANGED <<docVars, op, content, model, expected, bounds, pluginVars>>

\* What is left of complete-plan is its tails: they do what record-metric does,
\* and count as one.
TailsLeft(p) == op' = [op EXCEPT ![p].kind = "metric"] /\ Then(p, "import")

\* repairStateCompletionReadback: STATE.md is read, and written back if its
\* position is not the phase's.
RepairRead(p) ==
  /\ Open(p, "r_read")
  /\ content' = [content EXCEPT ![p] = md]
  /\ IF op[p].field \in {None, md.field} THEN TailsLeft(p)
       ELSE Then(p, "t_write") /\ UNCHANGED op
  /\ UNCHANGED <<lockVars, docVars, model, expected, bounds, pluginVars>>
-----------------------------------------------------------------------------
(* The metric and session tails, and the second half of update-progress:   *)
(* read STATE.md, rewrite a part of it, record its mtime; no lock.  The    *)
(* repair writes and records in the same way and the tails follow it.      *)

TailRead(p) ==
  /\ Open(p, "t_read")
  /\ content' = [content EXCEPT ![p] = md]
  /\ Then(p, "t_write")
  /\ UNCHANGED <<lockVars, docVars, op, model, expected, bounds, pluginVars>>

AfterTail(p) == IF op[p].kind \in {"complete", "completeDecide"} THEN TailsLeft(p)
                ELSE Then(p, "none") /\ UNCHANGED op

\* A write that throws ends the command; a repair's is only a warning.
TailWrite(p) ==
  /\ Open(p, "t_write") /\ ForgetText(p)
  /\ \/ /\ WriteMd(IF op[p].kind = "metric" THEN content[p]
                   ELSE [content[p] EXCEPT !.field = op[p].field])
        /\ Then(p, "t_stamp") /\ NoFault /\ UNCHANGED op
     \/ WriteThrows /\ AfterTail(p)
  /\ UNCHANGED <<lockVars, db, model, expected, ops, edits, pluginVars>>

\* Mutant: updateMtime is not called.
StampTailForgotten(p) ==
  /\ Open(p, "t_stamp")
  /\ AfterTail(p)
  /\ UNCHANGED <<lockVars, docVars, content, model, expected, bounds, pluginVars>>

StampTail(p) ==
  /\ Open(p, "t_stamp") /\ Stamp
  /\ AfterTail(p)
  /\ UNCHANGED <<lockVars, content, model, expected, ops, edits, pluginVars>>
-----------------------------------------------------------------------------
\* The user changes the field, or strikes out a decision that some finished
\* command recorded.
UserEdits ==
  /\ edits < MaxEdits /\ troubles < MaxTroubles /\ edits' = edits + 1
  /\ \/ /\ \E v \in Fields : WriteMd([md EXCEPT !.field = v])
        /\ UNCHANGED expected
     \/ \E i \in 1..Len(md.decs) :
          /\ md.decs[i] \in expected
          /\ WriteMd([md EXCEPT !.decs = RemoveAt(@, i)])
          /\ expected' = expected \ {md.decs[i]}
  /\ UNCHANGED <<lockVars, db, procVars, ops, failures, pluginVars>>

(* The plugin, another process on the same database, believes STATE.md      *)
(* alone: when a session goes idle and after each call of the bgsd_progress *)
(* tool it deletes the session rows (invalidateState); a refresh            *)
(* (invalidateAll) goes on to delete the recorded mtimes (clearForCwd).     *)
(* Each of the three catches its own SQL errors.                            *)

InvalidateState ==
  /\ plugin = "rest"
  /\ wipes < MaxWipes /\ troubles < MaxTroubles /\ wipes' = wipes + 1
  /\ \/ db' = [db EXCEPT !.row = None] /\ plugin' = "decisions" /\ NoFault
     \/ UNCHANGED db /\ plugin' \in {"rest", "clear"} /\ Lapse
  /\ UNCHANGED <<lockVars, md, mtime, procVars, expected, ops, edits>>

InvalidateDecisions ==
  /\ plugin = "decisions"
  /\ \/ db' = [db EXCEPT !.decs = <<>>] /\ NoFault
     \/ UNCHANGED db /\ Lapse
  /\ plugin' \in {"rest", "clear"}
  /\ UNCHANGED <<lockVars, md, mtime, procVars, expected, ops, edits, wipes>>

ClearForCwd ==
  /\ plugin = "clear"
  /\ \/ mtime' = "missing" /\ NoFault
     \/ UNCHANGED mtime /\ Lapse
  /\ plugin' = "rest"
  /\ UNCHANGED <<lockVars, md, db, procVars, expected, ops, edits, wipes>>
-----------------------------------------------------------------------------
\* A process dies, inside the lock or out of it.
Die(p) ==
  /\ troubles < MaxTroubles
  /\ \/ Crash(p)
     \/ /\ pc[p] = "idle" /\ step[p] # "none"
        /\ crashes < MaxCrashes /\ crashes' = crashes + 1
        /\ UNCHANGED <<pc, lockDir, left, robbed>>
  /\ Then(p, "none")
  /\ UNCHANGED <<docVars, op, content, model, expected, bounds, pluginVars>>

GrowOld == Age /\ UNCHANGED <<docVars, procVars, expected, bounds, pluginVars>>

LockedStep(p) ==
  \/ LoadState(p) \/ WriteState(p) \/ PersistState(p) \/ StampState(p)
  \/ RestoreState(p) \/ RestampState(p) \/ FinishState(p)

OpenStep(p) ==
  \/ AdvanceWrite(p) \/ StoreRow(p) \/ StampAdvance(p)
  \/ CompleteBatch(p) \/ CompleteWrite(p) \/ StampComplete(p) \/ CompleteDecide(p)
  \/ RepairRead(p) \/ TailRead(p) \/ TailWrite(p) \/ StampTail(p)

SessionNext ==
  \/ GrowOld \/ UserEdits \/ InvalidateState \/ InvalidateDecisions \/ ClearForCwd
  \/ \E p \in Procs :
       BeginLocked(p) \/ BeginOpen(p) \/ LockLoop(p) \/ Import(p) \/ StampImport(p)
       \/ LockedStep(p) \/ OpenStep(p) \/ Die(p)

SessionSpec == SessionInit /\ [][SessionNext]_sessionVars
-----------------------------------------------------------------------------
AtRest == \A p \in Procs : step[p] = "none"

\* Every decision recorded under the lock, or there to begin with, is in STATE.md
\* whenever no command runs, until the user strikes it out ("Decision made ->
\* STATE.md", docs/planning-system.md:244): a mutation renders the whole
\* decisions section from what it loaded (state-session-mutator.js:139,351).
DecisionsKept == AtRest /\ ~robbed => expected \subseteq ToSet(md.decs)

\* The plugin and imports whose transaction fails are what loses decisions (the
\* mtime says the rows are fresh when they are gone).  Deaths, edits and lapses are
\* not: an mtime that was not recorded makes an import too many, never one too few.
DecisionsKeptAlone == wipes = 0 /\ faults = lapses => DecisionsKept

\* No decision is listed twice: the import adds STATE.md's decisions to the rows
\* that are there (planning-cache.js:1086-1095), the render lists every row.  What may
\* go wrong is one failed write and one invalidation: a second failure may leave the
\* mtime of a failed restore behind, a second invalidation takes the row that a
\* refresh left without its mtime, and either makes an import of rows that are there.
\* So does a single lapse: an mtime updateMtime could not record, rows the plugin
\* could not delete.
DecisionsOnce ==
  AtRest /\ ~robbed /\ edits = 0 /\ crashes = 0 /\ lapses = 0 /\ faults <= 1 /\ wipes <= 1 =>
    IsInjective(md.decs) /\ IsInjective(db.decs)

\* Whenever no command runs and the recorded mtime is the file's, nothing will be
\* imported; then it does not matter which copy a reader asks.  One write that
\* fails, or one process that dies, does not change that.
CopiesAgree ==
  AtRest /\ mtime = "fresh" /\ ~robbed /\ wipes = 0 /\ edits = 0 /\ troubles <= 1 =>
    db = [row |-> md.field, decs |-> md.decs]

\* Commands do not leave their own write behind as an external edit: without edits,
\* deaths and lapses the mtime is never stale when all are done, in whatever order
\* they wrote STATE.md and recorded its mtime and whichever write threw.  A lapse is
\* what it takes: an updateMtime that failed, a write that was cut short.
OwnWritesRecorded ==
  AtRest /\ edits = 0 /\ crashes = 0 /\ lapses = 0 /\ faults <= 1 => mtime # "stale"

\* A mutation that fails changes neither copy: STATE.md is what the mutation
\* read, the decision is in neither (the catch block, :421-428).
FailureRestores ==
  [][\A p \in Procs :
        FinishState(p) /\ step[p] = "failed" /\ faults <= 1 /\ edits = 0 /\ ~robbed
          => md = content[p] /\ op[p].dec \notin ToSet(md.decs) \cup ToSet(db.decs)]_sessionVars

\* state:add-decision leaves the position alone: a hand-edited one is imported
\* before it is written back ("re-import if STATE.md was manually edited",
\* src/commands/state.js:48).
DecisionKeepsPosition ==
  [][\A p \in Procs :
        WriteState(p) /\ step'[p] = "persist" /\ op[p].kind = "decision"
          /\ edits = 0 /\ ~robbed /\ troubles <= 1
          => md'.field = content[p].field]_sessionVars
=============================================================================
