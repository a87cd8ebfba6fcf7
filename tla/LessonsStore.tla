---------------------------- MODULE LessonsStore ----------------------------
(***************************************************************************)
(* The commands that share .planning/memory/lessons.json                   *)
(* (src/commands/lessons.js).  lessons:capture appends through the locked  *)
(* mutateJsonStore.  The deviation capture first checks its cap, without   *)
(* the lock, and then does the same.  lessons:compact takes no lock: it    *)
(* reads the file, merges lessons of one root cause and overwrites the     *)
(* file in place (open and truncate, then write), and then writes its      *)
(* result into SQLite.                                                     *)
(***************************************************************************)
EXTENDS JsonStore

CONSTANTS Deviations,   \* entries of type deviation-recovery
          Causes,       \* root causes
          Cause,        \* the root cause of each entry
          Cap,          \* deviation entries allowed (3 in the code)
          Threshold,    \* compaction threshold (100 by default in the code)
          Compactors    \* the processes that also run lessons:compact

ASSUME LessonConstants ==
  /\ Deviations \subseteq Entries /\ Compactors \subseteq Procs
  /\ Cause \in [Entries -> Causes]
  /\ Cap \in Nat /\ Threshold \in Nat \ {0}

VARIABLES snap,         \* the compacted entries each compactor will write
          detached      \* has the file a compactor opened been replaced since?

compactVars == <<snap, detached>>
lessonVars == <<jsonVars, compactVars>>

LessonSteps == TaskSteps \cup {"none", "checked", "truncate", "fill", "remirror"}

LessonTypeOK ==
  /\ LockTypeOK
  /\ file \in FileValue
  /\ rows \in [Entries -> 0..MaxRows]
  /\ step \in [Procs -> LessonSteps]
  /\ entry \in [Procs -> Entries \cup {NoEntry}]
  /\ orig \in [Procs -> FileValue]
  /\ acked \subseteq used /\ used \subseteq Entries
  /\ snap \in [Procs -> SUBSET Entries]
  /\ detached \in [Procs -> BOOLEAN]

LessonInit ==
  /\ JsonInit
  /\ snap = [p \in Procs |-> {}]
  /\ detached = [p \in Procs |-> FALSE]
-----------------------------------------------------------------------------
\* readLessonsStore: text that does not parse counts as no lessons.
Readable == IF file.kind = "json" THEN file.has ELSE {}

\* The step publishes a new file by rename, or puts the old one back.
Replaces(p) == \/ At(p, "write") /\ step'[p] = "mirror"
               \/ At(p, "rollback") /\ file' = orig[p]

\* lessons:capture, and every step of the locked append.  Publishing and
\* rolling back replace the file, so a compactor that has it open goes on
\* writing to one nobody will read.
AppendLesson(p) ==
  /\ \/ \E e \in Entries \ Deviations : Mutate(p, e)
     \/ step[p] \in TaskSteps
          /\ \/ LockLoop(p) \/ ReadStore(p) \/ WriteStore(p) \/ MirrorStore(p)
             \/ Rollback(p) \/ Finish(p) \/ Die(p)
  /\ detached' = [q \in Procs |-> detached[q] \/ Replaces(p)]
  /\ UNCHANGED snap

\* Mutant: <= for <.
CheckCapLate(p, e) ==
  /\ step[p] = "none" /\ pc[p] = "idle"
  /\ e \in Deviations \ used
  /\ Cardinality(Readable \cap Deviations) <= Cap
  /\ entry' = [entry EXCEPT ![p] = e]
  /\ used' = used \cup {e}
  /\ Then(p, "checked")
  /\ UNCHANGED <<lockVars, file, rows, orig, acked, compactVars>>

\* cmdDeviationCapture, first half: count the entries, without the lock.
CheckCap(p, e) ==
  /\ step[p] = "none" /\ pc[p] = "idle"
  /\ e \in Deviations \ used
  /\ Cardinality(Readable \cap Deviations) < Cap
  /\ entry' = [entry EXCEPT ![p] = e]
  /\ used' = used \cup {e}
  /\ Then(p, "checked")
  /\ UNCHANGED <<lockVars, file, rows, orig, acked, compactVars>>

\* Second half: appendLessonEntry.
CaptureDeviation(p) ==
  /\ step[p] = "checked"
  /\ Call(p)
  /\ Then(p, "read")
  /\ UNCHANGED <<file, rows, entry, orig, acked, used, compactVars>>

\* One lesson for each root cause.
Merged(S) ==
  {T \in SUBSET S : \A e \in S : Cardinality({f \in T : Cause[f] = Cause[e]}) = 1}

\* cmdLessonsCompact: read and merge; nothing to do below the threshold.  Each
\* process does it once (bound).
Compact(p) ==
  /\ p \in Compactors /\ snap[p] = {} /\ step[p] = "none" /\ pc[p] = "idle"
  /\ Cardinality(Readable) >= Threshold
  /\ \E T \in Merged(Readable) : snap' = [snap EXCEPT ![p] = T]
  /\ Then(p, "truncate")
  /\ UNCHANGED <<lockVars, file, rows, entry, orig, acked, used, detached>>

\* writeFileSync opens the file: it is blank until the text is written.
Truncate(p) ==
  /\ step[p] = "truncate"
  /\ file' = [kind |-> "blank", has |-> {}]
  /\ detached' = [detached EXCEPT ![p] = FALSE]
  /\ Then(p, "fill")
  /\ UNCHANGED <<lockVars, rows, entry, orig, acked, used, snap>>

\* writeFileSync writes.  Over the text of another compactor, which may be
\* longer, it may leave text that does not parse.
Fill(p) ==
  /\ step[p] = "fill"
  /\ IF detached[p] THEN UNCHANGED file
     ELSE \/ file' = Json(snap[p])
          \/ /\ file.kind # "blank" /\ file # Json(snap[p])
             /\ file' = [kind |-> "garbled", has |-> {}]
  /\ Then(p, "remirror")
  /\ UNCHANGED <<lockVars, rows, entry, orig, acked, used, compactVars>>

\* Mutant: the table is cleared first, as the comment above the code says.
RemirrorClears(p) ==
  /\ step[p] = "remirror"
  /\ rows' = [e \in Entries |-> IF e \in snap[p] THEN 1 ELSE 0]
  /\ Then(p, "none")
  /\ UNCHANGED <<lockVars, file, entry, orig, acked, used, compactVars>>

\* The entries of the result are inserted into SQLite, those whose INSERT
\* succeeds; nothing is deleted.
Remirror(p) ==
  /\ step[p] = "remirror"
  /\ \E T \in SUBSET snap[p] :
       rows' = [e \in Entries |-> IF e \in T THEN OneMore(rows[e]) ELSE rows[e]]
  /\ Then(p, "none")
  /\ UNCHANGED <<lockVars, file, entry, orig, acked, used, compactVars>>

\* A process dies outside the lock.
DieUnlocked(p) ==
  /\ step[p] \in {"checked", "truncate", "fill", "remirror"}
  /\ crashes < MaxCrashes /\ crashes' = crashes + 1
  /\ Over(p)
  /\ UNCHANGED <<pc, lockDir, left, robbed, file, rows, acked, used, compactVars>>

LessonStep(p) ==
  \/ AppendLesson(p)
  \/ \E e \in Entries : CheckCap(p, e)
  \/ CaptureDeviation(p)
  \/ Compact(p) \/ Truncate(p) \/ Fill(p) \/ Remirror(p)
  \/ DieUnlocked(p)

GrowOlder == GrowOld /\ UNCHANGED compactVars

LessonNext == GrowOlder \/ \E p \in Procs : LessonStep(p)

LessonSpec == LessonInit /\ [][LessonNext]_lessonVars
-----------------------------------------------------------------------------
\* Every lesson reported captured is still in the file, itself or merged into
\* one of the same root cause.  (lessons:compact writes in place, so this is
\* asked of the moments when no process is between two steps of a write.)
LessonsKept ==
  (\A p \in Procs : step[p] \notin {"fill", "mirror", "rollback"}) =>
    \A e \in acked : \E f \in Readable : Cause[f] = Cause[e]

\* SQLite, which readers prefer to the file, forgets no root cause, whatever a
\* compaction overtakes: unlike the file, it is only ever added to.
SqliteForgetsNothing ==
  [][\A e \in Entries :
        rows[e] > 0 => \E f \in Entries : Cause[f] = Cause[e] /\ rows'[f] > 0]_lessonVars

\* cmdDeviationCapture "stops silently after 3 deviation-recovery entries"
\* (lessons.js:268).  The cap is checked before the lock is taken, so every
\* process may add one entry after another reached it, and no more than that
\* before the first compaction (which empties the file for a moment), while the
\* lock excludes.
DeviationOvershoot ==
  ~robbed /\ (\A p \in Procs : snap[p] = {}) =>
    Cardinality(file.has \cap Deviations) <= Cap + Cardinality(Procs) - 1
=============================================================================
