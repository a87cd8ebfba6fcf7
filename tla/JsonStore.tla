------------------------------ MODULE JsonStore ------------------------------
(***************************************************************************)
(* mutateJsonStore (src/lib/json-store-mutator.js): read a JSON array,     *)
(* transform it, publish it by rename, mirror it into SQLite, and put the  *)
(* old file back when the mirror throws.  The transform is the one its     *)
(* callers use for lessons, trajectories and memories: append one entry.   *)
(*                                                                         *)
(* Every step runs while the project lock is held (pc[p] = "held"), except *)
(* that a process that lost its lock to a stale break does not know it.    *)
(***************************************************************************)
EXTENDS ProjectLock

CONSTANTS Entries,      \* entries that may be appended, each at most once
          NoEntry       \* what a process holds before its first

ASSUME NoEntryNone == NoEntry \notin Entries

VARIABLES file,         \* the JSON store: what kind of text, which entries
          rows,         \* the SQLite mirror: rows of each entry, counted to MaxRows
          step,         \* where each process stands in the locked task
          entry,        \* the entry each process appends
          orig,         \* originalContent: what each process read
          acked,        \* history: entries whose command reported success
          used          \* history: entries handed to a command

storeVars == <<file, rows, step, entry, orig, acked, used>>
jsonVars == <<lockVars, storeVars>>

TaskSteps == {"read", "write", "mirror", "rollback", "done", "failed", "broken"}

\* A file is missing, blank, a JSON array, or text that does not parse.
FileValue == [kind : {"absent", "blank", "json", "garbled"}, has : SUBSET Entries]
Absent == [kind |-> "absent", has |-> {}]
Json(S) == [kind |-> "json", has |-> S]

\* One row more; 2 stands for every number above 1.
MaxRows == 2
OneMore(n) == IF n < MaxRows THEN n + 1 ELSE n

JsonTypeOK ==
  /\ LockTypeOK
  /\ file \in FileValue
  /\ rows \in [Entries -> 0..MaxRows]
  /\ step \in [Procs -> TaskSteps \cup {"none"}]
  /\ entry \in [Procs -> Entries \cup {NoEntry}]
  /\ orig \in [Procs -> FileValue]
  /\ acked \subseteq used /\ used \subseteq Entries

StoreInit ==
  /\ file = Absent
  /\ rows = [e \in Entries |-> 0]
  /\ step = [p \in Procs |-> "none"]
  /\ entry = [p \in Procs |-> NoEntry]
  /\ orig = [p \in Procs |-> Absent]
  /\ acked = {} /\ used = {}

JsonInit == LockInit /\ StoreInit

At(p, s) == pc[p] = "held" /\ step[p] = s
Then(p, s) == step' = [step EXCEPT ![p] = s]

\* The call is over: its local variables are gone.
Over(p) ==
  /\ Then(p, "none")
  /\ entry' = [entry EXCEPT ![p] = NoEntry]
  /\ orig' = [orig EXCEPT ![p] = Absent]
-----------------------------------------------------------------------------
\* A command calls mutateJsonStore with a new entry.
Mutate(p, e) ==
  /\ step[p] = "none" /\ e \notin used
  /\ Call(p)
  /\ entry' = [entry EXCEPT ![p] = e]
  /\ used' = used \cup {e}
  /\ Then(p, "read")
  /\ UNCHANGED <<file, rows, orig, acked>>

\* ELOCKED, or the lock's own loop; a call that gives up is over.
LockLoop(p) ==
  /\ Acquiring(p)
  /\ IF GiveUp(p) THEN Over(p) ELSE UNCHANGED <<step, entry, orig>>
  /\ UNCHANGED <<file, rows, acked, used>>

\* existsSync, readFileSync, parse: text that is not JSON throws, a missing or
\* blank file is the empty store (its `has` is empty).
ReadStore(p) ==
  /\ At(p, "read")
  /\ IF file.kind = "garbled"
       THEN Then(p, "failed") /\ UNCHANGED orig
       ELSE Then(p, "write") /\ orig' = [orig EXCEPT ![p] = file]
  /\ UNCHANGED <<lockVars, file, rows, entry, acked, used>>

\* Mutant: the transform is given the default value, not what was read.
WriteFromDefault(p) ==
  /\ At(p, "write")
  /\ \/ file' = Json({entry[p]}) /\ Then(p, "mirror")
     \/ Then(p, "failed") /\ UNCHANGED file
  /\ UNCHANGED <<lockVars, rows, entry, orig, acked, used>>

\* writeFileAtomic: temp file and rename in one step for every reader; when it
\* throws the old file is untouched.
WriteStore(p) ==
  /\ At(p, "write")
  /\ \/ file' = Json(orig[p].has \cup {entry[p]}) /\ Then(p, "mirror")
     \/ Then(p, "failed") /\ UNCHANGED file
  /\ UNCHANGED <<lockVars, rows, entry, orig, acked, used>>

\* Mutant: the mirror throws after its row is committed.
MirrorThrowsLate(p) ==
  /\ At(p, "mirror")
  /\ rows' = [rows EXCEPT ![entry[p]] = OneMore(@)]
  /\ Then(p, "done") \/ Then(p, "rollback")
  /\ UNCHANGED <<lockVars, file, entry, orig, acked, used>>

\* sqliteMirror: it inserts the row, or writeMemoryEntry swallows the error of
\* the INSERT, or it throws.
MirrorStore(p) ==
  /\ At(p, "mirror")
  /\ \/ rows' = [rows EXCEPT ![entry[p]] = OneMore(@)] /\ Then(p, "done")
     \/ Then(p, "done") /\ UNCHANGED rows
     \/ Then(p, "rollback") /\ UNCHANGED rows
  /\ UNCHANGED <<lockVars, file, entry, orig, acked, used>>

\* Mutant: the error of the mirror is rethrown without restoring the file.
RollbackForgets(p) ==
  /\ At(p, "rollback")
  /\ Then(p, "failed")
  /\ UNCHANGED <<lockVars, file, rows, entry, orig, acked, used>>

\* rollbackJsonStore: remove the file if there was none, else put it back.  It
\* may throw as well, and then the file stays as it was published.
Rollback(p) ==
  /\ At(p, "rollback")
  /\ \/ file' = orig[p] /\ Then(p, "failed")
     \/ Then(p, "broken") /\ UNCHANGED file
  /\ UNCHANGED <<lockVars, rows, entry, orig, acked, used>>

\* The task returns or throws; withProjectLock releases either way.
Finish(p) ==
  /\ step[p] \in {"done", "failed", "broken"}
  /\ Release(p)
  /\ acked' = IF step[p] = "done" THEN acked \cup {entry[p]} ELSE acked
  /\ Over(p)
  /\ UNCHANGED <<file, rows, used>>

\* The process dies in the lock loop or in the task.
Die(p) ==
  /\ Crash(p)
  /\ Over(p)
  /\ UNCHANGED <<file, rows, acked, used>>

GrowOld == Age /\ UNCHANGED storeVars

StoreStep(p) ==
  \/ \E e \in Entries : Mutate(p, e)
  \/ LockLoop(p) \/ ReadStore(p) \/ WriteStore(p) \/ MirrorStore(p)
  \/ Rollback(p) \/ Finish(p) \/ Die(p)

JsonNext == GrowOld \/ \E p \in Procs : StoreStep(p)

JsonSpec == JsonInit /\ [][JsonNext]_jsonVars
-----------------------------------------------------------------------------
\* An append that was reported done is never lost, whoever appends at the same
\* time and whatever dies, as long as no live holder's lock is broken.
NoLostAppend == ~robbed => acked \subseteq file.has

\* SQLite never shows an entry twice, nor one the JSON store does not have:
\* the mirror runs after the file is published, and a throw takes both back
\* (json-store-mutator.js:86-104).  It may miss one: see MirrorStore, Die.
MirrorWithinStore ==
  ~robbed => \A e \in Entries : rows[e] <= (IF e \in file.has THEN 1 ELSE 0)

\* A mutation that throws leaves no trace of its entry in either store, unless
\* the rollback throws as well (json-store-mutator.js:32-44,101-104).
FailureLeavesNoTrace ==
  [][\A p \in Procs :
        Finish(p) /\ step[p] = "failed" /\ ~robbed
          => entry[p] \notin file.has /\ rows[entry[p]] = 0]_jsonVars

\* What is in the file less what a mutation in flight may still take back.
Committed ==
  file.has \ {entry[p] : p \in {q \in Procs : At(q, "mirror") \/ At(q, "rollback")}}

Store == INSTANCE AppendStore WITH contents <- Committed

\* Until a live holder is robbed of its lock, the locked read, publish, mirror and
\* rollback implement a store that takes one entry at a time and forgets none.
ImplementsAppend ==
  Store!Init /\ [][~robbed' => Store!Next \/ UNCHANGED Committed]_jsonVars
=============================================================================
