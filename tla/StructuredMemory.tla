-------------------------- MODULE StructuredMemory --------------------------
(***************************************************************************)
(* .planning/MEMORY.md: entries with ids which memory:add, memory:remove   *)
(* and memory:prune change by reading the whole file, working on the copy  *)
(* and publishing it by rename, without the project lock                   *)
(* (src/commands/memory.js); and the session of the plugin, which puts the *)
(* file into the prompt once and is told when it changes                   *)
(* (src/plugin/index.js).                                                  *)
(*                                                                         *)
(* The text of an entry is a token.  Which entries a prune finds old,      *)
(* replaced or inactive depends on dates and is left open.  A command may  *)
(* stop anywhere: nothing waits for it.                                    *)
(***************************************************************************)
EXTENDS Naturals, FiniteSets, FiniteSetsExt

CONSTANTS Writers,      \* processes that run memory commands
          Texts,        \* what may be added
          MaxId,        \* ids in use at a time (bound)
          NoMemory      \* there is no file, or no copy of it

ASSUME MemoryConstants == MaxId \in Nat

VARIABLES memory,       \* the entries of the file, or NoMemory
          mstep,        \* where each command stands
          change,       \* the entries a command adds, the ids it removes
          copy,         \* what each command will publish
          settled,      \* history: entries reported added and not removed
          crossed,      \* history: did two commands overlap?
          snapshot,     \* the text in the session's prompts: "none", "empty", "filled"
          outdated,     \* history: has the file changed since that was read?
          stale,        \* was the session told that the file changed?
          news          \* is an event of the file on its way to the plugin?

memoryVars == <<memory, mstep, change, copy, settled, crossed, snapshot, outdated, stale, news>>

\* Ids that have become free are given again.
MemoryIds == 1..MaxId
Memories == SUBSET [id : MemoryIds, text : Texts]
ASSUME NoMemoryIsNone == \A S \in Memories : NoMemory # S

NoChange == [adds |-> {}, drops |-> {}]

MemoryTypeOK ==
  /\ memory \in Memories \cup {NoMemory}
  /\ mstep \in [Writers -> {"none", "ensure", "create", "load", "write"}]
  /\ change \in [Writers -> [adds : Memories, drops : SUBSET MemoryIds]]
  /\ copy \in [Writers -> Memories \cup {NoMemory}]
  /\ settled \in Memories /\ crossed \in BOOLEAN
  /\ snapshot \in {"none", "empty", "filled"}
  /\ outdated \in BOOLEAN /\ stale \in BOOLEAN /\ news \in BOOLEAN

MemoryInit ==
  /\ memory \in {{}, NoMemory}
  /\ mstep = [w \in Writers |-> "none"]
  /\ change = [w \in Writers |-> NoChange]
  /\ copy = [w \in Writers |-> NoMemory]
  /\ settled = {} /\ crossed = FALSE
  /\ snapshot = "none" /\ outdated = FALSE /\ stale = FALSE /\ news = FALSE

sessionVars == <<snapshot, outdated, stale>>
pastVars == <<settled, crossed>>
Goes(w, s) == mstep' = [mstep EXCEPT ![w] = s]
Quits(w) ==
  /\ Goes(w, "none")
  /\ change' = [change EXCEPT ![w] = NoChange]
  /\ copy' = [copy EXCEPT ![w] = NoMemory]

Content == IF memory = NoMemory THEN {} ELSE memory
-----------------------------------------------------------------------------
\* A memory command is called; what it does is chosen when it has the file.
MemoryCall(w) ==
  /\ mstep[w] = "none" /\ Goes(w, "ensure")
  /\ UNCHANGED <<memory, change, copy, pastVars, sessionVars, news>>

\* ensureStructuredMemoryFile: existsSync.
Ensure(w) ==
  /\ mstep[w] = "ensure"
  /\ Goes(w, IF memory = NoMemory THEN "create" ELSE "load")
  /\ UNCHANGED <<memory, change, copy, pastVars, sessionVars, news>>

\* A file is published; the operating system tells the plugin's watcher.
PublishMemory(S) ==
  /\ memory' = S /\ news' = TRUE
  /\ outdated' = (outdated \/ (snapshot # "none" /\ S # Content))
  /\ UNCHANGED <<snapshot, stale>>

\* An empty file is published, whatever another command has written meanwhile.
CreateMemory(w) ==
  /\ mstep[w] = "create" /\ Goes(w, "load")
  /\ PublishMemory({})
  /\ crossed' = (crossed \/ memory # NoMemory \/ \E v \in Writers \ {w} : mstep[v] = "write")
  /\ settled' = IF crossed' THEN {} ELSE settled
  /\ UNCHANGED <<change, copy>>

\* Mutant: the ids are numbered by count.
CountedId(S) == Cardinality(S) + 1

\* nextStructuredMemoryId: one more than the highest.
NextId(S) == Max({0} \cup {e.id : e \in S}) + 1

\* Mutant: splice without a count, which takes the rest of the section along.
WithoutRest(S, ids) == {e \in S : \A i \in ids : e.id < i}

\* The entries that stay, by id.
Without(S, ids) == {e \in S : e.id \notin ids}

Prepare(w, S, c) ==
  /\ copy' = [copy EXCEPT ![w] = S]
  /\ change' = [change EXCEPT ![w] = c]
  /\ Goes(w, "write")

\* memory:add appends an entry.
Add(w) ==
  \E t \in Texts :
    LET new == [id |-> NextId(memory), text |-> t] IN
    /\ new.id \in MemoryIds
    /\ Prepare(w, memory \cup {new}, [adds |-> {new}, drops |-> {}])

\* memory:remove takes one out, memory:prune some.
Drop(w) ==
  \E ids \in SUBSET MemoryIds :
    Prepare(w, Without(memory, ids), [adds |-> {}, drops |-> ids])

\* The file is read, and the change is made on the copy, unless the id is not
\* there.
LoadMemory(w) ==
  /\ mstep[w] = "load"
  /\ Add(w) \/ Drop(w) \/ Quits(w)
  /\ UNCHANGED <<memory, pastVars, sessionVars, news>>

\* writeFileAtomic publishes the copy, and the command reports what it did.
\* (writeStructuredMemory looks for the file again; nobody removes it.)
WriteMemory(w) ==
  /\ mstep[w] = "write" /\ Quits(w)
  /\ PublishMemory(copy[w])
  /\ crossed' = (crossed \/ \E v \in Writers \ {w} : mstep[v] \in {"create", "write"})
  /\ settled' = IF crossed' THEN {}
                ELSE {e \in settled : e.id \notin change[w].drops} \cup change[w].adds
-----------------------------------------------------------------------------
\* Mutant: an empty text counts as no snapshot, as it is falsy.
HearFalsy ==
  /\ news /\ news' = FALSE
  /\ stale' = (stale \/ snapshot = "filled")
  /\ UNCHANGED <<memory, mstep, change, copy, pastVars, snapshot, outdated>>

\* getOrBuildMemorySnapshot: the first prompt reads the file, a missing one as
\* an empty text, and later prompts keep what it read.
BuildSnapshot ==
  /\ snapshot = "none"
  /\ snapshot' = IF Content = {} THEN "empty" ELSE "filled"
  /\ UNCHANGED <<memory, mstep, change, copy, pastVars, outdated, stale, news>>

\* handleExternalPlanningChange: from the first change after that on, the
\* snapshot is stale, and the session is told once.
Hear ==
  /\ news /\ news' = FALSE
  /\ stale' = (stale \/ snapshot # "none")
  /\ UNCHANGED <<memory, mstep, change, copy, pastVars, snapshot, outdated>>

MemoryStep(w) ==
  MemoryCall(w) \/ Ensure(w) \/ CreateMemory(w) \/ LoadMemory(w) \/ WriteMemory(w)

MemoryNext == BuildSnapshot \/ Hear \/ \E w \in Writers : MemoryStep(w)

MemorySpec == MemoryInit /\ [][MemoryNext]_memoryVars
-----------------------------------------------------------------------------
\* "removes by stable ID" (tests/memory.test.cjs:366): however adds, removals and
\* prunes follow each other and overlap, an id names one entry.
IdsUnique ==
  memory # NoMemory => \A e, f \in memory : e.id = f.id => e = f

\* An entry that was reported added stays until a command reports its removal, as
\* long as no command publishes a copy which another has overtaken.
MemoriesKept == ~crossed => settled \subseteq Content

\* A session never goes on with an outdated memory without a notice, given or due
\* when the event arrives ("MEMORY.md changed on disk; restart or refresh the
\* session to load the new snapshot", plugin/index.js:292).
StaleIsKnown == outdated => stale \/ news
=============================================================================
