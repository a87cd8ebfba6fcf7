---------------------------- MODULE ProjectLock ----------------------------
(***************************************************************************)
(* The project lock of src/lib/project-lock.js: a directory,               *)
(* .planning/.lock, that a process creates with mkdir to enter and removes *)
(* to leave.  Processes are separate OS processes (CLI commands, the       *)
(* plugin), so every file system call is a step of its own.                *)
(*                                                                         *)
(* A directory older than `staleMs` counts as an orphan and is removed by  *)
(* whoever finds it.  Nothing in the directory says who made it; `owner`   *)
(* below is the modeller's annotation, no guard of the code reads it.      *)
(***************************************************************************)
EXTENDS Naturals, FiniteSets

CONSTANTS Procs,        \* processes that use one project directory
          MaxPolls,     \* longest timeoutMs, in polls of the lock (bound)
          MaxCrashes,   \* how many processes may die (bound)
          Ageing        \* which lock directories may outlive staleMs:
                        \* "orphan" (its maker died), "live" (the task is slow)

ASSUME BoundsNat == MaxPolls \in Nat /\ MaxCrashes \in Nat
ASSUME AgeingKinds == Ageing \subseteq {"orphan", "live"}

VARIABLES pc,           \* where each process stands in withProjectLock
          lockDir,      \* .planning/.lock: the set of directories there (0 or 1)
          left,         \* polls before Date.now() reaches the deadline
          robbed,       \* history: has a stale break taken a live holder's lock?
          crashes       \* history: processes that died (bound)

lockVars == <<pc, lockDir, left, robbed, crashes>>

PcValues == {"idle", "mkdir", "stat", "remove", "poll", "held"}

\* The directory a process creates: its maker, and whether its mtime is
\* more than staleMs ago.
Dir == [owner : Procs, stale : BOOLEAN]

LockTypeOK ==
  /\ pc \in [Procs -> PcValues]
  /\ lockDir \in SUBSET Dir
  /\ \A d, e \in lockDir : d = e
  /\ left \in [Procs -> 0..MaxPolls]
  /\ robbed \in BOOLEAN
  /\ crashes \in 0..MaxCrashes

Goto(p, l) == pc' = [pc EXCEPT ![p] = l]

Inside == {p \in Procs : pc[p] = "held"}

LockInit ==
  /\ pc = [p \in Procs |-> "idle"]
  /\ lockDir = {}
  /\ left = [p \in Procs |-> 0]
  /\ robbed = FALSE
  /\ crashes = 0
-----------------------------------------------------------------------------
\* withProjectLock is called: the deadline is fixed now.
Call(p) ==
  /\ pc[p] = "idle"
  /\ \E n \in 0..MaxPolls : left' = [left EXCEPT ![p] = n]
  /\ Goto(p, "mkdir")
  /\ UNCHANGED <<lockDir, robbed, crashes>>

\* Mutant: mkdirSync(lockDir, {recursive: true}) does not fail on EEXIST.
AcquireRecursive(p) ==
  /\ pc[p] = "mkdir"
  /\ lockDir' = IF lockDir = {} THEN {[owner |-> p, stale |-> FALSE]} ELSE lockDir
  /\ Goto(p, "held")
  /\ UNCHANGED <<left, robbed, crashes>>

\* fs.mkdirSync(lockDir) succeeds: the process is in.
Acquire(p) ==
  /\ pc[p] = "mkdir" /\ lockDir = {}
  /\ lockDir' = {[owner |-> p, stale |-> FALSE]}
  /\ Goto(p, "held")
  /\ UNCHANGED <<left, robbed, crashes>>

\* EEXIST.
Exists(p) ==
  /\ pc[p] = "mkdir" /\ lockDir # {}
  /\ Goto(p, "stat")
  /\ UNCHANGED <<lockDir, left, robbed, crashes>>

\* Mutant: no stale-lock recovery.
InspectNoRecovery(p) ==
  /\ pc[p] = "stat"
  /\ Goto(p, IF lockDir = {} THEN "mkdir" ELSE "poll")
  /\ UNCHANGED <<lockDir, left, robbed, crashes>>

\* fs.statSync(lockDir): gone means try again at once, too old means remove
\* it, otherwise look at the deadline.
Inspect(p) ==
  /\ pc[p] = "stat"
  /\ \/ lockDir = {} /\ Goto(p, "mkdir")
     \/ \E d \in lockDir : Goto(p, IF d.stale THEN "remove" ELSE "poll")
  /\ UNCHANGED <<lockDir, left, robbed, crashes>>

\* fs.rmSync(lockDir, {force: true}): removes whatever is there by now.
RemoveStale(p) ==
  /\ pc[p] = "remove"
  /\ lockDir' = {}
  /\ robbed' = (robbed \/ \E d \in lockDir : pc[d.owner] = "held")
  /\ Goto(p, "mkdir")
  /\ UNCHANGED <<left, crashes>>

\* Mutant: the lock is released on the ELOCKED path too.
GiveUpReleases(p) ==
  /\ pc[p] = "poll" /\ left[p] = 0
  /\ lockDir' = {}
  /\ Goto(p, "idle")
  /\ UNCHANGED <<left, robbed, crashes>>

\* The deadline has passed: throw ELOCKED.
GiveUp(p) ==
  /\ pc[p] = "poll" /\ left[p] = 0
  /\ Goto(p, "idle")
  /\ UNCHANGED <<lockDir, left, robbed, crashes>>

\* Mutant: the deadline is computed anew on every turn of the loop.
WaitDeadlineMoves(p) ==
  /\ pc[p] = "poll" /\ left[p] > 0
  /\ Goto(p, "mkdir")
  /\ UNCHANGED <<lockDir, left, robbed, crashes>>

\* sleepSync(retryMs), then try again.
Wait(p) ==
  /\ pc[p] = "poll" /\ left[p] > 0
  /\ left' = [left EXCEPT ![p] = @ - 1]
  /\ Goto(p, "mkdir")
  /\ UNCHANGED <<lockDir, robbed, crashes>>

\* The task returned, threw or settled: fs.rmSync(lockDir), whoever made it.
Release(p) ==
  /\ pc[p] = "held"
  /\ lockDir' = {}
  /\ Goto(p, "idle")
  /\ UNCHANGED <<left, robbed, crashes>>

\* The process stops without releasing: killed, process.exit in the task, or
\* a file system call other than the ones above throws.
Crash(p) ==
  /\ pc[p] # "idle" /\ crashes < MaxCrashes
  /\ crashes' = crashes + 1
  /\ Goto(p, "idle")
  /\ UNCHANGED <<lockDir, left, robbed>>

\* staleMs go by since the directory was made.
Age ==
  /\ \E d \in lockDir :
       /\ ~d.stale
       /\ (IF pc[d.owner] = "held" THEN "live" ELSE "orphan") \in Ageing
       /\ lockDir' = {[d EXCEPT !.stale = TRUE]}
  /\ UNCHANGED <<pc, left, robbed, crashes>>
-----------------------------------------------------------------------------
Acquiring(p) == Acquire(p) \/ Exists(p) \/ Inspect(p) \/ RemoveStale(p)
                  \/ GiveUp(p) \/ Wait(p)

LockStep(p) == Call(p) \/ Acquiring(p) \/ Release(p) \/ Crash(p)

LockNext == Age \/ \E p \in Procs : LockStep(p)

LockSpec == LockInit /\ [][LockNext]_lockVars

\* The processes are scheduled and tasks end.  Nothing says that commands keep
\* coming or that an orphan grows old.
LockFairness == \A p \in Procs : WF_lockVars(Acquiring(p)) /\ WF_lockVars(Release(p))
-----------------------------------------------------------------------------
\* withProjectLock serializes the mutations of a project (planning doc
\* 203-RESEARCH.md: "Prevents concurrent writers").
MutualExclusion == Cardinality(Inside) <= 1

\* The lock serializes whatever dies and whatever grows old, until a stale
\* break (project-lock.js:49) removes the directory of a process that is
\* inside.
ExclusiveUntilRobbed == ~robbed => MutualExclusion

\* Until then releaseProjectLock (:18), which does not look at what it
\* removes, takes away the releasing process's own directory.
ReleasesOwn ==
  [][\A p \in Procs : Release(p) /\ ~robbed => {d.owner : d \in lockDir} = {p}]_lockVars

\* An orphan never blocks the project for good: a process that finds a directory
\* older than staleMs gets it out of the way, unless it dies on the way
\* (stale-lock recovery, :46-51).
LockRecovers ==
  \A p \in Procs, n \in 0..MaxCrashes :
    (pc[p] = "stat" /\ crashes = n /\ \E d \in lockDir : d.stale)
      ~> (crashes > n \/ \A d \in lockDir : ~d.stale)

\* acquireProjectLock returns, with the lock or with ELOCKED, unless others
\* keep taking the lock: then the ENOENT retry (:53-54) skips the deadline.
AcquireReturns ==
  \A p \in Procs :
    <>[](Inside \subseteq {p}) => ((pc[p] = "mkdir") ~> (pc[p] \in {"held", "idle"}))

\* Who is inside, as long as that means anything.
Serialized == IF robbed THEN {} ELSE Inside

Mutex == INSTANCE ProjectMutex WITH inside <- Serialized

\* Until a stale break robs a live holder, the directory protocol implements the
\* mutex, whatever dies and whatever grows old; the robbed process counts as out.
ImplementsMutex == Mutex!Spec
=============================================================================
