------------------------- MODULE ProjectLockProofs -------------------------
(***************************************************************************)
(* What the project lock guarantees for any number of processes, crashes   *)
(* and polls.                                                              *)
(***************************************************************************)
EXTENDS ProjectLock, FiniteSetTheorems, TLAPS

LEMMA LockTypingInitially == LockInit => LockTypeOK
<1> SUFFICES ASSUME LockInit PROVE LockTypeOK
  OBVIOUS
<1>1. 0 \in 0..MaxPolls /\ 0 \in 0..MaxCrashes
  BY BoundsNat
<1>2. robbed \in BOOLEAN
  BY Zenon DEF LockInit
<1> QED BY <1>1, <1>2 DEF LockInit, LockTypeOK, PcValues

LEMMA LockTypingStep == LockTypeOK /\ [LockNext]_lockVars => LockTypeOK'
<1> SUFFICES ASSUME LockTypeOK, [LockNext]_lockVars
             PROVE  LockTypeOK'
  OBVIOUS
<1> USE BoundsNat DEF LockTypeOK, PcValues, Goto, Dir
<1>1. ASSUME NEW p \in Procs, Call(p) PROVE LockTypeOK'
  BY <1>1 DEF Call
<1>2. ASSUME NEW p \in Procs, Acquire(p) PROVE LockTypeOK'
  BY <1>2 DEF Acquire
<1>3. ASSUME NEW p \in Procs, Exists(p) PROVE LockTypeOK'
  BY <1>3 DEF Exists
<1>4. ASSUME NEW p \in Procs, Inspect(p) PROVE LockTypeOK'
  BY <1>4 DEF Inspect
<1>5. ASSUME NEW p \in Procs, RemoveStale(p) PROVE LockTypeOK'
  <2>1. robbed' \in BOOLEAN
    BY <1>5, Zenon DEF RemoveStale
  <2> QED BY <1>5, <2>1 DEF RemoveStale
<1>6. ASSUME NEW p \in Procs, GiveUp(p) PROVE LockTypeOK'
  BY <1>6 DEF GiveUp
<1>7. ASSUME NEW p \in Procs, Wait(p) PROVE LockTypeOK'
  BY <1>7 DEF Wait
<1>8. ASSUME NEW p \in Procs, Release(p) PROVE LockTypeOK'
  BY <1>8 DEF Release
<1>9. ASSUME NEW p \in Procs, Crash(p) PROVE LockTypeOK'
  BY <1>9 DEF Crash
<1>10. CASE Age
  BY <1>10 DEF Age
<1>11. CASE UNCHANGED lockVars
  BY <1>11 DEF lockVars
<1> QED
  BY <1>1, <1>2, <1>3, <1>4, <1>5, <1>6, <1>7, <1>8, <1>9, <1>10, <1>11
  DEF LockNext, LockStep, Acquiring

\* Every variable keeps its type.
THEOREM LockTyping == LockSpec => []LockTypeOK
BY LockTypingInitially, LockTypingStep, PTL DEF LockSpec

-----------------------------------------------------------------------------
\* Until a live holder is robbed, whoever is inside made the directory that
\* is there: this is what the unconditional rmSync of a release relies on.
HoldsOwn ==
  ~robbed => \A p \in Procs : pc[p] = "held" => {d.owner : d \in lockDir} = {p}

LockInv == LockTypeOK /\ HoldsOwn

\* HoldsOwn is preserved, one step per action.
LEMMA LockInvStep == LockInv /\ [LockNext]_lockVars => HoldsOwn'
<1> SUFFICES ASSUME LockInv, [LockNext]_lockVars
             PROVE  HoldsOwn'
  OBVIOUS
<1> USE DEF LockInv, HoldsOwn, LockTypeOK, Goto
<1>1. ASSUME NEW p \in Procs, Call(p) PROVE HoldsOwn'
  BY <1>1 DEF Call
<1>2. ASSUME NEW p \in Procs, Acquire(p) PROVE HoldsOwn'
  \* Nobody was inside: the directory was absent.
  <2> SUFFICES ASSUME ~robbed', NEW q \in Procs, pc'[q] = "held"
               PROVE  {d.owner : d \in lockDir'} = {q}
    OBVIOUS
  <2>1. {d.owner : d \in lockDir'} = {p}
    BY <1>2 DEF Acquire
  <2>2. q = p
    <3> SUFFICES ASSUME q # p PROVE FALSE
      OBVIOUS
    <3>1. pc[q] = "held" /\ ~robbed /\ lockDir = {}
      BY <1>2 DEF Acquire
    <3> QED BY <3>1
  <2> QED BY <2>1, <2>2
<1>3. ASSUME NEW p \in Procs, Exists(p) PROVE HoldsOwn'
  BY <1>3 DEF Exists
<1>4. ASSUME NEW p \in Procs, Inspect(p) PROVE HoldsOwn'
  BY <1>4 DEF Inspect
<1>5. ASSUME NEW p \in Procs, RemoveStale(p) PROVE HoldsOwn'
  \* Had q been inside, the directory removed would have been q's, and the
  \* break would have robbed q.
  <2> SUFFICES ASSUME ~robbed', NEW q \in Procs, pc'[q] = "held"
               PROVE  FALSE
    OBVIOUS
  <2>1. pc[q] = "held"
    BY <1>5 DEF RemoveStale
  <2>2. ~robbed /\ \A d \in lockDir : pc[d.owner] # "held"
    BY <1>5 DEF RemoveStale
  <2>3. {d.owner : d \in lockDir} = {q}
    BY <2>1, <2>2
  <2> QED BY <2>1, <2>2, <2>3
<1>6. ASSUME NEW p \in Procs, GiveUp(p) PROVE HoldsOwn'
  BY <1>6 DEF GiveUp
<1>7. ASSUME NEW p \in Procs, Wait(p) PROVE HoldsOwn'
  BY <1>7 DEF Wait
<1>8. ASSUME NEW p \in Procs, Release(p) PROVE HoldsOwn'
  \* The releaser was the only one inside.
  <2> SUFFICES ASSUME ~robbed', NEW q \in Procs, pc'[q] = "held"
               PROVE  FALSE
    OBVIOUS
  <2>1. q # p /\ pc[q] = "held" /\ pc[p] = "held" /\ ~robbed
    BY <1>8 DEF Release
  <2>2. {p} = {q}
    BY <2>1
  <2> QED BY <2>1, <2>2
<1>9. ASSUME NEW p \in Procs, Crash(p) PROVE HoldsOwn'
  BY <1>9 DEF Crash
<1>10. CASE Age
  \* Growing old does not change who made the directory.
  <2>1. PICK d \in lockDir : lockDir' = {[d EXCEPT !.stale = TRUE]}
    BY <1>10 DEF Age
  <2>2. d \in Dir /\ lockDir = {d}
    BY <2>1
  <2>3. [d EXCEPT !.stale = TRUE].owner = d.owner
    BY <2>2 DEF Dir
  <2>4. {e.owner : e \in lockDir'} = {[d EXCEPT !.stale = TRUE].owner}
    BY <2>1, Zenon
  <2>5. {e.owner : e \in lockDir} = {d.owner}
    BY <2>2, Zenon
  <2> QED BY <1>10, <2>3, <2>4, <2>5 DEF Age
<1>11. CASE UNCHANGED lockVars
  BY <1>11 DEF lockVars
<1> QED
  BY <1>1, <1>2, <1>3, <1>4, <1>5, <1>6, <1>7, <1>8, <1>9, <1>10, <1>11
  DEF LockNext, LockStep, Acquiring

LEMMA LockInvInitially == LockInit => LockInv
BY LockTypingInitially DEF LockInit, LockInv, HoldsOwn

LEMMA LockInvPreserved == LockInv /\ [LockNext]_lockVars => LockInv'
BY LockTypingStep, LockInvStep DEF LockInv

LEMMA LockInvariance == LockSpec => []LockInv
BY LockInvInitially, LockInvPreserved, PTL DEF LockSpec

\* HoldsOwn leaves room for one process inside.
LEMMA OneInside == HoldsOwn => ExclusiveUntilRobbed
<1> SUFFICES ASSUME HoldsOwn, ~robbed
             PROVE  Cardinality(Inside) <= 1
  BY DEF ExclusiveUntilRobbed, MutualExclusion
<1>1. CASE Inside = {}
  BY <1>1, FS_EmptySet
<1>2. CASE Inside # {}
  <2>1. PICK p \in Inside : TRUE
    BY <1>2
  <2>2. \A q \in Inside : {q} = {p}
    BY <2>1 DEF HoldsOwn, Inside
  <2>3. Inside = {p}
    BY <2>1, <2>2
  <2> QED BY <2>3, FS_Singleton
<1> QED BY <1>1, <1>2

\* The lock serializes tasks until a stale break takes a live holder's
\* directory, for any number of processes and crashes.
THEOREM LockExcludes == LockSpec => []ExclusiveUntilRobbed
<1>1. LockInv => ExclusiveUntilRobbed
  BY OneInside DEF LockInv
<1> QED BY <1>1, LockInvariance, PTL

\* Until then a release never removes another process's directory.
THEOREM LockReleases == LockSpec => ReleasesOwn
<1>1. ASSUME LockInv, NEW p \in Procs, Release(p), ~robbed
      PROVE  {d.owner : d \in lockDir} = {p}
  BY <1>1 DEF LockInv, HoldsOwn, Release
<1>2. LockInv =>
        [\A p \in Procs : Release(p) /\ ~robbed => {d.owner : d \in lockDir} = {p}]_lockVars
  BY <1>1
<1> QED BY <1>2, LockInvariance, PTL DEF ReleasesOwn

-----------------------------------------------------------------------------
\* For the modules whose tasks run under the lock.

LEMMA HolderAlone ==
  ASSUME LockInv, ~robbed, NEW p \in Procs, NEW q \in Procs, pc[p] = "held", pc[q] = "held"
  PROVE  p = q
<1>1. {p} = {q}
  BY DEF LockInv, HoldsOwn
<1> QED BY <1>1

\* A turn of the lock loop moves its own process, which stays in the loop, gets
\* in, or gives up.
LEMMA AcquiringMoves ==
  ASSUME LockTypeOK, NEW p \in Procs, Acquiring(p)
  PROVE  /\ pc[p] \notin {"idle", "held"}
         /\ \A q \in Procs \ {p} : pc'[q] = pc[q]
         /\ GiveUp(p) <=> pc'[p] = "idle"
         /\ robbed => robbed'
<1> USE DEF LockTypeOK, Goto
<1>1. ASSUME Acquire(p) \/ Exists(p) \/ Inspect(p) \/ GiveUp(p) \/ Wait(p)
      PROVE  pc[p] \notin {"idle", "held"} /\ (\A q \in Procs \ {p} : pc'[q] = pc[q])
             /\ robbed' = robbed
  BY <1>1 DEF Acquire, Exists, Inspect, GiveUp, Wait
<1>2. CASE RemoveStale(p)
  <2>1. robbed => robbed'
    BY <1>2, Zenon DEF RemoveStale
  <2> QED BY <1>2, <2>1 DEF RemoveStale, GiveUp
<1>3. CASE Acquire(p) \/ Exists(p) \/ Inspect(p) \/ Wait(p)
  BY <1>1, <1>3 DEF Acquire, Exists, Inspect, Wait, GiveUp
<1>4. CASE GiveUp(p)
  BY <1>1, <1>4 DEF GiveUp
<1> QED BY <1>2, <1>3, <1>4 DEF Acquiring

-----------------------------------------------------------------------------
\* Only Acquire puts a process inside, only Release and Crash take one out.
LEMMA InsideSteps ==
  ASSUME LockTypeOK, LockNext
  PROVE  \/ UNCHANGED Inside
         \/ \E p \in Procs : /\ Acquire(p) /\ Inside' = Inside \cup {p}
         \/ \E p \in Procs : /\ p \in Inside /\ Inside' = Inside \ {p}
<1> USE DEF LockTypeOK, Inside, Goto
<1>1. ASSUME NEW p \in Procs, Call(p) PROVE UNCHANGED Inside
  BY <1>1 DEF Call
<1>2. ASSUME NEW p \in Procs, Acquire(p) PROVE Inside' = Inside \cup {p}
  BY <1>2 DEF Acquire
<1>3. ASSUME NEW p \in Procs, Exists(p) PROVE UNCHANGED Inside
  BY <1>3 DEF Exists
<1>4. ASSUME NEW p \in Procs, Inspect(p) PROVE UNCHANGED Inside
  BY <1>4 DEF Inspect
<1>5. ASSUME NEW p \in Procs, RemoveStale(p) PROVE UNCHANGED Inside
  BY <1>5 DEF RemoveStale
<1>6. ASSUME NEW p \in Procs, GiveUp(p) PROVE UNCHANGED Inside
  BY <1>6 DEF GiveUp
<1>7. ASSUME NEW p \in Procs, Wait(p) PROVE UNCHANGED Inside
  BY <1>7 DEF Wait
<1>8. ASSUME NEW p \in Procs, Release(p)
      PROVE  p \in Inside /\ Inside' = Inside \ {p}
  BY <1>8 DEF Release
<1>9. ASSUME NEW p \in Procs, Crash(p)
      PROVE  \/ UNCHANGED Inside
             \/ p \in Inside /\ Inside' = Inside \ {p}
  BY <1>9 DEF Crash
<1>10. CASE Age
  BY <1>10 DEF Age
<1> QED
  BY <1>1, <1>2, <1>3, <1>4, <1>5, <1>6, <1>7, <1>8, <1>9, <1>10
  DEF LockNext, LockStep, Acquiring

\* A process is robbed at most once for all, and then it was inside.
LEMMA RobbedSteps ==
  ASSUME LockTypeOK, LockNext
  PROVE  /\ robbed => robbed'
         /\ ~robbed /\ robbed' =>
              Inside' = Inside /\ \E d \in lockDir : d.owner \in Inside
<1> DEFINE Claim == /\ robbed => robbed'
                    /\ ~robbed /\ robbed' =>
                         Inside' = Inside /\ \E d \in lockDir : d.owner \in Inside
<1>1. ASSUME NEW p \in Procs, RemoveStale(p) PROVE Claim
  <2>1. Inside' = Inside
    BY <1>1 DEF RemoveStale, Inside, Goto, LockTypeOK
  <2>2. robbed' <=> (robbed \/ \E d \in lockDir : pc[d.owner] = "held")
    BY <1>1, Zenon DEF RemoveStale
  <2>3. \A d \in lockDir : d.owner \in Procs
    BY DEF LockTypeOK, Dir
  <2> QED BY <2>1, <2>2, <2>3 DEF Inside
<1>2. ASSUME UNCHANGED robbed PROVE Claim
  BY <1>2, Zenon
<1>3. ASSUME NEW p \in Procs, LockStep(p), ~RemoveStale(p) PROVE UNCHANGED robbed
  BY <1>3 DEF LockStep, Acquiring, Call, Acquire, Exists, Inspect, GiveUp, Wait, Release, Crash
<1>4. ASSUME Age PROVE UNCHANGED robbed
  BY <1>4 DEF Age
<1> QED BY <1>1, <1>2, <1>3, <1>4 DEF LockNext

\* The lock directory implements the abstract mutex until a live holder is robbed.
THEOREM LockImplementsMutex == LockSpec => ImplementsMutex
<1>1. LockInit => Mutex!Init
  BY DEF LockInit, Mutex!Init, Inside, Serialized
<1>2. LockInv /\ [LockNext]_lockVars => [Mutex!Next]_Serialized
  <2> SUFFICES ASSUME LockInv, LockNext
               PROVE  Mutex!Next \/ UNCHANGED Serialized
    BY DEF lockVars, Inside, Serialized
  <2>1. CASE robbed
    BY <2>1, RobbedSteps DEF LockInv, Serialized
  <2>2. CASE ~robbed /\ robbed'
    \* Whoever is robbed was alone.
    <3>1. PICK d \in lockDir : d.owner \in Inside
      BY <2>2, RobbedSteps DEF LockInv
    <3>2. \A q \in Inside : {q} = {d.owner}
      BY <2>2, <3>1 DEF LockInv, HoldsOwn, Inside
    <3>3. Inside = {d.owner} /\ d.owner \in Procs
      BY <3>1, <3>2 DEF Inside
    <3> QED BY <2>2, <3>3 DEF Mutex!Next, Mutex!Leave, Serialized
  <2>3. CASE ~robbed /\ ~robbed'
    <3>1. Serialized = Inside /\ Serialized' = Inside'
      BY <2>3 DEF Serialized
    <3>2. ASSUME NEW p \in Procs, Acquire(p), Inside' = Inside \cup {p}
          PROVE  Mutex!Enter(p)
      <4>1. Inside = {}
        BY <2>3, <3>2 DEF Acquire, LockInv, HoldsOwn, Inside
      <4> QED BY <3>1, <3>2, <4>1 DEF Mutex!Enter
    <3>3. ASSUME NEW p \in Procs, p \in Inside, Inside' = Inside \ {p}
          PROVE  Mutex!Leave(p)
      BY <3>1, <3>3 DEF Mutex!Leave
    <3> QED BY <3>1, <3>2, <3>3, InsideSteps DEF LockInv, Mutex!Next
  <2> QED BY <2>1, <2>2, <2>3
<1> QED BY <1>1, <1>2, LockInvariance, PTL DEF LockSpec, ImplementsMutex, Mutex!Spec
=============================================================================
