-------------------------- MODULE JsonStoreProofs --------------------------
(***************************************************************************)
(* mutateJsonStore for any number of processes, entries and crashes.  What *)
(* the lock protects is stated by where the holder stands: before it       *)
(* publishes, the file is what it read and lacks its entry; after that,    *)
(* the file is what it read with the entry, and SQLite has no row of it.   *)
(* All of it holds until a live holder is robbed of its lock.              *)
(*                                                                         *)
(* At the end, what holds of the lesson commands although some of them     *)
(* take no lock; and the cap on deviation lessons, which is checked before *)
(* the lock is asked for: what counts against it is the file together with *)
(* the captures under way, and the check sees only the file.               *)
(***************************************************************************)
EXTENDS LessonsStore, ProjectLockProofs

USE NoEntryNone

\* Every step of the store is a step of the lock, or none.
LEMMA JsonTakesLockSteps == [JsonNext]_jsonVars => [LockNext]_lockVars
BY DEF JsonNext, GrowOld, StoreStep, Mutate, LockLoop, ReadStore, WriteStore, MirrorStore,
       Rollback, Finish, Die, LockNext, LockStep, jsonVars

LEMMA OverTyping ==
  ASSUME JsonTypeOK, NEW p \in Procs, Over(p)
  PROVE  /\ step' \in [Procs -> TaskSteps \cup {"none"}]
         /\ entry' \in [Procs -> Entries \cup {NoEntry}]
         /\ orig' \in [Procs -> FileValue]
BY DEF JsonTypeOK, Over, Then, FileValue, Absent

\* A command runs from the lock loop to its release, and has an entry meanwhile.
Placed ==
  \A p \in Procs :
    /\ step[p] = "none" <=> pc[p] = "idle"
    /\ step[p] \notin {"none", "read"} => pc[p] = "held"
    /\ step[p] # "none" => entry[p] \in used

\* Nobody else's entry, nothing that was acknowledged.
Distinct ==
  /\ file.has \subseteq used /\ acked \subseteq file.has
  /\ \A p \in Procs : step[p] # "none" => entry[p] \notin acked
  /\ \A p, q \in Procs :
       p # q /\ step[p] # "none" /\ step[q] # "none" => entry[p] # entry[q]

\* What the file is to a process at each step.
Held ==
  \A p \in Procs :
    /\ step[p] \in {"read", "write", "failed"} => entry[p] \notin file.has
    /\ step[p] = "write" => orig[p].has = file.has
    /\ step[p] \in {"mirror", "rollback"} =>
         /\ file.has = orig[p].has \cup {entry[p]}
         /\ entry[p] \notin orig[p].has
         /\ rows[entry[p]] = 0
    /\ step[p] = "done" => entry[p] \in file.has

Mirrored == \A e \in Entries : rows[e] <= (IF e \in file.has THEN 1 ELSE 0)

Sound == Distinct /\ Held /\ Mirrored

JsonInv == LockInv /\ JsonTypeOK /\ Placed /\ (~robbed => Sound)

LEMMA JsonTypingStep == JsonTypeOK /\ Placed /\ [JsonNext]_jsonVars => JsonTypeOK'
<1> SUFFICES ASSUME JsonTypeOK, Placed, [JsonNext]_jsonVars PROVE JsonTypeOK'  OBVIOUS
<1> USE DEF TaskSteps, Then, At
<1>1. LockTypeOK'
  BY JsonTakesLockSteps, LockTypingStep DEF JsonTypeOK
<1>2. ASSUME NEW p \in Procs, NEW e \in Entries, Mutate(p, e) PROVE JsonTypeOK'
  BY <1>1, <1>2 DEF Mutate, JsonTypeOK
<1>3. ASSUME NEW p \in Procs, LockLoop(p) PROVE JsonTypeOK'
  BY <1>1, <1>3, OverTyping DEF LockLoop, JsonTypeOK
<1>4. ASSUME NEW p \in Procs, ReadStore(p) PROVE JsonTypeOK'
  BY <1>1, <1>4 DEF ReadStore, JsonTypeOK
<1>5. ASSUME NEW p \in Procs, WriteStore(p) PROVE JsonTypeOK'
  <2>1. Json(orig[p].has \cup {entry[p]}) \in FileValue
    BY <1>5 DEF WriteStore, JsonTypeOK, Json, FileValue, Placed
  <2> QED  BY <1>1, <1>5, <2>1 DEF WriteStore, JsonTypeOK
<1>6. ASSUME NEW p \in Procs, MirrorStore(p) PROVE JsonTypeOK'
  BY <1>1, <1>6 DEF MirrorStore, JsonTypeOK, OneMore, MaxRows
<1>7. ASSUME NEW p \in Procs, Rollback(p) PROVE JsonTypeOK'
  BY <1>1, <1>7 DEF Rollback, JsonTypeOK
<1>8. ASSUME NEW p \in Procs, Finish(p) PROVE JsonTypeOK'
  <2>1. acked' \subseteq used' /\ used' \subseteq Entries
    BY <1>8 DEF Finish, JsonTypeOK, Placed
  <2> QED  BY <1>1, <1>8, <2>1, OverTyping DEF Finish, JsonTypeOK
<1>9. ASSUME NEW p \in Procs, Die(p) PROVE JsonTypeOK'
  BY <1>1, <1>9, OverTyping DEF Die, JsonTypeOK
<1>10. CASE GrowOld \/ UNCHANGED jsonVars
  BY <1>1, <1>10 DEF GrowOld, storeVars, jsonVars, JsonTypeOK
<1> QED
  BY <1>2, <1>3, <1>4, <1>5, <1>6, <1>7, <1>8, <1>9, <1>10 DEF JsonNext, StoreStep

LEMMA PlacedStep == JsonInv /\ [JsonNext]_jsonVars => Placed'
<1> SUFFICES ASSUME JsonInv, [JsonNext]_jsonVars PROVE Placed'  OBVIOUS
<1> USE DEF JsonInv, JsonTypeOK, LockTypeOK, Placed, Then, At
<1>1. ASSUME NEW p \in Procs, NEW e \in Entries, Mutate(p, e) PROVE Placed'
  BY <1>1 DEF Mutate, Call, Goto
<1>2. ASSUME NEW p \in Procs, LockLoop(p) PROVE Placed'
  BY <1>2, AcquiringMoves DEF LockLoop, Over
<1>3. ASSUME NEW p \in Procs, ReadStore(p) \/ WriteStore(p) \/ MirrorStore(p) \/ Rollback(p)
      PROVE  Placed'
  BY <1>3 DEF ReadStore, WriteStore, MirrorStore, Rollback, lockVars
<1>4. ASSUME NEW p \in Procs, Finish(p) \/ Die(p) PROVE Placed'
  BY <1>4 DEF Finish, Die, Release, Crash, Over, Goto
<1>5. CASE GrowOld \/ UNCHANGED jsonVars
  BY <1>5 DEF GrowOld, Age, storeVars, lockVars, jsonVars
<1> QED  BY <1>1, <1>2, <1>3, <1>4, <1>5 DEF JsonNext, StoreStep

\* A command begins: nobody has had its entry before.
LEMMA MutateSound ==
  ASSUME JsonInv, Sound, NEW p \in Procs, NEW e \in Entries, Mutate(p, e)
  PROVE  Sound'
<1> USE DEF JsonInv, JsonTypeOK, Placed, Sound, Mutate, Then
<1>1. Distinct'
  BY DEF Distinct
<1>2. Held'
  BY DEF Distinct, Held
<1>3. Mirrored'
  BY DEF Mirrored
<1> QED  BY <1>1, <1>2, <1>3

\* What does not touch the stores, and takes a process out or leaves it, is sound.
LEMMA LeavingSound ==
  ASSUME JsonInv, Sound, UNCHANGED <<file, rows, acked, used>>,
         UNCHANGED <<step, entry, orig>> \/ \E p \in Procs : Over(p)
  PROVE  Sound'
<1> USE DEF JsonInv, JsonTypeOK, Placed, Sound, Over, Then
<1>1. Distinct'
  BY DEF Distinct
<1>2. Held'
  BY DEF Held
<1>3. Mirrored'
  BY DEF Mirrored
<1> QED  BY <1>1, <1>2, <1>3

\* While p holds the lock the others wait for it or are out.
LEMMA OthersWait ==
  ASSUME JsonInv, ~robbed, NEW p \in Procs, pc[p] = "held", NEW q \in Procs, q # p
  PROVE  step[q] \in {"none", "read"}
BY HolderAlone DEF JsonInv, Placed

LEMMA ReadSound ==
  ASSUME JsonInv, Sound, NEW p \in Procs, ReadStore(p)
  PROVE  Sound'
<1> USE DEF JsonInv, JsonTypeOK, Sound, ReadStore, At, Then
<1>1. Distinct'
  BY DEF Distinct
<1>2. Held'
  BY DEF Held
<1>3. Mirrored'
  BY DEF Mirrored
<1> QED  BY <1>1, <1>2, <1>3

\* The entry is new to the file, hence SQLite has no row of it.
LEMMA WriteSound ==
  ASSUME JsonInv, Sound, ~robbed, NEW p \in Procs, WriteStore(p)
  PROVE  Sound'
<1> USE DEF JsonInv, JsonTypeOK, Placed, Sound, WriteStore, At, Then
<1>1. CASE Then(p, "failed") /\ UNCHANGED file
  <2>1. Distinct' /\ Mirrored'
    BY <1>1 DEF Distinct, Mirrored
  <2>2. Held'
    BY <1>1 DEF Held
  <2> QED  BY <2>1, <2>2
<1>2. CASE file' = Json(orig[p].has \cup {entry[p]}) /\ Then(p, "mirror")
  <2>1. /\ file'.has = file.has \cup {entry[p]} /\ orig[p].has = file.has
        /\ entry[p] \notin file.has
    BY <1>2 DEF Held, Json
  <2>2. rows[entry[p]] = 0
    BY <2>1 DEF Mirrored
  <2>3. Distinct'
    BY <1>2, <2>1 DEF Distinct
  <2>4. Held'
    BY <1>2, <2>1, <2>2, OthersWait DEF Held, Distinct
  <2>5. Mirrored'
    <3>1. \A e \in Entries : rows'[e] = rows[e] /\ (e \in file.has => e \in file'.has)
      BY <2>1
    <3> QED  BY <3>1 DEF Mirrored
  <2> QED  BY <2>3, <2>4, <2>5
<1> QED  BY <1>1, <1>2

LEMMA MirrorSound ==
  ASSUME JsonInv, Sound, ~robbed, NEW p \in Procs, MirrorStore(p)
  PROVE  Sound'
<1> USE DEF JsonInv, JsonTypeOK, Placed, Sound, MirrorStore, At, Then
<1>1. entry[p] \in file.has /\ rows[entry[p]] = 0
  BY DEF Held
<1>2. rows' = [rows EXCEPT ![entry[p]] = 1] \/ rows' = rows
  BY <1>1 DEF OneMore, MaxRows
<1>3. Distinct'
  BY DEF Distinct
<1>4. Held'
  BY <1>1, OthersWait DEF Held
<1>5. Mirrored'
  BY <1>1, <1>2 DEF Mirrored
<1> QED  BY <1>3, <1>4, <1>5

\* Back to what the process read: its entry was not there, and nothing else has
\* come since.
LEMMA RollbackSound ==
  ASSUME JsonInv, Sound, ~robbed, NEW p \in Procs, Rollback(p)
  PROVE  Sound'
<1> USE DEF JsonInv, JsonTypeOK, Placed, Sound, Rollback, At, Then
<1>1. /\ file.has = orig[p].has \cup {entry[p]} /\ entry[p] \notin orig[p].has
      /\ rows[entry[p]] = 0
  BY DEF Held
<1>2. Distinct'
  BY <1>1 DEF Distinct
<1>3. Held'
  BY <1>1, OthersWait DEF Held
<1>4. Mirrored'
  BY <1>1 DEF Mirrored
<1> QED  BY <1>2, <1>3, <1>4

LEMMA FinishSound ==
  ASSUME JsonInv, Sound, ~robbed, NEW p \in Procs, Finish(p)
  PROVE  Sound'
<1> USE DEF JsonInv, JsonTypeOK, Placed, Sound, Finish, Over, Then
<1>1. Distinct'
  BY DEF Distinct, Held
<1>2. Held'
  BY DEF Held
<1>3. Mirrored'
  BY DEF Mirrored
<1> QED  BY <1>1, <1>2, <1>3

\* Once robbed, a process stays robbed.
LEMMA RobbedStays == LockInv /\ [LockNext]_lockVars => (robbed => robbed')
BY RobbedSteps DEF LockInv, lockVars

LEMMA JsonInvStep == JsonInv /\ [JsonNext]_jsonVars => JsonInv'
<1> SUFFICES ASSUME JsonInv, [JsonNext]_jsonVars PROVE JsonInv'  OBVIOUS
<1>1. LockInv' /\ (robbed => robbed')
  BY JsonTakesLockSteps, LockInvPreserved, RobbedStays DEF JsonInv
<1>2. JsonTypeOK' /\ Placed'
  BY JsonTypingStep, PlacedStep DEF JsonInv
<1>3. ASSUME ~robbed, Sound PROVE Sound'
  <2>1. ASSUME NEW p \in Procs, NEW e \in Entries, Mutate(p, e) PROVE Sound'
    BY <1>3, <2>1, MutateSound
  <2>2. ASSUME NEW p \in Procs, LockLoop(p) PROVE Sound'
    BY <1>3, <2>2, LeavingSound DEF LockLoop
  <2>3. ASSUME NEW p \in Procs, Die(p) PROVE Sound'
    BY <1>3, <2>3, LeavingSound DEF Die
  <2>4. ASSUME NEW p \in Procs, ReadStore(p) \/ WriteStore(p) \/ MirrorStore(p) \/ Rollback(p)
                                  \/ Finish(p)
        PROVE  Sound'
    BY <1>3, <2>4, ReadSound, WriteSound, MirrorSound, RollbackSound, FinishSound
  <2>5. CASE GrowOld \/ UNCHANGED jsonVars
    BY <1>3, <2>5, LeavingSound DEF GrowOld, storeVars, jsonVars
  <2> QED  BY <2>1, <2>2, <2>3, <2>4, <2>5 DEF JsonNext, StoreStep
<1> QED  BY <1>1, <1>2, <1>3 DEF JsonInv

LEMMA JsonInitially == JsonInit => JsonInv
<1> SUFFICES ASSUME JsonInit PROVE JsonInv  OBVIOUS
<1>1. LockInv
  BY LockInvInitially DEF JsonInit
<1>2. JsonTypeOK
  BY <1>1 DEF JsonInit, StoreInit, JsonTypeOK, LockInv, FileValue, Absent, TaskSteps, MaxRows
<1>3. Placed
  BY DEF JsonInit, StoreInit, LockInit, Placed
<1>4. Sound
  BY DEF JsonInit, StoreInit, Sound, Distinct, Held, Mirrored, Absent
<1> QED  BY <1>1, <1>2, <1>3, <1>4 DEF JsonInv

LEMMA JsonInvariance == JsonSpec => []JsonInv
BY JsonInitially, JsonInvStep, PTL DEF JsonSpec
-----------------------------------------------------------------------------
\* Every reachable state of the store is well typed.
THEOREM JsonTyping == JsonSpec => []JsonTypeOK
BY JsonInvariance, PTL DEF JsonInv

\* An acknowledged append is in the file until a live holder is robbed.
THEOREM JsonKeepsAppends == JsonSpec => []NoLostAppend
<1>1. JsonInv => NoLostAppend
  BY DEF JsonInv, Sound, Distinct, NoLostAppend
<1> QED  BY <1>1, JsonInvariance, PTL

\* Until then SQLite shows nothing twice, and nothing that the file lacks.
THEOREM JsonMirrorsWithin == JsonSpec => []MirrorWithinStore
<1>1. JsonInv => MirrorWithinStore
  BY DEF JsonInv, Sound, Mirrored, MirrorWithinStore
<1> QED  BY <1>1, JsonInvariance, PTL

\* Until then a call that throws leaves neither entry nor row.
THEOREM JsonFailsCleanly == JsonSpec => FailureLeavesNoTrace
<1>1. JsonInv => [\A p \in Procs :
        Finish(p) /\ step[p] = "failed" /\ ~robbed
          => entry[p] \notin file.has /\ rows[entry[p]] = 0]_jsonVars
  <2> SUFFICES ASSUME JsonInv, NEW p \in Procs, step[p] = "failed", ~robbed
               PROVE  entry[p] \notin file.has /\ rows[entry[p]] = 0
    OBVIOUS
  <2> QED  BY DEF JsonInv, JsonTypeOK, Placed, Sound, Held, Mirrored
<1> QED  BY <1>1, JsonInvariance, PTL DEF FailureLeavesNoTrace
-----------------------------------------------------------------------------
\* A process that has published, and may still take its entry back.
Undecided(p) == step[p] \in {"mirror", "rollback"}

\* What is committed: the file, less the entry of the one who is undecided.
CommittedIs ==
  /\ (\A p \in Procs : ~Undecided(p)) => Committed = file.has
  /\ \A p \in Procs : Undecided(p) => Committed = file.has \ {entry[p]}

LEMMA CommittedHolds == JsonInv /\ ~robbed => CommittedIs
<1> SUFFICES ASSUME JsonInv, ~robbed PROVE CommittedIs  OBVIOUS
<1>1. \A q \in Procs : (At(q, "mirror") \/ At(q, "rollback")) <=> Undecided(q)
  BY DEF JsonInv, Placed, At, Undecided
<1>2. CASE \A p \in Procs : ~Undecided(p)
  BY <1>1, <1>2 DEF Committed, CommittedIs
<1>3. ASSUME NEW p \in Procs, Undecided(p) PROVE Committed = file.has \ {entry[p]}
  <2>1. \A q \in Procs : Undecided(q) <=> q = p
    BY <1>3, HolderAlone DEF JsonInv, Placed, Undecided
  <2> QED  BY <1>1, <2>1 DEF Committed
<1> QED  BY <1>2, <1>3 DEF CommittedIs

LEMMA CommittedHoldsNext == (JsonInv /\ ~robbed => CommittedIs)'
BY CommittedHolds, PTL

\* The store is mapped to what is committed: a mirror that ends well appends, so
\* does a rollback that throws or a crash that leaves a published entry behind.
THEOREM JsonImplementsAppend == JsonSpec => ImplementsAppend
<1>1. JsonInit => Store!Init
  BY DEF JsonInit, StoreInit, Store!Init, Committed, Absent
<1>2. JsonInv /\ [JsonNext]_jsonVars
        => [~robbed' => Store!Next \/ UNCHANGED Committed]_jsonVars
  <2> SUFFICES ASSUME JsonInv, JsonNext, ~robbed'
               PROVE  Store!Next \/ UNCHANGED Committed
    OBVIOUS
  <2>1. JsonInv' /\ ~robbed
    BY JsonInvStep, JsonTakesLockSteps, RobbedStays DEF JsonInv
  <2>2. CommittedIs /\ CommittedIs' /\ Sound /\ Sound'
    BY <2>1, CommittedHolds, CommittedHoldsNext DEF JsonInv
  <2> USE DEF JsonInv, JsonTypeOK, Placed, Then, At, Undecided
  <2>3. ASSUME UNCHANGED file,
               \A q \in Procs : (Undecided(q) <=> Undecided(q)') /\ (Undecided(q) => entry'[q] = entry[q])
        PROVE  UNCHANGED Committed
    <3>1. CASE \A q \in Procs : ~Undecided(q)
      <4>1. Committed = file.has /\ Committed' = file'.has
        BY <2>2, <2>3, <3>1 DEF CommittedIs
      <4> QED  BY <2>3, <4>1
    <3>2. ASSUME NEW q \in Procs, Undecided(q) PROVE UNCHANGED Committed
      <4>1. Committed = file.has \ {entry[q]} /\ Committed' = file'.has \ {entry'[q]}
        BY <2>2, <2>3, <3>2 DEF CommittedIs
      <4> QED  BY <2>3, <3>2, <4>1
    <3> QED  BY <3>1, <3>2
  <2>4. ASSUME NEW p \in Procs, Undecided(p), UNCHANGED file, \A q \in Procs : ~Undecided(q)'
        PROVE  Store!Next
    <3>1. Committed = file.has \ {entry[p]} /\ Committed' = file.has /\ entry[p] \in file.has
      BY <2>2, <2>4 DEF CommittedIs, Sound, Held
    <3> QED  BY <3>1, <2>4 DEF Store!Next, Store!Append
  <2>5. ASSUME NEW p \in Procs, NEW e \in Entries, Mutate(p, e) PROVE UNCHANGED Committed
    BY <2>3, <2>5 DEF Mutate
  <2>6. ASSUME NEW p \in Procs, LockLoop(p) PROVE UNCHANGED Committed
    BY <2>3, <2>6, AcquiringMoves DEF LockLoop, Over
  <2>7. ASSUME NEW p \in Procs, ReadStore(p) \/ Finish(p) PROVE UNCHANGED Committed
    BY <2>3, <2>7 DEF ReadStore, Finish, Over
  <2>8. ASSUME NEW p \in Procs, WriteStore(p) PROVE UNCHANGED Committed
    <3>1. CASE Then(p, "failed") /\ UNCHANGED file
      BY <2>3, <2>8, <3>1 DEF WriteStore
    <3>2. CASE file' = Json(orig[p].has \cup {entry[p]}) /\ Then(p, "mirror")
      <4>1. \A q \in Procs : ~Undecided(q)
        BY <2>1, <2>8, OthersWait DEF WriteStore
      <4>2. Undecided(p)' /\ entry'[p] = entry[p]
        BY <2>8, <3>2 DEF WriteStore
      <4>3. file'.has = file.has \cup {entry[p]} /\ entry[p] \notin file.has
        BY <2>2, <2>8, <3>2 DEF WriteStore, Json, Sound, Held
      <4>4. Committed = file.has /\ Committed' = file'.has \ {entry[p]}
        BY <2>2, <4>1, <4>2 DEF CommittedIs
      <4> QED  BY <4>3, <4>4
    <3> QED  BY <2>8, <3>1, <3>2 DEF WriteStore
  <2>9. ASSUME NEW p \in Procs, MirrorStore(p) PROVE Store!Next \/ UNCHANGED Committed
    <3>1. \A q \in Procs \ {p} : ~Undecided(q)
      BY <2>1, <2>9, OthersWait DEF MirrorStore
    <3> QED  BY <2>3, <2>4, <2>9, <3>1 DEF MirrorStore
  <2>10. ASSUME NEW p \in Procs, Rollback(p) PROVE Store!Next \/ UNCHANGED Committed
    <3>1. \A q \in Procs \ {p} : ~Undecided(q)
      BY <2>1, <2>10, OthersWait DEF Rollback
    <3>2. CASE Then(p, "broken") /\ UNCHANGED file
      BY <2>4, <2>10, <3>1, <3>2 DEF Rollback
    <3>3. CASE file' = orig[p] /\ Then(p, "failed")
      <4>1. Undecided(p) /\ file.has = orig[p].has \cup {entry[p]} /\ entry[p] \notin orig[p].has
        BY <2>2, <2>10 DEF Sound, Held, Rollback
      <4>2. \A q \in Procs : ~Undecided(q)'
        BY <2>10, <3>1, <3>3 DEF Rollback
      <4>3. Committed = file.has \ {entry[p]} /\ Committed' = file'.has
        BY <2>2, <4>1, <4>2 DEF CommittedIs
      <4> QED  BY <3>3, <4>1, <4>3
    <3> QED  BY <2>10, <3>2, <3>3 DEF Rollback
  <2>11. ASSUME NEW p \in Procs, Die(p) PROVE Store!Next \/ UNCHANGED Committed
    <3>1. CASE Undecided(p)
      <4>1. \A q \in Procs \ {p} : ~Undecided(q)
        BY <2>1, <3>1, OthersWait
      <4> QED  BY <2>4, <2>11, <3>1, <4>1 DEF Die, Over
    <3>2. CASE ~Undecided(p)
      BY <2>3, <2>11, <3>2 DEF Die, Over
    <3> QED  BY <3>1, <3>2
  <2>12. CASE GrowOld
    BY <2>3, <2>12 DEF GrowOld, storeVars
  <2> QED
    BY <2>5, <2>6, <2>7, <2>8, <2>9, <2>10, <2>11, <2>12 DEF JsonNext, StoreStep
<1> QED  BY <1>1, <1>2, JsonInvariance, PTL DEF JsonSpec, ImplementsAppend
-----------------------------------------------------------------------------
\* A lesson command that has begun has an entry, unless it compacts.
Begun == \A p \in Procs : step[p] \in TaskSteps \cup {"checked"} => entry[p] \in used

LessonInv == LessonTypeOK /\ Begun

LEMMA LessonOver ==
  ASSUME LessonInv, NEW p \in Procs, Over(p)
  PROVE  /\ step' \in [Procs -> LessonSteps] /\ entry' \in [Procs -> Entries \cup {NoEntry}]
         /\ orig' \in [Procs -> FileValue]
         /\ \A q \in Procs : step'[q] \in TaskSteps \cup {"checked"} =>
                              entry'[q] = entry[q] /\ step[q] = step'[q]
BY DEF LessonInv, LessonTypeOK, Over, Then, FileValue, Absent, LessonSteps, TaskSteps

\* A step of the append under its lock keeps the types of its own variables.
LEMMA AppendTyping ==
  ASSUME LessonInv, NEW p \in Procs, AppendLesson(p)
  PROVE  LessonInv'
<1> USE DEF LessonInv, LessonTypeOK, Begun, LessonSteps, TaskSteps, Then, At
<1>1. /\ [LockNext]_lockVars => LockTypeOK'
      /\ detached' \in [Procs -> BOOLEAN] /\ snap' = snap
  <2>1. detached' = [q \in Procs |-> detached[q] \/ Replaces(p)] /\ snap' = snap
    BY DEF AppendLesson
  <2>2. detached' \in [Procs -> BOOLEAN]
    BY <2>1, Zenon
  <2> QED  BY <2>1, <2>2, LockTypingStep
<1>2. ASSUME NEW e \in Entries, Mutate(p, e) PROVE LessonInv'
  <2>1. LockTypeOK'
    BY <1>1, <1>2 DEF Mutate, LockNext, LockStep
  <2> QED  BY <1>1, <1>2, <2>1 DEF Mutate
<1>3. ASSUME LockLoop(p), step[p] \in TaskSteps PROVE LessonInv'
  <2>1. LockTypeOK'
    BY <1>1, <1>3 DEF LockLoop, LockNext, LockStep
  <2> QED  BY <1>1, <1>3, <2>1, LessonOver DEF LockLoop
<1>4. CASE ReadStore(p)
  BY <1>1, <1>4 DEF ReadStore
<1>5. CASE WriteStore(p)
  <2>1. Json(orig[p].has \cup {entry[p]}) \in FileValue
    BY <1>5 DEF WriteStore, Json, FileValue
  <2> QED  BY <1>1, <1>5, <2>1 DEF WriteStore
<1>6. CASE MirrorStore(p)
  BY <1>1, <1>6 DEF MirrorStore, OneMore, MaxRows
<1>7. CASE Rollback(p)
  BY <1>1, <1>7 DEF Rollback
<1>8. CASE Finish(p)
  <2>1. acked' \subseteq used' /\ used' \subseteq Entries
    BY <1>8 DEF Finish
  <2>2. LockTypeOK'
    BY <1>1, <1>8 DEF Finish, LockNext, LockStep
  <2> QED  BY <1>1, <1>8, <2>1, <2>2, LessonOver DEF Finish
<1>9. CASE Die(p)
  <2>1. LockTypeOK'
    BY <1>1, <1>9 DEF Die, LockNext, LockStep
  <2> QED  BY <1>1, <1>9, <2>1, LessonOver DEF Die
<1> QED  BY <1>2, <1>3, <1>4, <1>5, <1>6, <1>7, <1>8, <1>9 DEF AppendLesson

LEMMA LessonInvStep == LessonInv /\ [LessonNext]_lessonVars => LessonInv'
<1> SUFFICES ASSUME LessonInv, [LessonNext]_lessonVars PROVE LessonInv'  OBVIOUS
<1> USE DEF LessonInv, LessonTypeOK, Begun, LessonSteps, TaskSteps, Then, lockVars, compactVars
<1>1. [LockNext]_lockVars => LockTypeOK'
  BY LockTypingStep
<1>2. ASSUME NEW p \in Procs, NEW e \in Entries, CheckCap(p, e) PROVE LessonInv'
  BY <1>1, <1>2 DEF CheckCap
<1>3. ASSUME NEW p \in Procs, CaptureDeviation(p) PROVE LessonInv'
  BY <1>1, <1>3 DEF CaptureDeviation, LockNext, LockStep
<1>4. ASSUME NEW p \in Procs, Compact(p) PROVE LessonInv'
  <2>1. Readable \subseteq Entries
    BY DEF Readable, FileValue
  <2>2. snap' \in [Procs -> SUBSET Entries]
    BY <1>4, <2>1 DEF Compact, Merged
  <2> QED  BY <1>1, <1>4, <2>2 DEF Compact
<1>5. ASSUME NEW p \in Procs, Truncate(p) PROVE LessonInv'
  BY <1>1, <1>5 DEF Truncate, FileValue
<1>6. ASSUME NEW p \in Procs, Fill(p) PROVE LessonInv'
  BY <1>1, <1>6 DEF Fill, FileValue, Json
<1>7. ASSUME NEW p \in Procs, Remirror(p) PROVE LessonInv'
  BY <1>1, <1>7 DEF Remirror, OneMore, MaxRows
<1>8. ASSUME NEW p \in Procs, DieUnlocked(p) PROVE LessonInv'
  <2>1. LockTypeOK'
    BY <1>8, BoundsNat DEF DieUnlocked, LockTypeOK
  <2> QED  BY <1>8, <2>1, LessonOver DEF DieUnlocked
<1>9. CASE GrowOlder
  BY <1>1, <1>9 DEF GrowOlder, GrowOld, LockNext, storeVars
<1>10. CASE UNCHANGED lessonVars
  BY <1>1, <1>10 DEF lessonVars, jsonVars, storeVars
<1> QED
  BY <1>2, <1>3, <1>4, <1>5, <1>6, <1>7, <1>8, <1>9, <1>10, AppendTyping
  DEF LessonNext, LessonStep

LEMMA LessonInitially == LessonInit => LessonInv
<1> SUFFICES ASSUME LessonInit PROVE LessonInv  OBVIOUS
<1>1. JsonInv
  BY JsonInitially DEF LessonInit
<1> QED  BY <1>1 DEF LessonInit, JsonInit, StoreInit, JsonInv, JsonTypeOK, LessonInv,
                     LessonTypeOK, Begun, LessonSteps, TaskSteps

LEMMA LessonInvariance == LessonSpec => []LessonInv
BY LessonInitially, LessonInvStep, PTL DEF LessonSpec

\* Every reachable state of the lesson commands is well typed.
THEOREM LessonTyping == LessonSpec => []LessonTypeOK
BY LessonInvariance, PTL DEF LessonInv

\* No step takes the last row of a lesson away.
LEMMA RowsStay ==
  ASSUME LessonInv, LessonNext, NEW e \in Entries, rows[e] > 0
  PROVE  rows'[e] > 0
<1> USE DEF LessonInv, LessonTypeOK
<1>1. ASSUME NEW p \in Procs, MirrorStore(p) PROVE rows'[e] > 0
  BY <1>1 DEF MirrorStore, OneMore, MaxRows
<1>2. ASSUME NEW p \in Procs, Remirror(p) PROVE rows'[e] > 0
  BY <1>2 DEF Remirror, OneMore, MaxRows
<1>3. CASE UNCHANGED rows
  BY <1>3
<1>4. ASSUME NEW p \in Procs, AppendLesson(p), ~MirrorStore(p) PROVE UNCHANGED rows
  BY <1>4 DEF AppendLesson, Mutate, LockLoop, ReadStore, WriteStore, Rollback, Finish, Die
<1>5. ASSUME NEW p \in Procs, LessonStep(p), ~AppendLesson(p), ~Remirror(p) PROVE UNCHANGED rows
  BY <1>5 DEF LessonStep, CheckCap, CaptureDeviation, Compact, Truncate, Fill, DieUnlocked
<1>6. GrowOlder => UNCHANGED rows
  BY DEF GrowOlder, GrowOld, storeVars
<1> QED  BY <1>1, <1>2, <1>3, <1>4, <1>5, <1>6 DEF LessonNext

\* SQLite forgets no root cause: the lesson that stands for it stays.
THEOREM LessonsStayInSqlite == LessonSpec => SqliteForgetsNothing
<1>1. LessonInv /\ [LessonNext]_lessonVars =>
        [\A e \in Entries :
           rows[e] > 0 => \E f \in Entries : Cause[f] = Cause[e] /\ rows'[f] > 0]_lessonVars
  BY RowsStay
<1> QED  BY <1>1, LessonInvariance, PTL DEF LessonSpec, SqliteForgetsNothing
-----------------------------------------------------------------------------
\* What is counted against the cap is what is in the file and what captures that have
\* passed the check are going to add.  Text that is not an array holds nothing; a process
\* that has compacted remembers it.
WellFormed(v) == v.kind # "json" => v.has = {}
CompactSteps == {"truncate", "fill", "remirror"}

LessonPlaced ==
  /\ WellFormed(file)
  /\ \A p \in Procs :
       /\ WellFormed(orig[p])
       /\ pc[p] = "idle" <=> step[p] \in {"none", "checked"} \cup CompactSteps
       /\ step[p] \in TaskSteps \ {"read"} => pc[p] = "held"
       /\ step[p] \in CompactSteps => snap[p] # {}

Uncompacted == ~robbed /\ \A p \in Procs : snap[p] = {}

\* Nothing but the holder writes the file: it publishes or puts back what it has read.
InHand ==
  \A p \in Procs :
    /\ step[p] = "write" => orig[p].has = file.has
    /\ step[p] \in {"mirror", "rollback"} => orig[p].has \subseteq file.has

Queued == {entry[p] : p \in {q \in Procs : step[q] \in {"checked", "read", "write"}}}
Taken == (file.has \cup Queued) \cap Deviations

CapInv ==
  /\ LockInv /\ LessonInv /\ LessonPlaced
  /\ Uncompacted =>
       InHand /\ IsFiniteSet(Taken) /\ Cardinality(Taken) <= Cap + Cardinality(Procs) - 1

\* A compaction has something to write.
LEMMA MergedIsNotEmpty ==
  ASSUME NEW S \in SUBSET Entries, Cardinality(S) >= Threshold, NEW T \in Merged(S)
  PROVE  T # {}
<1> SUFFICES ASSUME T = {} PROVE FALSE  OBVIOUS
<1>1. S # {}
  BY FS_EmptySet, LessonConstants
<1>2. PICK e \in S : Cardinality({f \in T : Cause[f] = Cause[e]}) = 1
  BY <1>1 DEF Merged
<1>3. {f \in T : Cause[f] = Cause[e]} = {}
  OBVIOUS
<1> QED  BY <1>2, <1>3, FS_EmptySet

\* The lock, for commands that may also die outside of it.
LEMMA LessonLockStep ==
  ASSUME LockInv, [LessonNext]_lessonVars
  PROVE  LockInv' /\ (robbed => robbed')
<1>1. CASE [LockNext]_lockVars
  BY <1>1, LockInvPreserved, RobbedStays
<1>2. CASE UNCHANGED <<pc, lockDir, left, robbed>> /\ crashes < MaxCrashes /\ crashes' = crashes + 1
  BY <1>2, BoundsNat DEF LockInv, LockTypeOK, HoldsOwn
<1>3. ASSUME NEW p \in Procs, AppendLesson(p) PROVE [LockNext]_lockVars
  BY <1>3 DEF AppendLesson, Mutate, LockLoop, ReadStore, WriteStore, MirrorStore, Rollback, Finish, Die,
              LockNext, LockStep
<1>4. ASSUME NEW p \in Procs, LessonStep(p), ~AppendLesson(p), ~DieUnlocked(p)
      PROVE  [LockNext]_lockVars
  BY <1>4 DEF LessonStep, CheckCap, CaptureDeviation, Compact, Truncate, Fill, Remirror, LockNext, LockStep
<1>5. GrowOlder \/ UNCHANGED lessonVars => [LockNext]_lockVars
  BY DEF GrowOlder, GrowOld, LockNext, lessonVars, jsonVars
<1>6. ASSUME NEW p \in Procs, DieUnlocked(p)
      PROVE  UNCHANGED <<pc, lockDir, left, robbed>> /\ crashes < MaxCrashes /\ crashes' = crashes + 1
  BY <1>6 DEF DieUnlocked
<1> QED  BY <1>1, <1>2, <1>3, <1>4, <1>5, <1>6 DEF LessonNext

LEMMA LessonPlacedStep ==
  ASSUME LessonInv, LessonPlaced, [LessonNext]_lessonVars
  PROVE  LessonPlaced'
<1> USE DEF LessonInv, LessonTypeOK, LockTypeOK, LessonSteps, TaskSteps, CompactSteps, Then, At, Goto
<1> USE DEF LessonPlaced, WellFormed
<1>1. ASSUME NEW p \in Procs, NEW e \in Entries, Mutate(p, e), UNCHANGED snap PROVE LessonPlaced'
  BY <1>1 DEF Mutate, Call
<1>2. ASSUME NEW p \in Procs, LockLoop(p), step[p] \in TaskSteps, UNCHANGED snap PROVE LessonPlaced'
  BY <1>2, AcquiringMoves DEF LockLoop, Over, Absent
<1>3. ASSUME NEW p \in Procs, ReadStore(p), UNCHANGED snap PROVE LessonPlaced'
  BY <1>3 DEF ReadStore, lockVars
<1>4. ASSUME NEW p \in Procs, WriteStore(p), UNCHANGED snap PROVE LessonPlaced'
  BY <1>4 DEF WriteStore, lockVars, Json
<1>5. ASSUME NEW p \in Procs, MirrorStore(p), UNCHANGED snap PROVE LessonPlaced'
  BY <1>5 DEF MirrorStore, lockVars
<1>6. ASSUME NEW p \in Procs, Rollback(p), UNCHANGED snap PROVE LessonPlaced'
  BY <1>6 DEF Rollback, lockVars
<1>7. ASSUME NEW p \in Procs, Finish(p) \/ (Die(p) /\ step[p] \in TaskSteps), UNCHANGED snap PROVE LessonPlaced'
  BY <1>7 DEF Finish, Die, Release, Crash, Over, Absent
<1>8. ASSUME NEW p \in Procs, AppendLesson(p) PROVE LessonPlaced'
  BY <1>1, <1>2, <1>3, <1>4, <1>5, <1>6, <1>7, <1>8 DEF AppendLesson
<1>9. ASSUME NEW p \in Procs, NEW e \in Entries, CheckCap(p, e) PROVE LessonPlaced'
  BY <1>9 DEF CheckCap, lockVars, compactVars
<1>10. ASSUME NEW p \in Procs, CaptureDeviation(p) PROVE LessonPlaced'
  BY <1>10 DEF CaptureDeviation, Call, compactVars
<1>11. ASSUME NEW p \in Procs, Compact(p) PROVE LessonPlaced'
  <2>1. Readable \in SUBSET Entries
    BY DEF Readable, FileValue
  <2>2. PICK T \in Merged(Readable) : snap' = [snap EXCEPT ![p] = T]
    BY <1>11 DEF Compact
  <2>3. T # {}
    BY <1>11, <2>1, MergedIsNotEmpty DEF Compact
  <2> QED  BY <1>11, <2>2, <2>3 DEF Compact, lockVars
<1>12. ASSUME NEW p \in Procs, Truncate(p) \/ Fill(p) \/ Remirror(p) PROVE LessonPlaced'
  BY <1>12 DEF Truncate, Fill, Remirror, Json, lockVars, compactVars
<1>13. ASSUME NEW p \in Procs, DieUnlocked(p) PROVE LessonPlaced'
  BY <1>13 DEF DieUnlocked, Over, Absent, compactVars
<1>14. CASE GrowOlder \/ UNCHANGED lessonVars
  BY <1>14 DEF GrowOlder, GrowOld, Age, lessonVars, jsonVars, lockVars, storeVars, compactVars
<1> QED  BY <1>8, <1>9, <1>10, <1>11, <1>12, <1>13, <1>14 DEF LessonNext, LessonStep

\* Before the first compaction all that happens to the file happens under the lock.
LEMMA UncompactedSteps ==
  ASSUME CapInv, [LessonNext]_lessonVars, Uncompacted'
  PROVE  /\ Uncompacted
         /\ \/ \E p \in Procs : AppendLesson(p) \/ CaptureDeviation(p) \/ DieUnlocked(p)
            \/ \E p \in Procs, e \in Entries : CheckCap(p, e)
            \/ UNCHANGED <<file, step, entry, orig>>
<1> USE DEF CapInv, LessonInv, LessonTypeOK
<1>1. ~robbed
  BY LessonLockStep DEF Uncompacted
<1>2. ASSUME NEW p \in Procs, Compact(p) PROVE FALSE
  <2>1. Readable \in SUBSET Entries
    BY DEF Readable, FileValue
  <2>2. PICK T \in Merged(Readable) : snap' = [snap EXCEPT ![p] = T]
    BY <1>2 DEF Compact
  <2>3. T # {}
    BY <1>2, <2>1, MergedIsNotEmpty DEF Compact
  <2> QED  BY <2>2, <2>3 DEF Uncompacted
<1>3. ASSUME NEW p \in Procs, Truncate(p) \/ Fill(p) \/ Remirror(p) PROVE FALSE
  BY <1>3 DEF Truncate, Fill, Remirror, compactVars, LessonPlaced, CompactSteps, Uncompacted
<1>4. ASSUME NEW p \in Procs, AppendLesson(p) \/ CaptureDeviation(p) \/ DieUnlocked(p) PROVE UNCHANGED snap
  BY <1>4 DEF AppendLesson, CaptureDeviation, DieUnlocked, compactVars
<1>5. ASSUME NEW p \in Procs, NEW e \in Entries, CheckCap(p, e) PROVE UNCHANGED snap
  BY <1>5 DEF CheckCap, compactVars
<1>6. CASE GrowOlder \/ UNCHANGED lessonVars
  <2>1. UNCHANGED <<file, step, entry, orig, snap>>
    BY <1>6 DEF GrowOlder, GrowOld, storeVars, compactVars, lessonVars, jsonVars
  <2> QED  BY <1>1, <2>1 DEF Uncompacted
<1> QED  BY <1>1, <1>2, <1>3, <1>4, <1>5, <1>6 DEF LessonNext, LessonStep, Uncompacted

\* While p holds the lock the others wait for it or are out.
LEMMA OtherLessonsWait ==
  ASSUME LockInv, LessonPlaced, ~robbed, NEW p \in Procs, pc[p] = "held", NEW q \in Procs, q # p
  PROVE  step[q] \notin TaskSteps \ {"read"}
BY HolderAlone DEF LessonPlaced

\* No step but the check itself counts anything more.
LEMMA TakenShrinks ==
  ASSUME CapInv, Uncompacted, NEW p \in Procs, AppendLesson(p) \/ CaptureDeviation(p) \/ DieUnlocked(p)
  PROVE  InHand' /\ Taken' \subseteq Taken
<1> USE DEF CapInv, LessonInv, LessonTypeOK, LessonSteps, TaskSteps, CompactSteps, Then, At
<1>1. \A q \in Procs \ {p} : pc[p] = "held" => step[q] \notin TaskSteps \ {"read"}
  BY OtherLessonsWait DEF Uncompacted
<1>2. InHand /\ ~robbed
  BY DEF Uncompacted
\* Nothing happens to the file, and nobody joins the queue.
<1>3. ASSUME UNCHANGED file,
             \A q \in Procs :
               /\ step'[q] \in {"checked", "read", "write"} =>
                    \/ step[q] \in {"checked", "read", "write"} /\ entry'[q] = entry[q]
                    \/ entry'[q] \notin Deviations
               /\ step'[q] = "write" => orig'[q].has = file.has
               /\ step'[q] \in {"mirror", "rollback"} => orig'[q].has \subseteq file.has
      PROVE  InHand' /\ Taken' \subseteq Taken
  BY <1>3 DEF InHand, Taken, Queued
<1>4. ASSUME NEW e \in Entries \ Deviations, Mutate(p, e) PROVE InHand' /\ Taken' \subseteq Taken
  BY <1>2, <1>3, <1>4 DEF Mutate, InHand
<1>5. ASSUME LockLoop(p) PROVE InHand' /\ Taken' \subseteq Taken
  BY <1>2, <1>3, <1>5 DEF LockLoop, Over, InHand
<1>6. ASSUME ReadStore(p) PROVE InHand' /\ Taken' \subseteq Taken
  BY <1>2, <1>3, <1>6 DEF ReadStore, InHand
<1>7. ASSUME WriteStore(p) PROVE InHand' /\ Taken' \subseteq Taken
  <2>1. CASE Then(p, "failed") /\ UNCHANGED file
    BY <1>2, <1>3, <1>7, <2>1 DEF WriteStore, InHand
  <2>2. CASE file' = Json(orig[p].has \cup {entry[p]}) /\ Then(p, "mirror")
    <3>1. file'.has = file.has \cup {entry[p]} /\ orig[p].has = file.has /\ entry[p] \in Queued
      BY <1>2, <1>7, <2>2 DEF WriteStore, Json, InHand, Queued
    <3>2. Queued' \subseteq Queued
      BY <1>7, <2>2 DEF WriteStore, Queued
    <3>3. InHand'
      BY <1>1, <1>2, <1>7, <2>2, <3>1 DEF WriteStore, InHand
    <3> QED  BY <3>1, <3>2, <3>3 DEF Taken
  <2> QED  BY <1>7, <2>1, <2>2 DEF WriteStore
<1>8. ASSUME MirrorStore(p) PROVE InHand' /\ Taken' \subseteq Taken
  BY <1>2, <1>3, <1>8 DEF MirrorStore, InHand
<1>9. ASSUME Rollback(p) PROVE InHand' /\ Taken' \subseteq Taken
  <2>1. file'.has \subseteq file.has /\ step'[p] \in {"failed", "broken"} /\ UNCHANGED <<entry, orig>>
    BY <1>2, <1>9 DEF Rollback, InHand
  <2>2. \A q \in Procs \ {p} : step'[q] = step[q] /\ step[q] \notin {"write", "mirror", "rollback"}
    BY <1>1, <1>9 DEF Rollback
  <2>3. InHand'
    BY <2>1, <2>2 DEF InHand
  <2>4. Queued' \subseteq Queued
    BY <2>1, <2>2 DEF Queued
  <2> QED  BY <2>1, <2>3, <2>4 DEF Taken
<1>10. ASSUME Finish(p) \/ Die(p) \/ DieUnlocked(p) PROVE InHand' /\ Taken' \subseteq Taken
  BY <1>2, <1>3, <1>10 DEF Finish, Die, DieUnlocked, Over, InHand
<1>11. ASSUME CaptureDeviation(p) PROVE InHand' /\ Taken' \subseteq Taken
  BY <1>2, <1>3, <1>11 DEF CaptureDeviation, InHand
<1> QED  BY <1>4, <1>5, <1>6, <1>7, <1>8, <1>9, <1>10, <1>11 DEF AppendLesson

\* As many may be queued as there are processes.
LEMMA QueueFits ==
  IsFiniteSet(Procs) => IsFiniteSet(Queued) /\ Cardinality(Queued) <= Cardinality(Procs)
<1> SUFFICES ASSUME IsFiniteSet(Procs)
             PROVE  IsFiniteSet(Queued) /\ Cardinality(Queued) <= Cardinality(Procs)
  OBVIOUS
<1> DEFINE P == {q \in Procs : step[q] \in {"checked", "read", "write"}}
           f == [q \in P |-> entry[q]]
<1>1. IsFiniteSet(P) /\ Cardinality(P) <= Cardinality(Procs)
  BY FS_Subset
<1>2. f \in Surjection(P, Queued)
  BY DEF Surjection, Queued
<1>3. IsFiniteSet(Queued) /\ Cardinality(Queued) <= Cardinality(P)
  <2> HIDE DEF P, f
  <2> QED  BY <1>1, <1>2, FS_Surjection
<1>4. Cardinality(Queued) \in Nat /\ Cardinality(P) \in Nat /\ Cardinality(Procs) \in Nat
  BY <1>1, <1>3, FS_CardinalityType
<1> QED  BY <1>1, <1>3, <1>4

LEMMA QueueFitsNext ==
  (IsFiniteSet(Procs) => IsFiniteSet(Queued) /\ Cardinality(Queued) <= Cardinality(Procs))'
BY QueueFits, PTL

\* Who passes the check has seen fewer than Cap, and all the others may be queued by then.
LEMMA CheckAdmits ==
  ASSUME CapInv, Uncompacted, IsFiniteSet(Procs), NEW p \in Procs, NEW e \in Entries,
         CheckCap(p, e)
  PROVE  /\ InHand' /\ IsFiniteSet(Taken')
         /\ Cardinality(Taken') <= Cap + Cardinality(Procs) - 1
<1> USE DEF CapInv
<1>1. InHand'
  BY DEF CheckCap, InHand, Then, LessonInv, LessonTypeOK
<1> DEFINE D == file.has \cap Deviations
           Q == Queued' \cap Deviations
<1>2. Readable \cap Deviations = D /\ UNCHANGED file
  BY DEF CheckCap, Readable, LessonPlaced, WellFormed
<1>3. IsFiniteSet(D) /\ Cardinality(D) < Cap
  <2>1. D \in SUBSET Taken
    BY DEF Taken
  <2> QED  BY <1>2, <2>1, FS_Subset DEF CheckCap
<1>4. IsFiniteSet(Q) /\ Cardinality(Q) <= Cardinality(Procs)
  <2>1. IsFiniteSet(Queued') /\ Cardinality(Queued') <= Cardinality(Procs)
    BY QueueFitsNext
  <2>2. IsFiniteSet(Q) /\ Cardinality(Q) <= Cardinality(Queued')
    BY <2>1, FS_Subset
  <2>3. Cardinality(Q) \in Nat /\ Cardinality(Queued') \in Nat /\ Cardinality(Procs) \in Nat
    BY <2>1, <2>2, FS_CardinalityType
  <2> QED  BY <2>1, <2>2, <2>3
<1>5. Taken' = D \cup Q
  BY <1>2 DEF Taken
<1>6. /\ IsFiniteSet(Taken') /\ IsFiniteSet(D \cap Q)
      /\ Cardinality(Taken') = Cardinality(D) + Cardinality(Q) - Cardinality(D \cap Q)
  <2> HIDE DEF D, Q
  <2> QED  BY <1>3, <1>4, <1>5, FS_Union, FS_Intersection
<1>7. /\ Cardinality(D) \in Nat /\ Cardinality(Q) \in Nat /\ Cardinality(D \cap Q) \in Nat
      /\ Cardinality(Taken') \in Nat /\ Cardinality(Procs) \in Nat /\ Cap \in Nat
  BY <1>3, <1>4, <1>6, FS_CardinalityType, LessonConstants
<1>8. Cardinality(Taken') <= Cap + Cardinality(Procs) - 1
  <2> HIDE DEF D, Q
  <2> QED  BY <1>3, <1>4, <1>6, <1>7
<1> QED  BY <1>1, <1>6, <1>8

LEMMA CapStep ==
  ASSUME CapInv, IsFiniteSet(Procs), [LessonNext]_lessonVars
  PROVE  CapInv'
<1>1. LockInv' /\ LessonInv' /\ LessonPlaced'
  BY LessonLockStep, LessonInvStep, LessonPlacedStep DEF CapInv
<1> SUFFICES ASSUME Uncompacted'
             PROVE  InHand' /\ IsFiniteSet(Taken') /\ Cardinality(Taken') <= Cap + Cardinality(Procs) - 1
  BY <1>1 DEF CapInv
<1>2. Uncompacted /\ InHand /\ IsFiniteSet(Taken) /\ Cardinality(Taken) <= Cap + Cardinality(Procs) - 1
  BY UncompactedSteps DEF CapInv
<1>3. ASSUME InHand', Taken' \subseteq Taken
      PROVE  IsFiniteSet(Taken') /\ Cardinality(Taken') <= Cap + Cardinality(Procs) - 1
  <2>1. IsFiniteSet(Taken') /\ Cardinality(Taken') <= Cardinality(Taken)
    BY <1>2, <1>3, FS_Subset
  <2>2. /\ Cardinality(Taken') \in Nat /\ Cardinality(Taken) \in Nat
        /\ Cardinality(Procs) \in Nat /\ Cap \in Nat
    BY <1>2, <2>1, FS_CardinalityType, LessonConstants
  <2> QED  BY <1>2, <2>1, <2>2
<1>4. ASSUME NEW p \in Procs, AppendLesson(p) \/ CaptureDeviation(p) \/ DieUnlocked(p)
      PROVE  InHand' /\ Taken' \subseteq Taken
  BY <1>2, <1>4, TakenShrinks
<1>5. ASSUME NEW p \in Procs, NEW e \in Entries, CheckCap(p, e)
      PROVE  InHand' /\ IsFiniteSet(Taken') /\ Cardinality(Taken') <= Cap + Cardinality(Procs) - 1
  BY <1>1, <1>2, <1>5, CheckAdmits
<1>6. CASE UNCHANGED <<file, step, entry, orig>>
  BY <1>2, <1>6 DEF InHand, Taken, Queued
<1> QED  BY <1>3, <1>4, <1>5, <1>6, UncompactedSteps

\* The count is taken without the lock, so captures that run together may pass the cap,
\* each by its one entry and never by more: for any number of processes the file holds
\* at most one deviation less than the cap and one for each process, until a compaction
\* or a stale break (cmdDeviationCapture, src/commands/lessons.js:268).
THEOREM LessonsOvershootBounded ==
  ASSUME IsFiniteSet(Procs), Procs # {}
  PROVE  LessonSpec => []DeviationOvershoot
<1>1. LessonInit => CapInv
  <2> SUFFICES ASSUME LessonInit PROVE CapInv  OBVIOUS
  <2>1. LockInv /\ LessonInv
    BY LessonInitially, LockInvInitially DEF LessonInit, JsonInit
  <2>2. LessonPlaced /\ InHand /\ Taken = {}
    BY DEF LessonInit, JsonInit, LockInit, StoreInit, Absent, LessonPlaced, WellFormed, CompactSteps,
           TaskSteps, InHand, Taken, Queued
  <2>3. Cardinality(Procs) \in Nat \ {0} /\ Cap \in Nat
    BY FS_CardinalityType, FS_EmptySet, LessonConstants
  <2> QED  BY <2>1, <2>2, <2>3, FS_EmptySet DEF CapInv
<1>2. CapInv /\ [LessonNext]_lessonVars => CapInv'
  BY CapStep
<1>3. CapInv => DeviationOvershoot
  <2> SUFFICES ASSUME CapInv, Uncompacted
               PROVE  Cardinality(file.has \cap Deviations) <= Cap + Cardinality(Procs) - 1
    BY DEF DeviationOvershoot, Uncompacted
  <2>1. IsFiniteSet(Taken) /\ Cardinality(Taken) <= Cap + Cardinality(Procs) - 1
    BY DEF CapInv
  <2>2. /\ IsFiniteSet(file.has \cap Deviations)
        /\ Cardinality(file.has \cap Deviations) <= Cardinality(Taken)
    BY <2>1, FS_Subset DEF Taken
  <2>3. /\ Cardinality(file.has \cap Deviations) \in Nat /\ Cardinality(Taken) \in Nat
        /\ Cardinality(Procs) \in Nat /\ Cap \in Nat
    BY <2>1, <2>2, FS_CardinalityType, LessonConstants
  <2> QED  BY <2>1, <2>2, <2>3
<1> QED  BY <1>1, <1>2, <1>3, PTL DEF LessonSpec
=============================================================================
