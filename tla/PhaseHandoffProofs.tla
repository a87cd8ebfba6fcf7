------------------------- MODULE PhaseHandoffProofs -------------------------
(***************************************************************************)
(* What a handoff write leaves behind, for any number of processes, steps  *)
(* and payloads.  While a writer purges, every file of another run is on   *)
(* its list (the lock keeps other writers out, and who writes without it   *)
(* only takes files away); its own file, unless somebody hit it, is there  *)
(* and not on the list.  What is on the list is of another run, so to a    *)
(* reader the purge of a run that is selected changes nothing, and the     *)
(* files are seen to go through the abstract chain.                        *)
(***************************************************************************)
EXTENDS PhaseHandoff, ProjectLockProofs, WellFoundedInduction

USE HandoffConstants DEF Steps, Discuss, Times

LEMMA LeastExists ==
  ASSUME NEW S \in SUBSET Nat, S # {}
  PROVE  \E x \in S : \A y \in S : x <= y
<1> DEFINE Less == OpToRel(<, Nat)
<1> HIDE DEF Less
<1>1. \E x \in S : \A y \in S : <<y, x>> \notin Less
  <2>1. IsWellFoundedOn(Less, Nat)
    BY NatLessThanWellFounded DEF Less
  <2> QED  BY <2>1, WFMin
<1>2. \A x, y \in Nat : y < x => <<y, x>> \in Less
  BY DEF Less, OpToRel
<1>3. PICK x \in S : \A y \in S : ~(y < x)
  BY <1>1, <1>2
<1> QED  BY <1>3

\* Some files have a newest one.
LEMMA NewestIsAbove ==
  ASSUME art \in [Steps -> Artifact], NEW S \in SUBSET Steps, S # {}
  PROVE  /\ Newest(S) \in S
         /\ \A t \in S : \/ art[t].at < art[Newest(S)].at
                         \/ art[t].at = art[Newest(S)].at /\ t <= Newest(S)
<1>1. PICK x \in S : \A y \in S : art[y].at <= art[x].at
  <2> DEFINE Gaps == {MaxBuilds - art[s].at : s \in S}
  <2>1. Gaps \in SUBSET Nat /\ Gaps # {}
    <3>1. \A s \in S : MaxBuilds - art[s].at \in Nat
      BY DEF Artifact
    <3> QED  BY <3>1
  <2>2. PICK g \in Gaps : \A h \in Gaps : g <= h
    <3> HIDE DEF Gaps
    <3> QED  BY <2>1, LeastExists
  <2>3. PICK x \in S : g = MaxBuilds - art[x].at
    BY <2>2
  <2>4. ASSUME NEW y \in S PROVE art[y].at <= art[x].at
    <3>1. g <= MaxBuilds - art[y].at
      BY <2>2
    <3> QED  BY <2>3, <3>1 DEF Artifact
  <2> QED  BY <2>4
<1> DEFINE Last == {s \in S : art[s].at = art[x].at}
           Ranks == {LastStep - s : s \in Last}
<1>2. Ranks \in SUBSET Nat /\ Ranks # {}
  <2>1. \A s \in Last : LastStep - s \in Nat
    OBVIOUS
  <2> QED  BY <2>1
<1>3. PICK r \in Ranks : \A h \in Ranks : r <= h
  <2> HIDE DEF Ranks
  <2> QED  BY <1>2, LeastExists
<1>4. PICK s \in Last : r = LastStep - s
  BY <1>3
<1>5. ASSUME NEW t \in S PROVE art[t].at < art[s].at \/ (art[t].at = art[s].at /\ t <= s)
  <2>1. art[t].at <= art[s].at
    BY <1>1, <1>4
  <2>2. ASSUME art[t].at = art[s].at PROVE t <= s
    <3>1. t \in Last
      BY <1>4, <2>2
    <3>2. r <= LastStep - t
      BY <1>3, <3>1
    <3> QED  BY <1>4, <3>2
  <2> QED  BY <2>1, <2>2 DEF Artifact
<1> DEFINE Above(u) == \A t \in S : art[t].at < art[u].at \/ (art[t].at = art[u].at /\ t <= u)
<1>6. s \in S /\ Above(s)
  BY <1>4, <1>5
<1>7. Newest(S) = CHOOSE u \in S : Above(u)
  BY DEF Newest
<1>8. Newest(S) \in S /\ Above(Newest(S))
  <2> HIDE DEF Above
  <2> QED  BY <1>6, <1>7
<1> QED  BY <1>8

LEMMA NewestIsListed ==
  ASSUME art \in [Steps -> Artifact], NEW S \in SUBSET Steps, S # {}
  PROVE  Newest(S) \in S
BY NewestIsAbove

LEMMA RunOfTyping ==
  ASSUME art \in [Steps -> Artifact], NEW S \in SUBSET Steps
  PROVE  RunOf(S) \in Times
<1>1. CASE S = {}
  BY <1>1 DEF RunOf
<1>2. CASE S # {}
  <2>1. art[Newest(S)] \in Artifact
    BY <1>2, NewestIsListed
  <2> QED  BY <1>2, <2>1 DEF RunOf, Artifact
<1> QED  BY <1>1, <1>2
-----------------------------------------------------------------------------
\* Every step is a step of the lock, or none.
LEMMA HandoffTakesLockSteps == [HandoffNext]_chainVars => [LockNext]_lockVars
BY DEF HandoffNext, HandoffAge, Garble, HandoffStep, Build, LoadFails, Load, LockTurn, Publish,
       List, Purge, Validate, EndWrite, Abort, Clear, ClearFile, LockNext, LockStep, chainVars

\* From its publication to its release a writer holds the lock.
Writing(p) == hstep[p] \in {"list", "purge", "written", "threw"}
HandoffPlaced == \A p \in Procs : Writing(p) => pc[p] = "held"

\* What is left of other runs is on the list of the writer that purges.
OthersListed ==
  \A p \in Procs, s \in Steps :
    art[s].kind = "valid" /\ art[s].run # payload[p].run =>
      /\ hstep[p] = "purge" => s \in listed[p]
      /\ hstep[p] # "written"

\* What a writer published is there, and it will not remove it.
OwnKept ==
  \A p \in Procs :
    /\ hstep[p] \in {"list", "purge"} => /\ art[payload[p].step].kind = "valid"
                                        /\ art[payload[p].step].run = payload[p].run
    /\ hstep[p] = "purge" => payload[p].step \notin listed[p]

HandoffInv ==
  /\ LockInv /\ HandoffTypeOK /\ HandoffPlaced
  /\ ~robbed => OthersListed
  /\ ~robbed /\ ~harmed => OwnKept

LEMMA HandoffTypingStep == HandoffTypeOK /\ [HandoffNext]_chainVars => HandoffTypeOK'
<1> SUFFICES ASSUME HandoffTypeOK, [HandoffNext]_chainVars PROVE HandoffTypeOK'  OBVIOUS
<1> USE DEF Stands, GoOn
<1>1. LockTypeOK'
  BY HandoffTakesLockSteps, LockTypingStep DEF HandoffTypeOK
<1>2. NoFile \in Artifact /\ Broken \in Artifact /\ NoPayload \in Payload
  BY DEF NoFile, Broken, NoPayload, Artifact, Payload
<1>3. ASSUME NEW p \in Procs, NEW s \in Steps, Build(p, s) PROVE HandoffTypeOK'
  <2>1. clock' \in Times /\ [step |-> s, run |-> 0, at |-> clock'] \in Payload
    BY <1>3 DEF Build, HandoffTypeOK, Payload
  <2> QED  BY <1>1, <1>3, <2>1 DEF Build, HandoffTypeOK, Files
<1>4. ASSUME NEW p \in Procs, LoadFails(p) \/ EndWrite(p) \/ Abort(p) PROVE HandoffTypeOK'
  BY <1>1, <1>2, <1>4 DEF LoadFails, EndWrite, Abort, Gone, HandoffTypeOK
<1>5. ASSUME NEW p \in Procs, Load(p) PROVE HandoffTypeOK'
  <2>1. RunOf(listed[p] \cap Valids) \in Times
    BY RunOfTyping DEF HandoffTypeOK
  <2>2. payload' \in [Procs -> Payload]
    BY <1>5, <2>1 DEF Load, HandoffTypeOK, Payload
  <2> QED  BY <1>1, <1>5, <2>2 DEF Load, HandoffTypeOK
<1>6. ASSUME NEW p \in Procs, LockTurn(p) PROVE HandoffTypeOK'
  BY <1>1, <1>2, <1>6 DEF LockTurn, Gone, HandoffTypeOK
<1>7. ASSUME NEW p \in Procs, Publish(p) PROVE HandoffTypeOK'
  <2>1. Written(p) \in Artifact
    BY DEF Written, HandoffTypeOK, Payload, Artifact
  <2> QED  BY <1>1, <1>7, <2>1 DEF Publish, HandoffTypeOK
<1>8. ASSUME NEW p \in Procs, List(p) \/ Validate(p) \/ Clear(p) PROVE HandoffTypeOK'
  BY <1>1, <1>8 DEF List, Validate, Clear, HandoffTypeOK, Foreign, Valids, Files
<1>9. ASSUME NEW p \in Procs, Purge(p) PROVE HandoffTypeOK'
  BY <1>1, <1>2, <1>9 DEF Purge, HandoffTypeOK
<1>10. ASSUME NEW p \in Procs, ClearFile(p) PROVE HandoffTypeOK'
  BY <1>1, <1>2, <1>10 DEF ClearFile, Hit, HandoffTypeOK
<1>11. ASSUME NEW s \in Steps, Garble(s) PROVE HandoffTypeOK'
  BY <1>1, <1>2, <1>11 DEF Garble, Hit, HandoffTypeOK
<1>12. CASE HandoffAge \/ UNCHANGED chainVars
  BY <1>1, <1>12 DEF HandoffAge, handoffVars, chainVars, HandoffTypeOK
<1> QED
  BY <1>3, <1>4, <1>5, <1>6, <1>7, <1>8, <1>9, <1>10, <1>11, <1>12 DEF HandoffNext, HandoffStep

LEMMA HandoffPlacedStep == HandoffInv /\ [HandoffNext]_chainVars => HandoffPlaced'
<1> SUFFICES ASSUME HandoffInv, [HandoffNext]_chainVars PROVE HandoffPlaced'  OBVIOUS
<1> USE DEF HandoffInv, HandoffTypeOK, HandoffPlaced, LockTypeOK, Stands, GoOn, Writing
<1>1. ASSUME NEW p \in Procs, NEW s \in Steps, Build(p, s) PROVE HandoffPlaced'
  BY <1>1 DEF Build, lockVars
<1>2. ASSUME NEW p \in Procs, LoadFails(p) \/ Clear(p) \/ ClearFile(p) PROVE HandoffPlaced'
  BY <1>2 DEF LoadFails, Clear, ClearFile, Gone, lockVars
<1>3. ASSUME NEW p \in Procs, Load(p) PROVE HandoffPlaced'
  BY <1>3 DEF Load, Call, Goto
<1>4. ASSUME NEW p \in Procs, LockTurn(p) PROVE HandoffPlaced'
  BY <1>4, AcquiringMoves DEF LockTurn, Gone
<1>5. ASSUME NEW p \in Procs, Publish(p) \/ List(p) \/ Purge(p) \/ Validate(p) PROVE HandoffPlaced'
  BY <1>5 DEF Publish, List, Purge, Validate, lockVars
<1>6. ASSUME NEW p \in Procs, EndWrite(p) \/ Abort(p) PROVE HandoffPlaced'
  BY <1>6 DEF EndWrite, Abort, Release, Crash, Gone, Goto
<1>7. CASE HandoffAge \/ UNCHANGED chainVars \/ \E s \in Steps : Garble(s)
  BY <1>7 DEF HandoffAge, Garble, Age, handoffVars, lockVars, chainVars
<1> QED  BY <1>1, <1>2, <1>3, <1>4, <1>5, <1>6, <1>7 DEF HandoffNext, HandoffStep

\* While a writer holds the lock, no other one is past its publication.
LEMMA OnlyWriter ==
  ASSUME HandoffInv, ~robbed, NEW p \in Procs, pc[p] = "held", NEW q \in Procs, q # p
  PROVE  ~Writing(q)
BY HolderAlone DEF HandoffInv, HandoffPlaced
-----------------------------------------------------------------------------
\* Who leaves files alone, and does not get to purge or to a result, disturbs
\* nobody.
LEMMA CalmOthersListed ==
  ASSUME HandoffInv, OthersListed, UNCHANGED art,
         \A q \in Procs : \/ hstep'[q] \notin {"purge", "written"}
                          \/ hstep'[q] = hstep[q] /\ payload'[q] = payload[q] /\ listed'[q] = listed[q]
  PROVE  OthersListed'
BY DEF OthersListed

LEMMA CalmOwnKept ==
  ASSUME HandoffInv, OwnKept, UNCHANGED art,
         \A q \in Procs : \/ hstep'[q] \notin {"list", "purge"}
                          \/ hstep'[q] = hstep[q] /\ payload'[q] = payload[q] /\ listed'[q] = listed[q]
  PROVE  OwnKept'
BY DEF OwnKept

LEMMA OthersListedStep ==
  ASSUME HandoffInv, ~robbed, [HandoffNext]_chainVars
  PROVE  OthersListed'
<1> OthersListed
  BY DEF HandoffInv
<1> USE DEF HandoffInv, HandoffTypeOK, Stands, GoOn
<1>1. ASSUME NEW p \in Procs, NEW s \in Steps, Build(p, s) PROVE OthersListed'
  BY <1>1, CalmOthersListed DEF Build
<1>2. ASSUME NEW p \in Procs, LoadFails(p) \/ Load(p) \/ LockTurn(p) \/ EndWrite(p) \/ Abort(p)
                                \/ Clear(p)
      PROVE  OthersListed'
  BY <1>2, CalmOthersListed DEF LoadFails, Load, LockTurn, EndWrite, Abort, Clear, Gone
<1>3. ASSUME NEW p \in Procs, Publish(p) PROVE OthersListed'
  <2>1. hstep'[p] \in {"list", "threw"}
    BY <1>3 DEF Publish
  <2>2. \A q \in Procs \ {p} : hstep'[q] \notin {"purge", "written"}
    BY <1>3, OnlyWriter DEF Publish, Writing
  <2> QED  BY <2>1, <2>2 DEF OthersListed
<1>4. ASSUME NEW p \in Procs, List(p) PROVE OthersListed'
  BY <1>4 DEF List, OthersListed, Foreign, Valids
<1>5. ASSUME NEW p \in Procs, Purge(p) PROVE OthersListed'
  <2>1. Newest(listed[p]) \in Steps
    BY <1>5, NewestIsListed DEF Purge
  <2> QED  BY <1>5, <2>1 DEF Purge, OthersListed, NoFile
<1>6. ASSUME NEW p \in Procs, Validate(p) PROVE OthersListed'
  BY <1>6 DEF Validate, OthersListed
<1>7. ASSUME NEW p \in Procs, ClearFile(p) PROVE OthersListed'
  BY <1>7 DEF ClearFile, OthersListed, NoFile
<1>8. ASSUME NEW s \in Steps, Garble(s) PROVE OthersListed'
  BY <1>8 DEF Garble, OthersListed, Broken
<1>9. CASE HandoffAge \/ UNCHANGED chainVars
  BY <1>9, CalmOthersListed DEF HandoffAge, handoffVars, chainVars
<1> QED
  BY <1>1, <1>2, <1>3, <1>4, <1>5, <1>6, <1>7, <1>8, <1>9 DEF HandoffNext, HandoffStep

\* Unless a file is hit that a writer counts on, every writer keeps its own.
LEMMA OwnKeptStep ==
  ASSUME HandoffInv, ~robbed, ~harmed, [HandoffNext]_chainVars
  PROVE  harmed' \/ OwnKept'
<1> OwnKept
  BY DEF HandoffInv
<1> USE DEF HandoffInv, HandoffTypeOK, Stands, GoOn
<1>1. ASSUME NEW p \in Procs, NEW s \in Steps, Build(p, s) PROVE OwnKept'
  BY <1>1, CalmOwnKept DEF Build
<1>2. ASSUME NEW p \in Procs, LoadFails(p) \/ Load(p) \/ LockTurn(p) \/ EndWrite(p) \/ Abort(p)
                                \/ Clear(p) \/ Validate(p)
      PROVE  OwnKept'
  BY <1>2, CalmOwnKept DEF LoadFails, Load, LockTurn, EndWrite, Abort, Clear, Validate, Gone
<1>3. ASSUME NEW p \in Procs, Publish(p) PROVE OwnKept'
  <2>1. \A q \in Procs \ {p} : hstep'[q] \notin {"list", "purge"}
    BY <1>3, OnlyWriter DEF Publish, Writing
  <2>2. payload[p].step \in Steps
    BY DEF Payload
  <2>3. hstep'[p] = "threw" \/ (hstep'[p] = "list" /\ art'[payload[p].step] = Written(p))
    BY <1>3, <2>2 DEF Publish
  <2> QED  BY <1>3, <2>1, <2>3 DEF Publish, OwnKept, Written
<1>4. ASSUME NEW p \in Procs, List(p) PROVE OwnKept'
  BY <1>4 DEF List, OwnKept, Foreign, Valids
<1>5. ASSUME NEW p \in Procs, Purge(p) PROVE OwnKept'
  <2>1. Newest(listed[p]) \in listed[p]
    BY <1>5, NewestIsListed DEF Purge
  <2>2. \A q \in Procs \ {p} : hstep[q] \notin {"list", "purge"}
    BY <1>5, OnlyWriter DEF Purge, Writing
  <2>3. hstep'[p] \in {"purge", "threw"}
    BY <1>5 DEF Purge
  <2>4. /\ UNCHANGED payload /\ \A q \in Procs \ {p} : hstep'[q] = hstep[q]
        /\ payload[p].step \notin listed'[p]
        /\ art'[payload[p].step] = art[payload[p].step]
    <3>1. hstep[p] = "purge" /\ payload[p].step \notin listed[p] /\ payload[p].step \in Steps
      BY <1>5 DEF Purge, OwnKept, Payload
    <3> QED  BY <1>5, <2>1, <3>1 DEF Purge
  <2>5. art[payload[p].step].kind = "valid" /\ art[payload[p].step].run = payload[p].run
    BY <1>5 DEF Purge, OwnKept
  <2> QED  BY <2>2, <2>3, <2>4, <2>5 DEF OwnKept
<1>6. ASSUME NEW p \in Procs, ClearFile(p), ~harmed' PROVE OwnKept'
  <2>1. CASE listed[p] = {}
    BY <1>6, <2>1, CalmOwnKept DEF ClearFile
  <2>2. ASSUME NEW s \in listed[p],
               art' = [art EXCEPT ![s] = NoFile], listed' = [listed EXCEPT ![p] = @ \ {s}],
               Hit(s), UNCHANGED hstep
        PROVE  OwnKept'
    <3>1. \A q \in Procs : hstep[q] \in {"list", "purge"} =>
            payload[q].step # s /\ payload[q].step \in Steps
      BY <1>6, <2>2 DEF Hit, Payload
    <3>2. UNCHANGED payload /\ \A q \in Procs : listed'[q] \subseteq listed[q]
      BY <1>6, <2>2 DEF ClearFile
    <3> QED  BY <2>2, <3>1, <3>2 DEF OwnKept
  <2> QED  BY <1>6, <2>1, <2>2 DEF ClearFile
<1>7. ASSUME NEW s \in Steps, Garble(s), ~harmed' PROVE OwnKept'
  <2>1. \A q \in Procs : hstep[q] \in {"list", "purge"} =>
          payload[q].step # s /\ payload[q].step \in Steps
    BY <1>7 DEF Garble, Hit, Payload
  <2> QED  BY <1>7, <2>1 DEF Garble, OwnKept
<1>8. CASE HandoffAge \/ UNCHANGED chainVars
  BY <1>8, CalmOwnKept DEF HandoffAge, handoffVars, chainVars
<1> QED
  BY <1>1, <1>2, <1>3, <1>4, <1>5, <1>6, <1>7, <1>8 DEF HandoffNext, HandoffStep

\* What happened stays on record.
LEMMA HandoffRecords ==
  HandoffInv /\ [HandoffNext]_chainVars => (robbed => robbed') /\ (harmed => harmed')
<1> SUFFICES ASSUME HandoffInv, [HandoffNext]_chainVars
             PROVE  (robbed => robbed') /\ (harmed => harmed')
  OBVIOUS
<1>1. robbed => robbed'
  BY HandoffTakesLockSteps, RobbedSteps DEF HandoffInv, LockInv, lockVars
<1>2. harmed => harmed'
  BY DEF HandoffNext, HandoffAge, Garble, HandoffStep, Build, LoadFails, Load, LockTurn,
         Publish, List, Purge, Validate, EndWrite, Abort, Clear, ClearFile, Hit, handoffVars,
         chainVars
<1> QED  BY <1>1, <1>2

LEMMA HandoffInvStep == HandoffInv /\ [HandoffNext]_chainVars => HandoffInv'
<1> SUFFICES ASSUME HandoffInv, [HandoffNext]_chainVars PROVE HandoffInv'  OBVIOUS
<1>1. LockInv' /\ HandoffTypeOK' /\ HandoffPlaced'
  BY HandoffTakesLockSteps, LockInvPreserved, HandoffTypingStep, HandoffPlacedStep DEF HandoffInv
<1>2. ~robbed' => OthersListed'
  BY HandoffRecords, OthersListedStep
<1>3. ~robbed' /\ ~harmed' => OwnKept'
  BY HandoffRecords, OwnKeptStep
<1> QED  BY <1>1, <1>2, <1>3 DEF HandoffInv

LEMMA HandoffInitially == LockInit /\ HandoffInit => HandoffInv
<1> SUFFICES ASSUME LockInit, HandoffInit PROVE HandoffInv  OBVIOUS
<1>1. LockInv
  BY LockInvInitially
<1>2. HandoffTypeOK
  <2>1. NoFile \in Artifact /\ NoPayload \in Payload /\ 0 \in Times
    BY DEF Artifact, Payload, NoFile, NoPayload
  <2> QED  BY <1>1, <2>1 DEF LockInv, HandoffInit, HandoffTypeOK
<1>3. HandoffPlaced /\ OthersListed /\ OwnKept
  BY DEF HandoffInit, HandoffPlaced, Writing, OthersListed, OwnKept, NoFile
<1> QED  BY <1>1, <1>2, <1>3 DEF HandoffInv

LEMMA HandoffInvariance == HandoffSpec => []HandoffInv
BY HandoffInitially, HandoffInvStep, PTL DEF HandoffSpec
-----------------------------------------------------------------------------
\* Every reachable state of the handoffs is well typed.
THEOREM HandoffTyping == HandoffSpec => []HandoffTypeOK
BY HandoffInvariance, PTL DEF HandoffInv

\* Until a live holder is robbed, a write that reports success leaves valid files
\* of its own run only.
THEOREM HandoffLeavesOneRun == HandoffSpec => WriteLeavesOneRun
<1>1. HandoffInv => [\A p \in Procs : EndWrite(p) /\ hstep[p] = "written" /\ ~robbed
                       => \A s \in Valids : art[s].run = payload[p].run]_chainVars
  BY DEF HandoffInv, OthersListed, Valids
<1> QED  BY <1>1, HandoffInvariance, PTL DEF WriteLeavesOneRun

\* Until then no writer and no crash takes away the last file to resume from, if
\* nobody hit the file of a writer.
THEOREM HandoffNeverEmptied == HandoffSpec => NeverEmptied
<1>1. HandoffInv /\ [HandoffNext]_chainVars
        => [~robbed' /\ ~harmed /\ ~Disturbed => (Valids # {} => Valids' # {})]_chainVars
  <2> SUFFICES ASSUME HandoffInv, HandoffNext, ~robbed', ~harmed, ~Disturbed, Valids # {}
               PROVE  Valids' # {}
    OBVIOUS
  <2>1. ~robbed /\ OwnKept
    BY HandoffRecords DEF HandoffInv
  <2> USE DEF HandoffInv, HandoffTypeOK
  <2>2. CASE UNCHANGED art
    BY <2>2 DEF Valids
  <2>3. ASSUME NEW p \in Procs, Publish(p) PROVE Valids' # {}
    <3>1. payload[p].step \in Steps
      BY DEF Payload
    <3>2. art' = art \/ art'[payload[p].step] = Written(p)
      BY <2>3, <3>1 DEF Publish
    <3> QED  BY <2>2, <3>1, <3>2 DEF Valids, Written
  <2>4. ASSUME NEW p \in Procs, Purge(p) PROVE Valids' # {}
    <3>1. Newest(listed[p]) \in listed[p]
      BY <2>4, NewestIsListed DEF Purge
    <3>2. payload[p].step \in Steps
      BY DEF Payload
    <3>3. art'[payload[p].step].kind = "valid"
      BY <2>1, <2>4, <3>1, <3>2 DEF Purge, Stands, OwnKept
    <3> QED  BY <3>2, <3>3 DEF Valids
  <2> QED
    BY <2>2, <2>3, <2>4 DEF HandoffNext, HandoffStep, HandoffAge, handoffVars, Disturbed, Build,
       LoadFails, Load, LockTurn, List, Validate, EndWrite, Abort, Clear
<1> QED  BY <1>1, HandoffInvariance, PTL DEF HandoffSpec, NeverEmptied
-----------------------------------------------------------------------------
\* A command that has asked for the lock names a run, since the time of a payload is
\* not 0.
Named ==
  \A p \in Procs : /\ hstep[p] = "load" => payload[p].at # 0
                   /\ hstep[p] \in {"publish", "list", "purge"} => payload[p].run # 0

\* What a writer goes on to remove is of another run, or not valid any more.
OthersOnly ==
  \A p \in Procs : hstep[p] = "purge" =>
    \A s \in listed[p] : art[s].kind = "valid" => art[s].run # payload[p].run

ChainInv == HandoffInv /\ Named /\ (~robbed => OthersOnly)

LEMMA NamedStep == HandoffInv /\ Named /\ [HandoffNext]_chainVars => Named'
<1> SUFFICES ASSUME HandoffInv, Named, [HandoffNext]_chainVars PROVE Named'  OBVIOUS
<1> USE DEF HandoffInv, HandoffTypeOK, Stands, GoOn
<1>1. ASSUME NEW p \in Procs, NEW s \in Steps, Build(p, s) PROVE Named'
  <2>1. clock' # 0
    BY <1>1 DEF Build
  <2> QED  BY <1>1, <2>1 DEF Build, Named
<1>2. ASSUME NEW p \in Procs, Load(p) PROVE Named'
  BY <1>2 DEF Load, Named, Payload
<1>3. ASSUME NEW p \in Procs, LoadFails(p) \/ LockTurn(p) \/ EndWrite(p) \/ Abort(p)
      PROVE  Named'
  BY <1>3 DEF LoadFails, LockTurn, EndWrite, Abort, Gone, Named
<1>4. ASSUME NEW p \in Procs, Publish(p) \/ List(p) \/ Purge(p) \/ Validate(p) \/ Clear(p)
                                \/ ClearFile(p)
      PROVE  Named'
  BY <1>4 DEF Publish, List, Purge, Validate, Clear, ClearFile, Named
<1>5. CASE HandoffAge \/ UNCHANGED chainVars \/ \E s \in Steps : Garble(s)
  BY <1>5 DEF HandoffAge, Garble, handoffVars, chainVars, Named
<1> QED  BY <1>1, <1>2, <1>3, <1>4, <1>5 DEF HandoffNext, HandoffStep

LEMMA OthersOnlyStep ==
  ASSUME HandoffInv, ~robbed, OthersOnly, [HandoffNext]_chainVars
  PROVE  OthersOnly'
<1> USE DEF HandoffInv, HandoffTypeOK, Stands, GoOn
<1>1. ASSUME NEW p \in Procs, \/ \E s \in Steps : Build(p, s)
                              \/ LoadFails(p) \/ Load(p) \/ LockTurn(p) \/ EndWrite(p)
                              \/ Abort(p) \/ Clear(p) \/ Validate(p)
      PROVE  OthersOnly'
  BY <1>1 DEF Build, LoadFails, Load, LockTurn, EndWrite, Abort, Clear, Validate, Gone, OthersOnly
<1>2. ASSUME NEW p \in Procs, Publish(p) PROVE OthersOnly'
  <2>1. \A q \in Procs : hstep'[q] # "purge"
    BY <1>2, OnlyWriter DEF Publish, Writing
  <2> QED  BY <2>1 DEF OthersOnly
<1>3. ASSUME NEW p \in Procs, List(p) PROVE OthersOnly'
  BY <1>3 DEF List, OthersOnly, Foreign, Valids
<1>4. ASSUME NEW p \in Procs, Purge(p) PROVE OthersOnly'
  <2>1. Newest(listed[p]) \in Steps
    BY <1>4, NewestIsListed DEF Purge
  <2>2. \A t \in Steps : art'[t].kind = "valid" => art'[t] = art[t]
    BY <1>4, <2>1 DEF Purge, NoFile
  <2> QED  BY <1>4, <2>2 DEF Purge, OthersOnly
<1>5. ASSUME NEW p \in Procs, ClearFile(p) PROVE OthersOnly'
  <2>1. \A t \in Steps : art'[t].kind = "valid" => art'[t] = art[t]
    BY <1>5 DEF ClearFile, NoFile
  <2>2. \A q \in Procs : listed'[q] \subseteq listed[q] /\ (hstep'[q] = "purge" => hstep[q] = "purge")
    BY <1>5 DEF ClearFile
  <2>3. UNCHANGED payload
    BY <1>5 DEF ClearFile
  <2> QED  BY <2>1, <2>2, <2>3 DEF OthersOnly
<1>6. ASSUME NEW s \in Steps, Garble(s) PROVE OthersOnly'
  BY <1>6 DEF Garble, OthersOnly, Broken
<1>7. CASE HandoffAge \/ UNCHANGED chainVars
  BY <1>7 DEF HandoffAge, handoffVars, chainVars, OthersOnly
<1> QED  BY <1>1, <1>2, <1>3, <1>4, <1>5, <1>6, <1>7 DEF HandoffNext, HandoffStep

LEMMA ChainInvariance == HandoffSpec => []ChainInv
<1>1. LockInit /\ HandoffInit => ChainInv
  <2>1. LockInit /\ HandoffInit => Named /\ OthersOnly
    BY DEF HandoffInit, Named, OthersOnly
  <2> QED  BY <2>1, HandoffInitially DEF ChainInv
<1>2. ChainInv /\ [HandoffNext]_chainVars => ChainInv'
  BY HandoffInvStep, NamedStep, OthersOnlyStep, HandoffRecords DEF ChainInv
<1> QED  BY <1>1, <1>2, PTL DEF HandoffSpec

-----------------------------------------------------------------------------
\* The newest of some files stays the newest when others of them go.
LEMMA NewestStays ==
  ASSUME HandoffTypeOK, Valids # {}, Valids' \subseteq Valids, Newest(Valids) \in Valids',
         \A s \in Valids' : art'[s] = art[s]
  PROVE  Valids' # {} /\ Newest(Valids)' = Newest(Valids)
<1> DEFINE n == Newest(Valids)
           Above(s, t) == art'[t].at < art'[s].at \/ (art'[t].at = art'[s].at /\ t <= s)
<1>1. \A t \in Valids : art[t].at < art[n].at \/ (art[t].at = art[n].at /\ t <= n)
  BY NewestIsAbove DEF HandoffTypeOK, Valids
<1>2. n \in Valids' /\ \A t \in Valids' : Above(n, t)
  BY <1>1
<1>3. ASSUME NEW s \in Valids', \A t \in Valids' : Above(s, t) PROVE s = n
  <2>1. Above(s, n) /\ Above(n, s)
    BY <1>2, <1>3
  <2>2. s \in Steps /\ n \in Steps /\ art[s] \in Artifact /\ art[n] \in Artifact
    BY <1>2 DEF Valids, HandoffTypeOK
  <2>3. art'[s] = art[s] /\ art'[n] = art[n]
    BY <1>2, <1>3
  <2>4. art[s].at \in Int /\ art[n].at \in Int /\ s \in Int /\ n \in Int
    BY <2>2 DEF Artifact
  <2>5. /\ art[n].at < art[s].at \/ (art[n].at = art[s].at /\ n <= s)
        /\ art[s].at < art[n].at \/ (art[s].at = art[n].at /\ s <= n)
    BY <2>1, <2>3
  <2> HIDE DEF n, Above
  <2> QED  BY <2>4, <2>5
<1>4. Newest(Valids)' = CHOOSE s \in Valids' : \A t \in Valids' : Above(s, t)
  BY DEF Newest
<1> HIDE DEF n, Above
<1>5. (CHOOSE s \in Valids' : \A t \in Valids' : Above(s, t)) = n
  BY <1>2, <1>3
<1> QED  BY <1>2, <1>4, <1>5 DEF n

\* Who takes away files of other runs only changes nothing for the reader.
LEMMA SelectionStays ==
  ASSUME HandoffTypeOK, Valids # {}, Valids' \subseteq Valids,
         \A s \in Valids' : art'[s] = art[s],
         \A s \in SelectedSteps : s \in Valids'
  PROVE  UNCHANGED <<SelectedRun, SelectedSteps>>
<1>1. Newest(Valids) \in Valids
  BY NewestIsListed DEF HandoffTypeOK, Valids
<1>2. SelectedRun = art[Newest(Valids)].run
  BY DEF SelectedRun, RunOf
<1>3. Newest(Valids) \in Valids'
  BY <1>1, <1>2 DEF SelectedSteps
<1>4. Valids' # {} /\ Newest(Valids)' = Newest(Valids)
  BY <1>3, NewestStays
<1>5. SelectedRun' = art'[Newest(Valids)'].run
  BY <1>4 DEF SelectedRun, RunOf
<1>6. SelectedRun' = SelectedRun
  BY <1>2, <1>3, <1>4, <1>5
<1>7. SelectedSteps' = {s \in Valids' : art'[s].run = SelectedRun'}
  BY DEF SelectedSteps
<1>8. SelectedSteps' = SelectedSteps
  BY <1>6, <1>7 DEF SelectedSteps
<1> QED  BY <1>6, <1>8

LEMMA SameFiles == UNCHANGED art => UNCHANGED <<SelectedRun, SelectedSteps>>
BY DEF SelectedRun, SelectedSteps, RunOf, Newest, Valids

\* Until a live holder is robbed, what a reader resumes grows by steps or is replaced
\* as a whole by a later run, except where somebody clears or damages files or a writer
\* acts on an outdated reading.
THEOREM HandoffImplementsChain == HandoffSpec => ImplementsChain
<1>1. LockInit /\ HandoffInit => Chain!Init
  <2> SUFFICES ASSUME HandoffInit PROVE Chain!Init  OBVIOUS
  <2>1. Valids = {}
    BY DEF HandoffInit, Valids, NoFile
  <2> QED  BY <2>1 DEF Chain!Init, SelectedRun, SelectedSteps, RunOf
<1>2. ChainInv /\ [HandoffNext]_chainVars
        => [robbed' \/ Disturbed \/ Outdated \/ Undercut \/ Revived
              \/ Chain!Next]_<<SelectedRun, SelectedSteps>>
  <2> SUFFICES ASSUME ChainInv, [HandoffNext]_chainVars,
                      ~robbed', ~Disturbed, ~Outdated, ~Undercut, ~Revived
               PROVE  Chain!Next \/ UNCHANGED <<SelectedRun, SelectedSteps>>
    OBVIOUS
  <2>1. HandoffInv /\ HandoffTypeOK /\ Named /\ OthersOnly
    BY HandoffRecords DEF ChainInv, HandoffInv
  <2>2. ASSUME NEW p \in Procs, Publish(p)
        PROVE  Chain!Next \/ UNCHANGED <<SelectedRun, SelectedSteps>>
    <3> DEFINE r == payload[p].run
               s == payload[p].step
    <3>1. s \in Steps /\ r \in Times /\ r # 0
      BY <2>1, <2>2 DEF HandoffTypeOK, Payload, Publish, Stands, Named
    <3>2. SelectedRun' = r /\ ~(r < SelectedRun)
      BY <2>2 DEF Outdated
    <3>3. SelectedRun \in Times
      BY <2>1, RunOfTyping DEF HandoffTypeOK, SelectedRun, Valids
    <3>4. CASE UNCHANGED art
      BY <3>4, SameFiles
    <3>5. CASE art' = [art EXCEPT ![s] = Written(p)]
      <4>1. art'[s].kind = "valid" /\ art'[s].run = r
            /\ \A t \in Steps \ {s} : art'[t] = art[t]
        BY <2>1, <3>1, <3>5 DEF Written, HandoffTypeOK
      <4>2. \A t \in Steps : t \in SelectedSteps' <=> t = s \/ (t \in Valids /\ art[t].run = r)
        BY <3>1, <3>2, <4>1 DEF SelectedSteps, Valids
      <4>3. SelectedSteps' \subseteq Steps /\ SelectedSteps \subseteq Steps
        BY DEF SelectedSteps, Valids
      <4>4. CASE r = SelectedRun
        <5>1. SelectedSteps' = SelectedSteps \cup {s}
          BY <3>1, <4>2, <4>3, <4>4 DEF SelectedSteps
        <5>2. Chain!Extend(s)
          BY <3>1, <3>2, <4>4, <5>1 DEF Chain!Extend
        <5> QED  BY <3>1, <5>2 DEF Chain!Next
      <4>5. CASE SelectedRun < r
        <5>1. \A t \in Valids \ {s} : art[t].run # r
          BY <2>2, <4>5 DEF Revived
        <5>2. SelectedSteps' = {s}
          BY <3>1, <4>2, <4>3, <5>1 DEF Valids
        <5>3. Chain!Start(r, s)
          BY <3>2, <4>5, <5>2 DEF Chain!Start
        <5> QED  BY <3>1, <5>3 DEF Chain!Next
      <4>6. r = SelectedRun \/ SelectedRun < r
        <5> HIDE DEF r
        <5> QED  BY <3>1, <3>2, <3>3
      <4> QED  BY <4>4, <4>5, <4>6
    <3> QED  BY <2>2, <3>4, <3>5 DEF Publish
  <2>3. ASSUME NEW p \in Procs, Purge(p)
        PROVE  UNCHANGED <<SelectedRun, SelectedSteps>>
    <3>1. Stands(p, "purge") /\ listed[p] # {} /\ payload[p].run = SelectedRun
      BY <2>3 DEF Purge, Undercut
    <3>2. Newest(listed[p]) \in listed[p] /\ Newest(listed[p]) \in Steps
      BY <2>1, <3>1, NewestIsListed DEF HandoffTypeOK
    <3>3. CASE UNCHANGED art
      BY <3>3, SameFiles
    <3>4. CASE art' = [art EXCEPT ![Newest(listed[p])] = NoFile]
      <4>1. Newest(listed[p]) \notin SelectedSteps
        BY <2>1, <3>1, <3>2 DEF OthersOnly, Stands, SelectedSteps, Valids
      <4>2. /\ Valids' = Valids \ {Newest(listed[p])}
            /\ \A t \in Valids' : art'[t] = art[t]
        BY <2>1, <3>2, <3>4 DEF Valids, NoFile, HandoffTypeOK
      <4>3. CASE Valids = {}
        <5>1. Valids' = {}
          BY <4>2, <4>3
        <5> QED  BY <4>3, <5>1 DEF SelectedRun, SelectedSteps, RunOf
      <4>4. CASE Valids # {}
        BY <2>1, <4>1, <4>2, <4>4, SelectionStays DEF SelectedSteps
      <4> QED  BY <4>3, <4>4
    <3> QED  BY <2>3, <3>3, <3>4 DEF Purge
  <2>4. UNCHANGED art \/ \E p \in Procs : Publish(p) \/ Purge(p)
    BY DEF HandoffNext, HandoffStep, HandoffAge, handoffVars, chainVars, Disturbed, Build,
       LoadFails, Load, LockTurn, List, Validate, EndWrite, Abort, Clear
  <2> QED  BY <2>2, <2>3, <2>4, SameFiles
<1> QED  BY <1>1, <1>2, ChainInvariance, PTL DEF HandoffSpec, ImplementsChain
=============================================================================
