---------------------------- MODULE PhaseHandoff ----------------------------
(***************************************************************************)
(* The handoff files of one phase (src/lib/phase-handoff.js): each         *)
(* workflow step leaves <step>.json for the next one, all files of a chain *)
(* carry one run id, and a new discuss begins a new run.                   *)
(*                                                                         *)
(* `verify:state handoff write` computes its payload, the run id included, *)
(* from an unlocked reading of the directory; under the project lock it    *)
(* publishes its file and then removes the files of other runs, one by     *)
(* one.  `handoff clear` takes no lock.  A run is named by the time of the *)
(* payload that began it, as buildPhaseHandoffRunId names it.              *)
(***************************************************************************)
EXTENDS ProjectLock

CONSTANTS LastStep,     \* steps are ranked 1 (discuss) to LastStep
          MaxBuilds     \* times the clock ticks (bound)

ASSUME HandoffConstants == LastStep \in Nat \ {0} /\ MaxBuilds \in Nat

VARIABLES art,          \* the file of each step
          clock,        \* Date.now()
          hstep,        \* where each handoff command stands
          payload,      \* the artifact each process writes, and its step
          listed,       \* files each process has listed and not dealt with
          harmed        \* history: was a file hit between its publication and
                        \* the removal of the old run?

handoffVars == <<art, clock, hstep, payload, listed, harmed>>
chainVars == <<lockVars, handoffVars>>

Steps == 1..LastStep
Discuss == 1
Times == 0..MaxBuilds

\* A file is missing, does not parse or validate, or names a run and a time.
Artifact == [kind : {"absent", "garbled", "valid"}, run : Times, at : Times]
NoFile == [kind |-> "absent", run |-> 0, at |-> 0]
Broken == [kind |-> "garbled", run |-> 0, at |-> 0]
Payload == [step : Steps, run : Times, at : Times]
NoPayload == [step |-> Discuss, run |-> 0, at |-> 0]

HandoffTypeOK ==
  /\ LockTypeOK
  /\ art \in [Steps -> Artifact]
  /\ clock \in Times
  /\ hstep \in [Procs -> {"none", "load", "publish", "list", "purge", "validate",
                          "written", "threw", "clear"}]
  /\ payload \in [Procs -> Payload]
  /\ listed \in [Procs -> SUBSET Steps]
  /\ harmed \in BOOLEAN

HandoffInit ==
  /\ art = [s \in Steps |-> NoFile]
  /\ clock = 0
  /\ hstep = [p \in Procs |-> "none"]
  /\ payload = [p \in Procs |-> NoPayload]
  /\ listed = [p \in Procs |-> {}]
  /\ harmed = FALSE

Stands(p, h) == pc[p] = "held" /\ hstep[p] = h
GoOn(p, h) == hstep' = [hstep EXCEPT ![p] = h]

\* The command is over: its local variables are gone.
Gone(p) ==
  /\ GoOn(p, "none")
  /\ payload' = [payload EXCEPT ![p] = NoPayload]
  /\ listed' = [listed EXCEPT ![p] = {}]

Files == {s \in Steps : art[s].kind # "absent"}
Valids == {s \in Steps : art[s].kind = "valid"}

\* The order of listPhaseHandoffArtifacts: by time, then by step.
Newest(S) ==
  CHOOSE s \in S : \A t \in S : art[t].at < art[s].at \/ (art[t].at = art[s].at /\ t <= s)

\* selectLatestValidPhaseHandoff: the run of the newest artifact.
RunOf(S) == IF S = {} THEN 0 ELSE art[Newest(S)].run

SelectedRun == RunOf(Valids)
SelectedSteps == {s \in Valids : art[s].run = SelectedRun}
-----------------------------------------------------------------------------
\* buildPhaseHandoffPayload: fix the time and list the directory.  No two
\* payloads fall into one millisecond.
Build(p, s) ==
  /\ pc[p] = "idle" /\ hstep[p] = "none" /\ clock < MaxBuilds
  /\ clock' = clock + 1
  /\ payload' = [payload EXCEPT ![p] = [step |-> s, run |-> 0, at |-> clock']]
  /\ listed' = [listed EXCEPT ![p] = Files]
  /\ GoOn(p, "load")
  /\ UNCHANGED <<lockVars, art, harmed>>

\* A listed file is gone: statSync throws and the command is over.
LoadFails(p) ==
  /\ hstep[p] = "load" /\ ~(listed[p] \subseteq Files)
  /\ Gone(p)
  /\ UNCHANGED <<lockVars, art, clock, harmed>>

\* The listed files are read and the run is chosen: a discuss step begins one,
\* the others go on with the selected one; then the lock is asked for.
Load(p) ==
  LET found == RunOf(listed[p] \cap Valids)
      mine == payload[p]
  IN
  /\ hstep[p] = "load" /\ listed[p] \subseteq Files
  /\ payload' = [payload EXCEPT ![p].run =
                   IF mine.step = Discuss \/ found = 0 THEN mine.at ELSE found]
  /\ listed' = [listed EXCEPT ![p] = {}]
  /\ Call(p) /\ GoOn(p, "publish")
  /\ UNCHANGED <<art, clock, harmed>>

\* ELOCKED, or the lock's own loop.
LockTurn(p) ==
  /\ hstep[p] = "publish" /\ Acquiring(p)
  /\ IF GiveUp(p) THEN Gone(p) ELSE UNCHANGED <<hstep, payload, listed>>
  /\ UNCHANGED <<art, clock, harmed>>

Written(p) == [kind |-> "valid", run |-> payload[p].run, at |-> payload[p].at]

\* Mutant: the file is written in place, and the write may end half way.
PublishInPlace(p) ==
  /\ Stands(p, "publish")
  /\ \/ art' = [art EXCEPT ![payload[p].step] = Written(p)] /\ GoOn(p, "list")
     \/ art' = [art EXCEPT ![payload[p].step] = Broken] /\ GoOn(p, "threw")
  /\ UNCHANGED <<lockVars, clock, payload, listed, harmed>>

\* writeFileAtomic: the artifact replaces the file of its step, or the call
\* throws and nothing has changed.
Publish(p) ==
  /\ Stands(p, "publish")
  /\ \/ art' = [art EXCEPT ![payload[p].step] = Written(p)] /\ GoOn(p, "list")
     \/ GoOn(p, "threw") /\ UNCHANGED art
  /\ UNCHANGED <<lockVars, clock, payload, listed, harmed>>

\* Mutant: a newer run is left alone.
ForeignOlder(p) == {s \in Valids : art[s].run < payload[p].run}

\* Mutant: the steps are compared, not the runs.
ForeignSteps(p) == Valids \ {payload[p].step}

\* The valid files of other runs.
Foreign(p) == {s \in Valids : art[s].run # payload[p].run}

\* The directory is listed again.  A file may vanish meanwhile: statSync throws.
List(p) ==
  /\ Stands(p, "list")
  /\ \/ listed' = [listed EXCEPT ![p] = Foreign(p)] /\ GoOn(p, "purge")
     \/ GoOn(p, "threw") /\ UNCHANGED listed
  /\ UNCHANGED <<lockVars, art, clock, payload, harmed>>

\* unlinkSync, newest file first; a file that is gone makes it throw.
Purge(p) ==
  LET s == Newest(listed[p]) IN
  /\ Stands(p, "purge") /\ listed[p] # {}
  /\ IF art[s].kind = "absent"
       THEN GoOn(p, "threw") /\ listed' = [listed EXCEPT ![p] = {}] /\ UNCHANGED art
       ELSE /\ art' = [art EXCEPT ![s] = NoFile]
            /\ listed' = [listed EXCEPT ![p] = @ \ {s}]
            /\ UNCHANGED hstep
  /\ UNCHANGED <<lockVars, clock, payload, harmed>>

\* The result is validated.  That throws when a file vanishes while it is
\* listed, and whenever the phase has a TDD audit: an audit is listed as valid,
\* with no artifact to take the step from.
Validate(p) ==
  /\ Stands(p, "purge") /\ listed[p] = {}
  /\ GoOn(p, "written") \/ GoOn(p, "threw")
  /\ UNCHANGED <<lockVars, art, clock, payload, listed, harmed>>

\* The task returned or threw: withProjectLock releases.
EndWrite(p) ==
  /\ hstep[p] \in {"written", "threw"}
  /\ Release(p) /\ Gone(p)
  /\ UNCHANGED <<art, clock, harmed>>

\* The process dies in the lock loop or in the task.
Abort(p) ==
  /\ Crash(p) /\ Gone(p)
  /\ UNCHANGED <<art, clock, harmed>>
-----------------------------------------------------------------------------
\* clearPhaseHandoffs: rmSync takes one file after the other, without the lock.
Clear(p) ==
  /\ pc[p] = "idle" /\ hstep[p] = "none" /\ Files # {}
  /\ listed' = [listed EXCEPT ![p] = Files] /\ GoOn(p, "clear")
  /\ UNCHANGED <<lockVars, art, clock, payload, harmed>>

\* File s, which a writer counts on, is hit.
Hit(s) ==
  harmed' = (harmed \/ \E p \in Procs : payload[p].step = s /\ hstep[p] \in {"list", "purge"})

ClearFile(p) ==
  /\ hstep[p] = "clear"
  /\ IF listed[p] = {}
       THEN GoOn(p, "none") /\ UNCHANGED <<art, listed, harmed>>
       ELSE \E s \in listed[p] :
              /\ art' = [art EXCEPT ![s] = NoFile]
              /\ listed' = [listed EXCEPT ![p] = @ \ {s}]
              /\ Hit(s)
              /\ UNCHANGED hstep
  /\ UNCHANGED <<lockVars, clock, payload>>

\* A user or a merge leaves a file that does not parse.
Garble(s) ==
  /\ art[s].kind = "valid" /\ art' = [art EXCEPT ![s] = Broken]
  /\ Hit(s)
  /\ UNCHANGED <<lockVars, clock, hstep, payload, listed>>

HandoffAge == Age /\ UNCHANGED handoffVars

HandoffStep(p) ==
  \/ \E s \in Steps : Build(p, s)
  \/ LoadFails(p) \/ Load(p) \/ LockTurn(p) \/ Publish(p) \/ List(p) \/ Purge(p)
  \/ Validate(p) \/ EndWrite(p) \/ Abort(p) \/ Clear(p) \/ ClearFile(p)

HandoffNext ==
  \/ HandoffAge
  \/ \E s \in Steps : Garble(s)
  \/ \E p \in Procs : HandoffStep(p)

HandoffSpec == LockInit /\ HandoffInit /\ [][HandoffNext]_chainVars
-----------------------------------------------------------------------------
\* Not the work of a handoff write: a clear, or damage to a file.
Disturbed == (\E p \in Procs : ClearFile(p)) \/ (\E s \in Steps : Garble(s))

\* A write that reports success leaves valid files of its own run only, whoever
\* wrote or cleared in between (writePhaseHandoff, phase-handoff.js:428-436).
WriteLeavesOneRun ==
  [][\A p \in Procs : EndWrite(p) /\ hstep[p] = "written" /\ ~robbed
        => \A s \in Valids : art[s].run = payload[p].run]_chainVars

\* Once there is something to resume from, no writer and no crash takes the last
\* of it away: the new file is there before the old run is removed ("restart
\* keeps the old chain until the new discuss handoff is valid",
\* tests/state.test.cjs:1528).  Only a clear, or damage to the new file, does.
NeverEmptied ==
  [][~robbed' /\ ~harmed /\ ~Disturbed => (Valids # {} => Valids' # {})]_chainVars

\* The payload was computed before the lock was taken.  Since then a later run
\* began, or a newer artifact was written, and the file goes over it.
Outdated ==
  \E p \in Procs : Publish(p) /\ (payload[p].run < SelectedRun \/ payload[p].run # SelectedRun')

\* A writer removes a run that readers still take for the newest: its payload is
\* older than what was written meanwhile, or its own file was damaged.
Undercut ==
  \E p \in Procs : Stands(p, "purge") /\ listed[p] # {} /\ payload[p].run # SelectedRun

\* An outdated file had covered a later run, and a writer goes on with that one:
\* the reader gets all of its steps back at once.
Revived ==
  \E p \in Procs :
    /\ Publish(p) /\ SelectedRun < payload[p].run
    /\ \E s \in Valids \ {payload[p].step} : art[s].run = payload[p].run

Chain == INSTANCE RunChain WITH run <- SelectedRun, steps <- SelectedSteps, Runs <- Times

\* Who resumes sees one run that grows by steps or is replaced as a whole by a
\* later one, never a half removed one ("Same-phase restart may replace the older
\* chain only after this new discuss handoff write succeeds",
\* workflows/discuss-phase.md:423), except where a writer acts on an outdated
\* reading, undercuts a newer payload or revives what such a writer has covered.
ImplementsChain ==
  Chain!Init
    /\ [][robbed' \/ Disturbed \/ Outdated \/ Undercut \/ Revived
            \/ Chain!Next]_<<SelectedRun, SelectedSteps>>
=============================================================================
