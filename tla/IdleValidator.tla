---------------------------- MODULE IdleValidator ----------------------------
(***************************************************************************)
(* The idle validator of the plugin (src/plugin/idle-validator.js): when   *)
(* the session goes idle it checks the planning files and repairs them.    *)
(*                                                                         *)
(* onIdle gives up control twice, when it calls the notifier: before the   *)
(* repairs if the current phase is complete, and after them.  Between      *)
(* these points it runs in one turn of the event loop.  Calls overlap: the *)
(* hook's time limit starts a second one while the first waits.  Other     *)
(* hooks notify as well.  Users and commands write STATE.md whenever they  *)
(* like.                                                                   *)
(***************************************************************************)
EXTENDS Notifier, FiniteSets

CONSTANTS Calls,        \* calls of onIdle at the same time (bound)
          MaxEdits      \* edits of STATE.md by others (bound)

ASSUME IdleConstants ==
  /\ MaxEdits \in Nat /\ IsFiniteSet(Calls)
  /\ Calls \subseteq Callers /\ "phase-complete" \in Urgent /\ "state-sync" \in Routine

VARIABLES md,           \* STATE.md: its progress bar, its status, its edition
          config,       \* config.json: "valid" or "corrupt"
          quiet,        \* was the last commit hours ago?
          complete,     \* does ROADMAP.md show the current phase as complete?
          stage,        \* where each call stands
          seen,         \* STATE.md as each call read it
          validating,   \* the re-entry guard
          cooling,      \* Date.now() - lastValidation < cooldownMs
          fixNewer,     \* lastAutoFix > lastValidation
          repairs       \* history: repairs since an outside change, counted to MaxRepairs

validatorVars == <<md, config, quiet, complete, stage, seen, validating, cooling, fixNewer,
                   repairs>>
idleVars == <<validatorVars, notifierVars>>
worldVars == <<quiet, complete>>

Doc == [bar : {"right", "wrong"}, status : {"executing", "resting"}, edition : 0..MaxEdits]
MaxRepairs == 4
FirstDoc == [bar |-> "right", status |-> "resting", edition |-> 0]

IdleTypeOK ==
  /\ NotifierTypeOK
  /\ md \in Doc
  /\ config \in {"valid", "corrupt"}
  /\ quiet \in BOOLEAN /\ complete \in BOOLEAN
  /\ stage \in [Calls -> {"none", "telling", "fixed"}]
  /\ seen \in [Calls -> Doc]
  /\ validating \in BOOLEAN /\ cooling \in BOOLEAN /\ fixNewer \in BOOLEAN
  /\ repairs \in 0..MaxRepairs

IdleInit ==
  /\ NotifierInit
  /\ md = FirstDoc /\ config = "valid"
  /\ quiet = FALSE /\ complete = FALSE
  /\ stage = [c \in Calls |-> "none"] /\ seen = [c \in Calls |-> FirstDoc]
  /\ validating = FALSE /\ cooling = FALSE /\ fixNewer = FALSE
  /\ repairs = 0

Goto(c, s) == stage' = [stage EXCEPT ![c] = s]

\* A plan is being executed: STATE.md is in flux.
Active(doc) == doc.status = "executing" /\ ~quiet
-----------------------------------------------------------------------------
\* Mutant: the re-entry guard stays set.
CloseHalf(c) ==
  /\ cooling' = TRUE /\ fixNewer' = FALSE
  /\ validating' = TRUE
  /\ Goto(c, "none")

\* validating = false, lastValidation = Date.now(), at the end and on an error.
\* A lastAutoFix is never later than that.
Close(c) ==
  /\ validating' = FALSE /\ cooling' = TRUE /\ fixNewer' = FALSE
  /\ Goto(c, "none")

\* What is wrong with a STATE.md, and what it is replaced with.
BadBar(raw) == raw.bar = "wrong"
StaleStatus(raw) == raw.status = "executing" /\ quiet

\* Mutant: what is drawn does not match the percentage either.
WithBarOff(raw) == IF BadBar(raw) THEN raw ELSE md

WithBar(raw) == IF BadBar(raw) THEN [raw EXCEPT !.bar = "right"] ELSE md

\* Both repairs start from the text the call read: the second undoes the first.
WithStatus(raw) ==
  IF StaleStatus(raw) THEN [raw EXCEPT !.status = "resting"] ELSE WithBar(raw)

\* The bar, config.json, the status; then the notifier is told.
Repair(c, raw) ==
  /\ md' = WithStatus(raw)
  /\ config' = "valid"
  /\ IF BadBar(raw) \/ StaleStatus(raw) \/ config = "corrupt"
       THEN /\ validating' = TRUE /\ fixNewer' = TRUE
            /\ repairs' = IF repairs < MaxRepairs THEN repairs + 1 ELSE repairs
            /\ Notify(c, "state-sync") /\ Goto(c, "fixed")
            /\ UNCHANGED cooling
       ELSE Close(c) /\ UNCHANGED <<repairs, notifierVars>>

\* One of the writes throws: the earlier ones stay, the later ones are not tried.
RepairFails(c, raw) ==
  /\ \/ BadBar(raw) /\ UNCHANGED <<md, config>>
     \/ config = "corrupt" /\ md' = WithBar(raw) /\ UNCHANGED config
     \/ StaleStatus(raw) /\ md' = WithBar(raw) /\ config' = "valid"
  /\ Close(c)
  /\ UNCHANGED <<repairs, notifierVars>>

Repairs(c, raw) == Repair(c, raw) \/ RepairFails(c, raw)

\* Mutant: the re-entry guard is not looked at.
ProceedReentrant == ~cooling /\ ~fixNewer /\ ~Active(md)

\* The guards of onIdle.
Proceed == ~cooling /\ ~fixNewer /\ ~validating /\ ~Active(md)

\* onIdle, up to the first wait or to its end.  A call that does not proceed
\* changes nothing.
OnIdle(c) ==
  /\ stage[c] = "none" /\ Proceed
  /\ IF complete
       THEN /\ validating' = TRUE /\ seen' = [seen EXCEPT ![c] = md]
            /\ Notify(c, "phase-complete") /\ Goto(c, "telling")
            /\ UNCHANGED <<md, config, cooling, fixNewer, repairs>>
       ELSE Repairs(c, md) /\ UNCHANGED seen
  /\ UNCHANGED worldVars

\* The notifier has delivered "phase complete" or dropped it: repair what was
\* read before.
Told(c) ==
  /\ stage[c] = "telling" /\ telling[c] = Silent
  /\ Repairs(c, seen[c])
  /\ seen' = [seen EXCEPT ![c] = FirstDoc]
  /\ UNCHANGED worldVars

\* The notifier has queued or dropped "State synced", without a wait.
Synced(c) ==
  /\ stage[c] = "fixed"
  /\ Close(c)
  /\ UNCHANGED <<md, config, seen, repairs, worldVars, notifierVars>>
-----------------------------------------------------------------------------
\* The cooldown runs out.
Elapse ==
  /\ cooling /\ cooling' = FALSE
  /\ UNCHANGED <<md, config, stage, seen, validating, fixNewer, repairs, worldVars, notifierVars>>

\* A user or a command writes STATE.md or config.json.
Edit ==
  /\ \/ /\ md.edition < MaxEdits
        /\ \E b \in {"right", "wrong"}, s \in {"executing", "resting"} :
             md' = [bar |-> b, status |-> s, edition |-> md.edition + 1]
        /\ UNCHANGED config
     \/ config = "valid" /\ config' = "corrupt" /\ UNCHANGED md
  /\ repairs' = 0
  /\ UNCHANGED <<stage, seen, validating, cooling, fixNewer, worldVars, notifierVars>>

\* Commits are made, or none for hours; a phase becomes complete, the next is
\* begun.
World ==
  /\ quiet' \in BOOLEAN /\ complete' \in BOOLEAN /\ worldVars' # worldVars
  /\ repairs' = 0
  /\ UNCHANGED <<md, config, stage, seen, validating, cooling, fixNewer, notifierVars>>

Hooks == Callers \ Calls
HookKeys == Keys \ {"phase-complete", "state-sync"}

\* Another hook notifies: the stuck detector, the guardrails.
Warn(h, k) == Tell(h, k) /\ UNCHANGED validatorVars

Notifying == NotifierNext /\ UNCHANGED validatorVars

IdleNext ==
  \/ Elapse \/ Edit \/ World \/ Notifying
  \/ \E h \in Hooks, k \in HookKeys : Warn(h, k)
  \/ \E c \in Calls : OnIdle(c) \/ Told(c) \/ Synced(c)

IdleSpec == IdleInit /\ [][IdleNext]_idleVars

Delivers(c) == Deliver(c) /\ UNCHANGED validatorVars

\* Calls go on, and commands of the operating system end.
IdleFairness == \A c \in Calls : WF_idleVars(Delivers(c) \/ Told(c) \/ Synced(c))

FairIdleSpec == IdleSpec /\ IdleFairness
-----------------------------------------------------------------------------
AtWork == {c \in Calls : stage[c] \in {"telling", "fixed"}}

\* However calls overlap, one validation runs at a time, and the guard says so
\* ("Re-entry guard prevents concurrent validation runs", idle-validator.js:18).
SingleValidation == Cardinality(AtWork) <= 1 /\ (validating <=> AtWork # {})

\* The guard is let go again, or no call would ever validate.
ValidationEnds == validating ~> ~validating

\* Repairs come to an end without the guard that is to stop them ("Auto-fix loop
\* prevention", idle-validator.js:19), which does not: after somebody wrote a file
\* a call that waits may repair by what it read before, a second call repairs the
\* status and undoes the repair of the bar, a third one the bar; a fourth finds
\* nothing to repair.
RepairsEnd == repairs <= 3
=============================================================================
