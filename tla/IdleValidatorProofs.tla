------------------------ MODULE IdleValidatorProofs ------------------------
(***************************************************************************)
(* The idle validator for any number of calls, callers and edits: types,   *)
(* one validation at a time, and a bound on repairs.  The bound rests on a *)
(* measure: how many more repairs the files as they are call for.  A call  *)
(* that waits works on an old reading, but only one call waits at a time,  *)
(* and when its reading is old somebody has just written a file.           *)
(***************************************************************************)
EXTENDS IdleValidator, FiniteSetTheorems, TLAPS

USE NotifierConstants, IdleConstants DEF Keys, WindowParts, MaxRepairs

\* Calls of notify keep its types.
LEMMA NotifyTyping ==
  ASSUME NotifierTypeOK, NEW c \in Callers, NEW k \in Keys, Notify(c, k)
  PROVE  NotifierTypeOK'
<1>1. CASE window[k] > 0
  BY <1>1 DEF NotifierTypeOK, Notify, notifierVars
<1>2. CASE ~(window[k] > 0)
  <2>1. window' \in [Keys -> 0..WindowParts]
    BY <1>2 DEF NotifierTypeOK, Notify
  <2>2. passed' \in 0..RateLimit
    BY <1>2 DEF NotifierTypeOK, Notify
  <2>3. telling' \in [Callers -> Urgent \cup {Silent}] /\ queued' \subseteq Keys
    BY <1>2 DEF NotifierTypeOK, Notify, Route
  <2> QED  BY <2>1, <2>2, <2>3 DEF NotifierTypeOK
<1> QED  BY <1>1, <1>2

LEMMA NotifierTyping ==
  ASSUME NotifierTypeOK, NotifierNext
  PROVE  NotifierTypeOK'
BY DEF NotifierTypeOK, NotifierNext, Deliver, Drain, Forget, Slide

\* What the repairs make of a STATE.md is one again.
LEMMA RepairsTyping ==
  ASSUME IdleTypeOK, NEW c \in Calls, NEW raw \in Doc, Repairs(c, raw)
  PROVE  /\ md' \in Doc /\ config' \in {"valid", "corrupt"}
         /\ stage' \in [Calls -> {"none", "telling", "fixed"}]
         /\ validating' \in BOOLEAN /\ cooling' \in BOOLEAN /\ fixNewer' \in BOOLEAN
         /\ repairs' \in 0..MaxRepairs /\ NotifierTypeOK'
<1>1. md \in Doc /\ WithBar(raw) \in Doc /\ WithStatus(raw) \in Doc
  BY DEF IdleTypeOK, Doc, WithBar, WithStatus
<1>2. Notify(c, "state-sync") => NotifierTypeOK'
  BY NotifyTyping DEF IdleTypeOK
<1>3. CASE Repair(c, raw)
  <2>1. NotifierTypeOK'
    BY <1>2, <1>3 DEF Repair, IdleTypeOK, NotifierTypeOK, notifierVars
  <2>2. repairs' \in 0..MaxRepairs
    BY <1>3 DEF Repair, IdleTypeOK
  <2> QED  BY <1>1, <1>3, <2>1, <2>2 DEF Repair, Close, Goto, IdleTypeOK
<1>4. CASE RepairFails(c, raw)
  BY <1>1, <1>4 DEF RepairFails, Close, Goto, IdleTypeOK, NotifierTypeOK, notifierVars
<1> QED  BY <1>3, <1>4 DEF Repairs

LEMMA IdleTypingStep == IdleTypeOK /\ [IdleNext]_idleVars => IdleTypeOK'
<1> SUFFICES ASSUME IdleTypeOK, [IdleNext]_idleVars PROVE IdleTypeOK'  OBVIOUS
<1> USE DEF worldVars
<1>1. ASSUME NEW c \in Calls, OnIdle(c) PROVE IdleTypeOK'
  <2>1. CASE complete
    <3>1. NotifierTypeOK'
      BY <1>1, <2>1, NotifyTyping DEF OnIdle, IdleTypeOK
    <3> QED  BY <1>1, <2>1, <3>1 DEF OnIdle, Goto, IdleTypeOK
  <2>2. CASE ~complete
    <3>1. Repairs(c, md) /\ UNCHANGED <<seen, quiet, complete>>
      BY <1>1, <2>2 DEF OnIdle
    <3> QED  BY <3>1, RepairsTyping DEF IdleTypeOK
  <2> QED  BY <2>1, <2>2
<1>2. ASSUME NEW c \in Calls, Told(c) PROVE IdleTypeOK'
  <2>1. seen' \in [Calls -> Doc]
    BY <1>2 DEF Told, IdleTypeOK, FirstDoc, Doc
  <2> QED  BY <1>2, <2>1, RepairsTyping DEF Told, IdleTypeOK
<1>3. ASSUME NEW c \in Calls, Synced(c) PROVE IdleTypeOK'
  BY <1>3 DEF Synced, Close, Goto, IdleTypeOK, NotifierTypeOK, notifierVars
<1>4. CASE Elapse
  BY <1>4 DEF Elapse, IdleTypeOK, NotifierTypeOK, notifierVars
<1>5. CASE Edit
  <2>1. md' \in Doc /\ config' \in {"valid", "corrupt"} /\ repairs' = 0
    BY <1>5 DEF Edit, IdleTypeOK, Doc
  <2> QED  BY <1>5, <2>1 DEF Edit, IdleTypeOK, NotifierTypeOK, notifierVars
<1>6. CASE World
  BY <1>6 DEF World, IdleTypeOK, NotifierTypeOK, notifierVars
<1>7. CASE Notifying
  BY <1>7, NotifierTyping DEF Notifying, IdleTypeOK, validatorVars
<1>8. ASSUME NEW h \in Hooks, NEW k \in HookKeys, Warn(h, k) PROVE IdleTypeOK'
  BY <1>8, NotifyTyping DEF Warn, Tell, Hooks, HookKeys, IdleTypeOK, validatorVars
<1>9. CASE UNCHANGED idleVars
  BY <1>9 DEF IdleTypeOK, NotifierTypeOK, idleVars, validatorVars, notifierVars
<1> QED
  BY <1>1, <1>2, <1>3, <1>4, <1>5, <1>6, <1>7, <1>8, <1>9 DEF IdleNext

LEMMA IdleTypingInitially == IdleInit => IdleTypeOK
<1> SUFFICES ASSUME IdleInit PROVE IdleTypeOK  OBVIOUS
<1>1. NotifierTypeOK
  BY DEF IdleInit, NotifierInit, NotifierTypeOK
<1>2. FirstDoc \in Doc
  BY DEF FirstDoc, Doc
<1>3. stage \in [Calls -> {"none", "telling", "fixed"}] /\ seen \in [Calls -> Doc]
  BY <1>2 DEF IdleInit
<1>4. repairs \in 0..MaxRepairs /\ config \in {"valid", "corrupt"}
  BY DEF IdleInit
<1>5. quiet \in BOOLEAN /\ complete \in BOOLEAN /\ validating \in BOOLEAN
      /\ cooling \in BOOLEAN /\ fixNewer \in BOOLEAN
  BY Zenon DEF IdleInit
<1> QED  BY <1>1, <1>2, <1>3, <1>4, <1>5 DEF IdleInit, IdleTypeOK

\* Every variable keeps its type, the notifier's included.
THEOREM IdleTyping == IdleSpec => []IdleTypeOK
BY IdleTypingInitially, IdleTypingStep, PTL DEF IdleSpec
-----------------------------------------------------------------------------
\* One call is at work, and the guard is set, or none is and it is not.
Guarded ==
  /\ validating <=> AtWork # {}
  /\ \A c, d \in AtWork : c = d

\* A call's repairs end it, or it is still at work with the guard set.
LEMMA RepairsGuarded ==
  ASSUME IdleTypeOK, NEW c \in Calls, NEW raw, Repairs(c, raw), AtWork \subseteq {c}
  PROVE  Guarded'
<1>1. CASE Close(c)
  <2>1. ~validating' /\ AtWork' = {}
    BY <1>1 DEF Close, Goto, AtWork, IdleTypeOK
  <2> QED  BY <2>1 DEF Guarded
<1>2. CASE validating' = TRUE /\ Goto(c, "fixed")
  <2>1. AtWork' = {c}
    BY <1>2 DEF Goto, AtWork, IdleTypeOK
  <2> QED  BY <1>2, <2>1 DEF Guarded
<1> QED  BY <1>1, <1>2 DEF Repairs, Repair, RepairFails

LEMMA GuardedStep == IdleTypeOK /\ Guarded /\ [IdleNext]_idleVars => Guarded'
<1> SUFFICES ASSUME IdleTypeOK, Guarded, [IdleNext]_idleVars PROVE Guarded'  OBVIOUS
<1>1. ASSUME NEW c \in Calls, OnIdle(c) PROVE Guarded'
  <2>1. AtWork = {}
    BY <1>1 DEF OnIdle, Proceed, Guarded
  <2>2. CASE complete
    <3>1. validating' = TRUE /\ AtWork' = {c}
      BY <1>1, <2>1, <2>2 DEF OnIdle, Goto, AtWork, IdleTypeOK
    <3> QED  BY <3>1 DEF Guarded
  <2>3. CASE ~complete
    BY <1>1, <2>1, <2>3, RepairsGuarded DEF OnIdle
  <2> QED  BY <2>2, <2>3
<1>2. ASSUME NEW c \in Calls, Told(c) PROVE Guarded'
  <2>1. AtWork \subseteq {c}
    BY <1>2 DEF Told, AtWork, Guarded
  <2> QED  BY <1>2, <2>1, RepairsGuarded DEF Told
<1>3. ASSUME NEW c \in Calls, Synced(c) PROVE Guarded'
  <2>1. AtWork \subseteq {c}
    BY <1>3 DEF Synced, AtWork, Guarded
  <2>2. ~validating' /\ AtWork' = {}
    BY <1>3, <2>1 DEF Synced, Close, Goto, AtWork, IdleTypeOK
  <2> QED  BY <2>2 DEF Guarded
<1>4. CASE UNCHANGED <<stage, validating>>
  BY <1>4 DEF Guarded, AtWork
<1> QED
  BY <1>1, <1>2, <1>3, <1>4
  DEF IdleNext, Elapse, Edit, World, Notifying, Warn, Tell, validatorVars, idleVars

LEMMA GuardedInvariance == IdleSpec => []Guarded
<1>1. IdleInit => Guarded
  BY DEF IdleInit, Guarded, AtWork
<1> QED  BY <1>1, GuardedStep, IdleTyping, PTL DEF IdleSpec

\* The re-entry guard does what it is for, however many calls overlap.
THEOREM IdleSingle == IdleSpec => []SingleValidation
<1>1. Guarded => SingleValidation
  <2> SUFFICES ASSUME Guarded PROVE Cardinality(AtWork) <= 1
    BY DEF Guarded, SingleValidation
  <2>1. CASE AtWork = {}
    BY <2>1, FS_EmptySet
  <2>2. ASSUME NEW c \in AtWork PROVE Cardinality(AtWork) <= 1
    <3>1. AtWork = {c}
      BY <2>2 DEF Guarded
    <3> QED  BY <3>1, FS_Singleton
  <2> QED  BY <2>1, <2>2
<1> QED  BY <1>1, GuardedInvariance, PTL
-----------------------------------------------------------------------------
\* How many more repairs the files call for: the status, then the bar its repair
\* put back; or what else is wrong, in one.
Due ==
  IF StaleStatus(md) THEN IF BadBar(md) THEN 2 ELSE 1
  ELSE IF BadBar(md) \/ config = "corrupt" THEN 1 ELSE 0

\* A call that waits read the file as it is, or somebody has just written it.
Bounded ==
  /\ AtWork = {} \/ (\E c \in AtWork : stage[c] = "fixed") => repairs + Due <= 3
  /\ \A c \in Calls : stage[c] = "telling" =>
       repairs = 0 \/ (seen[c] = md /\ repairs + Due <= 3)

\* Repairs of the files as they are take one off what is due; repairs by an old
\* reading are the first since the files were written.
LEMMA RepairsBounded ==
  ASSUME IdleTypeOK, NEW c \in Calls, NEW raw \in Doc, Repairs(c, raw), UNCHANGED quiet,
         AtWork \subseteq {c},
         repairs = 0 \/ (raw = md /\ repairs + Due <= 3)
  PROVE  Bounded'
<1> USE DEF BadBar, StaleStatus, WithBar
<1>1. Due \in 0..2 /\ Due' \in 0..2 /\ repairs \in 0..4
  BY DEF Due, IdleTypeOK
<1>2. stage'[c] # "telling" /\ \A d \in Calls \ {c} : stage'[d] = "none"
  BY DEF Repairs, Repair, RepairFails, Close, Goto, AtWork, IdleTypeOK
<1>3. repairs' + Due' <= 3
  <2>1. CASE repairs' = repairs /\ repairs = 0
    BY <1>1, <2>1 DEF Due
  <2>2. CASE repairs # 0 \/ repairs' # repairs
    <3>1. CASE Repair(c, raw) /\ raw = md /\ repairs + Due <= 3
      BY <1>1, <3>1 DEF Repair, WithStatus, Due, IdleTypeOK, Doc
    <3>2. CASE Repair(c, raw) /\ repairs = 0
      BY <1>1, <3>2 DEF Repair
    <3>3. CASE RepairFails(c, raw)
      BY <1>1, <2>2, <3>3 DEF RepairFails, Due, IdleTypeOK, Doc
    <3> QED  BY <3>1, <3>2, <3>3 DEF Repairs
  <2> QED  BY <2>1, <2>2
<1> QED  BY <1>2, <1>3 DEF Bounded

LEMMA BoundedStep ==
  IdleTypeOK /\ Guarded /\ Bounded /\ [IdleNext]_idleVars => Bounded'
<1> SUFFICES ASSUME IdleTypeOK, Guarded, Bounded, [IdleNext]_idleVars PROVE Bounded'
  OBVIOUS
<1>1. ASSUME NEW c \in Calls, OnIdle(c) PROVE Bounded'
  <2>1. AtWork = {} /\ repairs + Due <= 3 /\ UNCHANGED quiet
    BY <1>1 DEF OnIdle, Proceed, Guarded, Bounded, worldVars
  <2>2. CASE complete
    <3>1. UNCHANGED <<md, config, repairs, Due>>
      BY <1>1, <2>1, <2>2 DEF OnIdle, Due, StaleStatus, BadBar
    <3>2. stage' = [stage EXCEPT ![c] = "telling"] /\ seen' = [seen EXCEPT ![c] = md]
      BY <1>1, <2>2 DEF OnIdle, Goto
    <3>3. \A d \in Calls : stage'[d] # "fixed" /\ (stage'[d] = "telling" => d = c)
      BY <2>1, <3>2 DEF AtWork, IdleTypeOK
    <3>4. c \in AtWork' /\ seen'[c] = md'
      BY <3>1, <3>2 DEF AtWork, IdleTypeOK
    <3> QED  BY <2>1, <3>1, <3>3, <3>4 DEF Bounded, AtWork
  <2>3. CASE ~complete
    BY <1>1, <2>1, <2>3, RepairsBounded DEF OnIdle, IdleTypeOK
  <2> QED  BY <2>2, <2>3
<1>2. ASSUME NEW c \in Calls, Told(c) PROVE Bounded'
  <2>1. AtWork \subseteq {c} /\ seen[c] \in Doc /\ UNCHANGED quiet
    BY <1>2 DEF Told, AtWork, Guarded, IdleTypeOK, worldVars
  <2>2. repairs = 0 \/ (seen[c] = md /\ repairs + Due <= 3)
    BY <1>2 DEF Told, Bounded
  <2> QED  BY <1>2, <2>1, <2>2, RepairsBounded DEF Told
<1>3. ASSUME NEW c \in Calls, Synced(c) PROVE Bounded'
  <2>1. repairs + Due <= 3 /\ UNCHANGED <<repairs, Due>>
    BY <1>3 DEF Synced, Bounded, AtWork, Due, StaleStatus, BadBar, worldVars
  <2>2. \A d \in Calls : stage'[d] = "none"
    BY <1>3 DEF Synced, Close, Goto, Guarded, AtWork, IdleTypeOK
  <2> QED  BY <2>1, <2>2 DEF Bounded
<1>4. CASE Edit \/ World
  <2>1. repairs' = 0 /\ Due' \in 0..2
    BY <1>4 DEF Edit, World, Due
  <2> QED  BY <2>1 DEF Bounded, Due
<1>5. CASE UNCHANGED <<md, config, quiet, repairs, stage, seen>>
  <2>1. UNCHANGED <<Due, AtWork>>
    BY <1>5 DEF Due, StaleStatus, BadBar, AtWork
  <2> QED  BY <1>5, <2>1 DEF Bounded
<1> QED
  BY <1>1, <1>2, <1>3, <1>4, <1>5
  DEF IdleNext, Elapse, Notifying, Warn, Tell, validatorVars, worldVars, idleVars

\* Three repairs in a row at the most, although the loop guard stops none.
THEOREM IdleRepairsEnd == IdleSpec => []RepairsEnd
<1>1. IdleInit => Bounded
  BY DEF IdleInit, Bounded, Due, StaleStatus, BadBar, FirstDoc
<1>2. IdleTypeOK /\ Guarded /\ Bounded => RepairsEnd
  <2> SUFFICES ASSUME IdleTypeOK, Guarded, Bounded PROVE repairs <= 3
    BY DEF RepairsEnd
  <2>1. Due \in 0..2 /\ repairs \in 0..4
    BY DEF Due, IdleTypeOK
  <2> QED  BY <2>1 DEF Bounded, AtWork
<1> QED  BY <1>1, <1>2, BoundedStep, GuardedInvariance, IdleTyping, PTL DEF IdleSpec
=============================================================================
