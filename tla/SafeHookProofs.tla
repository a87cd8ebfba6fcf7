--------------------------- MODULE SafeHookProofs ---------------------------
(***************************************************************************)
(* The circuit breaker of safeHook for any number of overlapping calls and *)
(* any threshold: it trips exactly on `Streak` bad ends in a row.  One     *)
(* counter shared by all calls is enough, because it counts the bad ends   *)
(* since the last good one, in the order in which calls end.               *)
(*                                                                         *)
(* At the end, the types of the attention events that hooks give rise to.  *)
(***************************************************************************)
EXTENDS SafeHook, CmuxAttention, TLAPS

USE HookConstants

Ends == {"ok", "failed", "rejected"}

\* failures counts the ends since the last good one.
Counted ==
  /\ failures \in 0 .. Len(ended)
  /\ \A j \in Len(ended) + 1 - failures .. Len(ended) : ended[j] # "ok"
  /\ failures < Len(ended) => ended[Len(ended) - failures] = "ok"

\* The breaker as it should be.
Exact == disabled <=> Streaks # {}

BreakerInv == disabled \in BOOLEAN /\ ended \in Seq(Ends) /\ Counted /\ Exact

\* How a step ends a call: not at all, well, or badly.
EndsNone == UNCHANGED <<failures, disabled, ended>>
EndsWell == failures' = 0 /\ ended' = Append(ended, "ok") /\ UNCHANGED disabled
EndsRejected ==
  failures' = failures + 1 /\ ended' = Append(ended, "rejected") /\ UNCHANGED disabled
EndsFailed ==
  /\ failures' = failures + 1 /\ ended' = Append(ended, "failed")
  /\ disabled' = (disabled \/ failures' >= Streak)

LEMMA HookSteps ==
  ASSUME [HookNext]_hookVars
  PROVE  EndsNone \/ EndsWell \/ EndsRejected \/ EndsFailed
<1> USE DEF EndsNone, EndsWell, EndsRejected, EndsFailed
<1>1. ASSUME NEW c, NEW i, NEW how, NEW settled, Conclude(c, i, how, settled)
      PROVE  EndsNone \/ EndsWell \/ EndsRejected \/ EndsFailed
  BY <1>1, Zenon DEF Conclude, Succeed, FailBoth
<1>2. ASSUME NEW c \in Calls, Invoke(c) PROVE EndsNone
  BY <1>2 DEF Invoke
<1>3. ASSUME NEW c \in Calls, NEW i \in Tries, NEW how \in Outcomes, Settle(c, i, how)
      PROVE  EndsNone \/ EndsWell \/ EndsRejected \/ EndsFailed
  BY <1>1, <1>3 DEF Settle
<1>4. ASSUME NEW c \in Calls, NEW i \in Tries, Timeout(c, i)
      PROVE  EndsNone \/ EndsWell \/ EndsRejected \/ EndsFailed
  BY <1>1, <1>4 DEF Timeout
<1> QED  BY <1>2, <1>3, <1>4 DEF HookNext, hookVars

\* An end is added: earlier streaks stay, and the new place may complete one.
LEMMA AppendStreaks ==
  ASSUME ended \in Seq(Ends), NEW e \in Ends, ended' = Append(ended, e)
  PROVE  LET n == Len(ended) + 1 IN
         /\ ended' \in Seq(Ends) /\ Len(ended') = n /\ ended'[n] = e
         /\ \A j \in 1 .. Len(ended) : ended'[j] = ended[j]
         /\ Streaks \subseteq Streaks' /\ Streaks' \subseteq Streaks \cup {n}
         /\ n \in Streaks' <=>
              n >= Streak /\ e = "failed" /\ \A j \in n + 1 - Streak .. n : ended'[j] # "ok"
<1> DEFINE n == Len(ended) + 1
<1>1. ended' \in Seq(Ends) /\ Len(ended') = n /\ ended'[n] = e /\ n \in Nat
  OBVIOUS
<1>2. \A j \in 1 .. Len(ended) : ended'[j] = ended[j]
  OBVIOUS
<1>3. ASSUME NEW k \in Streak .. Len(ended) PROVE k \in Streaks <=> k \in Streaks'
  <2>1. \A j \in k + 1 - Streak .. k : ended'[j] = ended[j]
    BY <1>2
  <2> QED  BY <1>1, <2>1 DEF Streaks
<1>4. n \in Streaks' <=>
        n >= Streak /\ e = "failed" /\ \A j \in n + 1 - Streak .. n : ended'[j] # "ok"
  BY <1>1 DEF Streaks
<1>5. Streaks \subseteq Streak .. Len(ended) /\ Streaks' \subseteq Streak .. n
  BY <1>1 DEF Streaks
<1> QED  BY <1>1, <1>2, <1>3, <1>4, <1>5

LEMMA EndsWellPreserves == BreakerInv /\ EndsWell => BreakerInv'
<1> SUFFICES ASSUME BreakerInv, EndsWell PROVE BreakerInv'  OBVIOUS
<1> USE DEF BreakerInv, EndsWell
<1>1. ended' \in Seq(Ends) /\ Len(ended') = Len(ended) + 1 /\ ended'[Len(ended) + 1] = "ok"
  BY DEF Ends
<1>2. Counted'
  BY <1>1 DEF Counted
<1>3. Streaks' = Streaks
  <2>1. Len(ended) + 1 \notin Streaks'
    BY <1>1 DEF Streaks
  <2>2. Streaks \subseteq Streaks' /\ Streaks' \subseteq Streaks \cup {Len(ended) + 1}
    BY AppendStreaks DEF Ends
  <2> QED  BY <2>1, <2>2
<1> QED  BY <1>1, <1>2, <1>3 DEF Exact

\* A bad end of either kind makes the count one longer.
LEMMA BadEndCounts ==
  ASSUME BreakerInv, NEW e \in {"failed", "rejected"},
         failures' = failures + 1, ended' = Append(ended, e)
  PROVE  ended' \in Seq(Ends) /\ Counted'
<1>1. /\ ended' \in Seq(Ends) /\ Len(ended') = Len(ended) + 1 /\ ended'[Len(ended) + 1] = e
      /\ \A j \in 1 .. Len(ended) : ended'[j] = ended[j]
  BY AppendStreaks DEF BreakerInv, Ends
<1>2. failures' \in 0 .. Len(ended')
  BY <1>1 DEF BreakerInv, Counted
<1>3. \A j \in Len(ended') + 1 - failures' .. Len(ended') : ended'[j] # "ok"
  BY <1>1 DEF BreakerInv, Counted
<1>4. failures' < Len(ended') => ended'[Len(ended') - failures'] = "ok"
  BY <1>1 DEF BreakerInv, Counted
<1> QED  BY <1>1, <1>2, <1>3, <1>4 DEF Counted

LEMMA EndsRejectedPreserves == BreakerInv /\ EndsRejected => BreakerInv'
<1> SUFFICES ASSUME BreakerInv, EndsRejected PROVE BreakerInv'  OBVIOUS
<1>1. ended' \in Seq(Ends) /\ Counted'
  BY BadEndCounts DEF EndsRejected
<1>2. Streaks' = Streaks
  BY AppendStreaks DEF BreakerInv, EndsRejected, Ends
<1> QED  BY <1>1, <1>2 DEF BreakerInv, EndsRejected, Exact

\* The count reaches Streak exactly when the last Streak ends were bad.
LEMMA EndsFailedPreserves == BreakerInv /\ EndsFailed => BreakerInv'
<1> SUFFICES ASSUME BreakerInv, EndsFailed PROVE BreakerInv'  OBVIOUS
<1> DEFINE n == Len(ended) + 1
<1>1. ended' \in Seq(Ends) /\ Counted' /\ Len(ended') = n /\ n \in Nat
  BY BadEndCounts, AppendStreaks DEF EndsFailed, BreakerInv, Ends
<1>2. n \in Streaks' <=> failures' >= Streak
  <2>1. n \in Streaks' <=> n >= Streak /\ \A j \in n + 1 - Streak .. n : ended'[j] # "ok"
    BY AppendStreaks DEF EndsFailed, BreakerInv, Ends
  <2>2. CASE failures' >= Streak
    <3>1. n >= Streak /\ \A j \in n + 1 - Streak .. n : ended'[j] # "ok"
      BY <1>1, <2>2 DEF Counted
    <3> QED  BY <2>1, <2>2, <3>1
  <2>3. CASE ~(failures' >= Streak)
    <3> SUFFICES ASSUME n >= Streak
                 PROVE  \E j \in n + 1 - Streak .. n : ended'[j] = "ok"
      BY <2>1, <2>3
    <3>1. failures' \in Nat /\ failures' < Streak /\ failures' < n
      BY <1>1, <2>3 DEF Counted
    <3>2. n - failures' \in n + 1 - Streak .. n
      BY <1>1, <3>1
    <3>3. ended'[n - failures'] = "ok"
      BY <1>1, <3>1 DEF Counted
    <3> QED  BY <3>2, <3>3
  <2> QED  BY <2>2, <2>3
<1>3. Streaks \subseteq Streaks' /\ Streaks' \subseteq Streaks \cup {n}
  BY AppendStreaks DEF EndsFailed, BreakerInv, Ends
<1>4. disabled' <=> (disabled \/ failures' >= Streak)
  BY Zenon DEF EndsFailed
<1>5. disabled' \in BOOLEAN
  BY Zenon DEF EndsFailed
<1>6. Exact'
  BY <1>2, <1>3, <1>4 DEF BreakerInv, Exact
<1> QED  BY <1>1, <1>5, <1>6 DEF BreakerInv

LEMMA BreakerInvariance == HookSpec => []BreakerInv
<1>1. HookInit => BreakerInv
  <2> SUFFICES ASSUME HookInit PROVE BreakerInv  OBVIOUS
  <2>1. ~disabled /\ disabled \in BOOLEAN /\ failures = 0 /\ ended = <<>>
    BY DEF HookInit
  <2>2. Streaks = {}
    BY <2>1 DEF Streaks
  <2>3. ended \in Seq(Ends) /\ Len(ended) = 0
    BY <2>1
  <2> QED  BY <2>1, <2>2, <2>3 DEF BreakerInv, Counted, Exact
<1>2. BreakerInv /\ EndsNone => BreakerInv'
  BY DEF BreakerInv, EndsNone, Counted, Exact, Streaks
<1>3. BreakerInv /\ [HookNext]_hookVars => BreakerInv'
  BY <1>2, HookSteps, EndsWellPreserves, EndsRejectedPreserves, EndsFailedPreserves
<1> QED  BY <1>1, <1>3, PTL DEF HookSpec

\* Every reachable state of the boundary is well typed.
THEOREM HookTyping == HookSpec => []HookTypeOK
<1> DEFINE Typed == /\ call \in [Calls -> CallStates]
                    /\ attempt \in [Calls -> [Tries -> {"none", "running", "settled"}]]
<1> USE DEF CallStates, Waiting, Tries
<1>1. HookInit => Typed
  BY DEF HookInit
<1>2. Typed /\ [HookNext]_hookVars => Typed'
  <2> SUFFICES ASSUME Typed, HookNext PROVE Typed'
    BY DEF hookVars
  <2>1. ASSUME NEW settled \in [Calls -> [Tries -> {"none", "running", "settled"}]],
               NEW c \in Calls, NEW i \in Tries, NEW how, Conclude(c, i, how, settled)
        PROVE  Typed'
    <3>1. attempt' = settled \/ attempt' = [settled EXCEPT ![c][2] = "running"]
      BY <2>1 DEF Conclude
    <3>2. \E s \in CallStates : call' = [call EXCEPT ![c] = s]
      BY <2>1 DEF Conclude, Succeed, FailBoth
    <3> QED  BY <3>1, <3>2
  <2>2. ASSUME NEW c \in Calls, NEW i \in Tries
        PROVE  [attempt EXCEPT ![c][i] = "settled"]
                 \in [Calls -> [Tries -> {"none", "running", "settled"}]]
    OBVIOUS
  <2>3. ASSUME NEW c \in Calls, Invoke(c) PROVE Typed'
    BY <2>3 DEF Invoke
  <2>4. ASSUME NEW c \in Calls, NEW i \in Tries, NEW how, Settle(c, i, how) PROVE Typed'
    <3> DEFINE settled == [attempt EXCEPT ![c][i] = "settled"]
    <3>1. settled \in [Calls -> [Tries -> {"none", "running", "settled"}]]
      BY <2>2
    <3>2. Conclude(c, i, how, settled) \/ (attempt' = settled /\ UNCHANGED call)
      BY <2>4 DEF Settle
    <3> HIDE DEF settled
    <3> QED  BY <2>1, <3>1, <3>2
  <2>5. ASSUME NEW c \in Calls, NEW i \in Tries, Timeout(c, i) PROVE Typed'
    BY <2>1, <2>5 DEF Timeout
  <2> QED  BY <2>3, <2>4, <2>5 DEF HookNext
<1>3. Typed /\ BreakerInv => HookTypeOK
  BY DEF BreakerInv, Counted, Ends, HookTypeOK
<1> QED  BY <1>1, <1>2, <1>3, BreakerInvariance, PTL DEF HookSpec

\* A hook is disabled only after failures in a row, in the order calls end.
THEOREM BreakerHasCause == HookSpec => []TripsForCause
<1>1. BreakerInv => TripsForCause
  BY DEF BreakerInv, Exact, TripsForCause
<1> QED  BY <1>1, BreakerInvariance, PTL

\* And it is disabled after them, at any threshold.
THEOREM BreakerTrips == HookSpec => []Trips
<1>1. BreakerInv => Trips
  BY DEF BreakerInv, Exact, Trips
<1> QED  BY <1>1, BreakerInvariance, PTL
-----------------------------------------------------------------------------
\* What a cycle goes on with is there: a resolution is in flight exactly as long as the
\* cache says so or was cleared, the state was read before it is compared, and an event
\* was chosen before it is sent.
CycleHas ==
  /\ cached = "asking" => at = "resolving"
  /\ at = "sidebar" => view \in Signals
  /\ at \in {"reading", "sidebar", "logging", "notifying"} => adapter \in Verdicts
  /\ at \in {"logging", "notifying"} => event \in Events /\ Named(adapter)
  /\ at \in {"logging", "notifying"} /\ event.kind = "waiting" => event.now \in Needs
  /\ at = "notifying" => event.kind = "waiting"

AttentionInv == AttentionTypeOK /\ CycleHas

LEMMA CandidateTyping ==
  ASSUME NEW was \in Signals \cup {Nothing}, NEW now \in Signals
  PROVE  /\ Candidate(was, now) \in Events \cup {Nothing}
         /\ Candidate(was, now) \in Events /\ Candidate(was, now).kind = "waiting"
              => Candidate(was, now).now \in Needs
BY NothingIsNone DEF Candidate, Event, Events, Kinds, Signals

LEMMA AttentionStep == AttentionInv /\ [AttentionNext]_attentionVars => AttentionInv'
<1> SUFFICES ASSUME AttentionInv, [AttentionNext]_attentionVars PROVE AttentionInv'  OBVIOUS
<1> USE DEF AttentionInv, AttentionTypeOK, CycleHas
<1>1. CASE Develop \/ HookAsks \/ BackoffEnds \/ CoolDown
  <2>1. CASE Develop
    BY <2>1 DEF Develop, cacheVars, cycleVars, memoVars
  <2>2. CASE HookAsks
    BY <2>2 DEF HookAsks, cacheVars, cycleVars, memoVars
  <2>3. CASE BackoffEnds
    <3>1. backoff' \in BOOLEAN
      BY <2>3 DEF BackoffEnds
    <3>2. UNCHANGED <<signal, cmux, cached, asked, at, adapter, view, event, life, last, hot, board>>
      BY <2>3 DEF BackoffEnds, cycleVars, memoVars
    <3> QED  BY <3>1, <3>2
  <2>4. CASE CoolDown
    <3>1. hot' \in BOOLEAN
      BY <2>4 DEF CoolDown
    <3>2. UNCHANGED <<signal, cmux, cached, backoff, asked, at, adapter, view, event, life, last, board>>
      BY <2>4 DEF CoolDown, cacheVars, cycleVars
    <3> QED  BY <3>1, <3>2
  <2> QED  BY <1>1, <2>1, <2>2, <2>3, <2>4
<1>2. CASE PlanningChanges
  BY <1>2 DEF PlanningChanges, cycleVars, memoVars
<1>3. CASE Begin
  BY <1>3 DEF Begin, Keeps, cacheVars, memoVars
<1>4. CASE Resolved
  BY <1>4 DEF Resolved, memoVars, Verdicts
<1>5. CASE ReadSignal
  BY <1>5 DEF ReadSignal, cacheVars, memoVars
<1>6. CASE Fails
  BY <1>6 DEF Fails, Rests, cacheVars, memoVars
<1>7. CASE Attend
  BY <1>7, CandidateTyping, NothingIsNone DEF Attend, Emits, Rests, cacheVars
<1>8. CASE Logged
  <2>1. event \in Events /\ event.kind \in Kinds /\ board' \in Events \cup {Nothing}
    BY <1>8 DEF Logged, Events
  <2>2. CASE event.kind = "waiting"
    BY <1>8, <2>1, <2>2 DEF Logged, cacheVars
  <2>3. CASE event.kind # "waiting"
    BY <1>8, <2>1, <2>3 DEF Logged, Remember, Rests, cacheVars
  <2> QED  BY <2>2, <2>3
<1>9. CASE Notified
  BY <1>9 DEF Notified, Remember, Rests, cacheVars, Events
<1>10. CASE UNCHANGED attentionVars
  BY <1>10 DEF attentionVars, cacheVars, cycleVars, memoVars
<1> QED
  BY <1>1, <1>2, <1>3, <1>4, <1>5, <1>6, <1>7, <1>8, <1>9, <1>10 DEF AttentionNext

LEMMA AttentionInvariance == AttentionSpec => []AttentionInv
<1>1. AttentionInit => AttentionInv
  BY NothingIsNone DEF AttentionInit, AttentionStart, AttentionInv, AttentionTypeOK, CycleHas,
     Verdicts
<1> QED  BY <1>1, AttentionStep, PTL DEF AttentionSpec

\* Every reachable state of the adapter's cache and of the attention events is well typed;
\* no cycle takes a resolution in flight for a verdict (getCachedCmuxAdapter,
\* src/plugin/index.js), and none is sent that was not chosen.
THEOREM AttentionTyping == AttentionSpec => []AttentionTypeOK
BY AttentionInvariance, PTL DEF AttentionInv
=============================================================================
