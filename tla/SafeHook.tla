------------------------------- MODULE SafeHook -------------------------------
(***************************************************************************)
(* safeHook (src/plugin/safe-hook.js), the error boundary around every     *)
(* plugin hook: each call makes at most two attempts, an attempt that has  *)
(* not settled after the timeout counts as failed, and three failed calls  *)
(* in a row disable the hook.                                              *)
(*                                                                         *)
(* A timed-out attempt is not cancelled: it runs on beside the next one    *)
(* and its outcome is ignored.  Calls of one hook may overlap.             *)
(***************************************************************************)
EXTENDS Naturals, Sequences

CONSTANTS Calls,        \* calls of the wrapped hook (bound)
          Streak,       \* failed calls in a row that disable it (3 in the code)
          Outcomes      \* how an attempt may settle: "ok", "error", or "nothing",
                        \* a rejection whose reason is null or undefined

ASSUME HookConstants == Streak \in Nat \ {0} /\ Outcomes \subseteq {"ok", "error", "nothing"}

VARIABLES call,         \* where each call of wrappedHook stands
          attempt,      \* each of its two attempts
          failures,     \* consecutiveFailures
          disabled,     \* the circuit breaker
          ended         \* history: how the calls ended, in that order

hookVars == <<call, attempt, failures, disabled, ended>>

Tries == {1, 2}
Waiting == {"first", "second"}
CallStates == {"none", "skipped", "ok", "failed", "rejected"} \cup Waiting

HookTypeOK ==
  /\ call \in [Calls -> CallStates]
  /\ attempt \in [Calls -> [Tries -> {"none", "running", "settled"}]]
  /\ failures \in Nat
  /\ disabled \in BOOLEAN
  /\ ended \in Seq({"ok", "failed", "rejected"})

HookInit ==
  /\ call = [c \in Calls |-> "none"]
  /\ attempt = [c \in Calls |-> [i \in Tries |-> "none"]]
  /\ failures = 0
  /\ disabled = FALSE
  /\ ended = <<>>

\* The attempt whose outcome call c waits for.
Current(c, i) == call[c] = (IF i = 1 THEN "first" ELSE "second")
-----------------------------------------------------------------------------
\* wrappedHook is called: nothing happens if the hook is disabled.
Invoke(c) ==
  /\ call[c] = "none"
  /\ IF disabled
       THEN call' = [call EXCEPT ![c] = "skipped"] /\ UNCHANGED attempt
       ELSE /\ call' = [call EXCEPT ![c] = "first"]
            /\ attempt' = [attempt EXCEPT ![c][1] = "running"]
  /\ UNCHANGED <<failures, disabled, ended>>

\* Mutant: success does not reset the count.
SucceedKeepsCount(c) ==
  /\ call' = [call EXCEPT ![c] = "ok"]
  /\ ended' = Append(ended, "ok")
  /\ UNCHANGED <<failures, disabled>>

Succeed(c) ==
  /\ call' = [call EXCEPT ![c] = "ok"]
  /\ failures' = 0
  /\ ended' = Append(ended, "ok")
  /\ UNCHANGED disabled

\* Mutant: one failure too many is tolerated.
FailBothTolerant(c, how) ==
  /\ failures' = failures + 1
  /\ call' = [call EXCEPT ![c] = "failed"]
  /\ ended' = Append(ended, "failed")
  /\ disabled' = (disabled \/ failures' > Streak)

\* Both attempts failed: count, log, and trip the breaker.  The log message
\* reads lastError.message, which throws if there is no lastError: the call
\* rejects, and the breaker is not looked at.
FailBoth(c, how) ==
  /\ failures' = failures + 1
  /\ IF how = "nothing"
       THEN /\ call' = [call EXCEPT ![c] = "rejected"]
            /\ ended' = Append(ended, "rejected")
            /\ UNCHANGED disabled
       ELSE /\ call' = [call EXCEPT ![c] = "failed"]
            /\ ended' = Append(ended, "failed")
            /\ disabled' = (disabled \/ failures' >= Streak)

\* The outcome of attempt i reaches the retry loop; `settled` are the attempts
\* then.  The second attempt starts in the same turn as the first one fails.
Conclude(c, i, how, settled) ==
  \/ how = "ok" /\ Succeed(c) /\ attempt' = settled
  \/ /\ how # "ok" /\ i = 1
     /\ call' = [call EXCEPT ![c] = "second"]
     /\ attempt' = [settled EXCEPT ![c][2] = "running"]
     /\ UNCHANGED <<failures, disabled, ended>>
  \/ how # "ok" /\ i = 2 /\ FailBoth(c, how) /\ attempt' = settled

\* The promise of an attempt settles; too late, nobody listens.
Settle(c, i, how) ==
  /\ attempt[c][i] = "running"
  /\ LET settled == [attempt EXCEPT ![c][i] = "settled"] IN
     IF Current(c, i) THEN Conclude(c, i, how, settled)
     ELSE attempt' = settled /\ UNCHANGED <<call, failures, disabled, ended>>

\* Mutant: only the first attempt has a timeout.
TimeoutOnce(c, i) ==
  /\ i = 1 /\ Current(c, i) /\ attempt[c][i] = "running"
  /\ Conclude(c, i, "error", attempt)

\* The timer rejects first; the attempt runs on.
Timeout(c, i) ==
  /\ Current(c, i) /\ attempt[c][i] = "running"
  /\ Conclude(c, i, "error", attempt)

HookNext ==
  \E c \in Calls :
    \/ Invoke(c)
    \/ \E i \in Tries : Timeout(c, i) \/ \E how \in Outcomes : Settle(c, i, how)

HookSpec == HookInit /\ [][HookNext]_hookVars

\* Timers fire.  Nothing says that an attempt settles.
HookFairness == \A c \in Calls, i \in Tries : WF_hookVars(Timeout(c, i))

FairHookSpec == HookSpec /\ HookFairness
-----------------------------------------------------------------------------
\* Places in `ended` where a call failed, and it and the Streak - 1 before it did
\* not succeed.  A rejected call counts; but it cannot be the last.
Streaks ==
  {k \in Streak .. Len(ended) :
     ended[k] = "failed" /\ \A j \in k + 1 - Streak .. k : ended[j] # "ok"}

\* The breaker trips on failures in a row only ("auto-disable after 3
\* consecutive failures", safe-hook.js:11), however calls overlap.
TripsForCause == disabled => Streaks # {}

\* And it does trip on them.
Trips == Streaks # {} => disabled

\* Every call ends, with at most two timeouts, although the hook may hang.
CallEnds == \A c \in Calls : (call[c] \in Waiting) ~> (call[c] \notin Waiting)
=============================================================================
