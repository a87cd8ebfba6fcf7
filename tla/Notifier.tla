------------------------------ MODULE Notifier ------------------------------
(***************************************************************************)
(* The notifier of the plugin (src/plugin/notification.js).  notify drops  *)
(* what it has seen within the last seconds and what exceeds the rate      *)
(* limit; for a warning or worse it waits for a command of the operating   *)
(* system; then it queues the notification for the next system prompt.     *)
(*                                                                         *)
(* notify runs in the turn of its caller up to that wait.  A notification  *)
(* is a key (type and message).  The order of the queue is left out, and   *)
(* so are do-not-disturb and the setters of the limits: nothing in the     *)
(* plugin calls them.                                                      *)
(***************************************************************************)
EXTENDS Naturals

CONSTANTS Callers,      \* calls of notify that may overlap
          Urgent,       \* keys of severity warning or critical
          Routine,      \* keys of severity info
          RateLimit,    \* notifications a minute
          Silent        \* a caller that waits for no command

ASSUME NotifierConstants ==
  /\ RateLimit \in Nat \ {0}
  /\ Urgent \cap Routine = {} /\ Silent \notin Urgent

Keys == Urgent \cup Routine

VARIABLES window,       \* parts left of a key's time in recentKeys
          passed,       \* rateLimitTimestamps of the last minute
          telling,      \* the notification each caller waits for
          queued        \* pendingContext

notifierVars == <<window, passed, telling, queued>>

\* The deduplication window runs out in so many parts (bound).
WindowParts == 2

NotifierTypeOK ==
  /\ window \in [Keys -> 0..WindowParts]
  /\ passed \in 0..RateLimit
  /\ telling \in [Callers -> Urgent \cup {Silent}]
  /\ queued \subseteq Keys

NotifierInit ==
  /\ window = [k \in Keys |-> 0]
  /\ passed = 0
  /\ telling = [c \in Callers |-> Silent]
  /\ queued = {}
-----------------------------------------------------------------------------
\* Past the rate limit: wait for the operating system, or queue at once.
Route(c, k) ==
  IF k \in Urgent
    THEN telling' = [telling EXCEPT ![c] = k] /\ UNCHANGED queued
    ELSE queued' = queued \cup {k} /\ UNCHANGED telling

\* Mutant: a repetition is remembered as well, and prolongs the window.
NotifyProlongs(c, k) ==
  /\ window' = [window EXCEPT ![k] = WindowParts]
  /\ IF window[k] = 0 /\ passed < RateLimit
       THEN passed' = passed + 1 /\ Route(c, k)
       ELSE UNCHANGED <<passed, telling, queued>>

\* notify, up to its wait or its end.  isDuplicate remembers a key before the
\* rate limit decides; a repetition does not prolong its time.
Notify(c, k) ==
  IF window[k] > 0
    THEN UNCHANGED notifierVars
    ELSE /\ window' = [window EXCEPT ![k] = WindowParts]
         /\ IF passed < RateLimit
              THEN passed' = passed + 1 /\ Route(c, k)
              ELSE UNCHANGED <<passed, telling, queued>>

\* The operating system's command has ended, well or not.
Deliver(c) ==
  /\ telling[c] # Silent
  /\ queued' = queued \cup {telling[c]}
  /\ telling' = [telling EXCEPT ![c] = Silent]
  /\ UNCHANGED <<window, passed>>

\* drainPendingContext: the next system prompt takes what is queued.
Drain ==
  /\ queued # {} /\ queued' = {}
  /\ UNCHANGED <<window, passed, telling>>

\* Time goes by: every key grows older; the oldest time stamp leaves the last
\* minute.
Forget ==
  /\ \E k \in Keys : window[k] > 0
  /\ window' = [k \in Keys |-> IF window[k] > 0 THEN window[k] - 1 ELSE 0]
  /\ UNCHANGED <<passed, telling, queued>>

Slide ==
  /\ passed > 0 /\ passed' = passed - 1
  /\ UNCHANGED <<window, telling, queued>>

NotifierNext ==
  \/ \E c \in Callers : Deliver(c)
  \/ Drain \/ Forget \/ Slide

\* A caller says something that does not wait for an earlier call.
Tell(c, k) == telling[c] = Silent /\ Notify(c, k)
Say == \E c \in Callers, k \in Keys : Tell(c, k)

NotifierSpec == NotifierInit /\ [][NotifierNext \/ Say]_notifierVars

\* Commands of the operating system end, and time goes by.
NotifierFairness ==
  /\ \A c \in Callers : WF_notifierVars(Deliver(c))
  /\ WF_notifierVars(Forget) /\ WF_notifierVars(Slide)

FairNotifierSpec == NotifierSpec /\ NotifierFairness
-----------------------------------------------------------------------------
\* While there is something to say, the notifier is not silent for ever, whatever is
\* said and dropped: a dropped notification is remembered as seen, but its repetitions
\* do not make that last (notification.js:81-96,136-139).  Which one is heard is not
\* promised: of two that are said in turn when the limit is used up, one may take every
\* place that becomes free.
HeardInTheEnd == WF_notifierVars(Say) => []<>(queued # {})
=============================================================================
