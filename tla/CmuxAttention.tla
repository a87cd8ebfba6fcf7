---------------------------- MODULE CmuxAttention ----------------------------
(***************************************************************************)
(* How a user learns from cmux that a project needs him: the cached        *)
(* resolution of the cmux adapter (src/plugin/index.js), which is asked    *)
(* for again when cmux could not be reached, and the attention events of a *)
(* refresh cycle (src/plugin/cmux-attention-sync.js,                       *)
(* cmux-attention-policy.js), which are sent on a change and not repeated  *)
(* for a while.                                                            *)
(*                                                                         *)
(* RefreshBackbone says when cycles run; here a trigger is taken up by a   *)
(* cycle some time later, and one cycle runs at a time.  The events that   *)
(* report a start or a finished task are left out, and so is what is       *)
(* remembered of a workspace that has no name: nothing is sent there.      *)
(***************************************************************************)
EXTENDS Naturals

CONSTANTS Needs,        \* what the project may wait for its user for, by identity
          Calm,         \* states in which work goes on
          Nothing       \* no state, no event

\* "failing": the write probe fails, and the verdict names the workspace all the
\* same; "missing": cmux cannot be reached; "refused": no use to ask again.
Verdicts == {"attached", "failing", "missing", "refused"}
Named(v) == v \in {"attached", "failing"}

\* An event: what the project needs, that it is blocked, or that it has gone on.
Kinds == {"waiting", "blocked", "running"}
Signals == Needs \cup Calm \cup {"blocked"}
Events == [kind : Kinds, was : Signals \cup {Nothing}, now : Signals]
Event(k, was, now) == [kind |-> k, was |-> was, now |-> now]
ASSUME NothingIsNone == Nothing \notin Signals /\ Nothing \notin Events

VARIABLES signal,       \* the lifecycle state of the project
          cmux,         \* the verdict a resolution would come to
          cached,       \* cmuxAdapterCache: a verdict, "asking", or "none"
          backoff,      \* is the last retry less than 3 seconds ago?
          asked,        \* pendingTrigger: "no", "once", or with allowRetry
          at,           \* where the cycle stands
          adapter,      \* the verdict of the adapter the cycle uses
          view,         \* the state the cycle read
          event,        \* the event the cycle sends
          life,         \* lastLifecycleByWorkspace
          last,         \* lastEventKeys, by kind
          hot,          \* was a "waiting" event sent in the last five minutes?
          board         \* the last line of the log in cmux

cycleVars == <<at, adapter, view, event>>
memoVars == <<life, last, hot>>
cacheVars == <<cached, backoff>>
attentionVars == <<signal, cmux, cacheVars, asked, cycleVars, memoVars, board>>

AttentionTypeOK ==
  /\ signal \in Signals /\ cmux \in Verdicts
  /\ cached \in Verdicts \cup {"asking", "none"} /\ backoff \in BOOLEAN
  /\ asked \in {"no", "once", "retry"}
  /\ at \in {"rest", "resolving", "reading", "sidebar", "logging", "notifying"}
  /\ adapter \in Verdicts \cup {Nothing} /\ view \in Signals \cup {Nothing}
  /\ event \in Events \cup {Nothing}
  /\ life \in Signals \cup {Nothing}
  /\ last \in [Kinds -> Events \cup {Nothing}]
  /\ hot \in BOOLEAN
  /\ board \in Events \cup {Nothing}

\* The plugin has resolved the adapter once.
AttentionStart ==
  /\ signal \in Signals /\ cmux \in Verdicts
  /\ cached \in Verdicts /\ backoff = FALSE
  /\ at = "rest" /\ adapter = Nothing /\ view = Nothing /\ event = Nothing
  /\ life = Nothing /\ last = [k \in Kinds |-> Nothing] /\ hot = FALSE
  /\ board = Nothing

\* It asks for its first cycle.
AttentionInit == AttentionStart /\ asked = "once"
-----------------------------------------------------------------------------
\* The project goes on, or cmux comes and goes.
Develop ==
  /\ \/ signal' \in Signals \ {signal} /\ UNCHANGED cmux
     \/ cmux' \in Verdicts \ {cmux} /\ UNCHANGED signal
  /\ UNCHANGED <<cacheVars, asked, cycleVars, memoVars, board>>

\* A hook asks for a refresh, with allowRetry.
HookAsks ==
  /\ asked' = "retry"
  /\ UNCHANGED <<signal, cmux, cacheVars, cycleVars, memoVars, board>>

\* The watcher reports a change of the planning files, or OpenCode does while the
\* adapter is suppressed: clearCachedCmuxAdapter.
PlanningChanges ==
  /\ asked' = "retry"
  /\ cached' = "none" /\ backoff' = FALSE
  /\ UNCHANGED <<signal, cmux, cycleVars, memoVars, board>>

\* What is cached will do.
Keeps ==
  /\ cached # "none"
  /\ asked = "once" \/ cached \in {"attached", "refused"} \/ backoff

\* The cycle begins.  getCachedCmuxAdapter: take what is cached, or ask cmux
\* (again).
Begin ==
  /\ at = "rest" /\ asked # "no" /\ asked' = "no"
  /\ IF Keeps
       THEN at' = "reading" /\ adapter' = cached /\ UNCHANGED cacheVars
       ELSE /\ at' = "resolving" /\ cached' = "asking"
            /\ backoff' = (backoff \/ cached # "none")
            /\ UNCHANGED adapter
  /\ UNCHANGED <<signal, cmux, view, event, memoVars, board>>

\* resolveCmuxAvailability comes to a verdict; it is cached unless the entry was
\* cleared meanwhile.
Resolved ==
  /\ at = "resolving" /\ at' = "reading" /\ adapter' = cmux
  /\ cached' = IF cached = "asking" THEN cmux ELSE cached
  /\ UNCHANGED <<signal, cmux, backoff, asked, view, event, memoVars, board>>

\* getProjectState.
ReadSignal ==
  /\ at = "reading" /\ at' = "sidebar" /\ view' = signal
  /\ UNCHANGED <<signal, cmux, cacheVars, asked, adapter, event, memoVars, board>>

\* The cycle is over: its local variables are gone.
Rests == at' = "rest" /\ adapter' = Nothing /\ view' = Nothing /\ event' = Nothing

\* There is no project, or a call throws, before the attention events.
Fails ==
  /\ at \in {"reading", "sidebar"} /\ Rests
  /\ UNCHANGED <<signal, cmux, cacheVars, asked, memoVars, board>>
-----------------------------------------------------------------------------
\* buildAttentionCandidate: what `now` gives rise to after `was`.
Candidate(was, now) ==
  IF now \in Needs THEN Event("waiting", Nothing, now)
  ELSE IF now = "blocked" THEN Event("blocked", Nothing, now)
  ELSE IF was \in Needs THEN Event("running", was, now)
  ELSE Nothing

\* Mutant: what was sent last is never repeated.
EmitsOnce(e) == e # Nothing /\ last[e.kind] # e

\* shouldEmitAttentionEvent: not what was sent last of its kind, unless it calls
\* for the user and five minutes have gone by.
Emits(e) == e # Nothing /\ (last[e.kind] # e \/ (e.kind = "waiting" /\ ~hot))

\* syncCmuxAttention, up to its first wait or its end.
Attend ==
  LET e == Candidate(life, view) IN
  /\ at = "sidebar"
  /\ life' = IF Named(adapter) THEN view ELSE life
  /\ IF Named(adapter) /\ Emits(e)
       THEN at' = "logging" /\ event' = e /\ view' = Nothing /\ UNCHANGED adapter
       ELSE Rests
  /\ UNCHANGED <<signal, cmux, cacheVars, asked, last, hot, board>>

\* rememberEvent.
Remember ==
  /\ last' = [last EXCEPT ![event.kind] = event]
  /\ hot' = (hot \/ event.kind = "waiting")
  /\ Rests

\* adapter.log has answered, and nobody looks at the answer: a suppressed adapter
\* sends nothing, an attached one not to a cmux that is gone.
Logged ==
  /\ at = "logging"
  /\ board' = IF adapter = "attached" /\ cmux = "attached" THEN event ELSE board
  /\ IF event.kind = "waiting"
       THEN at' = "notifying" /\ UNCHANGED <<adapter, view, event, last, hot>>
       ELSE Remember
  /\ UNCHANGED <<signal, cmux, cacheVars, asked, life>>

\* adapter.notify has answered.
Notified ==
  /\ at = "notifying" /\ Remember
  /\ UNCHANGED <<signal, cmux, cacheVars, asked, life, board>>

\* Time goes by.
CoolDown ==
  /\ hot /\ hot' = FALSE
  /\ UNCHANGED <<signal, cmux, cacheVars, asked, cycleVars, life, last, board>>
BackoffEnds ==
  /\ backoff /\ backoff' = FALSE
  /\ UNCHANGED <<signal, cmux, cached, asked, cycleVars, memoVars, board>>

AttentionNext ==
  \/ Develop \/ HookAsks \/ PlanningChanges
  \/ Begin \/ Resolved \/ ReadSignal \/ Fails \/ Attend \/ Logged \/ Notified
  \/ BackoffEnds \/ CoolDown

AttentionSpec == AttentionInit /\ [][AttentionNext]_attentionVars

\* A trigger leads to a cycle, calls of cmux answer (they have time limits), a
\* cycle does not fail for ever, and time goes by.
AttentionFairness ==
  /\ WF_attentionVars(Begin \/ Resolved \/ Logged \/ Notified)
  /\ SF_attentionVars(ReadSignal) /\ SF_attentionVars(Attend)
  /\ WF_attentionVars(BackoffEnds) /\ WF_attentionVars(CoolDown)

FairAttentionSpec == AttentionSpec /\ AttentionFairness
-----------------------------------------------------------------------------
\* A project that calls for its user is heard in the end, although an event counts
\* as sent when the call failed or the adapter was suppressed, and one that was
\* overtaken by a recovery is not repeated at once: as long as hooks ask for
\* refreshes, cmux is asked for again and the event sent again.  Excepted: a
\* verdict which is not asked for again ("stale and finalize-failed notify once
\* per semantic occurrence", tests/plugin-cmux-attention-sync.test.cjs:105).
InterventionTold ==
  \A n \in Needs :
    /\ WF_attentionVars(HookAsks)
    /\ <>[](signal = n /\ cmux = "attached" /\ cached # "refused")
    => <>[](board = Event("waiting", Nothing, n))
=============================================================================
