--------------------------- MODULE PlanningWatch ---------------------------
(***************************************************************************)
(* What brings changes of the project to the refresh coordinator: the file *)
(* watcher (src/plugin/file-watcher.js), which debounces the events of the *)
(* operating system and passes over the files the plugin says it writes    *)
(* itself, and the hooks that ask for a refresh (src/plugin/index.js).     *)
(*                                                                         *)
(* One watched file stands for STATE.md: others change it, and so does the *)
(* idle validator, whose hook asks for a refresh when it is over.  The     *)
(* mark of a self-write and the debounce of the refresh last 200 ms both,  *)
(* so a refresh put off after the mark was set comes after it is cleared.  *)
(***************************************************************************)
EXTENDS RefreshBackbone

VARIABLES started,      \* has the plugin asked for its first refresh?
          events,       \* events of the file on their way: "own", "outside"
          masked,       \* is the file in selfWrites?
          debounce,     \* the watcher's timer: "off", "armed" or "due"; the
                        \* file is in pendingPaths while it is not off
          repairing,    \* the hook that repaired the file has not ended
          putOff,       \* was the refresh timer armed while the mark was set?
          missed,       \* history: an event fell under the mark, too late for
                        \* the refresh of the hook that had set it
          gaveUp        \* history: a cycle ended unshown, or dispose() was called

watcherVars == <<started, events, masked, debounce, repairing, putOff, missed, gaveUp>>
watchVars == <<refreshVars, watcherVars>>

WatchTypeOK ==
  /\ RefreshTypeOK
  /\ events \subseteq {"own", "outside"}
  /\ debounce \in {"off", "armed", "due"}
  /\ started \in BOOLEAN /\ masked \in BOOLEAN
  /\ repairing \in BOOLEAN /\ putOff \in BOOLEAN /\ missed \in BOOLEAN /\ gaveUp \in BOOLEAN

WatchInit ==
  /\ RefreshInit
  /\ started = FALSE
  /\ events = {} /\ masked = FALSE /\ debounce = "off"
  /\ repairing = FALSE /\ putOff = FALSE
  /\ missed = FALSE /\ gaveUp = FALSE
-----------------------------------------------------------------------------
\* The plugin starts: it watches, and asks for an immediate refresh.
Startup ==
  /\ ~started /\ started' = TRUE
  /\ Schedule(TRUE)
  /\ UNCHANGED <<events, masked, debounce, repairing, putOff, missed, gaveUp>>

\* Someone else writes the file.
OutsideChange ==
  /\ started /\ Change
  /\ events' = events \cup {"outside"}
  /\ UNCHANGED <<started, masked, debounce, repairing, putOff, missed, gaveUp>>

\* writeTracked in the idle validator: trackSelfWrite, then the write, and the
\* parser caches are dropped (invalidateState).
SelfWrite ==
  /\ started /\ ~repairing /\ repairing' = TRUE
  /\ disk < MaxVersion /\ disk' = disk + 1
  /\ cache' = None
  /\ events' = events \cup {"own"}
  /\ masked' = TRUE /\ putOff' = FALSE
  /\ UNCHANGED <<timer, inFlight, stage, rerun, pending, trigger, payload, shown,
                 started, debounce, missed, gaveUp>>

\* 200 ms after the mark was set.
Unmask ==
  /\ masked /\ masked' = FALSE
  /\ UNCHANGED <<refreshVars, started, events, debounce, repairing, putOff,
                 missed, gaveUp>>

\* Asked for under the mark, a refresh waits until the mark is gone, unless a
\* cycle is running: its rerun does not wait.
Asks == Schedule(FALSE) /\ putOff' = (timer' = "armed" /\ masked)

\* Mutant: the idle hook does not ask for a refresh.
HookEndsSilently ==
  /\ repairing /\ repairing' = FALSE
  /\ UNCHANGED <<refreshVars, started, events, masked, debounce, putOff, missed, gaveUp>>

\* The hook that repaired the file ends: it asks for a refresh.
HookEnds ==
  /\ repairing /\ repairing' = FALSE
  /\ Asks
  /\ UNCHANGED <<started, events, masked, debounce, missed, gaveUp>>

\* Any other hook asks for one.
OtherHook ==
  /\ started /\ Asks
  /\ UNCHANGED <<started, events, masked, debounce, repairing, missed, gaveUp>>
-----------------------------------------------------------------------------
\* onWatchEvent: passed over under the mark, whoever wrote the file.
Deliver(e) ==
  /\ e \in events /\ events' = events \ {e}
  /\ IF masked
       THEN /\ missed' = (missed \/ (e = "outside" /\ ~repairing /\ ~(timer = "armed" /\ putOff)))
            /\ UNCHANGED <<debounce>>
       ELSE debounce' = "armed" /\ UNCHANGED missed
  /\ UNCHANGED <<refreshVars, started, masked, repairing, putOff, gaveUp>>

\* The watcher's debounce time is over.
Settle ==
  /\ debounce = "armed" /\ debounce' = "due"
  /\ UNCHANGED <<refreshVars, started, events, masked, repairing, putOff, missed, gaveUp>>

\* processPendingEvents: under the mark nothing happens, else the caches are
\* dropped and onExternalChange asks for a refresh.
Process ==
  /\ debounce = "due" /\ debounce' = "off"
  /\ IF ~masked
       THEN ScheduleWith(FALSE, None) /\ putOff' = FALSE
       ELSE UNCHANGED <<refreshVars, putOff>>
  /\ UNCHANGED <<started, events, masked, repairing, missed, gaveUp>>
-----------------------------------------------------------------------------
\* The refresh timer; it does not run out under a mark it was armed under.
RefreshDue ==
  /\ ~(masked /\ putOff)
  /\ Elapse
  /\ UNCHANGED watcherVars

RefreshFires == Fire /\ UNCHANGED watcherVars

Cycle(c) == CycleStep(c) /\ UNCHANGED watcherVars

Elsewhere == (ReadElsewhere \/ DropElsewhere) /\ UNCHANGED watcherVars

CycleFails(c) ==
  /\ EndEarly(c)
  /\ gaveUp' = (gaveUp \/ stage[c] # "attention")
  /\ UNCHANGED <<started, events, masked, debounce, repairing, putOff, missed>>

DisposeAll ==
  /\ Dispose /\ gaveUp' = TRUE
  /\ UNCHANGED <<started, events, masked, debounce, repairing, putOff, missed>>

WatchNext ==
  \/ Startup \/ OutsideChange \/ SelfWrite \/ Unmask \/ HookEnds \/ OtherHook
  \/ \E e \in {"own", "outside"} : Deliver(e)
  \/ Settle \/ Process \/ RefreshDue \/ RefreshFires \/ Elsewhere \/ DisposeAll
  \/ \E c \in Cycles : Cycle(c) \/ CycleFails(c)

WatchSpec == WatchInit /\ [][WatchNext]_watchVars

\* Events arrive, timers run out, hooks end (their time limit sees to it) and
\* awaited calls settle.  A timer that is armed anew for ever is the one thing
\* the code does not bound, hence SF.
WatchFairness ==
  /\ WF_watchVars(Startup) /\ WF_watchVars(Unmask) /\ WF_watchVars(HookEnds)
  /\ WF_watchVars(Deliver("own")) /\ WF_watchVars(Deliver("outside"))
  /\ WF_watchVars(Settle) /\ SF_watchVars(Process)
  /\ SF_watchVars(RefreshDue) /\ SF_watchVars(RefreshFires)
  /\ \A c \in Cycles : WF_watchVars(Cycle(c))

FairWatchSpec == WatchSpec /\ WatchFairness
-----------------------------------------------------------------------------
\* Whatever is written to the project, by others or by the plugin itself, is on
\* the sidebar some time later, although the watcher passes over everything that
\* happens to a file the plugin has just written: the hook that wrote it asks for
\* a refresh which comes late enough.  Excepted: a cycle that fails, a disposed
\* coordinator, and an event under the mark when that refresh has already begun,
\* as the rerun of a cycle that was in flight (file-watcher.js:66,95).
ChangesShown ==
  \A v \in Versions :
    (disk = v /\ ~gaveUp /\ ~missed) ~> (shown >= v \/ gaveUp \/ missed)
=============================================================================
