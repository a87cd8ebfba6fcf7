-------------------------- MODULE RefreshBackbone --------------------------
(***************************************************************************)
(* The plugin's refresh coordinator (src/plugin/cmux-refresh-backbone.js): *)
(* hooks and the file watcher report triggers, which are debounced into    *)
(* refresh cycles; a cycle drops the parser caches, waits for the cmux     *)
(* adapter, reads the project, and writes it to the sidebar and to the     *)
(* attention log.                                                          *)
(*                                                                         *)
(* JavaScript runs to completion between awaits, so one action is what     *)
(* runs from one await to the next.  The project on disk is a version      *)
(* number; any hook may read it through the parser caches in between.      *)
(***************************************************************************)
EXTENDS Naturals, FiniteSets

CONSTANTS Cycles,       \* names for cycles that run at the same time
          MaxVersion,   \* changes of the project (bound)
          Throws,       \* may an awaited call throw?
          Disposes,     \* may dispose() be called?
          None          \* no cycle, no version

ASSUME RefreshConstants ==
  MaxVersion \in Nat /\ Throws \in BOOLEAN /\ Disposes \in BOOLEAN

Versions == 0..MaxVersion
ASSUME NoneIsNothing == None \notin Cycles /\ None \notin Versions

VARIABLES disk,         \* the version of the project on disk
          cache,        \* the version the parser caches hold, or None
          timer,        \* debounce timer: "off", "armed" or "due"
          inFlight,     \* the cycle whose promise is in flight, or None
          stage,        \* what each cycle waits for, "none" if it is not running
          rerun,        \* rerunRequested
          pending,      \* pendingTrigger: the newest version it reports, or None
          trigger,      \* what each cycle took up
          payload,      \* the version each cycle read
          shown         \* the version on the sidebar

refreshVars == <<disk, cache, timer, inFlight, stage, rerun, pending,
                 trigger, payload, shown>>

Stages == {"none", "adapter", "project", "sidebar", "attention"}

RefreshTypeOK ==
  /\ disk \in Versions /\ shown \in Versions
  /\ cache \in Versions \cup {None}
  /\ timer \in {"off", "armed", "due"}
  /\ inFlight \in Cycles \cup {None}
  /\ stage \in [Cycles -> Stages]
  /\ rerun \in BOOLEAN
  /\ pending \in Versions \cup {None}
  /\ trigger \in [Cycles -> Versions \cup {None}]
  /\ payload \in [Cycles -> Versions]

Running == {c \in Cycles : stage[c] # "none"}

RefreshInit ==
  /\ disk = 0 /\ shown = 0
  /\ cache \in {0, None}
  /\ timer = "off"
  /\ inFlight = None
  /\ stage = [c \in Cycles |-> "none"]
  /\ rerun = FALSE
  /\ pending = None
  /\ trigger = [c \in Cycles |-> None]
  /\ payload = [c \in Cycles |-> 0]
-----------------------------------------------------------------------------
\* Mutant: the caches are not dropped.
StartWarm(c, took, others) ==
  /\ timer' = "off"
  /\ inFlight' = c
  /\ stage' = [others EXCEPT ![c] = "adapter"]
  /\ trigger' = [trigger EXCEPT ![c] = took]
  /\ pending' = None
  /\ UNCHANGED cache

\* runCycle up to its first await, in a cycle that is not running: take up what
\* is pending, drop the parser caches, ask for the adapter.  `took` is what is
\* pending, `others` are the stages of the other cycles.
Start(c, took, others) ==
  /\ timer' = "off"
  /\ inFlight' = c
  /\ stage' = [others EXCEPT ![c] = "adapter"]
  /\ trigger' = [trigger EXCEPT ![c] = took]
  /\ pending' = None
  /\ cache' = None

StartsNow(took) == \E c \in Cycles : stage[c] = "none" /\ Start(c, took, stage)

\* The project changes on disk.
Change ==
  /\ disk < MaxVersion /\ disk' = disk + 1
  /\ UNCHANGED <<cache, timer, inFlight, stage, rerun, pending, trigger, payload, shown>>

\* Mutant: a trigger during a cycle is merged, but no rerun is asked for.
ScheduleNoRerun(immediate, kept) ==
  /\ IF inFlight # None
       THEN pending' = disk /\ cache' = kept
            /\ UNCHANGED <<timer, inFlight, stage, trigger>>
     ELSE IF immediate THEN StartsNow(disk)
     ELSE /\ pending' = disk /\ timer' = "armed" /\ cache' = kept
          /\ UNCHANGED <<inFlight, stage, trigger>>
  /\ UNCHANGED <<disk, rerun, payload, shown>>

\* schedule: enqueue (debounced) or refreshNow (immediate).  During a cycle it
\* asks for a rerun instead.  `kept` is what the caller left in the caches.
ScheduleWith(immediate, kept) ==
  /\ IF inFlight # None
       THEN pending' = disk /\ rerun' = TRUE /\ cache' = kept
            /\ UNCHANGED <<timer, inFlight, stage, trigger>>
     ELSE IF immediate THEN StartsNow(disk) /\ UNCHANGED rerun
     ELSE /\ pending' = disk /\ timer' = "armed" /\ cache' = kept
          /\ UNCHANGED <<inFlight, stage, trigger, rerun>>
  /\ UNCHANGED <<disk, payload, shown>>

Schedule(immediate) == ScheduleWith(immediate, cache)

\* debounceMs go by without another trigger.
Elapse ==
  /\ timer = "armed" /\ timer' = "due"
  /\ UNCHANGED <<disk, cache, inFlight, stage, rerun, pending, trigger,
                 payload, shown>>

\* The timer calls runCycle.
Fire ==
  /\ timer = "due"
  /\ IF inFlight # None
       THEN timer' = "off" /\ UNCHANGED <<cache, inFlight, stage, pending, trigger>>
       ELSE StartsNow(pending)
  /\ UNCHANGED <<disk, rerun, payload, shown>>
-----------------------------------------------------------------------------
\* The `finally` block of cycle c, whose local variables go: a rerun starts
\* before anything else runs.
Finally(c) ==
  LET ended == [stage EXCEPT ![c] = "none"] IN
  /\ payload' = [payload EXCEPT ![c] = 0]
  /\ IF rerun
       THEN /\ rerun' = FALSE
            /\ Start(c, pending, ended)
       ELSE /\ inFlight' = None
            /\ stage' = ended
            /\ trigger' = [trigger EXCEPT ![c] = None]
            /\ UNCHANGED <<rerun, timer, cache, pending>>

\* getCurrentCmuxAdapter settles; getProjectState then reads through the caches.
ReadProject(c) ==
  /\ stage[c] = "adapter"
  /\ LET v == IF cache = None THEN disk ELSE cache IN
       /\ cache' = v
       /\ payload' = [payload EXCEPT ![c] = v]
  /\ stage' = [stage EXCEPT ![c] = "project"]
  /\ UNCHANGED <<disk, timer, inFlight, rerun, pending, trigger, shown>>

\* The project is there: syncCmuxSidebar begins to write it.
StartSidebar(c) ==
  /\ stage[c] = "project"
  /\ stage' = [stage EXCEPT ![c] = "sidebar"]
  /\ UNCHANGED <<disk, cache, timer, inFlight, rerun, pending, trigger,
                 payload, shown>>

\* syncCmuxSidebar is done.
ShowSidebar(c) ==
  /\ stage[c] = "sidebar"
  /\ shown' = payload[c]
  /\ stage' = [stage EXCEPT ![c] = "attention"]
  /\ UNCHANGED <<disk, cache, timer, inFlight, rerun, pending, trigger,
                 payload>>

\* syncCmuxAttention is done: the cycle ends.
EndCycle(c) ==
  /\ stage[c] = "attention"
  /\ Finally(c)
  /\ UNCHANGED <<disk, shown>>

\* An awaited call throws (onError), or there is no project: the cycle ends.
EndEarly(c) ==
  /\ Throws
  /\ stage[c] \in {"adapter", "project", "sidebar", "attention"}
  /\ Finally(c)
  /\ UNCHANGED <<disk, shown>>
-----------------------------------------------------------------------------
\* Another hook reads the project, or drops a cache.
ReadElsewhere ==
  /\ cache = None /\ cache' = disk
  /\ UNCHANGED <<disk, timer, inFlight, stage, rerun, pending, trigger,
                 payload, shown>>
DropElsewhere ==
  /\ cache # None /\ cache' = None
  /\ UNCHANGED <<disk, timer, inFlight, stage, rerun, pending, trigger,
                 payload, shown>>

\* Mutant: dispose() forgets the cycle in flight as well.
DisposeForgets ==
  /\ Disposes
  /\ timer' = "off" /\ pending' = None /\ rerun' = FALSE /\ inFlight' = None
  /\ UNCHANGED <<disk, cache, stage, trigger, payload, shown>>

\* dispose(): what is pending is dropped; a cycle in flight goes on.
Dispose ==
  /\ Disposes
  /\ timer' = "off" /\ pending' = None /\ rerun' = FALSE
  /\ UNCHANGED <<disk, cache, inFlight, stage, trigger, payload, shown>>

CycleStep(c) == ReadProject(c) \/ StartSidebar(c) \/ ShowSidebar(c) \/ EndCycle(c)

RefreshNext ==
  \/ Change \/ Elapse \/ Fire \/ ReadElsewhere \/ DropElsewhere \/ Dispose
  \/ \E immediate \in BOOLEAN : Schedule(immediate)
  \/ \E c \in Cycles : CycleStep(c) \/ EndEarly(c)

RefreshSpec == RefreshInit /\ [][RefreshNext]_refreshVars
-----------------------------------------------------------------------------
\* "Overlapping refresh requests never run concurrent cycles" (185-01-PLAN.md:19).
SingleFlight == Cardinality(Running) <= 1

\* A cycle's snapshot holds every change its triggers reported, although other
\* hooks fill the parser caches while it waits for the adapter: "reads one fresh
\* project snapshot" (185-01-PLAN.md:18).
FreshSnapshot ==
  \A c \in Running :
    stage[c] # "adapter" /\ trigger[c] # None => trigger[c] <= payload[c]

\* A trigger that was merged is never left without someone to take it up: the
\* timer will, or the cycle in flight will start a rerun.
PendingHasTaker ==
  pending # None => timer # "off" \/ (rerun /\ Running # {})

\* The sidebar never goes back to an older version of the project.
SidebarMovesForward == [][shown' >= shown]_refreshVars
=============================================================================
