------------------------ MODULE PlanningWatchProofs ------------------------
(***************************************************************************)
(* The safety of the refresh coordinator, for any number of cycle names    *)
(* and of versions, whether or not calls throw and dispose is called:      *)
(* first by itself (RefreshSpec), then beside the file watcher, the idle   *)
(* validator and the other hooks (WatchSpec).                              *)
(*                                                                         *)
(* Who is in flight (OneCycle) and what is owed to whom (Taken, Fresh) are *)
(* the parts of one inductive invariant: that the timer is off during a    *)
(* cycle is what makes its `finally` block the only place to take up what  *)
(* came in meanwhile, and that a cycle drops the caches after it took its  *)
(* triggers is what makes a later cache hit as good as a read.  The        *)
(* watcher adds one thing to it, a trigger whose caller has dropped the    *)
(* caches in the same step (SchedulePreserves allows for it).              *)
(***************************************************************************)
EXTENDS PlanningWatch, FiniteSetTheorems, TLAPS

\* The running cycle is the one in flight, and it runs.
OneCycle ==
  /\ \A c \in Cycles : stage[c] # "none" => inFlight = c
  /\ inFlight # None => stage[inFlight] # "none"

\* During a cycle only the rerun is there for what is pending; otherwise only
\* the timer is.
Taken ==
  /\ inFlight # None => timer = "off" /\ (pending # None => rerun)
  /\ inFlight = None => ~rerun /\ (pending # None => timer # "off")

\* Nothing is newer than the disk, and a cycle will show, or shows, nothing
\* older than its triggers or than the sidebar.
Fresh ==
  /\ pending # None => pending <= disk
  /\ cache # None => cache <= disk
  /\ shown <= disk
  /\ \A c \in Cycles :
       /\ stage[c] = "adapter" =>
            /\ trigger[c] # None => trigger[c] <= disk
            /\ cache # None =>
                 shown <= cache /\ (trigger[c] # None => trigger[c] <= cache)
       /\ stage[c] \in {"project", "sidebar", "attention"} =>
            payload[c] <= disk /\ (trigger[c] # None => trigger[c] <= payload[c])
       /\ stage[c] \in {"project", "sidebar"} => shown <= payload[c]

RefreshInv == RefreshTypeOK /\ OneCycle /\ Taken /\ Fresh

USE RefreshConstants, NoneIsNothing DEF Versions, Stages

\* A cycle that starts while no other runs establishes all of it.
LEMMA StartEstablishes ==
  ASSUME RefreshInv, NEW c \in Cycles, NEW took \in Versions \cup {None},
         NEW others \in [Cycles -> {"none"}],
         took # None => took <= disk,
         Start(c, took, others), rerun' = FALSE, payload' \in [Cycles -> Versions],
         UNCHANGED <<disk, shown>>
  PROVE  RefreshInv'
<1>1. RefreshTypeOK'
  BY DEF RefreshInv, RefreshTypeOK, Start
<1>2. OneCycle'
  BY DEF RefreshInv, RefreshTypeOK, Start, OneCycle
<1>3. Taken'
  BY DEF Start, Taken
<1>4. Fresh'
  BY DEF RefreshInv, RefreshTypeOK, Start, Fresh
<1> QED  BY <1>1, <1>2, <1>3, <1>4 DEF RefreshInv

\* The `finally` block of the cycle in flight preserves it.
LEMMA FinallyPreserves ==
  ASSUME RefreshInv, NEW c \in Cycles, stage[c] # "none", Finally(c),
         UNCHANGED <<disk, shown>>
  PROVE  RefreshInv'
<1> DEFINE ended == [stage EXCEPT ![c] = "none"]
<1>1. ended \in [Cycles -> {"none"}]
  BY DEF RefreshInv, RefreshTypeOK, OneCycle
<1>2. payload' = [payload EXCEPT ![c] = 0] /\ payload' \in [Cycles -> Versions]
  BY DEF Finally, RefreshInv, RefreshTypeOK
<1>3. CASE rerun
  <2>1. Start(c, pending, ended) /\ rerun' = FALSE
    BY <1>3 DEF Finally
  <2> QED  BY <1>1, <1>2, <2>1, StartEstablishes DEF RefreshInv, RefreshTypeOK, Fresh
<1>4. CASE ~rerun
  <2>1. inFlight' = None /\ stage' = ended /\ trigger' = [trigger EXCEPT ![c] = None]
        /\ UNCHANGED <<rerun, timer, cache, pending>>
    BY <1>4 DEF Finally
  <2>2. inFlight = c /\ pending = None
    BY <1>4 DEF RefreshInv, OneCycle, Taken
  <2>3. RefreshTypeOK'
    BY <2>1, <1>1, <1>2 DEF RefreshInv, RefreshTypeOK
  <2>4. OneCycle'
    BY <2>1, <1>1 DEF OneCycle
  <2>5. Taken'
    BY <1>4, <2>1, <2>2 DEF Taken
  <2>6. Fresh'
    BY <2>1, <1>1 DEF RefreshInv, Fresh
  <2> QED  BY <2>3, <2>4, <2>5, <2>6 DEF RefreshInv
<1> QED  BY <1>3, <1>4

\* With nothing in flight no cycle runs.
LEMMA IdleStages ==
  ASSUME RefreshInv, inFlight = None
  PROVE  stage \in [Cycles -> {"none"}] /\ rerun = FALSE
BY DEF RefreshInv, RefreshTypeOK, OneCycle, Taken

\* A trigger: merged into a rerun, started at once or left to the timer, by a
\* caller that left the caches as they were or dropped them.
LEMMA SchedulePreserves ==
  ASSUME RefreshInv, NEW immediate \in BOOLEAN, NEW kept \in {cache, None},
         ScheduleWith(immediate, kept)
  PROVE  RefreshInv'
<1>1. CASE inFlight # None
  <2>1. /\ pending' = disk /\ rerun' = TRUE /\ cache' = kept
        /\ UNCHANGED <<timer, inFlight, stage, trigger, disk, payload, shown>>
    BY <1>1 DEF ScheduleWith
  <2>2. RefreshTypeOK'
    BY <2>1 DEF RefreshInv, RefreshTypeOK
  <2>3. OneCycle' /\ Taken'
    BY <2>1, <1>1 DEF RefreshInv, OneCycle, Taken
  <2>4. Fresh'
    BY <2>1 DEF RefreshInv, RefreshTypeOK, Fresh
  <2> QED  BY <2>2, <2>3, <2>4 DEF RefreshInv
<1>2. CASE inFlight = None /\ immediate
  <2>1. PICK c \in Cycles : Start(c, disk, stage)
    BY <1>2 DEF ScheduleWith, StartsNow
  <2>2. rerun' = FALSE /\ UNCHANGED <<disk, payload, shown>>
    BY <1>2, IdleStages DEF ScheduleWith
  <2>3. disk \in Versions /\ disk <= disk /\ payload' \in [Cycles -> Versions]
    BY <2>2 DEF RefreshInv, RefreshTypeOK
  <2> QED  BY <1>2, <2>1, <2>2, <2>3, IdleStages, StartEstablishes
<1>3. CASE inFlight = None /\ ~immediate
  <2>1. /\ pending' = disk /\ timer' = "armed" /\ cache' = kept
        /\ UNCHANGED <<inFlight, stage, trigger, rerun, disk, payload, shown>>
    BY <1>3 DEF ScheduleWith
  <2>2. RefreshTypeOK'
    BY <2>1 DEF RefreshInv, RefreshTypeOK
  <2>3. OneCycle' /\ Taken'
    BY <2>1, <1>3 DEF RefreshInv, OneCycle, Taken
  <2>4. Fresh'
    BY <2>1 DEF RefreshInv, RefreshTypeOK, Fresh
  <2> QED  BY <2>2, <2>3, <2>4 DEF RefreshInv
<1> QED  BY <1>1, <1>2, <1>3

\* The timer: it starts the cycle that was put off.
LEMMA FirePreserves ==
  ASSUME RefreshInv, Fire
  PROVE  RefreshInv'
<1>1. inFlight = None
  BY DEF Fire, RefreshInv, Taken
<1>2. PICK c \in Cycles : Start(c, pending, stage)
  BY <1>1 DEF Fire, StartsNow
<1>3. rerun' = FALSE /\ payload' \in [Cycles -> Versions] /\ UNCHANGED <<disk, shown>>
  BY <1>1, IdleStages DEF Fire, RefreshInv, RefreshTypeOK
<1>4. pending \in Versions \cup {None} /\ (pending # None => pending <= disk)
  BY DEF RefreshInv, RefreshTypeOK, Fresh
<1> QED  BY <1>1, <1>2, <1>3, <1>4, IdleStages, StartEstablishes

\* The steps of a cycle between its awaits.
LEMMA CyclePreserves ==
  ASSUME RefreshInv, NEW c \in Cycles, CycleStep(c) \/ EndEarly(c)
  PROVE  RefreshInv'
<1>1. CASE ReadProject(c)
  <2>1. RefreshTypeOK'
    BY <1>1 DEF RefreshInv, RefreshTypeOK, ReadProject
  <2>2. OneCycle' /\ Taken'
    BY <1>1 DEF RefreshInv, RefreshTypeOK, OneCycle, Taken, ReadProject
  <2>3. Fresh'
    <3>1. inFlight = c /\ \A d \in Cycles \ {c} : stage[d] = "none"
      BY <1>1 DEF RefreshInv, OneCycle, ReadProject
    <3> QED  BY <1>1, <3>1 DEF RefreshInv, RefreshTypeOK, Fresh, ReadProject
  <2> QED  BY <2>1, <2>2, <2>3 DEF RefreshInv
<1>2. CASE StartSidebar(c)
  <2>1. RefreshTypeOK' /\ OneCycle' /\ Taken'
    BY <1>2 DEF RefreshInv, RefreshTypeOK, OneCycle, Taken, StartSidebar
  <2>2. Fresh'
    BY <1>2 DEF RefreshInv, RefreshTypeOK, Fresh, StartSidebar
  <2> QED  BY <2>1, <2>2 DEF RefreshInv
<1>3. CASE ShowSidebar(c)
  <2>1. RefreshTypeOK' /\ OneCycle' /\ Taken'
    BY <1>3 DEF RefreshInv, RefreshTypeOK, OneCycle, Taken, ShowSidebar
  <2>2. Fresh'
    <3>1. \A d \in Cycles \ {c} : stage[d] = "none"
      BY <1>3 DEF RefreshInv, OneCycle, ShowSidebar
    <3> QED  BY <1>3, <3>1 DEF RefreshInv, RefreshTypeOK, Fresh, ShowSidebar
  <2> QED  BY <2>1, <2>2 DEF RefreshInv
<1>4. CASE EndCycle(c)
  BY <1>4, FinallyPreserves DEF EndCycle
<1>5. CASE EndEarly(c)
  BY <1>5, FinallyPreserves DEF EndEarly
<1> QED  BY <1>1, <1>2, <1>3, <1>4, <1>5 DEF CycleStep

\* What happens outside the coordinator, and dispose.
LEMMA OutsidePreserves ==
  ASSUME RefreshInv,
         Change \/ Elapse \/ ReadElsewhere \/ DropElsewhere \/ Dispose
           \/ UNCHANGED refreshVars
  PROVE  RefreshInv'
<1>1. CASE Change
  BY <1>1 DEF RefreshInv, RefreshTypeOK, OneCycle, Taken, Fresh, Change
<1>2. CASE Elapse
  BY <1>2 DEF RefreshInv, RefreshTypeOK, OneCycle, Taken, Fresh, Elapse
<1>3. CASE ReadElsewhere
  BY <1>3 DEF RefreshInv, RefreshTypeOK, OneCycle, Taken, Fresh, ReadElsewhere
<1>4. CASE DropElsewhere
  BY <1>4 DEF RefreshInv, RefreshTypeOK, OneCycle, Taken, Fresh, DropElsewhere
<1>5. CASE Dispose
  BY <1>5 DEF RefreshInv, RefreshTypeOK, OneCycle, Taken, Fresh, Dispose
<1>6. CASE UNCHANGED refreshVars
  BY <1>6 DEF RefreshInv, RefreshTypeOK, OneCycle, Taken, Fresh, refreshVars
<1> QED  BY <1>1, <1>2, <1>3, <1>4, <1>5, <1>6

LEMMA RefreshInvStep == RefreshInv /\ [RefreshNext]_refreshVars => RefreshInv'
BY SchedulePreserves, FirePreserves, CyclePreserves, OutsidePreserves
   DEF RefreshNext, Schedule

LEMMA RefreshInitially == RefreshInit => RefreshInv
<1> SUFFICES ASSUME RefreshInit PROVE RefreshInv  OBVIOUS
<1>1. RefreshTypeOK
  <2>1. 0 \in Versions /\ "none" \in Stages
    BY RefreshConstants DEF RefreshConstants, Versions, Stages
  <2> QED  BY <2>1, Zenon DEF RefreshInit, RefreshTypeOK
<1>2. OneCycle /\ Taken
  BY NoneIsNothing DEF NoneIsNothing, RefreshInit, OneCycle, Taken
<1>3. Fresh
  BY NoneIsNothing, RefreshConstants
     DEF RefreshConstants, NoneIsNothing, RefreshInit, Fresh, Versions
<1> QED  BY <1>1, <1>2, <1>3 DEF RefreshInv

LEMMA RefreshInvariance == RefreshSpec => []RefreshInv
BY RefreshInitially, RefreshInvStep, PTL DEF RefreshSpec

\* What the invariant says of the properties.
LEMMA InvSingleFlight == RefreshInv => SingleFlight
<1> SUFFICES ASSUME RefreshInv PROVE Cardinality(Running) <= 1
  BY DEF SingleFlight
<1>1. CASE Running = {}
  BY <1>1, FS_EmptySet
<1>2. CASE Running # {}
  <2>1. PICK c \in Running : TRUE
    BY <1>2
  <2>2. Running = {c}
    BY <2>1 DEF RefreshInv, OneCycle, Running
  <2> QED  BY <2>2, FS_Singleton
<1> QED  BY <1>1, <1>2

LEMMA InvFreshSnapshot == RefreshInv => FreshSnapshot
BY DEF RefreshInv, RefreshTypeOK, Fresh, FreshSnapshot, Running

LEMMA InvPendingHasTaker == RefreshInv => PendingHasTaker
BY DEF RefreshInv, RefreshTypeOK, OneCycle, Taken, PendingHasTaker, Running

\* Every reachable state of the coordinator is well typed.
THEOREM RefreshTyping == RefreshSpec => []RefreshTypeOK
BY RefreshInvariance, PTL DEF RefreshInv

\* Refresh cycles never overlap: schedule joins the cycle in flight, and runCycle
\* is only reached with none.
THEOREM RefreshSingleFlight == RefreshSpec => []SingleFlight
BY InvSingleFlight, RefreshInvariance, PTL

\* Whatever other hooks put into the parser caches, a cycle's snapshot is at
\* least as new as every trigger the cycle took up.
THEOREM RefreshReadsFresh == RefreshSpec => []FreshSnapshot
BY InvFreshSnapshot, RefreshInvariance, PTL

\* No trigger is left behind: the timer or a rerun will take it up.
THEOREM RefreshForgetsNothing == RefreshSpec => []PendingHasTaker
BY InvPendingHasTaker, RefreshInvariance, PTL

\* The sidebar never shows an older project than before.
THEOREM RefreshMovesForward == RefreshSpec => SidebarMovesForward
<1>1. RefreshInv /\ [RefreshNext]_refreshVars => [shown' >= shown]_refreshVars
  <2> SUFFICES ASSUME RefreshInv, RefreshNext PROVE shown' >= shown
    BY DEF refreshVars
  <2>1. ASSUME NEW c \in Cycles, ShowSidebar(c) PROVE shown' >= shown
    BY <2>1 DEF RefreshInv, RefreshTypeOK, Fresh, ShowSidebar
  <2>2. CASE shown' = shown
    BY <2>2 DEF RefreshInv, RefreshTypeOK
  <2> QED  BY <2>1, <2>2 DEF RefreshNext, CycleStep, Change, Elapse, Fire, ReadElsewhere,
              DropElsewhere, Dispose, Schedule, ScheduleWith, ReadProject, StartSidebar, EndCycle, EndEarly
<1> QED  BY <1>1, RefreshInvariance, PTL DEF RefreshSpec, SidebarMovesForward
-----------------------------------------------------------------------------
\* A write by the plugin itself drops the caches and makes the project newer.
LEMMA SelfWritePreserves ==
  ASSUME RefreshInv, SelfWrite
  PROVE  RefreshInv'
<1>1. RefreshTypeOK'
  BY DEF RefreshInv, RefreshTypeOK, SelfWrite
<1>2. OneCycle' /\ Taken'
  BY DEF RefreshInv, OneCycle, Taken, SelfWrite
<1>3. Fresh'
  BY DEF RefreshInv, RefreshTypeOK, Fresh, SelfWrite
<1> QED  BY <1>1, <1>2, <1>3 DEF RefreshInv

\* Whoever asks for a refresh, the coordinator's invariant survives.
LEMMA AskingPreserves ==
  ASSUME RefreshInv, Startup \/ HookEnds \/ OtherHook \/ Process
  PROVE  RefreshInv'
<1>1. CASE Startup
  BY <1>1, SchedulePreserves DEF Startup, Schedule
<1>2. CASE HookEnds
  BY <1>2, SchedulePreserves DEF HookEnds, Asks, Schedule
<1>3. CASE OtherHook
  BY <1>3, SchedulePreserves DEF OtherHook, Asks, Schedule
<1>4. CASE Process
  <2>1. CASE ~masked
    BY <1>4, <2>1, SchedulePreserves DEF Process
  <2>2. CASE masked
    BY <1>4, <2>2, OutsidePreserves DEF Process
  <2> QED  BY <2>1, <2>2
<1> QED  BY <1>1, <1>2, <1>3, <1>4

LEMMA WatchInvStep == RefreshInv /\ [WatchNext]_watchVars => RefreshInv'
<1> SUFFICES ASSUME RefreshInv, [WatchNext]_watchVars PROVE RefreshInv'  OBVIOUS
<1>1. CASE SelfWrite
  BY <1>1, SelfWritePreserves
<1>2. CASE Startup \/ HookEnds \/ OtherHook \/ Process
  BY <1>2, AskingPreserves
<1>3. CASE OutsideChange \/ RefreshDue \/ Elsewhere \/ DisposeAll
  BY <1>3, OutsidePreserves DEF OutsideChange, RefreshDue, Elsewhere, DisposeAll
<1>4. CASE RefreshFires
  BY <1>4, FirePreserves DEF RefreshFires
<1>5. ASSUME NEW c \in Cycles, Cycle(c) \/ CycleFails(c) PROVE RefreshInv'
  BY <1>5, CyclePreserves DEF Cycle, CycleFails
<1>6. CASE Unmask \/ Settle
  BY <1>6, OutsidePreserves DEF Unmask, Settle
<1>7. ASSUME NEW e \in {"own", "outside"}, Deliver(e) PROVE RefreshInv'
  BY <1>7, OutsidePreserves DEF Deliver
<1>8. CASE UNCHANGED watchVars
  BY <1>8, OutsidePreserves DEF watchVars
<1> QED  BY <1>1, <1>2, <1>3, <1>4, <1>5, <1>6, <1>7, <1>8 DEF WatchNext

LEMMA WatchInvariance == WatchSpec => []RefreshInv
BY RefreshInitially, WatchInvStep, PTL DEF WatchSpec, WatchInit

\* Every reachable state of coordinator and watcher is well typed.
THEOREM WatchTyping == WatchSpec => []WatchTypeOK
<1>1. WatchInit => WatchTypeOK
  BY RefreshInitially DEF WatchInit, WatchTypeOK, RefreshInv
<1>2. RefreshInv' /\ WatchTypeOK /\ [WatchNext]_watchVars => WatchTypeOK'
  <2> SUFFICES ASSUME RefreshInv', WatchTypeOK, [WatchNext]_watchVars PROVE WatchTypeOK'
    OBVIOUS
  <2>1. RefreshTypeOK'
    BY DEF RefreshInv
  <2> USE DEF WatchTypeOK
  <2>2. CASE Startup \/ OutsideChange \/ SelfWrite \/ Unmask \/ HookEnds \/ OtherHook
    BY <2>1, <2>2, Zenon DEF Startup, OutsideChange, SelfWrite, Unmask, HookEnds, OtherHook, Asks
  <2>3. ASSUME NEW e \in {"own", "outside"}, Deliver(e) PROVE WatchTypeOK'
    BY <2>1, <2>3, Zenon DEF Deliver
  <2>4. CASE Settle \/ Process
    BY <2>1, <2>4, Zenon DEF Settle, Process
  <2>5. CASE RefreshDue \/ RefreshFires \/ Elsewhere \/ DisposeAll \/ UNCHANGED watchVars
    BY <2>1, <2>5, Zenon DEF RefreshDue, RefreshFires, Elsewhere, DisposeAll, watcherVars, watchVars
  <2>6. ASSUME NEW c \in Cycles, Cycle(c) \/ CycleFails(c) PROVE WatchTypeOK'
    BY <2>1, <2>6, Zenon DEF Cycle, CycleFails, watcherVars
  <2> QED  BY <2>2, <2>3, <2>4, <2>5, <2>6 DEF WatchNext
<1> QED  BY <1>1, <1>2, WatchInvariance, PTL DEF WatchSpec

\* Cycles never overlap, snapshots hold what was reported and no trigger is left
\* behind, whatever order watcher, hooks and timers run in.
THEOREM WatchKeepsRefresh ==
  WatchSpec => [](SingleFlight /\ FreshSnapshot /\ PendingHasTaker)
<1>1. RefreshInv => SingleFlight /\ FreshSnapshot /\ PendingHasTaker
  BY InvSingleFlight, InvFreshSnapshot, InvPendingHasTaker
<1> QED  BY <1>1, WatchInvariance, PTL

\* With the watcher too, the sidebar never shows an older project than before.
THEOREM WatchMovesForward == WatchSpec => SidebarMovesForward
<1>1. RefreshInv /\ [WatchNext]_watchVars => [shown' >= shown]_refreshVars
  <2> SUFFICES ASSUME RefreshInv, WatchNext PROVE shown' >= shown \/ UNCHANGED refreshVars
    BY DEF watchVars
  <2>1. ASSUME NEW c \in Cycles, ShowSidebar(c) PROVE shown' >= shown
    BY <2>1 DEF RefreshInv, RefreshTypeOK, Fresh, ShowSidebar
  <2>2. CASE shown' = shown
    BY <2>2 DEF RefreshInv, RefreshTypeOK
  <2>3. (\E c \in Cycles : ShowSidebar(c)) \/ shown' = shown \/ UNCHANGED refreshVars
    BY DEF WatchNext, Startup, OutsideChange, SelfWrite, Unmask, HookEnds, OtherHook, Asks,
           Deliver, Settle, Process, RefreshDue, RefreshFires, Elsewhere, DisposeAll, Cycle,
           CycleFails, CycleStep, Change, Elapse, Fire, ReadElsewhere, DropElsewhere, Dispose,
           Schedule, ScheduleWith, ReadProject, StartSidebar, EndCycle, EndEarly
  <2> QED  BY <2>1, <2>2, <2>3
<1> QED  BY <1>1, WatchInvariance, PTL DEF WatchSpec, SidebarMovesForward
=============================================================================
