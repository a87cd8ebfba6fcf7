# bgsd-oc in TLA+

bgsd-oc keeps the plans of a coding project in a directory `.planning/`: markdown
documents, JSON stores, and a SQLite cache beside them. Two programs work on them. The
**CLI** (`src/commands`, `src/lib`, bundled as `bin/bgsd-tools.cjs`) is started once per
command, by agents that run side by side; each command is an operating system process that
reads, writes and exits. The **editor plugin** (`src/plugin`) is one long-lived JavaScript
process inside OpenCode; hooks, timers and file events enter it, and everything it does is
cut at the `await`s. Nothing but files, SQLite and one lock directory connects them.

So two kinds of interleaving make the system hard, and the modules are cut along them:

* between processes, every file system call and every SQL statement is a step (project
  lock, JSON stores, lessons, session state, phase handoffs, MEMORY.md, phase directories,
  file cache, codebase intelligence);
* inside the plugin, what runs from one `await` to the next is a step (file watcher, refresh
  coordinator, cmux adapter and attention, hook boundary, idle validator, notifier).

Paths below are relative to the repository; a line number names the commit the models were
written from.

## 1. The system

| Component | State | Operations | What makes it correct |
|---|---|---|---|
| Project lock, `src/lib/project-lock.js` | directory `.planning/.lock` and its mtime | mkdir, stat, break if older than `staleMs`, poll until the deadline, remove | one process inside; a dead holder blocks nobody for good; a caller gets an answer |
| JSON store mutator, `src/lib/json-store-mutator.js` | a JSON file, its rows in SQLite | under the lock: read, transform, publish by rename, mirror; roll back if the mirror throws | nothing acknowledged is lost, a failure leaves no trace |
| Lessons, `src/commands/lessons.js` | `lessons.json`, `memory_lessons` | capture, deviation capture with a cap, compaction | root causes survive compaction, the cap holds |
| Session state, `src/lib/state-session-mutator.js`, `src/commands/state.js`, `src/lib/planning-cache.js` | `STATE.md`; `session_*` tables; the recorded mtime in `file_cache` | import, locked mutations, unlocked commands, plugin invalidation, edits by hand | both copies agree, no decision is lost, a hand edit wins |
| File cache, `src/lib/cache.js`, `helpers.js` | table `file_cache` of a database shared by all processes of a user | get, set with eviction, warm, invalidate, clear | a hit is what the file holds, the table keeps its size |
| Refresh coordinator, `src/plugin/cmux-refresh-backbone.js` | timer, promise in flight, rerun flag, merged trigger | enqueue, refreshNow, runCycle, dispose | one cycle at a time, no trigger forgotten, snapshots fresh |
| Hook boundary, `src/plugin/safe-hook.js` | failure count, breaker | two attempts with a time limit each | every call ends, never rejects, the breaker trips on failures in a row |
| Idle validator, `src/plugin/idle-validator.js` | re-entry guard, two times, files it repairs | onIdle | one validation at a time, no edit lost, active plans left alone |
| Notifier, `src/plugin/notification.js` | queue, history of keys, rate and do-not-disturb counters | notify, drain | critical notifications arrive, duplicates do not, order kept |
| File watcher, `src/plugin/file-watcher.js` | debounce timer, paths the plugin wrote itself | event, self-write, dispatch | external changes are seen, own ones are not |
| cmux adapter cache, attention sync, `src/plugin/index.js`, `cmux-attention-sync.js` | resolved adapter, cool-down, attention memory | resolve, send on the edge of a condition | one event per condition, recovery after a failure |
| Stuck detector, guardrails, `src/plugin/stuck-detector.js`, `advisory-guardrails.js` | counters per tool and error | count, warn, reset | warn once per episode |
| Phase handoffs, `src/lib/phase-handoff.js` | one artifact per workflow step with a run id and a time | build a payload, write and purge, select, clear | who resumes sees one run, and there is always one |
| Memory stores, `src/commands/memory.js`, `trajectory.js`; the plugin's snapshot, `src/plugin/index.js` | JSON stores; `MEMORY.md`; the text in the session's prompt | write, compact; add, remove, prune by id; snapshot, stale notice | ids unique, nothing lost, an outdated session knows |
| jj workspaces, `src/lib/jj-workspace.js` | workspaces known to jj | add, forget, reconcile | limit on concurrent workspaces |
| Plans and phases, `src/commands/roadmap.js`, `phase.js` | ROADMAP.md, REQUIREMENTS.md, phase directories | add, insert, remove, complete | no work is lost, numbering and documents stay consistent |
| Codebase intelligence, `src/lib/codebase-intel.js`, `src/commands/codebase.js` | `codebase-intel.json`, the marker `.analyzing` | staleness check, analysis in the foreground, in a child process or inside init | fresh intel shows the commit, a dead analysis does not end all others |
| Release, review, security, `src/commands/release.js`, ... | git tags, report files | sequences of git commands | a failed release is rolled back |
| Database layer, `src/lib/db.js` | schema version | open, migrate, rebuild | a corrupt cache is rebuilt, never trusted |
| Agents and routing, installer, workflow texts | prompt texts | scoring, scanning, copying | mostly pure |

How they interact:

* Commands that mutate call `withProjectLock`. Not all do: `state:advance-plan`,
  `state:update-progress`, `state:record-metric`, the batch part of `state:complete-plan`,
  `lessons:compact`, `handoff clear`, the phase commands, structured memory and the codebase
  intelligence write without it.
* The CLI believes SQLite as long as the recorded mtime of `STATE.md` is the file's, and
  imports the file otherwise. The plugin believes the files and, when it wants to be sure,
  deletes rows and recorded mtimes.
* Plugin hooks are wrapped by the boundary, whose time limit starts a second attempt beside
  the first. The file watcher and the hooks report to the refresh coordinator, whose
  cycles ask for the cmux adapter and send attention events; the idle validator writes files,
  and tells the watcher which ones and the notifier what it did. A change of `MEMORY.md`
  reaches the session through the watcher as well.

## 2. Modules

| Module | Models | Builds on |
|---|---|---|
| `ProjectMutex` | what the lock promises: at most one inside | |
| `ProjectLock` | the directory protocol of `project-lock.js` | refines `ProjectMutex` |
| `AppendStore` | what a locked append promises: a growing set, one entry at a time | |
| `JsonStore` | `mutateJsonStore` with a transform that appends | extends `ProjectLock`, refines `AppendStore` |
| `LessonsStore` | captures through `JsonStore`, the cap, the unlocked compaction | extends `JsonStore` |
| `StateSession` | both copies of the session state, every command that writes them, the plugin | extends `ProjectLock` |
| `RunChain` | what the workflows of a phase rely on: one run that grows or is replaced as a whole | |
| `PhaseHandoff` | the artifacts of one phase: payload, locked write and purge, unlocked clear | extends `ProjectLock`, refines `RunChain` |
| `StructuredMemory` | `MEMORY.md`, its commands, and the session that holds a snapshot of it | |
| `PhaseLifecycle` | `plan:phase add`, `insert` and `remove` on directories and headings | |
| `FileCache` | `cachedReadFile` over the SQLite backend | |
| `CodebaseIntel` | `codebase-intel.json`, its analyses, the marker of a background analysis, git | |
| `RefreshBackbone` | the refresh coordinator and the parser caches it drops | |
| `PlanningWatch` | the file watcher and the hooks that drive the coordinator | extends `RefreshBackbone` |
| `CmuxAttention` | the cached cmux adapter and the attention events of a refresh | |
| `SafeHook` | the error boundary with overlapping calls | |
| `Notifier` | `notify` around its wait, the rate limit, the queue and its drain | |
| `IdleValidator` | `onIdle` around its two waits, through the notifier | extends `Notifier` |

Eight modules hold the theorems: `ProjectLockProofs`, `JsonStoreProofs` (`JsonStore` and
`LessonsStore`), `StateSessionProofs`, `PhaseHandoffProofs`, `SharedFilesProofs` (`FileCache`,
`PhaseLifecycle`, `CodebaseIntel`, `StructuredMemory`), `PlanningWatchProofs`
(`RefreshBackbone` and `PlanningWatch`), `SafeHookProofs` (`SafeHook` and `CmuxAttention`) and
`IdleValidatorProofs`.

`MC*.tla` hold symmetry sets, the values of constants TLC cannot read from a configuration, and
compositions; `MC*.cfg` are the runs. `MCLocks`, `MCPlanningStores`, `MCSharedFiles` and
`MCHooks` put models side by side that share no variable but, in places, those of the project
lock. Their variable `subject` says which of the parts a behaviour is about; the others do not
move, so the state space is the sum of the parts and not their product. An operator whose
comment begins with `Mutant:` is a plausible bug in the definition that follows it. No
specification uses it: it is there to show that the property it is paired with notices.

### ProjectLock

`pc[p]` is where a process stands in `acquireProjectLock`: before `mkdirSync` (`mkdir`),
before `statSync` (`stat`), before the `rmSync` of a stale lock (`remove`), at the deadline
(`poll`), in the task (`held`). `lockDir` is the set of directories at the path, none or one.
A directory is a record of who made it and whether it is older than `staleMs`; the code has
no owner, and no guard reads it. `Date.now()` against the deadline is a number of polls
left, chosen when the call begins. `Crash` is a kill, or a `process.exit` in the task
(`output.js:187`): both leave the directory. `Ageing` says which directories may pass
`staleMs`: those of the dead, those of the living (a task that takes longer), both or none.
A task that runs while another process has broken its lock goes on, and its release removes
whatever is there: `robbed` remembers that it happened. The refinement maps the mutex's
`inside` to the processes inside until then and to nobody from then on, so what it claims ends
with the first robbery.

### JsonStore and LessonsStore

`file` is absent, blank, an array with a set of entries, or text that does not parse;
`rows` counts the mirrored rows of each entry (2 stands for "several"). A mutation is
`Mutate` (call), the lock's steps, `ReadStore`, `WriteStore`, `MirrorStore`, `Rollback`,
`Finish`. Temp file and rename are one step: no reader sees the temp file, and a failed
write leaves the old file. The mirror commits, or swallows its error
(`writeMemoryEntry` catches), or throws; then `Rollback` puts the old text back or fails too,
which leaves the new text and a command that reports failure. `acked` are the entries whose
command reported success. A process forgets what it read when its mutation is over (`Over`).

`LessonsStore` adds the count of `cmdDeviationCapture`, taken outside the lock, and
`cmdLessonsCompact`: it reads, merges groups of a root cause, truncates `lessons.json`, fills
it, and inserts the merged entries into SQLite, all without the lock. `detached` remembers
that a locked append renamed a new file over the one a compactor has open. A process compacts
once (`snap[p]` is what it merged, bound).

### StateSession

One field stands for the position (plan, status, progress) and one list for the decisions.
Blockers and continuity are stored and rendered as decisions and position are. `mtime` is
the recorded mtime against the file's: `missing`, `fresh` or `stale`; writing `STATE.md`
makes it stale, `updateMtime` fresh whoever wrote last. `step[p]` is the program counter of a
command:

* locked (`state:patch`, `state:add-decision`): the import, `LoadState` (canonical model:
  SQLite wins where it has a value), `WriteState`, `PersistState` (one transaction),
  `StampState`, or on an error `RestoreState`, `RestampState`; then `FinishState`;
* `state:advance-plan`: `AdvanceWrite`, the import, `StoreRow`, `StampAdvance`;
* `state:update-progress`: the import, `StoreRow`, then the tail;
* `state:record-metric` and the tails: `TailRead`, `TailWrite`, `StampTail`;
* `state:complete-plan` (batch path): `CompleteBatch`, `CompleteWrite`, `StampComplete`, a
  locked decision if there is a summary, `RepairRead`, tails.

Every write of a file and every writing SQL statement may fail. `Fault` is a write that
throws before it has touched the file (`WriteThrows`; an unlocked `writeFileSync` that throws ends its
command, whatever SQLite has by then) or a transaction that is rolled back, that of an import among
them, which is recorded as done all the same. `Lapse` is a failure that leaves a wrong mtime or an
outdated row which nobody notices: an `updateMtime` whose statement fails
(`planning-cache.js:232`, "Non-critical"), the deletion before an import, `storeSessionState`, the
plugin's deletions, each of which swallows its error, and a `writeFileSync` that throws after it has
touched the file. `faults` counts both, `lapses` the second. What a file cut short says, and SQL
reads that fail, are left out.

The plugin's `InvalidateState`, `InvalidateDecisions`, `ClearForCwd` are three statements of
another process, `wipes` counts how often they were begun. `troubles` are the edits, failed
writes, invalidations and deaths so far; `MaxTroubles` bounds them together, so that the runs
meet every combination of few instead of a few combinations of many. `cachedReadFile` is taken
to return the file; FileCache says when it does.

### PhaseHandoff

One phase; its steps are ranked, discuss first. `art[s]` is the file of a step: absent, garbled,
or valid with a run and a time. A run is named by the time of the payload that began it, as
`buildPhaseHandoffRunId` does. `Build` fixes the time and lists the directory, `Load` reads what
was listed and chooses the run: both happen before the lock is asked for. Inside, `Publish`
(a rename), `List`, one `Purge` per file of another run, `Validate`; any of them may throw, after
which the files stay as they are. `Clear` and `ClearFile` take no lock. `Garble` is damage by hand
or by a merge. An explicit `--run-id` is left out.

`RunChain` has two variables, the run and its steps; `PhaseHandoff` maps them to the selected run
(that of the newest valid file) and the valid files of that run. `ImplementsChain` names the
steps at which the chain is not kept: `Disturbed` (a clear, damage), `Outdated` (a payload
computed before a later run or a newer file), `Undercut` (a purge by a writer whose own file was
not the newest any more), `Revived` (an outdated file had covered a later run, and a writer goes
on with that one), and everything after the lock was robbed.

### StructuredMemory

An entry is an id and a token for its text. `MemoryCall`, `Ensure`, `CreateMemory`, `LoadMemory`,
`WriteMemory` are the touches of the file; which entries a prune picks depends on dates and is
left open. Nothing locks, so a command may stop or be overtaken anywhere; `crossed` remembers
that one published a copy (or the empty file) while another had one. The session builds its
snapshot once, hears of changes by events and is told once that its snapshot is stale.

### PhaseLifecycle

`dirs` are the directories, a number `int.dec` and a slug each, with what is in them: nothing, or
the work of a phase, known by its first number; `headings` are the headings of ROADMAP.md in order.
A command is a sequence of touches: `MakeDir`, `Keep` (`.gitkeep`), `ListPhase` for add and insert;
`Delete`, `Gather`, `Rename` for each later directory, `Reread`, `Rewrite` for remove. `Rename` is
rename(2): it throws on a missing source and on a target that is not empty, and the `catch` around
the loop gives up the rest. A removal looks its directory up, and later deletes whatever has that
name: `asked[p]` is the work it was asked for, `usurped` the removals whose directory another
planner has filled in between (`Fills`). `spelling` is how the removed phase was named on the
command line: the directory is found under either spelling, the section only under the one its
heading has. Planners die anywhere. File names inside a directory, the checklist, the progress
table and the count in STATE.md are left out.

### FileCache

`disk[f]` is a version and an mtime, `table[f]` a row. A read is `Get`, `Stat`, perhaps
`DropStale`, `ReadFile`, `DateRow` (the stat in `set`, after the content was read), `Count`,
`Evict`, `Insert`. A write through the tool is `WriteFile` followed by `Invalidate`; `Edit` is
anybody else's write. A tool's write may fall into the same tick of the file system's clock as the
one before it, and then has the same mtime; an edit by hand is taken to be later than the row it
makes stale (a file restored with its old mtime is outside the model). Any statement may throw, and
every method of the cache swallows that: a lookup becomes a `Miss`, a stale row stays, and `set`
and `invalidate` do no more (`BreakOff`, which is a death of the process as well). A row that is
there when a write of its file breaks off before its deletion is marked `left`, a history field.
`TagStores` are the processes whose `node:sqlite` has `createTagStore`. Which row is the oldest is
left open: access times may tie. Two history variables mark the races the code does not guard
against: `overtaken` holds the files of which a write and a lookup overlapped, `crowded` says that
two processes stood between count and insert at once. The properties speak of the executions
without them; section 4 says what happens with them.

### CodebaseIntel

`commits` is the history, `head` the commit checked out, `tree` the files on disk. `intel` is
blank, garbled, or a record: the commit it is labelled with, an entry per file, whether an hour
has passed, and the set of entries *in doubt*: those of files that were not as committed when
they were analysed, and those an analysis took over although what it read did not hold still.
That set is a history variable; the code keeps nothing of the kind. An analysis reads the file
(`ReadPrevious`), reads it again in `checkStaleness` (`ReadAgain`), asks git for HEAD, which it
remembers, and later for the difference to what HEAD is by then (`AskDiff`), analyses, and
writes in place (`EmptyIntel`, `FillIntel`). An init command looks for the marker, unlinks an old
one, writes its own and starts a child; a failed spawn or the end of an analysis removes whatever
marker is there. Commands that add conventions, dependencies or rules write back the whole file
they read. Edits, commits and checkouts happen at any step. What an analysis finds in a file, and
projects without git, are left out.

### RefreshBackbone

`stage[c]` is the `await` a cycle stands at. The project is a version number; `cache` is what
the parser caches hold, and any other hook may fill or drop them at any moment. A cycle
drops them (`Start`), waits for the adapter, reads (`ReadProject`), then waits twice more.
Of a merged trigger the newest version reported is kept: `pending` is it for the triggers
that wait, `trigger[c]` for those a cycle took up. Identifiers and payload fields are left out: the
merge keeps all that the cycle needs, which is that there is one.

### PlanningWatch

One watched file stands for STATE.md. Others change it (`OutsideChange`), and so does the idle
validator, which marks its own write for 200 ms (`SelfWrite`, `Unmask`) and whose hook asks for a
refresh when it ends (`HookEnds`). An event of the operating system is delivered some time later,
events of one kind coalesced; under the mark it is dropped, whoever caused it. The watcher's
debounce ends in `Process`, which asks for a refresh if the mark is gone. The mark and the
debounce of the refresh last 200 ms both; so a refresh armed under a mark fires after it was
cleared (`putOff`), and that alone saves the outside changes which fell under the mark. The
refresh that does not wait is the rerun of a cycle in flight, and `missed` remembers an event
that fell under a mark with no later refresh to come. `gaveUp` remembers a `dispose()` or a
cycle that ended before it showed anything.

### CmuxAttention

`cached` is `cmuxAdapterCache`: a verdict, a resolution in flight, or nothing; `backoff` the three
seconds after a retry. A cycle begins (`Begin`), resolves or takes what is cached, reads the
project, updates the sidebar, and `Attend` decides whether there is an event; `Logged` and
`Notified` are the two awaited calls after which the event is remembered as sent, whatever they
answered. The project's state is one of `Needs` (it waits for its user; by identity),
`Calm` or blocked. A verdict names the workspace or not, and is asked for again or not: attached,
failing (write probe), missing, refused. One cycle runs at a time, which `SingleFlight` of
`RefreshBackbone` shows. Start and task-completion events and a workspace without a name are
left out.

### SafeHook

`call[c]` is where `wrappedHook` stands, `attempt[c][i]` whether its attempt still runs; a
timed-out attempt runs on, and its late outcome changes nothing. All calls share `failures` and
`disabled`. A rejection with `null` or `undefined` is an outcome of its own because the failure
handler reads `lastError.message`: such a call rejects after it was counted, and does not look at
the breaker, so only a call that ends `failed` trips it. `BGSD_DEBUG`, which bypasses the boundary,
is left out.

### Notifier and IdleValidator

A notification is a key (type and message). `Notify` is `notify` up to its wait for the operating
system, which only a warning or worse has; `Deliver` puts it into the queue, `Drain` is the next
system prompt. `window[k]` is what is left of a key's time in `recentKeys`, in parts; `passed`
counts the time stamps of the last minute. `Tell` is a call by whoever does not wait for an earlier
one, and `NotifierSpec` is the notifier with callers that say anything at any time. Do-not-disturb,
the setters of the limits and the order of the queue are left out.

`onIdle` waits twice, for the notifier: with a "phase complete" before the repairs, and with
"state synced" after them. `OnIdle`, `Told` and `Synced` are the pieces between; `Warn` is another
hook that notifies. STATE.md has a
bar (right or wrong), a status and an edition, counted up by every edit that is not the
validator's. `cooling` is `Date.now() - lastValidation < cooldownMs`, `fixNewer` is
`lastAutoFix > lastValidation`; `quiet` says that the last commit is hours old, `complete` that
ROADMAP.md shows the current phase as complete, and both change at any moment. `repairs` counts
the calls that repaired something since the world or a file changed. `onUserInput`, which nothing
in the plugin calls, is left out.

## 3. Runs

Eight passing runs. Every property has a mutant that breaks it in the same configuration.

| Run | Shows | Bounds, and why they suffice |
|---|---|---|
| `lock` (`MCLocks`) | the lock excludes and refines the mutex until a live holder is overtaken; an orphan is got out of the way; a call returns or throws ELOCKED. The marker: whoever dies, the intel is fresh again in the end | lock: 3 processes (holder, breaker and a third who gets in between), 1 dies, 1 poll, both kinds of ageing. Marker: 2 analyses, 1 file, 1 move, 1 death: one process dies with the marker, the other finds it |
| `stores` (`MCPlanningStores`) | acknowledged entries stay, SQLite shows nothing the file lacks, a failure leaves no trace, refines `AppendStore`; a handoff write leaves one run, never none, refines `RunChain`; ids of MEMORY.md are unique, its entries kept, a stale snapshot known; phase commands lose no work but what they were asked to | 2 processes, 1 crash, slow tasks. 3 entries: one process can append before, during and after the other. 3 steps and 3 payloads: a run, its second step, a restart; `Revived` takes a fourth, which the theorem about `ImplementsChain` has. 2 texts, 3 ids. 2 phases, 2 commands of any kind, both spellings, 2 slugs: adjacent phases may share a slug |
| `shared_files` (`MCSharedFiles`) | SQLite loses no root cause although compaction is unlocked; the cap is overshot by one entry per further process; cache hits are current unless a write overlapped a lookup or its deletion of the row failed, the table keeps its size unless inserts overlapped; fresh intel shows the commit but for entries in doubt | lessons: 2 processes, 4 entries of which 2 share a cause and 3 count against a cap of 1, one death. Cache: 2 processes and an editor, 2 files for 1 row, 2 writes of each, with or without a new mtime; statements that throw and deaths anywhere. Intel: 2 analyses, 2 files, 2 contents, 2 moves (a commit and a return); deaths are in the `lock` run, and the theorem about `FreshIsCurrent` has any number |
| `session` | copies that agree when the mtime says so; no decision doubled but by a swallowed failure, none lost but to the plugin and to failed imports; failure restores; a decision leaves the position alone | 2 processes, 3 locked commands: two that overlap and one that meets what they left; 2 troubles of different kinds anywhere |
| `session_open` | no command leaves its own write as a foreign edit, unless an `updateMtime` fails or a write is cut short | 2 commands of any kind, interleaved; 1 failure or invalidation |
| `refresh` (`MCPlanningWatch`) | single flight, fresh snapshots, no forgotten trigger, a sidebar that does not go back; every change of STATE.md is shown in the end, by the watcher or by the hook that hid it | 2 changes after the first version, by others or by the plugin; 2 names for cycles, so that a second one could run; calls that throw, `dispose()` |
| `hook` (`MCHooks`) | the breaker trips exactly on 3 bad ends in a row, every call ends; a project that waits for its user is told to cmux in the end | 4 overlapping calls: 3 failures and a success or a rejection among them. 1 need, 1 calm state and blocked, cmux in all verdicts at any time |
| `idle` | one validation at a time and a guard that says so and is let go; repairs that end; while there is something to say the notifier is not silent for ever | validator: 2 calls and another hook, a rate limit of 1, failing writes, 1 edit, the world changing without bound. Notifier alone: 3 callers, 3 keys of which some wait and some do not, a rate limit of 1, so that keys compete for each place |

In `stores` and `session` a process never polls (`MaxPolls = 0`): it may stand before its
`mkdirSync` as long as it likes, so a poll adds no order of events; `lock` is about polling.
Four runs TLC must find violated, `lock_race`, `lessons_lost`, `session_plugin` and
`phase_remove`, are in section 4.

What the properties are conditional on is part of the result. `CopiesAgree` and
`DecisionKeepsPosition` hold with any one trouble and fail with some two: an import that fails
is recorded as done and a death before the next write leaves it so; an invalidation that
overtakes an import, and a death between the two copies, leave a row older than STATE.md under
a missing mtime, which the next command believes. `OwnWritesRecorded` and `FailureRestores` are
about at most one failure: a restore that fails too restores nothing. `DecisionsOnce` is about
at most one failure and one invalidation: a second failure may leave the mtime of a failed
restore behind, a second invalidation takes the row that a refresh has left without its mtime, and
either makes an import into rows that are there. Both suppose that no failure was a lapse, since one
is enough to refute them (section 4). `CopiesAgree`, `FailureRestores` and `DecisionKeepsPosition`
allow one like any other trouble, `DecisionsKeptAlone` any number: an mtime that was not recorded
makes an import too many, never one too few. `HitIsCurrent` leaves out a row marked `left`; that
exception too is the code's (section 4). `DeviationOvershoot`
ends with the first compaction, which empties the file for a moment, and with a robbed lock.
`MemoriesKept` is about commands that do not overlap; `FreshIsCurrent` leaves out what was
analysed while the file differed from the commit; `ChangesShown` leaves out an event that fell
under the mark of a self-write when the refresh of that write had begun already. `WorkKept`
leaves out a phase that a second planner puts under the name which a removal has looked up and not
yet deleted: such a phase is lost.

`CHECK_DEADLOCK FALSE` is set where a bounded number of entries, commands or calls is used up
and everything has come to rest.

Fairness. `lock` assumes that processes are scheduled while they acquire, and that tasks end;
for the marker, that commands run to their end, that time passes, and that init commands keep
coming as long as the project is worked on (no other process looks for the marker). `refresh`
assumes that events arrive, timers run, hooks end (their boundary has a time limit) and awaited
calls settle (cmux calls have time limits). It is strong for the watcher's `Process` and for the
refresh timer, because an event or a trigger just before may arm a timer anew. The code bounds
neither: triggers closer together than `debounceMs` postpone the cycle for ever. `hook` assumes
that timers fire, nothing about the hook; for attention, that a cycle is taken up and calls
answer, that a cycle does not fail for ever (strong for reading the project and for attending),
and that time passes. `InterventionTold` itself supposes that hooks go on asking for refreshes.
`idle` assumes that the operating system's notification command ends and that time passes;
`HeardInTheEnd` itself supposes that somebody goes on having something to say, the same or something
else, and promises that something is heard, not what.

## 4. Where code and documents disagree

Four disagreements have a run, and cite the sentence it contradicts (`PROJECT.json`,
"findings"):

* `lock_race`: between `statSync` and `rmSync` of a stale lock another process breaks it and
  makes its own; `rmSync` removes that one, and two are inside.
* `lessons_lost`: compaction overwrites a lesson captured while it ran.
* `session_plugin`: the plugin deletes the decision rows and leaves the recorded mtime; the
  next `add-decision` finds it fresh, loads no decisions and rewrites STATE.md without the old
  ones. No race is needed: the plugin does this whenever the session goes idle and after
  each `bgsd_progress` call, and the mtime goes only with the next refresh.
* `phase_remove`: the passes that renumber ROADMAP.md run from the highest number down, each over
  the text the one before has left (`phase.js:496`), so every phase behind the removed one ends up
  with the removed number, while the directories are renumbered correctly.

Others were met while modelling. The modules contain the behaviour, the properties are stated
around it, and no run is spent on it:

* Lessons: compaction adds its entries to SQLite beside those they replace
  (`lessons.js:694`, "Clear and rewrite", `:690`); two captures at once pass the cap of
  `lessons.js:268`.
* Session state: an import of an edited STATE.md deletes the `session_state` row but adds the
  decisions to those already there (`planning-cache.js:1086`), so a decision struck out comes
  back ("STATE.md wins on conflict", `state.js:49`). An edit between a command's import and its
  `updateMtime` is recorded as imported. A failed import is recorded as done, and the next
  mutation renders an empty decisions section. `advance-plan` writes STATE.md before it looks at
  the recorded mtime, takes its own write for an edit and doubles the decisions; and it writes
  back a STATE.md it read before a locked decision. `complete-plan` gives SQLite a row without an
  import, so that on a project SQLite has not seen its own decision renders the section with
  nothing but itself; and it leaves a position in SQLite that STATE.md does not show.
* Session state, failures: `updateMtime` swallows an SQL error ("Non-critical",
  `planning-cache.js:233`). It is not: one such failure leaves the command's own write as somebody's
  edit, and the next import adds STATE.md's decisions to the rows that are there, so that every
  decision is listed twice. A `writeFileSync` cut short does the same; `advance-plan` then never
  looks at SQLite, `complete-plan` has its batch there and the old plan in STATE.md.
* File cache: `invalidate` swallows a failing DELETE (`cache.js:226-236`), and a process that dies
  between its write and the deletion deletes nothing either; if the write fell into the tick of the
  file system's clock in which the row was dated, the row that stays is believed from then on. A row is
  dated after its content was read (`cache.js:184`), so a write in between leaves a stale row that
  looks current. Two processes count, then both insert. With the statement cache on, `get` calls a
  method an arrow function does not have, and every lookup is a miss.
* Hook boundary: a hook that rejects with nothing twice makes the boundary throw
  (`safe-hook.js:120`).
* Idle validator: the text read before "phase complete" is written after it, over a plan begun
  meanwhile (`idle-validator.js:217`). The repair of the status starts from that text too and
  undoes the repair of the bar. The loop guard compares two times of which the one it needs is
  always overwritten: repairs end for another reason (`RepairsEnd`).
* Phase handoffs: `listPhaseHandoffArtifacts` lists a TDD audit as valid without an artifact, and
  the validation after a write takes the step from it: on a phase with an audit a write throws
  after it has published and purged (`tests/state.test.cjs:1555` and `tests/init.test.cjs:1308`
  assert success). A payload built before a restart and written after it removes the newer run's
  discuss artifact (`workflows/discuss-phase.md:423` promises the contrary); a discuss with an
  older time leaves the old run selected and half purged. If the outdated writer gets no further
  than its publication (it dies, or the listing throws), the old run is selected over the newer
  one, until another payload brings the newer run back with all its steps at once.
* MEMORY.md: lines that are no entries are dropped by the next command; an id that was the highest
  and is removed is given again; an event older than the snapshot raises a stale notice.
* Phase commands: removing an insertion renumbers directories and not ROADMAP.md (`phase.js:492`);
  removing phase 2 renames directory 03.1 to 02.1 and leaves the heading "Phase 03.1:". `remove
  2.1` does not match the heading "Phase 02.1:" that insert writes, while the directory goes.
  Two adjacent phases with one slug collide in the renaming (ENOTEMPTY), the rest is given up
  without a word (`:463`) and ROADMAP.md renumbered all the same. The pattern of a section ends at
  `$` without the m flag, so removing the last phase drops all that follows. A removal looks its
  directory up, checks it for executed plans (`phase.js:349-356`) and deletes by name (`:360`): if a
  second removal has renamed another phase to that name in between, that phase is deleted, executed
  or not. The total in STATE.md
  is lowered by remove and never raised by add or insert. Two adds at once lose one heading.
* Codebase intelligence ("Good — no stale data", `docs/decisions.md:282`): the entry of an
  uncommitted edit that is thrown away later stays until a full analysis; an analysis beside
  another labels old entries with the new commit (`codebase.js:72` against
  `codebase-intel.js:177`). `analyze` returns on fresh intel without removing the marker
  (`codebase.js:80-91`): five minutes without background analysis. `writeIntel` is not atomic,
  and a death inside it leaves an empty file, after which no analysis is started automatically.
  `--full` drops conventions, dependencies and lifecycle.
* Watcher: an outside change under the 200 ms mark of a self-write is overlooked when the hook's
  refresh was merged into a running cycle; `index.js:299` passes `maxPaths` where
  `file-watcher.js:34` reads `maxWatchedPaths`.
* Notifier: `action` is dropped on the way to the context (`notification.js:153`, read at
  `index.js:393`); critical notifications count against the rate limit; one dropped by it is
  remembered as seen, and its repetition is dropped as a duplicate until the window is over; when
  the limit is used up and hooks repeat several notifications in a fixed order
  (`advisory-guardrails.js:497-516`), one of them may take every place that becomes free and
  another is never heard; stuck warnings carry a count and so are never duplicates. A hanging OS
  notifier withholds the notification. A timed-out system transform drains notifications into an
  output nobody reads (`index.js:390`).
* Attention: an event is remembered as sent whatever the adapter answered
  (`cmux-attention-sync.js:244-252`; `CMUX-FIRST-UX-PRD.md:129`). Interventions are repeated after
  five minutes, blocked and recovery events never. The suppression notice says "stay off for this
  session" (`index.js:144`) while retries attach again.
* Database: a process that finds the database busy or a migration failing deletes it under the
  open connections of others (`db.js:423`).

## 5. Proofs

TLAPS checks, for every value of the constants:

* `ProjectLockProofs`, from the assumptions that `MaxPolls` and `MaxCrashes` are numbers and
  `Ageing` is a set of the two kinds. `LockTyping`: the types. `LockExcludes` and
  `LockReleases`: exclusion is not inductive, because a release removes whatever it finds. The
  invariant `LockInv` adds `HoldsOwn`: until a live holder is robbed, whoever is inside made the
  directory that is there. Then a second one cannot be inside, since there is one directory
  with one maker. The one step that could break it, `RemoveStale`, sets `robbed` in exactly that
  case. `LockImplementsMutex` needs no assumption on `Ageing`: until the first robbery `LockInv`
  makes every acquire a step of the mutex out of an empty `inside`, the step that robs empties
  the mapped `inside`, and after it every step stutters (`RobbedSteps`).
* `JsonStoreProofs`. `JsonInv` says what each step of a mutation implies about the lock (`Placed`),
  and, until the lock is robbed, `Sound`: no two mutations of one entry (`Distinct`), what the
  holder read is the file, and what it wrote is that plus its entry (`Held`), SQLite has at most
  one row of an entry of the file and none of another (`Mirrored`). From these `JsonKeepsAppends`,
  `JsonMirrorsWithin`, `JsonFailsCleanly`, and the refinement `JsonImplementsAppend`: the abstract
  store is the file less what a mutation in flight may still take back, so the end of the mirror is
  the append and all else stutters (a death before it commits what was published).
  `LessonsStayInSqlite` needs little more than the types, since no step takes the last row of an
  entry away. `LessonsOvershootBounded`, for a finite set of processes that is not empty (there is
  somebody to count): the cap is checked before the lock is asked for, so the invariant `CapInv`
  counts what the file holds together with the entries of captures that have passed the check
  (`Taken`). A check finds at most `Cap - 1` in the file, and every other process adds at most the
  one entry it has in hand; a publication moves an entry from the queue to the file, a rollback
  takes it out again (`InHand`: nobody else writes the file between the holder's read and its
  rollback).
* `StateSessionProofs`. `SessionInv` is the types and `Apt`: a command of a kind has the position
  or decision its steps use. On it rest `SessionExcludes` (`HoldsOwn` again, for commands that
  lock part of their work) and `SessionRecordsOwnWrites`, whose invariant `Recorded` says who
  owes a stamp: without edits, deaths and lapses and with at most one failure, a recorded mtime is
  stale only while some process stands before its `updateMtime`. Five theorems are about commands
  that do all their work under the lock, `Kinds \subseteq LockedKinds`; with the others among them
  the properties are false (section 4). `LockedInv` says that no two commands record one
  decision and that none of them touches a copy outside the lock, and `LockedCases` sorts the
  steps: the holder works, or leaves, something happens elsewhere, or the user or the plugin
  touches a copy beside it. Each property then has an invariant of two parts, what holds while
  nobody has begun and what the holder knows at each step: `CopiesInv` (the copies are equal but
  between the write of STATE.md and the transaction, where the holder has the old text in hand),
  `PositionInv` (the row says what STATE.md says, or nothing), `RestoreInv` (the rows are never
  ahead of STATE.md, and nobody finds its own decision there), `KeptInv` (what is owed is in
  STATE.md and, once there is a row, in SQLite), `OnceInv` (what is due for an import meets no
  rows). `SessionFailureRestores` and `SessionKeepsDecisions` suppose that the rows never exceed
  the `Limit` of the canonical model (`[]RowsFit`; 500, `state-session-mutator.js:127`): beyond it
  a mutation renders the last 500 and STATE.md loses the rest. `SessionListsOnce` supposes that
  STATE.md lists no decision twice to begin with.
* `PhaseHandoffProofs`. `HandoffLeavesOneRun` from `OthersListed`: while a writer purges, the valid
  files of other runs are among those it has listed. `HandoffNeverEmptied` from `OwnKept`: from
  its publication to its end a writer's own file is there and valid, unless it was hit. `Newest`
  is a CHOOSE over a finite set; that it chooses rests on a minimum in a well-founded order.
  `HandoffImplementsChain`: a publication that is not outdated extends the selected run or starts
  one of a single step; a purge takes files of other runs only (`OthersOnly`, which the lock keeps
  true after the listing), and then the newest file stays the newest (`NewestStays`) and a reader
  sees nothing. `Revived` is an exception this proof demanded: with three payloads the property
  holds without it, with four TLC finds it violated.
* `SharedFilesProofs`. `CacheHitIsCurrent`: a row or a lookup's content that is as young as its
  file is current, unless the file was overtaken or a write left the row behind;
  `CacheWithinCapacity`: who is about to insert has room (`Roomy`). `PhaseWorkIsKept` from
  `Resolved`: what lies under the name a removal has looked up is the work it was asked for, an
  empty directory, or another planner's, and then the removal is `usurped`. `IntelFreshIsCurrent`
  from `Sound` (intel not in doubt has what its commit has) and `Grounded` (an analysis of some
  files that nothing overtook takes over entries in which its commit and the intel's agree).
  `MemoryIdsAreUnique` from `Loaded` (a fresh id is above every id of the copy it joins);
  `MemoriesAreKept` from `CopiesHold`; `OutdatedIsNoticed` from `OutdatedWasRead`.
* `PlanningWatchProofs`, from `MaxVersion \in Nat`, Boolean switches and a `None` that is
  neither cycle nor version. `RefreshInv` is the type invariant with three parts: `OneCycle`
  (the running cycle is the one in flight), `Taken` (during a cycle the timer is off, and what
  is pending has a rerun; otherwise the timer has it), `Fresh` (nothing is newer than the disk;
  what a waiting cycle could find in the caches is no older than its triggers or the sidebar).
  `RefreshSingleFlight`, `RefreshReadsFresh`, `RefreshForgetsNothing` and `RefreshMovesForward`
  follow; and every step of the watcher and the hooks keeps `RefreshInv`, so the composed system
  has them as well (`WatchKeepsRefresh`, `WatchMovesForward`).
* `SafeHookProofs`. `BreakerHasCause` and `BreakerTrips` from `Counted` (`failures` is the number
  of bad ends since the last good one) and `Exact` (the hook is disabled exactly if there was a
  streak whose last call looked at the breaker). `AttentionTyping` is about `CmuxAttention`, from
  `CycleHas`: `asking` is cached only while a resolution is in flight, so no cycle takes it for a
  verdict; what a cycle compares was read, what it sends was chosen.
* `IdleValidatorProofs`. `IdleSingle` from `Guarded`: the guard is set exactly while a call waits,
  and one does. `IdleRepairsEnd` from `Bounded`: repairs done and repairs still due, measured from
  what is wrong with the files and with what a waiting call has read, are at most three.

Only model-checked: all liveness (fairness and ENABLED are beyond the prover), which is
`LockRecovers`, `AcquireReturns`, `IntelRefreshed`, `ChangesShown`, `CallEnds`,
`InterventionTold`, `ValidationEnds` and `HeardInTheEnd`. Every invariant and every action property
of a passing run is a theorem. No module declares a RECURSIVE operator.

## 6. Not modelled

Most of the repository's lines compute much and keep little: the bundles (`plugin.js`,
`bin/bgsd-tools.cjs`) repeat the sources, and commands for research, intents, quality reports,
agents, routing and orchestration parse, score and print. They have no order of steps to get
wrong, which is what these models are for, so the models cover a small share of the lines and the
larger part of the state. Left out as well: the parsing and rendering of markdown (which sections
a document has: a STATE.md without the section or field a command looks for ends that command
early; `complete-plan` then has its batch in SQLite and STATE.md unwritten, `state.js:1137`); the
Map backend, taken when `node:sqlite` is missing; schema migrations; git, jj and the operating
system; the stuck detector and the guardrails, counters and flags of single hooks. In the modelled
files: `state:regenerate` and `validate --fix`, lesson migration, the research cache, trajectories
and the compaction of JSON memory stores, `phase complete` and `milestone complete`, and what has
no caller (`setDnd`, `resetCounters`, `setRateLimit`, `onUserInput`, the watcher's `stop`).

## 7. Plan

The project keeps to a dozen runs, each asking as many questions as its state space bears. New
models take their place among them by composition.

Left to model, most important first:

1. `phase complete` and `milestone complete` in `PhaseLifecycle`, with ROADMAP.md,
   REQUIREMENTS.md and STATE.md written one after the other without the lock. 2. Trajectories and
   the compaction of JSON memory stores. 3. The limit of `workspace add`, counted and used without
   a lock. 4. The rollback of a release. 5. Stuck detector and guardrails. 6. The Map backend of
   the file cache and the database that is deleted while others have it open.

Left to prove: the safety facts below the liveness properties (which step is enabled, and what it
brings nearer), so that of each of them only the use of fairness is left to TLC.
