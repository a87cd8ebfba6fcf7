\* Two processes, crashes, orphans and slow tasks.  A process may be held up
\* before its mkdirSync at will, so polling adds no order of events.  Two phases
\* are there to begin with, and two commands run.
CONSTANTS
  NoEntry = NoEntry
  NoMemory = NoMemory
  Procs = {p1, p2}
  MaxPolls = 0
  MaxCrashes = 1
  Ageing = {"orphan", "live"}
  Entries = {e1, e2, e3}
  LastStep = 3
  MaxBuilds = 3
  Writers = {p1, p2}
  Texts = {t1, t2}
  MaxId = 3
  Planners = {p1, p2}
  Slugs = {s1, s2}
  InitPhases = 2
  Spellings = {"plain", "padded"}
  MaxCommands = 2
  NoDir = NoDir
SPECIFICATION MCSpec
INVARIANTS NoLostAppend MirrorWithinStore IdsUnique MemoriesKept StaleIsKnown
PROPERTIES ImplementsAppend FailureLeavesNoTrace WriteLeavesOneRun NeverEmptied ImplementsChain WorkKept
\* All entries used, the clock or the ids at their bound and no command running:
\* at rest.
CHECK_DEADLOCK FALSE
SYMMETRY Symmetry
