\* A capture while another process compacts.
CONSTANTS
  NoEntry = NoEntry
  a = a
  b = b
  c = c
  d = d
  Procs = {p1, p2}
  MaxPolls = 0
  MaxCrashes = 0
  Ageing = {}
  Entries = {a, b, c}
  Deviations = {c}
  Causes = {a, c, d}
  Cause <- MCCause
  Cap = 1
  Threshold = 2
  Compactors = {p2}
SPECIFICATION LessonSpec
INVARIANT LessonsKept
\* All entries used and no command running: the system is at rest.
CHECK_DEADLOCK FALSE
