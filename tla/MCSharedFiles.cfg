\* Two processes capture and compact, and one may die; two processes and an editor,
\* more files than the cache has rows; two analyses, two source files and two changes
\* of them.
CONSTANTS
  NoEntry = NoEntry
  a = a
  b = b
  c = c
  d = d
  Procs = {p1, p2}
  MaxPolls = 0
  MaxCrashes = 1
  Ageing = {"orphan"}
  Entries = {a, b, c, d}
  Deviations = {b, c, d}
  Causes = {a, c, d}
  Cause <- MCCause
  Cap = 1
  Threshold = 3
  Compactors = {p1, p2}
  Clients = {p1, p2}
  Paths = {x, y}
  MaxSize = 1
  MaxWrites = 2
  TagStores = {}
  None = None
  v1 = v1
  Sources = {f, g}
  Contents = {v1, v2}
  Missing = Missing
  Analysts = {p1, p2}
  Blank = Blank
  Garbled = Garbled
  NoIntel = NoIntel
  MaxMoves = 2
  MaxDeaths = 0
SPECIFICATION MCSpec
SYMMETRY Symmetry
INVARIANTS DeviationOvershoot WithinCapacity FreshIsCurrent
PROPERTIES SqliteForgetsNothing HitIsCurrent
\* All entries used and no command running: the system is at rest.
CHECK_DEADLOCK FALSE
