\* Two commands of any kind at once, a write that fails and a plugin that invalidates.
CONSTANTS
  Procs = {p1, p2}
  MaxPolls = 0
  MaxCrashes = 0
  Ageing = {}
  None = None
  d0 = d0
  d1 = d1
  d2 = d2
  f0 = f0
  f1 = f1
  Fields <- MCFields
  Decisions <- MCDecisions
  InitField = f0
  InitDecs <- MCInitDecs
  Kinds <- MCAll
  MaxOps = 2
  MaxEdits = 0
  MaxFaults = 1
  MaxWipes = 1
  MaxTroubles = 1
  Limit = 9
SPECIFICATION SessionSpec
SYMMETRY Symmetry
INVARIANTS OwnWritesRecorded
\* Every command has been run, and the system is at rest.
CHECK_DEADLOCK FALSE
