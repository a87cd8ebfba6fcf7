\* One process records a decision in a project the plugin has open.
CONSTANTS
  Procs = {p1}
  MaxPolls = 0
  MaxCrashes = 0
  Ageing = {}
  None = None
  d0 = d0
  d1 = d1
  d2 = d2
  f0 = f0
  f1 = f1
  Fields <- MCFields
  Decisions <- MCDecisions
  InitField = f0
  InitDecs <- MCInitDecs
  Kinds <- MCDecide
  MaxOps = 1
  MaxEdits = 0
  MaxFaults = 0
  MaxWipes = 1
  MaxTroubles = 1
  Limit = 9
SPECIFICATION SessionSpec
SYMMETRY Symmetry
INVARIANTS DecisionsKept
\* Every command has been run, and the system is at rest.
CHECK_DEADLOCK FALSE
