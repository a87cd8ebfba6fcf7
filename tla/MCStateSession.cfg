\* Two processes that mutate under the lock, and two things that go wrong.
CONSTANTS
  Procs = {p1, p2}
  MaxPolls = 0
  MaxCrashes = 1
  Ageing = {"orphan"}
  None = None
  d0 = d0
  d1 = d1
  d2 = d2
  f0 = f0
  f1 = f1
  Fields <- MCFields
  Decisions <- MCDecisions
  InitField = f0
  InitDecs <- MCInitDecs
  Kinds <- MCLocked
  MaxOps = 3
  MaxEdits = 1
  MaxFaults = 1
  MaxWipes = 1
  MaxTroubles = 2
  Limit = 9
SPECIFICATION SessionSpec
SYMMETRY Symmetry
INVARIANTS DecisionsOnce CopiesAgree DecisionsKeptAlone
PROPERTIES FailureRestores DecisionKeepsPosition
\* Every command has been run, and the system is at rest.
CHECK_DEADLOCK FALSE
