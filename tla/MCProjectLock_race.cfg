\* Only orphans outlive staleMs, and still two processes get inside.
CONSTANTS
  Procs = {p1, p2}
  MaxPolls = 0
  MaxCrashes = 1
  Ageing = {"orphan"}
SPECIFICATION LockSpec
INVARIANT MutualExclusion
