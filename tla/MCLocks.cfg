\* Three processes, crashes, orphans and slow tasks that outlive staleMs.  Two
\* analyses of a file, two changes of the project or commands that nothing asked
\* for, and one death.
CONSTANTS
  Procs = {p1, p2, p3}
  MaxPolls = 1
  MaxCrashes = 1
  Ageing = {"orphan", "live"}
  Sources = {f}
  Contents = {v1}
  Missing = Missing
  Analysts = {p1, p2}
  Blank = Blank
  Garbled = Garbled
  NoIntel = NoIntel
  MaxMoves = 1
  MaxDeaths = 1
SPECIFICATION MCSpec
INVARIANT ExclusiveUntilRobbed
PROPERTIES ImplementsMutex LockRecovers AcquireReturns IntelRefreshed
\* The analyses are never all at rest; the processes of the lock may be.
