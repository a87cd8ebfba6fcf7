\* Calls may throw, and dispose() may be called.
CONSTANTS
  None = None
  Cycles = {c1, c2}
  MaxVersion = 2
  Throws = TRUE
  Disposes = TRUE
SPECIFICATION FairWatchSpec
INVARIANTS SingleFlight FreshSnapshot PendingHasTaker
PROPERTIES SidebarMovesForward ChangesShown
