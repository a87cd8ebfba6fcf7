\* Four calls, as many of them at once as there are; attempts may hang.  The project
\* needs its user, goes on or is blocked, in any order.
CONSTANTS
  Calls = {c1, c2, c3, c4}
  Streak = 3
  Outcomes = {"ok", "error", "nothing"}
  Needs = {"review"}
  Calm = {"running"}
  Nothing = Nothing
SPECIFICATION MCSpec
INVARIANTS TripsForCause Trips
PROPERTIES CallEnds InterventionTold
\* Every call has ended and every attempt has settled.
CHECK_DEADLOCK FALSE
