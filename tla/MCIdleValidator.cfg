\* Two calls that overlap while one waits for the notifier, an edit at any moment,
\* a hook that notifies as well, and a rate limit that is soon reached.
CONSTANTS
  Calls = {c1, c2}
  Callers = {c1, c2, h}
  Urgent = {"phase-complete", "stuck"}
  Routine = {"state-sync"}
  RateLimit = 1
  Silent = Silent
  MaxEdits = 1
SPECIFICATION MCSpec
INVARIANTS SingleValidation RepairsEnd
PROPERTIES ValidationEnds HeardInTheEnd
