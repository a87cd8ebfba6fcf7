\* Three phases, and one of them is removed under the number its heading has.
CONSTANTS
  Planners = {p1}
  Slugs = {s1, s2}
  InitPhases = 3
  Spellings = {"plain"}
  MaxCommands = 1
  NoDir = NoDir
SPECIFICATION PhaseSpec
INVARIANT HeadingsDistinct
\* Every command has been run.
CHECK_DEADLOCK FALSE
