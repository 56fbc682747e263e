SPECIFICATION Spec
CONSTANTS
  MaxFixes = 1
  HasSuite = TRUE
  ReuseBaseline = TRUE
  Ignored = TRUE
  RacyAuthor = FALSE
  NoState = NoState
  Moves = {"commit"}
  MaxRuns = 3
  MaxCommits = 3
  MaxFaults = 0
CHECK_DEADLOCK FALSE
INVARIANT FixCyclesCounted
