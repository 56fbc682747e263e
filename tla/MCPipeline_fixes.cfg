SPECIFICATION Spec
CONSTANTS
  MaxFixes = 1
  HasSuite = TRUE
  ReuseBaseline = TRUE
  Ignored = FALSE
  RacyAuthor = FALSE
  NoState = NoState
  Moves = {"commit", "undo", "amend", "squash"}
  MaxRuns = 3
  MaxCommits = 3
  MaxFaults = 0
CHECK_DEADLOCK FALSE
INVARIANTS ReadyIsEarned SuiteCovered OwnTestsKnown
PROPERTY PushesOnlyItsOwn
