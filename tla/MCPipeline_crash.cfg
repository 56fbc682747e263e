SPECIFICATION FairSpec
CONSTANTS
  MaxFixes = 1
  HasSuite = TRUE
  ReuseBaseline = TRUE
  Ignored = TRUE
  RacyAuthor = TRUE
  NoState = NoState
  Moves = {"commit", "rebase"}
  MaxRuns = 2
  MaxCommits = 4
  MaxFaults = 1
CHECK_DEADLOCK FALSE
INVARIANTS NoOrphanDrafts ReadyIsJudged
PROPERTIES HistoryKept KeepsReview RunEnds
