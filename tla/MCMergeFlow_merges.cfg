SPECIFICATION FairSpec
CONSTANTS
  Layouts <- AllLayouts
  WaitsForCI = TRUE
  MaxPolls = 2
  MaxKills = 2
  MaxMoves = 3
CHECK_DEADLOCK FALSE
INVARIANTS RecordKept MergesWhatWasValidated WorkKept CommentedOnce ChecksHeeded
PROPERTIES KeepsLanding MergeEnds
