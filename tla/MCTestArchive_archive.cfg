SPECIFICATION Spec
CONSTANTS
    Paths <- OneOfEach
    Pattern <- OnPattern
    MaxRuns = 3
    MaxSessions = 3
    MaxFaults = 2
    MaxMoves = 3
CHECK_DEADLOCK FALSE
INVARIANTS CopiesNeverBlock RoundArchived
PROPERTIES NothingLost AuthorsStay
