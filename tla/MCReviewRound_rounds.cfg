SPECIFICATION Spec
CONSTANTS
    src = src
    suite = suite
    n1 = n1
    aside = aside
    Outside <- MCOutside
    Suite <- MCSuite
    Names <- MCNames
    Asides <- MCAsides
    HasLint = TRUE
    MaxRounds = 2
    MaxMoves = 1
INVARIANTS
    AuthorsFilesStand
    NextRunAccepts
    CommittedWasChecked
    ApprovedIsCovered
CHECK_DEADLOCK FALSE
