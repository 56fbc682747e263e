SPECIFICATION FairSpec
CONSTANTS
    NSteps = 2
    MaxSessions = 2
    Transports = {"ssh", "wsl", "local"}
INVARIANTS
    ReportIsOwn
    CleanExitIsWhole
PROPERTY
    HostEndsClean
CHECK_DEADLOCK FALSE
