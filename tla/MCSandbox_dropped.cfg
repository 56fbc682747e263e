SPECIFICATION Spec
CONSTANTS
    NSteps = 2
    MaxSessions = 1
    Transports = {"ssh"}
INVARIANT
    PassMeansRun
CHECK_DEADLOCK FALSE
