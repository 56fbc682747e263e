SPECIFICATION Spec
CONSTANTS
  p1 = p1
  p2 = p2
  p3 = p3
  p4 = p4
  a = a
  b = b
  Pids <- FourPids
  Branches <- TwoBranches
  NoPid = NoPid
  Detached = Detached
  Sessions = 1
  Mortal = {"run", "foreground", "merge"}
  MaxKills = 1
SYMMETRY FullSymmetry
CHECK_DEADLOCK FALSE
INVARIANTS OneRun RunIsNamed StopStops
PROPERTY KeepsTurns
