SPECIFICATION VSpec
CONSTANTS
  t1 = t1
  t2 = t2
  t3 = t3
  t4 = t4
  Tests <- FourTests
  MaxValidations = 3
  MaxKills = 1
  MaxResets = 1
  Steps = {"setup", "test", "new_test"}
  WantsFiles = TRUE
  RerunOnBase = TRUE
SYMMETRY TestSymmetry
CHECK_DEADLOCK FALSE
INVARIANTS RecordedAsOpened NothingRecordedTwice NamesThemAll NewestPreferred EnvironmentIsNoVerdict FailStands
