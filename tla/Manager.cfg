SPECIFICATION FairSpec
CONSTANTS
  Name = {1, 2, 3}
  Obj = {1, 2, 3, 4}
  Caller = {1}
  DeathCap = 1
  Scenarios <- All
INVARIANTS Consistent DependenciesUp StopsEverything
PROPERTIES Exits EditsApplied
CHECK_DEADLOCK FALSE
