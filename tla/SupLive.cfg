SPECIFICATION FairSpec
CONSTANTS
  a = a
  b = b
  i1 = i1 i2 = i2
  Inst = {i1, i2}
  Caller = {a, b}
  Configs <- LiveConfigs
  DeathCap = 1
PROPERTIES OperationsReturn Recovers AllDeadDetected
CHECK_DEADLOCK FALSE
