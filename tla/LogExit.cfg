SPECIFICATION Spec
CONSTANTS
  Scenario <- One
INVARIANT ExitFlushed
CHECK_DEADLOCK FALSE
