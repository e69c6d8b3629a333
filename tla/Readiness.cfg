SPECIFICATION ReadyFairSpec
CONSTANTS
  Name = {a, b}
  Longrun <- Long
  Unwell <- Sick
  Modes = {"all_running", "all_healthy"}
  Filters <- OneOrAll
INVARIANTS FileIsTrue
PROPERTIES ShownInTime
CHECK_DEADLOCK FALSE
