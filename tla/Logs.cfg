SPECIFICATION Spec
CONSTANTS
  Scenario <- All
INVARIANTS OutputKept EntriesRight RingShows
CHECK_DEADLOCK FALSE
