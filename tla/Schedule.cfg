SPECIFICATION FairSpec
CONSTANTS
  Run = {1, 2, 3}
  HistorySize = 2
  Timeouts = {TRUE, FALSE}
INVARIANTS NoOverlap HistoryIsTrue
PROPERTIES TriggersEnd ImplementsLifecycle
CHECK_DEADLOCK FALSE
