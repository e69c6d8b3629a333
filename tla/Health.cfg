SPECIFICATION FairSpec
CONSTANTS
  s1 = s1 s2 = s2
  Slot = {s1, s2}
  Settings <- AllSettings
INVARIANTS StreaksDecide VerdictIsFresh
PROPERTIES FlipsOnStreak Detects LeftInPeace
CHECK_DEADLOCK FALSE
