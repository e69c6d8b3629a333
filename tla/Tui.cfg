SPECIFICATION FairSpec
CONSTANTS
  MaxText = 2
  MaxDigits = 2
  Proc <- Names
  Scheduled <- Jobs
  Config <- Configs
  Heights <- TwoHeights
  MinRows = 1
  Scenario <- All
  MaxTicks = 2
INVARIANTS UiConsistent SubmitsValid
PROPERTIES LogTicksEnd ShowsWhatIs
CHECK_DEADLOCK FALSE
