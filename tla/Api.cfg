SPECIFICATION FairApi
CONSTANTS
  Client = {"c", "d"}
  Slot = {1, 2}
  Visitor = {1, 2, 3, 4}
  None = None
  Burst = 2
  Rate = 1
  Idle = 2
  Scenario <- All
  Request <- Requests
INVARIANTS ApiConsistent AnswersTell StopLeavesNothing
PROPERTIES ImplementsBucket Proceeds
CHECK_DEADLOCK FALSE
