SPECIFICATION FairSpec
CONSTANTS
  AckQueueCap = 5
  AutoClose = FALSE
  UsesAsap = FALSE
PROPERTIES
  StopReturns
CHECK_DEADLOCK FALSE
