SPECIFICATION FairSpec
CONSTANTS
  AckQueueCap = 2
  AutoClose = TRUE
  UsesAsap = TRUE
INVARIANTS
  TypeOK
  AckFindsRoom
PROPERTIES
  StopReturnsUnlessWedged
  EndOfRecvloopSpreads
  EndOfSendloopSpreads
  CallersReturn
CHECK_DEADLOCK FALSE
