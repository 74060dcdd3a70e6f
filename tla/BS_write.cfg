SPECIFICATION Spec
CONSTANTS
  WindowMsgCount = 2
  WindowByteSz = 2
  MaxPacketSz = 2
  Writes <- OneFour
  ReadSizes <- OneAndThree
INVARIANTS
  AckedWriteReturnsAll
CHECK_DEADLOCK FALSE
