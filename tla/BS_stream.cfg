SPECIFICATION Spec
CONSTANTS
  WindowMsgCount = 2
  WindowByteSz = 2
  MaxPacketSz = 2
  Writes <- OneFour
  ReadSizes <- OneAndThree
INVARIANTS
  TypeOK
  ReadsAreTheWrites
  CumulNeverPanics
  AcksAreWholePackets
  OverrunIsBounded
  CreditIsEndToEnd
  AckedWriteMissesAtMostLastPiece
  StreamInv
CHECK_DEADLOCK FALSE
