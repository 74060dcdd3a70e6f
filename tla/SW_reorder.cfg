SPECIFICATION Spec
CONSTANTS
  A = A
  B = B
  Window <- Window22
  MaxSend <- Send40
  Connected = FALSE
  MayDuplicate = TRUE
  MaxCopies = 99
INVARIANTS
  InOrder
  NothingForgotten
  ReceiverNotOverrun
  HeldIsUnconsumed
  FlowInv
PROPERTIES
  RxqKeepsWhatItHolds
  ImplementsStream
CHECK_DEADLOCK FALSE
