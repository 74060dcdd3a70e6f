SPECIFICATION Spec
CONSTANTS
  A = A
  B = B
  Window <- Window11
  MaxSend <- Send30
  Connected = TRUE
  MayDuplicate = TRUE
  MaxCopies = 99
INVARIANTS
  TypeOK
  AckedWasConsumed
PROPERTIES
  ImplementsStream
CHECK_DEADLOCK FALSE
