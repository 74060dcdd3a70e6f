SPECIFICATION FairSpec
CONSTANTS
  A = A
  B = B
  Window <- Window11
  MaxSend <- Send20
  Connected = TRUE
  MayDuplicate = FALSE
  MaxCopies = 1
PROPERTIES
  EverythingDelivered
CHECK_DEADLOCK FALSE
