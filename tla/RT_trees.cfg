SPECIFICATION Spec
CONSTANTS
  SenderWindowSize = 3
  PeerWindow = 3
  RetryDurs <- PastToLate
  MaxSend = 5
  MaxTime = 3
INVARIANTS
  TypeOK
  TreesAgree
  TreesSorted
PROPERTIES
  ImplementsRetrySet
CHECK_DEADLOCK FALSE
