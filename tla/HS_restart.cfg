SPECIFICATION FairSpec
CONSTANTS
  A = A
  B = B
  Openers <- OnlyA
  MaxConnects = 2
  MaxRestarts = 1
  MaxAttempts = 2
  Busy <- Nobody
  MayDuplicate = TRUE
  Timely = FALSE
  MaxLosses = 0
  MaxSynFailures = 1
INVARIANTS
  TypeOK
  PanicsOnlyOnFailedSyn
  EstablishedIsMutual
  ClosedByItsPeer
  SessionInv
PROPERTIES
  HalfOpenEnds
CHECK_DEADLOCK FALSE
