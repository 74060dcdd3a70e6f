SPECIFICATION Spec
CONSTANTS
  A = A
  B = B
  Openers <- OnlyA
  MaxConnects = 2
  MaxRestarts = 0
  MaxAttempts = 3
  Busy <- Nobody
  MayDuplicate = FALSE
  Timely = TRUE
  MaxLosses = 3
  MaxSynFailures = 0
INVARIANTS
  NoPanic
  GivesUpOnlyOnSilence
  SilenceInv
CHECK_DEADLOCK FALSE
