SPECIFICATION Spec
CONSTANTS
  MaxEvents = 2
  Window = 1
  Times <- FewTimes
  Batches <- Slices
  Counts <- UpToThree
INVARIANTS
  TypeOK
PROPERTIES
  ImplementsQueue
