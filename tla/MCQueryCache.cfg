SPECIFICATION Spec
CONSTANTS
  m1 = m1
  m2 = m2
  Nothing = Nothing
  Mutations <- MCMutations
  Workloads <- MCWorkloads
INVARIANTS
  OwnWritesSeen
  NoPhantomWrites
PROPERTIES
  CatchesUp
  ReadsOwnWrites
