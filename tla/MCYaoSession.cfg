SPECIFICATION Spec
CONSTANTS
  NThreads = 2
  BatchSize = 2
  Capacity = 2
  Sessions <- MCSessions
INVARIANT TypeOK InStep SameBranch OnlyBranchingFails Drained
PROPERTY Completes
