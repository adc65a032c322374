SPECIFICATION Spec
CONSTANTS
  NThreads = 2
  BatchSize = 2
  Capacity = 2
  Sessions <- TwoSections
INVARIANT EnoughData
