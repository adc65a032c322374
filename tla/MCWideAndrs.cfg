SPECIFICATION Spec
CONSTANTS
  Instructions <- WideAndrs
  MaxInstructions = 2
  WorkerCounts = {1, 2, 3}
  Thresholds = {5, 6}
  EvalThreshold = 6
  XorThreshold = 4
  FewGates = 4
  DefaultLength = 2
INVARIANT SingleOperand
CHECK_DEADLOCK FALSE
