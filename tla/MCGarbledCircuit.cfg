SPECIFICATION Spec
CONSTANTS
  Bits = {0, 1}
  CircuitSet <- MCCircuitSet
  AesKeys = {"a1", "a2"}
  AES <- MCAES
  TweakIds = 2
  GidMask <- MCGidMask
  TMask <- MCTMask
INVARIANT TypeOK TablesInStep ActiveLabels
PROPERTY EvaluatesPlain
CHECK_DEADLOCK FALSE
