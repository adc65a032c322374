SPECIFICATION Spec
CONSTANTS
  NWires = 2
  Xs = {"x1", "x2", "x3"}
  H1 <- MCH1
  Keys = {"k1", "k2"}
  Sessions <- DefaultN
INVARIANT SharesFit
CHECK_DEADLOCK FALSE
