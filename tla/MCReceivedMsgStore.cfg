SPECIFICATION Spec
CONSTANTS
  N = 2
  Data = {d1, d2}
  NoData = NoData
  Ptrs = {0, 1}
  Names = {f1, f2, f3}
SYMMETRY NameSymmetry
INVARIANTS FilesAccounted
PROPERTY IsQueue
CHECK_DEADLOCK FALSE
