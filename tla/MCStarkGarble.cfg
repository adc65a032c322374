CONSTANTS
    K = 3
    Bits = {0, 1, 2}
    P = 7
    MaxAnd = 2
    Blocks <- SomeBlocks
SPECIFICATION Spec
INVARIANTS
    HonestVerifies
    Arithmetized
    ChangesNoticed
CHECK_DEADLOCK FALSE
