CONSTANTS
    t = 2
    n = 3
    M = 4
    Variants = {"init"}
    H <- HashPair
    R <- HashHalf
    Draws <- AnyValue
SPECIFICATION Spec
INVARIANTS
    OneSecret
CHECK_DEADLOCK FALSE
