CONSTANTS
    t = 2
    n = 3
    M = 2
    Variants = {"init", "reconstruct"}
    H <- HashPair
    R <- HashHalf
    Draws <- AnyValue
SPECIFICATION Spec
INVARIANTS
    StoredOpens
    SharesKept
PROPERTIES
    Ends
CHECK_DEADLOCK FALSE
