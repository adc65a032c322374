CONSTANTS
    t = 3
    n = 5
    M = 4
    Variants = {"reconstruct"}
    H <- HashPair
    R <- HashHalf
    Draws <- OneValue
SPECIFICATION Spec
INVARIANTS
    Reconstructs
CHECK_DEADLOCK FALSE
