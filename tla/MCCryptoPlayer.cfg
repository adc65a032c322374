CONSTANTS
    Capacity = 1
    Games <- MCGames
SPECIFICATION Spec
INVARIANTS
    Delivered
    NobodyThrows
    NothingPending
    NoLockup
PROPERTIES
    Completes
CHECK_DEADLOCK FALSE
