CONSTANTS
    N = 2
    NThreads = 1
    Confs <- Ports
SPECIFICATION Spec
INVARIANTS
    Paired
    NobodyThrows
PROPERTIES
    StartsOrEnds
CHECK_DEADLOCK FALSE
