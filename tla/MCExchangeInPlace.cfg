CONSTANTS
    Confs <- FullConfs
    LENGTH_SIZE = 2
    Buffer = 3
    Record = 2
SPECIFICATION Spec
INVARIANTS
    Delivered
CHECK_DEADLOCK FALSE
