CONSTANTS
    Confs <- RingConfs
    LENGTH_SIZE = 2
    Buffer = 3
    Record = 2
SPECIFICATION Spec
PROPERTIES
    Completes
CHECK_DEADLOCK FALSE
