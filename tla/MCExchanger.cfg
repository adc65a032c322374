CONSTANTS
    Confs <- MCConfs
    LENGTH_SIZE = 2
    Buffer = 3
    Record = 2
SPECIFICATION Spec
INVARIANTS
    Delivered
    UnsentIntact
PROPERTIES
    Completes
    PeerLossNoticed
CHECK_DEADLOCK FALSE
