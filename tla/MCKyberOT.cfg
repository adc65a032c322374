CONSTANTS
    nOT = 2
    Q = 31
    Protocols = {"kyber"}
    H <- Hash3
SPECIFICATION Spec
INVARIANTS
    KyberOutputsChosen
CHECK_DEADLOCK FALSE
