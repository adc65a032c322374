CONSTANTS
    K = 2
    Bits = {0, 1}
    Q = 31
    Protocols = {"kyber", "fake", "promised"}
    H <- Hash3
    Programs <- MCPrograms
    PRG <- Quadratic
SPECIFICATION TransfersSpec
INVARIANTS
    TransfersTypeOK
    OneOfTwo
    SeedsChosen
    Correlated
    LabelsOfInputs
PROPERTIES
    AllArrive
CHECK_DEADLOCK FALSE
