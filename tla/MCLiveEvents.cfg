\* Two rows with two events in all, every fault, with and without fan-out.
SPECIFICATION Spec
CONSTANTS
    Items = {i1, i2}
    MaxId = 2
    ReplayLimit = 1
    Faults = TRUE
SYMMETRY ItemSymmetry
INVARIANTS
    TypeOK
    SentInOrder
    NewestIsSent
CHECK_DEADLOCK FALSE
