SPECIFICATION Spec
CONSTANTS
    r1 = r1
    r2 = r2
    Reader <- MCReaders
    Num = 2
    EventCap = 1
    MaxHave = 1
INVARIANTS NoLostWakeup  ClientsAreNotIdle
SYMMETRY MCSymmetry
