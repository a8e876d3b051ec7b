SPECIFICATION Spec
CONSTANTS
    Threads = {t1, t2}
    Charges = {c1, c2}
    Limit = 3
    MaxWord = 4
    MaxRequest = 4
SYMMETRY Symmetry
INVARIANTS
    UsedIsHeld
    PeakIsHighWater
PROPERTY
    LedgerSpec
