SPECIFICATION Spec
CONSTANTS
    Threads = {t1}
    MaxPages = 28
    SlotBytes = 32
    LoadingSlotBytes = 128
    GroupWidth = 16
SYMMETRY Symmetry
INVARIANTS
    AllocationsCovered
