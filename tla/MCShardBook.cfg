SPECIFICATION Spec
CONSTANTS
    Threads = {t1, t2}
    MaxPages = 8
    SlotBytes = 32
    LoadingSlotBytes = 128
    GroupWidth = 8
SYMMETRY Symmetry
INVARIANTS
    ReservedBeforeAllocated
    BookCoversFootprint
    EmptyShardGivesAllBack
