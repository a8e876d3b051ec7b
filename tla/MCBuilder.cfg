SPECIFICATION ReadSpec
CONSTANTS
    MERGE_FAN_IN = 3
    COMPACT_AT = 2
    MIN_BUFFER = 2
    SLOT_BYTES = 1
    BUFFER_CELLS = 12
    DIRECTORY_THRESHOLD = 2
    Plans <- AllPlans
    PAGE_ENTRIES = 2
    INLINE_LEN = 2
    EXTRA_BYTES = 1
    MAX_RID = 3
    BoundKeys = {1, 2, 3}
INVARIANTS SpoolHoldsEveryRecord SpoolIsBounded OldOrWhole ShownIsLast
PROPERTIES SortBufferIsKept IndexScanSpec
CHECK_DEADLOCK FALSE
