SPECIFICATION Spec
CONSTANTS
    Configs <- AllConfigs
    MaxKey = 5
    MAX_LEVELS = 6
    MAX_I32 = 100000
    max_tree_depth = 64
    BoundKeys = {2, 4}
INVARIANTS NeverCorrupt FindIsMembership CachedFindAgrees CountIsCardinality AcceptedRowsAreBuilt
PROPERTY ScanSpec
CHECK_DEADLOCK FALSE
