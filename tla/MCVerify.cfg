SPECIFICATION Spec
CONSTANTS
    Configs <- AllConfigs
    Files <- AllFiles
    Requests <- AllRequests
    MaxKey = 5
    MAX_LEVELS = 6
    MAX_I32 = 100000
    max_tree_depth = 3
INVARIANTS SoundFilesPass NothingGoesUnsaid CleanMeansConsistent
PROPERTY PassEnds
CHECK_DEADLOCK FALSE
