SPECIFICATION FairSpec
CONSTANTS
    Gets = {g1, g2}
    Collects = {s}
    RowLimit = 2
    Threads = 2
    KEY_BYTES = 1
    SLOT_BYTES = 1
    Limit = 6
    OtherSizes = {0, 4}
    NoCall = NoCall
INVARIANTS CopiesCovered FailedGivesBack
PROPERTIES CallsAreAnswered DroppedGivesBack
CHECK_DEADLOCK FALSE
