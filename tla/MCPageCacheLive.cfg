SPECIFICATION FairSpec
CONSTANTS
    a = a
    b = b
    c = c
    Nobody = Nobody
    Threads = {t1, t2, t3}
    Pages = {a}
    ShardCount = 1
    ShardOf <- OneShard
    PageBytes <- MCPageBytes
    CapacityPerShard = 2
    ReserveAttempts = 1
PROPERTIES
    LocksAreReleased
    CallsReturn
    WaitersWake
