SPECIFICATION Spec
CONSTANTS
    a = a
    b = b
    c = c
    Nobody = Nobody
    Threads = {t1, t2, t3}
    Pages = {a, c}
    ShardCount = 2
    ShardOf <- TwoShards
    PageBytes <- MCPageBytes
    CapacityPerShard = 2
    ReserveAttempts = 1
SYMMETRY Symmetry
INVARIANTS
    SingleFlight
    PendingIsLoading
    RingIsReady
    NoLostWakeup
    SweepIsComplete
