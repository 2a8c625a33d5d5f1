SPECIFICATION ThreadsSpec
CONSTANTS
    s1 = s1
    Tasks = {t1, t2, t3}
    Keys = {k1, k2}
    Shards = {s1}
    OuterShard <- OneShard
    TTL = 1
    Workers = 2
INVARIANTS
    ThreadsTypeOK
    WorkersWaitForSuspended
PROPERTIES
    FreezeIsForGood
SYMMETRY TaskSymmetry
CHECK_DEADLOCK FALSE
