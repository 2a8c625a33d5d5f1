SPECIFICATION FairSpec
CONSTANTS
    s1 = s1
    Tasks = {t1}
    Keys = {k1, k2}
    Shards = {s1}
    OuterShard <- OneShard
    TTL = 1
PROPERTIES
    ExpiredGetReturns
CHECK_DEADLOCK FALSE
