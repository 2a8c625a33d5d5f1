SPECIFICATION FairSpec
CONSTANTS
    s1 = s1
    Tasks = {t1, t2}
    Keys = {k1, k2}
    Shards = {s1}
    OuterShard <- OneShard
    TTL = 1
INVARIANTS
    TypeOK
PROPERTIES
    ExpiredGetFreezesKey
    NoOtherDeadlock
    ExpiredEntriesGo
CHECK_DEADLOCK FALSE
