SPECIFICATION FairSpec
CONSTANTS
    Capacity = 1
    Burst = 1
    MaxGrants = 4
    MaxRefills = 3
    Callers = {c1, c2}
    Viewers = {v1}
INVARIANTS
    TypeOK
    GrantsArePaidFor
    StatusAccountsForMissing
PROPERTIES
    IsTokenBucket
    LastAcquireAdvances
    EveryCallReturns
    EmptyBucketRefills
