SPECIFICATION FairSpec
CONSTANTS
    Requests = {r1, r2, r3}
    PoolSize = 2
    MaxAttempts = 2
    Timeout = 1
    CacheConfigured = TRUE
    MaxFailures = 2
    ResetTimeout = 1
    HalfOpenMaxAttempts = 2
INVARIANTS
    TypeOK
    FailureCountAgrees
    HalfOpenHasProbe
    HalfOpenQuota
    PermitsConserved
    BudgetUnlessMissed
PROPERTIES
    KeepsTheGate
    BreakerAdmitsAgain
    EveryRequestAnswered
