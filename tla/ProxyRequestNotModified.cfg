SPECIFICATION Spec
CONSTANTS
    Requests = {r1, r2, r3}
    PoolSize = 2
    MaxAttempts = 2
    Timeout = 1
    CacheConfigured = FALSE
    MaxFailures = 2
    ResetTimeout = 1
    HalfOpenMaxAttempts = 1
INVARIANTS
    RetriesBounded
