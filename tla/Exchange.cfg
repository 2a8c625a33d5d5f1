SPECIFICATION Spec
CONSTANTS
    Tasks = {t1, t2}
    Arrivals <- MCArrivals
    Urls <- MCUrls
    Configs <- MCConfigs
    TTL = 1
    MaxAttempts = 2
    Versions <- MCVersions
    MaxReceived = 3
INVARIANTS
    HitsMatchRequest
    HitsLikeFresh
PROPERTIES
    AttemptsAlike
SYMMETRY TaskSymmetry
CHECK_DEADLOCK FALSE
