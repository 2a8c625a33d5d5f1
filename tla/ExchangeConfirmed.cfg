SPECIFICATION Spec
CONSTANTS
    Tasks = {t1, t2}
    Arrivals <- MCArrivals
    Urls <- MCUrls
    Configs <- VariedOnly
    TTL = 1
    MaxAttempts = 2
    Versions <- MCVersions
    MaxReceived = 3
INVARIANTS
    ConfirmedEntryServed
CHECK_DEADLOCK FALSE
