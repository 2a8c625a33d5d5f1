SPECIFICATION FairSpec
CONSTANTS
    ShutdownTimeout = 2
    MaxReceived = 3
    Slots = {r1, r2, r3}
    HasBotDetector = TRUE
    MayPanic = TRUE
INVARIANTS
    TypeOK
    OngoingConserved
    DrainWaits
    GaugeDriftBounded
PROPERTIES
    ServerStops
CHECK_DEADLOCK FALSE
