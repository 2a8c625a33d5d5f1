SPECIFICATION FairSpec
CONSTANTS
    ShutdownTimeout = 2
    MaxReceived = 2
    Slots = {r1, r2}
    HasBotDetector = TRUE
    MayPanic = TRUE
PROPERTIES
    ShutdownForced
CHECK_DEADLOCK FALSE
