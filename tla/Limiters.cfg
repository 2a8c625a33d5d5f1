SPECIFICATION Spec
CONSTANTS
    Targets <- MCTargets
    Paths <- MCPaths
    MaxRefills = 2
    MaxRequests = 5
INVARIANTS
    LimitsHold
    ChargedAreRefilled
CHECK_DEADLOCK FALSE
