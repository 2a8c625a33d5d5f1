SPECIFICATION Spec
CONSTANTS
    Urls <- TwoUrls
    IpHash <- HashOne
    Sha256 <- HashTwo
    Grains = 4
    Slots = {r1, r2}
    Paths <- MCPaths
    Headers = {"v1"}
    Routing <- RoutedPath
    NoUris <- MCNoUris
    Configs <- AllConfigs
    MaxSends = 4
INVARIANTS
    TypeOK
    RoundRobinEven
    WeightedShares
    LeastConnectionsEven
    SentToCoveringTarget
    DelaysFollowLaw
    PanicsForeseen
