SPECIFICATION Spec
CONSTANTS
    Stocks <- S
    Sector <- InSector
    Cluster <- InCluster
    Quality <- OfQuality
    Unknown = "unknown"
    Reserved = 230
    Window = 2
    RequiredPasses = 2
    LastDay = 3
    Markets <- MCMarkets
    Portfolios <- MCPortfolios
    MaxEvents = 1
    None = None
INVARIANTS
    RotationIsEarned
    Reproducible
    TargetsKeepTheRules
PROPERTY SealedForGood
CHECK_DEADLOCK FALSE
