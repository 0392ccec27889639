SPECIFICATION Spec
CONSTANTS
    Policy <- DefaultPolicy
    None = None
    Asset = "asset"
    Others <- SomeCoin
    PortfolioValue = 14
    InitialCash = 11
    MaxOpenOrders = 2
    MaxOpenPositions = 10
    Protection <- DefaultProtection
    CryptoAssets <- Coins
    Snapshots <- SomeSnapshots
    NewsReports <- SomeNews
    ClusterSets <- SomeClusters
    Statements <- SomeStatements
    Feeds <- SomeFeeds
    Attached = TRUE
    Durable = TRUE
    Faults <- AllFaults
    OrderBound = 3
INVARIANTS
    TypeOK
    OvershootIsBounded
    InvestsOnEvidence
    ThesisOwnsItsConflicts
    CorroboratedExtremes
    AllowedPasses
PROPERTY
    RunsSettle
