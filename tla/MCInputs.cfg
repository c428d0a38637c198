\* Everything that comes in from outside, and what threads share.
SPECIFICATION Spec
CONSTANTS
    TickerHash <- MCTickerHash
    TableCap = 4
    MaxQuantity = 3
    MaxPrice = 3
    Midnight = 10
    MaxRecoverable = 1
    Packets <- MCPackets
    Registrations <- MCRegistrations
    RingCap = 2
    MaxAccepted = 4
    SimConfigs <- MCSimConfigs
    Frames <- MCFrames
    Handshakes <- MCHandshakes
    ShortMax = 3
    MediumMax = 6
    TopBit = 9
    MaxMessage = 4
    MaxFrames = 4
    PoolThreads = {t1, t2}
    PoolCapacity = 3
    MaxSwaps = 5
    RingSize = 2
    Bursts = {1, 2, 3}
    NumShards = 2
    ShardSymbols = {0, 1, 3}
    MaxMoved = 4
    Desks = {t1, t2}
    DeskSymbols = {0}
    kRiskSymbols = 1
    RiskConfig <- MCRisk
    RiskOrders <- MCRiskOrders
    RiskPnls <- MCPnls
    StrategyConfigs <- MCPlans
    StrategyBudget <- MCBudget
    MaxViolations = 2
INVARIANTS
    FeedGapFree
    SymbolsFound
    SyntheticDecodes
    PassIsPermutation
    MessagesWhole
    SharedStateSound
CHECK_DEADLOCK FALSE
