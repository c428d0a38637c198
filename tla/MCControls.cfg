\* Every stand-alone control on a small instance of its own.
SPECIFICATION Spec
CONSTANTS
    r1 = r1
    r2 = r2
    r3 = r3
    r4 = r4
    r5 = r5
    OrderIds = {1, 2, 3, 4}
    TableCapacity = 4
    IdHash <- MCIdHash
    LedgerQtys = {1, 2}
    MaxOpen = 5
    MaxMismatches = 1
    Refs = {r1, r2, r3, r4, r5}
    Locations = {l1, l2}
    Absent = Absent
    kCapacity = 7
    kMaxProbeLength = 3
    kMaxEntries = 5
    RefHash <- MCRefHash
    BreakerConfigs <- MCBreakers
    MaxClock = 3
    MaxProbes = 3
    BreakerLosses = {1}
    Bodies = {1, 2}
    SyncInterval = 2
    MaxEvents = 3
    MaxCheckpoints = 1
    MaxAuditFaults = 3
    Traders = {1, 5}
    MaxTraders = 4
    Tiers <- MCTiers
    Notionals = {1, 2, 3}
    Day = 3
    LastMoment = 6
    MaxOrders = 5
    MaxSars = 1
    Band = {2}
    TriggerCount = 3
    TelemCap = 2
    MaxPerLoop = 1
    MaxBatch = 1
    MaxLatencies = 2
    Latencies = {1, 2}
    MaxRecorded = 3
    MaxDrops = 1
    ScrapeRequests <- MCScrapes
    StopSpecs <- MCStops
    MaxTriggers = 3
    Quotes <- MCQuotes
    MaxPackets = 2
    MaxRegistered = 2
    kMaxOrders = 2
    Trails <- MCTrails
    TickPrices = {1, 2, 4}
    MaxTicks = 3
    DarkOrders <- MCDark
    Takers <- MCTakers
    MaxResting = 3
    MaxFills = 2
    MaxAdded = 3
    AuctionOrders <- MCAuction
    MaxAuction = 4
    AuctionPrices = {0, 1, 2, 3, 4, 5}
    ReferencePrice = 2
    Events = {"insert", "cancel"}
    MaxTerm = 3
    MaxIndex = 2
    Regions = {1, 2, 3}
    Local = 1
    Majority = 2
    RegionStamps = {0, 2}
    Mmp <- MCMmp
    MmpTrades <- MCTrades
    LuldConfigs <- MCLuld
    References = {40000, 7000}
    Nbbo <- MCNbbo
    Clients = {1, 2}
    Symbols = {1, 2}
    kMaxSymbols = 2
    kMaxAllocations = 3
    Inventories = {1, 3}
    LocateQtys = {1, 2}
    LocateDuration = 2
    Closes = {10}
    Trades201 = {8, 9, 10}
    LastTick = 4
    Numbers = {0, 1, 2, 4, 5}
    ReplayWindow = 3
    Burst = 2
    Rate = 1
    LastSecond = 3
    MaxMessages = 4
    ReplayBufferSize = 4
    MaxPublished = 7
    OfficeTrades <- MCOffice
    MaxRecords = 2
    MaxBreaks = 2
    Samples = {1, 2, 3}
    MaxSamples = 5
    Threshold = 2
    OuchSymbols = {0, 2}
    kOuchSymbols = 2
    OuchNumbers = {3, 9}
    MaxU32 = 7
    FixBuffers = {100, 160, 200}
    FixLength <- MCFixLength
    FixTexts <- MCFixTexts
    kMaxFields = 10
    MaxFixSent = 2
INVARIANTS
    
    
    ComplianceSound
    
    ConditionalOrdersEnd
    CrossingSound
    ReplicationSound
    

    
CHECK_DEADLOCK FALSE
