\* The WebSocket server: its threads, its subscription index, its deadlines.
SPECIFICATION Spec
CONSTANTS
    MaxConnections = 3
    Buckets = 3
    Hash <- MCHash
    UpgradeCap = 1
    EventCap = 2
    FillsPerTurn = 1
    UpgradesPerTurn = 1
    WriteCap = 2
    Environments <- MCEnvironments
INVARIANTS
    SlotsAccounted
    SubscribersReachable
    WakeupNotLost
    StoppedIsQuiet

    
CHECK_DEADLOCK FALSE
