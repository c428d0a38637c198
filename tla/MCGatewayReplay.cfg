\* The logs never fail: what replay returns is compared with the open orders.
SPECIFICATION Spec
CONSTANTS
    s1 = s1
    o1 = o1
    o2 = o2
    s2 = s2
    o3 = o3
    NoId = NoId
    Symbols = {s1}
    Ids = {o1, o2}
    IdPairs <- OneSymbol
    MaxActive = 2
    RateLimit = 3
    Qtys = {1, 2}
    Prices = {1}
    MaxOrderQty = 2
    MaxAbsPosition = 2
    MaxRejections = 2
    Outcomes = {"ok"}
    NetBound = 3
    RejectBound = 1
    FillBound = 2
SYMMETRY IdSymmetry
INVARIANT ReplayMatchesState
CHECK_DEADLOCK FALSE
