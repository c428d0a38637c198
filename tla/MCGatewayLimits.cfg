\* Two symbols sharing one rate limiter.
SPECIFICATION Spec
CONSTANTS
    s1 = s1
    s2 = s2
    o1 = o1
    o2 = o2
    o3 = o3
    NoId = NoId
    Symbols = {s1, s2}
    Ids = {o1, o2, o3}
    IdPairs <- TwoSymbols
    MaxActive = 2
    RateLimit = 3
    Qtys = {1}
    Prices = {1, 2}
    MaxOrderQty = 1
    MaxAbsPosition = 1
    MaxRejections = 1
    Outcomes = {"ok"}
    NetBound = 1
    RejectBound = 1
    FillBound = 1
SYMMETRY IdSymmetry
INVARIANTS
    RiskReconciles
CHECK_DEADLOCK FALSE
