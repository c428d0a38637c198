\* Cancel reports, each of which may be delivered twice.
SPECIFICATION DuplicateSpec
CONSTANTS
    s1 = s1
    o1 = o1
    o2 = o2
    NoId = NoId
    Symbols = {s1}
    Ids = {o1, o2}
    IdPairs <- MCIdPairs
    MaxActive = 2
    RateLimit = 3
    Qtys = {1, 2}
    Prices = {1}
    MaxOrderQty = 2
    MaxAbsPosition = 2
    MaxRejections = 2
    Outcomes = {"ok"}
    NetBound = 3
    RejectBound = 1
    FillBound = 2
INVARIANT DuplicateCancelHarmless
CHECK_DEADLOCK FALSE
