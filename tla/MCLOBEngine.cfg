\* Both sides of one symbol, four references, two levels of three orders.
SPECIFICATION Spec
CONSTANTS
    Refs = {r1, r2, r3, r4}
    NoRef = NoRef
    Books = {"bid", "ask"}
    Bids = {"bid"}
    Prices = {1, 2, 3}
    Qtys = {1, 2}
    MaxLevels = 2
    MaxOrders = 3
    MaxEntries = 4
SYMMETRY RefSymmetry
INVARIANTS
    SlabConsistent
PROPERTY ImplementsOrderBook
CHECK_DEADLOCK FALSE
