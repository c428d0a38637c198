\* Replace messages refused at the pre-flight check or for want of room.
SPECIFICATION RefusedSpec
CONSTANTS
    Refs = {r1, r2, r3, r4}
    NoRef = NoRef
    Books = {"bid", "ask"}
    Bids = {"bid"}
    Prices = {1, 2, 3}
    Qtys = {1, 2}
    MaxLevels = 2
    MaxOrders = 2
    MaxEntries = 4
INVARIANT OriginalIntact
CHECK_DEADLOCK FALSE
