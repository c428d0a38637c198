\* The REST control plane, the execution loop and their shutdown.
SPECIFICATION Spec
CONSTANTS
    NumSlots = 2
    MaxPending = 1
    RequestCap = 1
    ResponseCap = 1
    FirstOrderId = 2
    LastOrderId = 3
    LastRequestId = 2
    Limit = 4
    NumSymbols = 1
    BodyParts = 1
    Environments <- MCEnvironments
    Symbols = {1}
    MaxActive = 1
    OutboundCap = 1
    FillCap = 1
    TurnBudget = 1
INVARIANTS
    AnswersOwnRequest
    PositionsBodyExclusive
    CapacityAccounted
    
PROPERTIES
    ClientsReleased
    ShutdownCompletes
CHECK_DEADLOCK FALSE
