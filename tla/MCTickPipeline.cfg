\* The feed thread and the main loop around a ring of two slots.  Positions wrap
\* after three laps: full, empty and wrapped rings occur with every combination
\* of old views.
SPECIFICATION PipelineSpec
CONSTANTS
    Values = {v1, v2}
    Torn = Torn
    Capacity = 2
    Words = 6
INVARIANTS
    HeldIntact
    StopsDrained
PROPERTIES
    ImplementsQueue
    TicksConsumed
    EngineStops
CHECK_DEADLOCK FALSE
