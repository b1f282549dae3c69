SPECIFICATION PoolSpec
CONSTANTS
    Client = {c1, c2}
    Nester = {c1}
    PoolSize = 1
    MaxNested = 1
CHECK_DEADLOCK FALSE
PROPERTIES
    EveryRequestEnds
