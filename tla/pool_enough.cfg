SPECIFICATION PoolSpec
CONSTANTS
    Client = {c1, c2, c3, c4}
    Nester = {c1, c2}
    PoolSize = 3
    MaxNested = 2
INVARIANTS
    PoolTypeOK
    ConnectionsConserved
    SomebodyRuns
PROPERTIES
    EveryRequestEnds
