SPECIFICATION ServerSpec
CONSTANTS
    e1 = e1  e2 = e2  e3 = e3  m1 = m1  r1 = r1
    None = None  Spoiled = Spoiled
    Server = {s1, s2}
    Migrations = 2
    EntityID = {e1, e2, e3}
    MemoryID = {m1}
    RelationshipID = {r1}
    OwnerOf <- MCOwnerOf
    EndsOf <- MCEndsOf
    PageSize = 1
    MaxWrites = 2
    InitialRows <- MCInitialRows
    InitialTimes <- MCInitialTimes
    MaxEvents = 3
CHECK_DEADLOCK FALSE
INVARIANTS
    ServerTypeOK
    SchemaIsRecorded
    ServesCurrentSchema
    FailedStartHasCause
    GraphMirrorsRows

PROPERTY EveryStartSettles
