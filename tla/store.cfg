SPECIFICATION Spec
CONSTANTS
    EntityID = {1, 2}
    MemoryID = {1}
    RelationshipID = {1, 2}
    SourceID = {1}
    Name = {n1}
    ExternalID = {x1}
    Content = {c1, c2}
    Category = {fact}
    Confidence = {1}
    RelType = {knows}
    Time = {}
    None = None
    Request = {q1, q2}
SYMMETRY StoreSymmetry
INVARIANTS
    TypeOK
    StoreConsistent
    SearchIndexExact
    NoLostUpdate
PROPERTIES
    RowsKeepIdentity
    AuditOnlyGrows
