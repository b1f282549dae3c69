SPECIFICATION IngestFairSpec
CONSTANTS
    alice = alice  bob = bob  c1 = c1  c2 = c2  c3 = c3
    fact = fact  preference = preference  relationship = relationship
    knows = knows  related_to = related_to  None = None
    EntityID = {1, 2, 3, 4}
    MemoryID = {1, 2, 3, 4}
    RelationshipID = {1, 2, 3}
    SourceID = {1, 2}
    Name <- MCName
    ExternalID = {}
    Content = {c1, c2}
    Category = {fact, preference, relationship}
    Confidence = {1, 2}
    RelType = {knows}
    Time = {}
    Request = {w1, w2, client}
    Ingester = {w1, w2}
    Subjects = {None}
    Extractions <- PairExtractions
    MaxCandidates = 2
    Key <- MCName
    KeyOf <- MCKeyOf
    TrimOf <- MCTrimOf
    RelationshipCategory = relationship
    DefaultRelType = knows
    Score <- MCScore
    Threshold = 85
    SingletonCategory = {preference}
    ClientMemories = {}
    InitialDatabases <- FactDatabases
    MaxEdits = 1
CHECK_DEADLOCK FALSE
INVARIANTS
    UpdatesStayWithSubject
    InvalidationCoversWrites
    TxBelongsToCommit
PROPERTIES
    EveryIngestIsAnswered
