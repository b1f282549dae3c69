SPECIFICATION IngestSpec
CONSTANTS
    alice = alice  bob = bob  c1 = c1  c2 = c2  c3 = c3
    fact = fact  preference = preference  relationship = relationship
    knows = knows  related_to = related_to  None = None
    EntityID = {1, 2, 3, 4}
    MemoryID = {1, 2, 3, 4, 5}
    RelationshipID = {1, 2, 3}
    SourceID = {1, 2}
    Name <- MCName
    ExternalID = {}
    Content <- MCContent
    Category = {fact, preference, relationship}
    Confidence = {1, 2, 3}
    RelType = {knows, related_to}
    Time = {}
    Request = {w1}
    Ingester = {w1}
    Subjects = {None}
    Extractions <- TwiceExtractions
    MaxCandidates = 2
    Key <- MCName
    KeyOf <- MCKeyOf
    TrimOf <- MCTrimOf
    RelationshipCategory = relationship
    DefaultRelType = related_to
    Score <- MCScore
    Threshold = 85
    SingletonCategory = {preference}
    ClientMemories = {}
    InitialDatabases <- FactDatabases
    MaxEdits = 0
CHECK_DEADLOCK FALSE
PROPERTIES
    ConfidenceNeverDrops
