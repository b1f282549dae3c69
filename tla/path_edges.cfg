SPECIFICATION TraversalSpec
CONSTANTS
    Entity = {a, b, c}
    Backends = {"sql"}
    InitialGraphs <- AllGraphs
    PathDepth = {2}
    ContextDepth = {}
    MaxEdits = 0
    None = None
SYMMETRY EntitySymmetry
CHECK_DEADLOCK FALSE
INVARIANTS
    PathCarriesItsEdges
