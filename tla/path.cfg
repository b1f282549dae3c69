SPECIFICATION TraversalSpec
CONSTANTS
    Entity = {a, b, c, d}
    Backends = {"sql", "age"}
    InitialGraphs <- SparseGraphs
    PathDepth = {1, 2, 3}
    ContextDepth = {0, 1, 2}
    MaxEdits = 1
    None = None
SYMMETRY EntitySymmetry
CHECK_DEADLOCK FALSE
INVARIANTS
    TraversalTypeOK
    PathIsShortest
    ContextIsBall
    FailureHasCause
    AnsweredPathStands
