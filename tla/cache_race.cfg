SPECIFICATION FaultlessSpec
CONSTANTS
    Entity = {e1, e2}
    Depth = {0, 1}
    Reader = {r1, r2}
    Writer = {w1, w2}
    Absent = Absent
    MaxWrites = 2
SYMMETRY RequestSymmetry
INVARIANTS
    AnsweredWritesVisible
