SPECIFICATION CacheSpec
CONSTANTS
    Entity = {e1, e2}
    Depth = {0, 1}
    Reader = {r1}
    Writer = {w1}
    Absent = Absent
    MaxWrites = 2
INVARIANTS
    CacheTypeOK
    OnlyRacesGoStale
PROPERTIES
    CacheHeals
