SPECIFICATION Spec
CONSTANTS
    Tenants = {t1, t2}
    Requests = {r1, r2, r3}
    MaxBatch = 2
    AmbiguousAppend = TRUE
    None = None
SYMMETRY Symmetry
INVARIANTS TypeOK ChainRooted AckedStored AckedDisjoint Inv
