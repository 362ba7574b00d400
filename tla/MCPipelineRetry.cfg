SPECIFICATION PipelineSpec
CONSTANTS
    Tenants = {t1}
    Requests = {r1, r2, r3}
    MaxBatch = 2
    AmbiguousAppend = TRUE
    Notaries <- OneNotary
    WindowMax = 2
    QueryLimit = 3
    MaxBuilds = 3
    None = None
SYMMETRY Symmetry
INVARIANTS AckedCommitted
