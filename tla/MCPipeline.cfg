SPECIFICATION PipelineSpec
CONSTANTS
    Tenants = {t1}
    Requests = {r1, r2}
    MaxBatch = 3
    AmbiguousAppend = TRUE
    Notaries <- OneNotary
    WindowMax = 2
    QueryLimit = 4
    MaxBuilds = 3
    None = None
SYMMETRY Symmetry
INVARIANTS ResumePointCommitted AlarmsExplained
