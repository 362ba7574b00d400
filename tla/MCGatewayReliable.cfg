SPECIFICATION FairSpec
CONSTANTS
    Tenants = {t1, t2}
    Requests = {r1, r2, r3}
    MaxBatch = 2
    AmbiguousAppend = FALSE
    None = None
INVARIANTS SeqUnique ReliableInv
PROPERTIES ImplementsAppendLog EveryRequestAnswered
