SPECIFICATION FairSpec
CONSTANTS
    Tenants = {t1, t2}
    Recs = {a}
    Runs = {ticker}
    Ticker = ticker
    Notaries <- OneNotary
    WindowMax = 2
    QueryLimit = 3
    MaxLog = 4
    MaxFaults = 1
    LatePuts = FALSE
    None = None
INVARIANTS TypeOK ResumePointCovered WormMatchesLog ProofAttestsRecord
PROPERTIES ImplementsMemStore EventuallyAnchored
