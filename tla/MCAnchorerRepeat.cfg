SPECIFICATION Spec
CONSTANTS
    Tenants = {t1}
    Recs = {a}
    Runs = {ticker}
    Ticker = ticker
    Notaries <- OneNotary
    WindowMax = 2
    QueryLimit = 2
    MaxLog = 2
    MaxFaults = 1
    LatePuts = FALSE
    None = None
INVARIANTS WorkingCopyMatchesWorm
