SPECIFICATION Spec
CONSTANTS
    Tenants = {t1}
    Recs = {a, b}
    Runs = {ticker, http}
    Ticker = ticker
    Notaries <- NoNotary
    WindowMax = 2
    QueryLimit = 2
    MaxLog = 2
    MaxFaults = 1
    LatePuts = TRUE
    None = None
SYMMETRY Symmetry
INVARIANTS ResumePointCovered WormMatchesLog VerifyBinds
