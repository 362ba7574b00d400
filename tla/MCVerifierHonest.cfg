SPECIFICATION VerifierSpec
CONSTANTS
    Tenants = {t1}
    Recs = {a, b}
    Runs = {ticker}
    Ticker = ticker
    Notaries <- TwoNotaries
    WindowMax = 2
    QueryLimit = 3
    MaxLog = 3
    MaxFaults = 0
    LatePuts = FALSE
    None = None
INVARIANTS HonestVerifies NaiveChangeCaught SweepReportsOnlyNewEntries
