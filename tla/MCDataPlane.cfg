SPECIFICATION DataSpec
CONSTANTS
    Tenants = {t1, t2}
    Keys = {k1, k2}
    Recs = {a, b}
    Requests = {r1, r2, r3}
    Queries <- MCQueries
    MaxLimit = 2
    DefaultLimit = 1
    None = None
SYMMETRY Symmetry
INVARIANTS DataTypeOK TenantIsolation ReadYourWrites DeadKeyRefused KeyHasTenant
