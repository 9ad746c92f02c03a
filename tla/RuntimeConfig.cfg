SPECIFICATION ConfigSpec
CONSTANTS
    Tenants = {t1, t2}
    Readers = {g1, g2}
    Values <- MCValues
    Masters = {m1, m2}
    MaxWrites = 2
    MaxRestarts = 1
SYMMETRY Symmetry
INVARIANTS
    ResolvedWasInForce
    CachedIsInForce
CHECK_DEADLOCK FALSE
