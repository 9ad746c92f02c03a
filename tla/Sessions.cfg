SPECIFICATION SessionsSpec
CONSTANTS
    Workers = {w1, w2}
    Tokens = {t1, t2}
    Families = {f}
    family_id <- MCFamily
    Ttl = 2
    MaxTime = 2
    MaxFaults = 1
    Logins = {t1}
    Users = {u}
    Passwords = {p1, p2}
    email <- MCEmail
SYMMETRY Symmetry
INVARIANTS
    TypeOK
    UsesUpToRequests
    RevokedIsUnusable
    StoredKnewPassword
    UsableIsRevocable
CHECK_DEADLOCK FALSE
