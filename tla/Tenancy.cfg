SPECIFICATION Spec
CONSTANTS
    Conns = {c1, c2}
    Clients = {r1, r2}
    Slugs <- MCSlugs
    Ids <- MCIds
    Users = {u}
    Invites = {i}
    Payments = {p}
    slug <- MCSlug
    Owner <- MCOwner
    MaxCalls = 2
    MaxTx = 2
    MaxStatements = 2
    MaxFaults = 1
    Grants <- MCGrants
SYMMETRY Symmetry
INVARIANTS
    TenantsAreIsolated
    AnswersAreTrue
    ErrorsKeepTheirCode
CHECK_DEADLOCK FALSE
