SPECIFICATION FairSpec
CONSTANTS
    Rows = {r1, r2, bad}
    Poison = {bad}
    Limit = 2
    BypassRls = TRUE
    FaultKinds = {"crash", "broker", "db", "listener"}
    MaxFaults = 2
INVARIANTS
    TypeOK
    CausalOrder
PROPERTIES
    NeverRepublished
    EventuallyPublished
    NotificationResumes
    ImplementsAtLeastOnce
CHECK_DEADLOCK FALSE
