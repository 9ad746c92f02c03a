SPECIFICATION AuditFairSpec
CONSTANTS
    t = t
    System = System
    Tenants = {t}
    TenantOf <- MCTenantOf
    Attempts = {2}
    BypassRls = TRUE
    Limit = 1
    MaxEntries = 3
    MaxLen = 2
    Batch = 2
    FaultKinds = {"crash", "group", "pending", "read", "ack", "xadd", "producer", "db"}
    MaxFaults = 2
INVARIANTS
    RepeatedByRestartOnly
    ConfirmedIsRecorded
PROPERTIES
    PagesMissNothing
    EventIsRecorded
CHECK_DEADLOCK FALSE
