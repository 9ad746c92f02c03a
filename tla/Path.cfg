SPECIFICATION PathSpec
CONSTANTS
    MaxEntries = 3
    MaxLen = 2
    Batch = 2
    Refused = {2}
    FaultKinds = {"crash", "group", "pending", "read", "ack", "timeout", "db", "postgres"}
    MaxFaults = 3
INVARIANTS
    RepeatedByCrashOnly
    AckedIsStored
    StoredInOrder
CHECK_DEADLOCK FALSE
