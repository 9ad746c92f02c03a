SPECIFICATION FairSpec
CONSTANTS
    MaxEntries = 5
    MaxLen = 3
    Batch = 2
    FaultKinds = {"crash", "group", "pending", "read", "ack"}
    MaxFaults = 3
INVARIANTS
    TypeOK
    NothingSlips
    PelFitsOneBatch
PROPERTIES
    NeverRehandled
    OwedIsHandled
    ImplementsAtLeastOnce
CHECK_DEADLOCK FALSE
