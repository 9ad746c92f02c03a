SPECIFICATION Spec
CONSTANTS
    Calls = {k1, k2}
    Ping = ping
    MaxDials = 2
    Capacity = 2
    FaultKinds = {"server", "cut", "stall"}
    MaxFaults = 2
SYMMETRY CallSymmetry
INVARIANTS
    TypeOK
    WaitingIsRegistered
    ExecutedAtMostOnce
    NoOrphanPending
CHECK_DEADLOCK FALSE
