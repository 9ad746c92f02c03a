SPECIFICATION FairSpec
CONSTANTS
    Calls = {k1}
    Ping = ping
    MaxDials = 3
    Capacity = 1
    FaultKinds = {"server", "cut", "stall"}
    MaxFaults = 2
PROPERTIES
    CallReturns
    SilenceIsDetected
CHECK_DEADLOCK FALSE
