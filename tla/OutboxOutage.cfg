SPECIFICATION FairSpec
CONSTANTS
    Rows = {r1, r2}
    Poison = {}
    Limit = 2
    BypassRls = TRUE
    FaultKinds = {"broker"}
    MaxFaults = 1
PROPERTIES
    ZeroLoss
CHECK_DEADLOCK FALSE
