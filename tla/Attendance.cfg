SPECIFICATION Spec
CONSTANTS
    a1 = a1
    None = None
    Sessions = {s1, s2}
    Cards = {1, 2, 3}
    Agents = {a1, a2}
    Moves = {1, 2, 3}
    Messages = {1}
    Contacts = {1}
    Names = {"n1"}
    OldCards = {1, 2}
    OldAgents = {a1}
    Busy <- MCBusy
    Statuses = {"fila", "cancelado"}
    Simultaneos = 1
    Second = 3
    MaxTime = 3
    MaxWrites = 3
SYMMETRY SessionSymmetry
INVARIANTS
    AttendanceTypeOK
    LimitUpToSessions
    ClosedHasEnd
    TimeCountedOnce
PROPERTIES
    NothingUndone
CHECK_DEADLOCK FALSE
