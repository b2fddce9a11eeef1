SPECIFICATION Spec
CONSTANTS
    a1 = a1
    a2 = a2
    Entities = {"e1"}
    Admins = {a1, a2}
    MaxVersion = 2
    MaxLogs = 3
    Faults = {"archive", "remove", "stop"}
    MaxFaults = 1
SYMMETRY Symmetry
CHECK_DEADLOCK FALSE
INVARIANTS  RestoredOnce
PROPERTY EditsSurvive
