SPECIFICATION FairSpec
CONSTANTS
    p1 = p1
    p2 = p2
    housekeeping = housekeeping
    NoProc = NoProc
    Procs = {p1, p2}
    Jobs = {housekeeping}
    Housekeeping = housekeeping
    HealthInterval = 2
    StaleAfter = 2
    BackoffBase = 1
    BackoffCap = 2
    ExitOnLoss = {p1}
    Faults = {"crash", "link", "db"}
    MaxFaults = 2
INVARIANTS RunsUnderLock
PROPERTIES  OpenRowsClose 
