SPECIFICATION FairSpec
CONSTANTS
    Contents = {"c1"}
    Requests = {"r1", "r2"}
    Workers = {"w1"}
    Sweep = "sweep"
    FailOpen = FALSE
    MaxIds = 2
    MaxAttempts = 2
    Faults = {"crash", "savepoint", "scanner", "worker", "overlap", "io"}
    MaxFaults = 1
CHECK_DEADLOCK FALSE
INVARIANTS LinkedHasFile  PendingIsQueued InfectedIsBlocked
PROPERTIES  ScanSettles
