SPECIFICATION Spec
CONSTANTS
    w1 = w1
    w2 = w2
    j1 = j1
    j2 = j2
    NoKey = NoKey
    NoWorker = NoWorker
    Jobs = {j1, j2}
    Workers = {w1, w2}
    Producers = {"p1"}
    Admins = {}
    Requests <- MCKeyed
    QueueRank <- MCQueueRank
    HostOf <- MCOwnHosts
    MaxAttempts = 2
    MaxBackoff = 1
    LockTTL = 4
    MinBeat = 1
    WorkerInterval = 4
    Timely = TRUE
    Latency = 1
    Faults = {"crash", "db"}
    MaxFaults = 1
    MaxStarts = 1
    ClaimBound = 4
SYMMETRY Symmetry
INVARIANTS
    
    RunningIsRecoverable

    
