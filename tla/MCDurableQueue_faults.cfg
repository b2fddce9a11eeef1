SPECIFICATION Spec
CONSTANTS
    w1 = w1
    w2 = w2
    j1 = j1
    j2 = j2
    NoKey = NoKey
    NoWorker = NoWorker
    Jobs = {j1, j2}
    Workers = {w1, w2}
    Producers = {"p1", "p2"}
    Admins = {"a1"}
    Requests <- MCOneKey
    QueueRank <- MCQueueRank
    HostOf <- MCSharedHost
    MaxAttempts = 2
    MaxBackoff = 0
    LockTTL = 1
    MinBeat = 1
    WorkerInterval = 4
    Timely = TRUE
    Latency = 1
    Faults = {"crash", "db", "admin"}
    MaxFaults = 1
    MaxStarts = 1
    ClaimBound = 2
SYMMETRY FullSymmetry
INVARIANTS
    SucceededMeansReturned
    FailedMeansExhausted
    OneActivePerKey
