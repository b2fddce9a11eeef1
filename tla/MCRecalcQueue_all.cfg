SPECIFICATION FairSpec
CONSTANTS
    d1 = d1
    d2 = d2
    m1 = m1
    m2 = m2
    Matters = {m1, m2}
    Deleted = {m2}
    Drains = {d1, d2}
    NoToken = NoToken
    MaxAttempts = 2
    LockTimeout = 1
    BackoffBase = 1
    BackoffCap = 1
    BatchSize = 2
    Timely = FALSE
    Faults = {"crash", "db", "enqueue"}
    MaxFaults = 1
    MaxChanges = 2
PROPERTIES RemovalCoversSeen ForeignLocksStay CacheForward RowsSettle
