SPECIFICATION FairSpec
CONSTANTS
    Items = {"d1", "d2"}
    Requests = {"r1", "r2"}
    Threads = {"t1"}
    Workers = {"w1", "w2"}
    MaxEdits = 2
    MaxAttempts = 2
    Faults = {"savepoint", "pool", "db", "crash", "load", "sync", "worker"}
    MaxFaults = 2
CHECK_DEADLOCK FALSE
 
PROPERTY NeverBackwards 
