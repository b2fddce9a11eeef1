SPECIFICATION FairSpec
CONSTANTS
    d1 = d1
    d2 = d2
    Matters = {1}
    Drains = {d1, d2}
    NoToken = NoToken
    MaxAttempts = 2
    LockTimeout = 1
    BackoffBase = 1
    BackoffCap = 1
    Timely = FALSE
    Faults = {"crash", "db"}
    MaxFaults = 1
    MaxChanges = 2
INVARIANTS TornIsKnown
PROPERTIES FlowsForward RowsSettle  ExhaustedStaysHeld
