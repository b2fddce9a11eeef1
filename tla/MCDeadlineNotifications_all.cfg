SPECIFICATION Spec
CONSTANTS
    k1 = k1
    k2 = k2
    a1 = a1
    Dockets = {k1}
    Annuities = {a1}
    Movable = {k1}
    NoRecipient = {k1, a1}
    Reminders = {1}
    Programs = {"daily", "retry"}
    Lookback = 1
    BatchSize = 2
    LastDay = 2
    MaxChanges = 1
    Faults = {"crash", "item", "check", "ack"}
    MaxFaults = 1
INVARIANTS  AtMostOnce DailyCovers
