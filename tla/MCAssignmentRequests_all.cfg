SPECIFICATION FairSpec
CONSTANTS
    u1 = u1
    u2 = u2
    s1 = s1
    s2 = s2
    Sessions = {s1, s2}
    Users = {u1, u2}
    NoUser = NoUser
    NoSession = NoSession
    MaxReqs = 2
    Kinds = {"assign", "edit"}
    Statuses = {"completed"}
INVARIANTS AtMostOnePending RejectionTakesEffect PendingIsCurrent
PROPERTIES TransactionsEnd
