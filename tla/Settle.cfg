SPECIFICATION FairSpec
CONSTANTS
    Rows = {r1}
    Comments = {c1}
    Sessions = {s1, s2}
    Started = {s1}
    Jobs = {k1, k2}
    Callers = {p1}
    Poller = Poller
    None = None
    MaxCalls = 3
    MaxCrashes = 1
    Ops = {"create", "send", "sendNow", "toggle", "discard", "withdraw", "broken", "reset", "timeout"}
INVARIANTS
    HoldHasTurn
PROPERTIES
    RowSettles
    CommentSettles
CHECK_DEADLOCK FALSE
