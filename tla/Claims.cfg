SPECIFICATION Spec
CONSTANTS
    Rows = {r1}
    Comments = {c1}
    Sessions = {s1}
    Started = {s1}
    Jobs = {k1, k2}
    Callers = {p1, p2}
    Poller = Poller
    None = None
    MaxCalls = 4
    MaxCrashes = 0
    Ops = {"create", "send", "sendNow", "cancel", "retry", "dismiss", "discard", "toggle", "delete", "broken", "withdraw"}
SYMMETRY Symmetry
INVARIANTS
    MessageOnce
    ClaimHasOwner
    PastesAsOwner
CHECK_DEADLOCK FALSE
