SPECIFICATION Spec
CONSTANTS
    Rows = {r1, r2}
    Comments = {c1}
    Sessions = {s1}
    Started = {s1}
    Jobs = {k1, k2, k3}
    Callers = {p1, p2}
    Poller = Poller
    None = None
    MaxCalls = 4
    MaxCrashes = 0
    Ops = {"create", "send", "sendNow", "cancel", "broken", "discard"}
SYMMETRY Symmetry
INVARIANTS
    TypeOK
    NoCommentLost
    NoCommentBack
    CommentOnce
    FailedGivesBack
CHECK_DEADLOCK FALSE
