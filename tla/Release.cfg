SPECIFICATION Spec
CONSTANTS
    Turns = {t1}
    ReviewTurns = {t1}
    TextTurns = {}
    NoticeIds = {n1}
    Children = {k1}
    Callers = {c1, c2}
    Drains = {d1, d2}
    NoTurn = NoTurn
    HasHistory = TRUE
    SteerTries = 2
    SteerMayTimeOut = FALSE
    StoreMayFail = FALSE
    Ops = {"enqueue", "cancel", "stop", "release", "notice", "promoteNotice"}
SYMMETRY FullSymmetry
CHECK_DEADLOCK FALSE
INVARIANT ReviewNeverStranded
INVARIANT ReleaseLeavesNoLiveTurn
