SPECIFICATION FairSpec
CONSTANTS
    Turns = {t1}
    ReviewTurns = {}
    TextTurns = {}
    NoticeIds = {n1}
    Children = {k1}
    Callers = {c1, c2}
    Drains = {d1, d2}
    NoTurn = NoTurn
    HasHistory = TRUE
    SteerTries = 2
    SteerMayTimeOut = FALSE
    StoreMayFail = FALSE
    Ops = {"enqueue", "notice", "release"}
CHECK_DEADLOCK FALSE
PROPERTY QueuedTurnLeaves
PROPERTY ReleaseUnwinds
