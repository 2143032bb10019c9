SPECIFICATION Spec
CONSTANTS
    Turns = {t1}
    ReviewTurns = {t1}
    TextTurns = {}
    NoticeIds = {n1}
    Children = {k1, k2}
    Callers = {c1, c2}
    Drains = {d1, d2}
    NoTurn = NoTurn
    HasHistory = TRUE
    SteerTries = 2
    SteerMayTimeOut = FALSE
    StoreMayFail = TRUE
    Ops = {"enqueue", "stop", "notice", "prune", "dismiss"}
SYMMETRY FullSymmetry
CHECK_DEADLOCK FALSE
INVARIANT NoticeNotForgotten
INVARIANT NotBothPanelAndAgent
PROPERTY NoNoticeRightAfterStop
PROPERTY DismissSparesHumans
