SPECIFICATION Spec
CONSTANTS
    Turns = {t1, t2}
    ReviewTurns = {}
    TextTurns = {t1, t2}
    NoticeIds = {}
    Children = {}
    Callers = {c1, c2}
    Drains = {d1, d2}
    NoTurn = NoTurn
    HasHistory = TRUE
    SteerTries = 2
    SteerMayTimeOut = FALSE
    StoreMayFail = FALSE
    Ops = {"enqueue", "submit", "cancel", "edit", "promote", "stop"}
SYMMETRY FullSymmetry
CHECK_DEADLOCK FALSE
INVARIANT TypeOK
INVARIANT SingleDrain
INVARIANT SettledIsIdle
INVARIANT NoStrandedQueue
INVARIANT NoTurnLost
PROPERTY ImplementsLedger
