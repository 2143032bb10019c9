SPECIFICATION Spec
CONSTANTS
    Drains = {d1, d2}
    Callers = {c1, c2}
    Spawned = {r1}
    Timer = Timer
    Follower = Follower
    NoTask = NoTask
    MaxQueue = 1
    Ops = {"send", "withdraw", "release", "notice", "content", "restart"}
SYMMETRY Symmetry
CHECK_DEADLOCK FALSE
INVARIANT TypeOK
INVARIANT RunningTurnShown
INVARIANT LastIsStored
INVARIANT WindowHasTimer
INVARIANT DoneAtLast
