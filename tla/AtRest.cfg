SPECIFICATION Spec
CONSTANTS
    Drains = {d1, d2}
    Callers = {c1}
    Spawned = {r1}
    Timer = Timer
    Follower = Follower
    NoTask = NoTask
    MaxQueue = 1
    Ops = {"send", "content", "hold"}
SYMMETRY Symmetry
CHECK_DEADLOCK FALSE
INVARIANT StoredHasReason
INVARIANT TurnEndNotForgotten

