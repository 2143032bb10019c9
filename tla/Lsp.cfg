SPECIFICATION Spec
CONSTANTS
    Servers = {s1, s2}
    Callers = {p1, p2}
    None = None
    MaxRestarts = 1
    Ops = {"request", "restart", "poll", "crash", "mute", "refuse", "dependency", "idle", "stop", "watch"}
    Prompt = TRUE
SYMMETRY Symmetry
INVARIANT ShownServerWatched
INVARIANT RetryPromised
INVARIANT RequestsAfterInit
PROPERTY SpawnsClean
