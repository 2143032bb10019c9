SPECIFICATION Spec
CONSTANTS
    Commands = {}
    Subagents = {s1}
    WithFile = {}
    Background = {}
    Cap = 2
    UnverifiedHold = 1
    CommandStale = 2
    SubagentStale = 1
    Expiry = 1
    Grace = 1
    ProbeFirst = 1
    ProbeInterval = 1
    MaxEvents = 4
    MaxConnects = 1
    MaxOpens = 1
    Ops = {"resume", "exit"}
    Prompt = TRUE
INVARIANT TrayCurrent
INVARIANT RebuildAgrees
CHECK_DEADLOCK FALSE
