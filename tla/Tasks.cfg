SPECIFICATION FairSpec
CONSTANTS
    Commands = {c1}
    Subagents = {}
    WithFile = {c1}
    Background = {}
    Cap = 2
    UnverifiedHold = 1
    CommandStale = 2
    SubagentStale = 1
    Expiry = 1
    Grace = 1
    ProbeFirst = 1
    ProbeInterval = 1
    MaxEvents = 2
    MaxConnects = 1
    MaxOpens = 0
    Ops = {"chatter", "touch", "read", "look", "pause", "release"}
    Prompt = TRUE
INVARIANT HoldCurrent
PROPERTY NoHoldForever
CHECK_DEADLOCK FALSE
