CONSTANTS
    c1 = c1
    c2 = c2
    c3 = c3
    light = light
    Conns = {c1, c2, c3}
    Keys = {light}
    NoKey = NoKey
    Methods = {"call", "listen", "cancel", "ping", "unknown", "garbage"}
    MaxRequests = 2
    MaxFrames = 4
    StopCauses = {}
    IdleTimeout = 1
    PollCap = 1
SPECIFICATION Spec
SYMMETRY ConnSymmetry
INVARIANTS ActiveCounts AnsweredOnce
PROPERTY LocksRefine
CHECK_DEADLOCK FALSE
