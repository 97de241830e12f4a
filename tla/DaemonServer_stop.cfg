CONSTANTS
    c1 = c1
    c2 = c2
    c3 = c3
    light = light
    Conns = {c1, c2}
    Keys = {light}
    NoKey = NoKey
    Methods = {"shutdown", "call"}
    MaxRequests = 1
    MaxFrames = 2
    StopCauses = {"idle", "signal"}
    IdleTimeout = 2
    PollCap = 1
SPECIFICATION FairSpec
INVARIANTS TypeOK  ExitIsClean
PROPERTIES IdleStopIsQuiet IdleStops  RequestsAnswered
CHECK_DEADLOCK FALSE
