CONSTANTS
    c1 = c1
    c2 = c2
    c3 = c3
    light = light
    Conns = {c1}
    Keys = {light}
    NoKey = NoKey
    Methods = {"listen", "cancel"}
    MaxRequests = 1
    MaxFrames = 2
    StopCauses = {"idle"}
    IdleTimeout = 1
    PollCap = 1
SPECIFICATION FairSpec
PROPERTY IdleStops
CHECK_DEADLOCK FALSE
