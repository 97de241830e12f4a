\* A listen the daemon answers with an error frame.
CONSTANTS
    a = a
    b = b
    s = s
    Calls = {}
    Streams = {s}
    NoTask = NoTask
    MaxEvents = 1
    MaxOpens = 1
    LongLines = FALSE
SPECIFICATION FairSpec
PROPERTY StreamErrorsArrive
CHECK_DEADLOCK FALSE
