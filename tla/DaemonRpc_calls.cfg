\* Two calls and a stream on a client that connects twice.
CONSTANTS
    a = a
    b = b
    s = s
    Calls = {a, b}
    Streams = {s}
    NoTask = NoTask
    MaxEvents = 1
    MaxOpens = 2
    LongLines = TRUE
SPECIFICATION FairSpec
INVARIANTS TypeOK OwnReply 
PROPERTIES CallsReturn StreamsHearClose
CHECK_DEADLOCK FALSE
