\* Two commands of any kind, each may spawn a daemon, and one daemon may be killed.
CONSTANTS
    a = a
    b = b
    Clis = {a, b}
    Commands = {"use", "start", "stop", "restart"}
    MaxDaemons = 2
    MaxCrashes = 1
SPECIFICATION FairSpec
INVARIANTS TypeOK NothingLeftBehind SoloReachable
PROPERTY CommandsReturn
CHECK_DEADLOCK FALSE
