\* One command starts a daemon, another restarts it.
CONSTANTS
    a = a
    b = b
    Clis = {a, b}
    Commands = {"start", "restart"}
    MaxDaemons = 2
    MaxCrashes = 0
SPECIFICATION Spec
INVARIANT ServingIsReachable
CHECK_DEADLOCK FALSE
