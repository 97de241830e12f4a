CONSTANTS
    daemon = daemon
    lamp = lamp
    plug = plug
    a = a
    b = b
    Procs = {daemon}
    Devices = {lamp, plug}
    NamesFor <- MCNamesFor
    NoAlias = NoAlias
    Missing = Missing
    MaxKeys = 3
    MaxImports = 1
    MaxFaults = 2
    MaxEvents = 4
SPECIFICATION Spec
INVARIANTS TypeOK    
