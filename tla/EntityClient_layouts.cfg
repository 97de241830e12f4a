CONSTANTS
    t1 = t1
    t2 = t2
    bridge = bridge
    plug = plug
    bulb = bulb
    fan = fan
    heater = heater
    Tasks = {t1, t2}
    Pairings <- MCPairings
    Entities = {bulb, fan, heater}
    HomeOf <- MCHomeOf
    LockKeys <- MCLockKeys
    Slots = {1, 2, 3}
    AidOf <- MCAidOf
    Nobody = Nobody
    LayoutOf <- MCLayoutOf
    NoTask = NoTask
    LastConfig <- MCLastConfig
    LastValue <- MCLastValue
    MaxCalls = 2
    MaxRestarts = 1
SPECIFICATION Spec
SYMMETRY TaskSymmetry
INVARIANTS TypeOK CacheHonest  
CHECK_DEADLOCK FALSE
