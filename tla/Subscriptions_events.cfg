CONSTANTS
    l1 = l1
    l2 = l2
    bridge = bridge
    plug = plug
    light = light
    lamp = lamp
    outlet = outlet
    Listeners = {l1, l2}
    Devices = {bridge, plug}
    Points = {light, lamp, outlet}
    DeviceOf <- MCDeviceOf
    Wishes = {{light, lamp}, {light, outlet}}
    MaxListens = 2
    LastValue <- MCLastValue
    MaxChanges = 2
    MaxFaults = 1
SPECIFICATION FairSpec
INVARIANTS TypeOK NothingMissed LeavesNothing
PROPERTY EventsArrive
CHECK_DEADLOCK FALSE
