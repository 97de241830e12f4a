CONSTANTS
    single = single
    second = second
    bridge = bridge
    light = light
    sensor = sensor
    lamp = lamp
    hub = hub
    Words = {light, sensor, lamp, hub, NoDomain}
    Devices = {single, second, bridge}
    ServicesOf <- MCServicesOf
    NoDomain = NoDomain
    Names <- MCNames
    NoName = NoName
    Nowhere = Nowhere
    Sections <- MCSections
    MaxSections = 2
SPECIFICATION Spec
INVARIANTS TypeOK IdsLeadBack
PROPERTY PairingKeepsIds
