SPECIFICATION TableSpec
CONSTANTS
    Slavers = {s1, s2}
    Doors = {o1, o2}
    Gateways = {g1, g2}
    MaxSlot = 3
INVARIANTS SensorNotGateway
