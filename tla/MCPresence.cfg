SPECIFICATION Spec
CONSTANTS
    Slavers = {s1}
    Doors = {o1}
    Gateways = {}
    MaxSlot = 2
    Cap = 2
INVARIANTS TypeOK DetectedInTime
PROPERTIES MarkedOnlyIfSilent OfflineJustified
