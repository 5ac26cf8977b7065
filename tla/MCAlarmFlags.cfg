SPECIFICATION Spec
CONSTANTS
    Slavers = {s1}
    Doors = {o1, o2}
    Gateways = {g1}
    MaxSlot = 2
INVARIANTS TableTypeOK
PROPERTIES OneSlotKept OneDoorKept SlotsImplementTable
