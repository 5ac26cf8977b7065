SPECIFICATION Spec
CONSTANTS
    Devices = {d1, door}
    Door = door
    Sensors = {}
    Wires = {"dry", "wet", "lost"}
    Volts = {"below", "above"}
    TestPins = {0}
INVARIANTS AlarmShut ThawKeepsLock ScanArmed
PROPERTIES NoDowngrade SlaveAlarmStored ImplementsInterlock ImplementsTable
