SPECIFICATION Spec
CONSTANTS
    Devices = {d1, door}
    Door = door
    Sensors = {1}
    Wires = {"dry", "wet", "lost"}
    Volts = {}
    TestPins = {0}
PROPERTY PassedTestLifts
