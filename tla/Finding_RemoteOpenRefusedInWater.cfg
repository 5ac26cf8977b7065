SPECIFICATION Spec
CONSTANTS
    Devices = {d1, door}
    Door = door
    Sensors = {}
    Wires = {"dry", "wet", "lost"}
    Volts = {}
    TestPins = {0}
PROPERTY RemoteOpenRefusedInWater
