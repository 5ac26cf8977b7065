SPECIFICATION FairSpec
CONSTANTS
    Devices = {door}
    Door = door
    Sensors = {1}
    Wires = {"dry", "wet"}
    Volts = {}
    TestPins = {0, 1}
INVARIANTS TypeOK LockedShut SelfTestSound
PROPERTIES PauseEnds OutputRestored LearnEnds WaterShuts
