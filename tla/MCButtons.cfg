SPECIFICATION FairSpec
CONSTANTS
    BUTTON_LONG_TIME = 2
    BUTTON_LONG_CYCLE = 2
    BUTTON_DOUBLE_TIME = 1
    LongMax = 4
    LongCount = 2
    HeldMax = 7
    MaxLag = 1
INVARIANTS
    TypeOK
    CountsThisHold
PROPERTIES
    EraseNeedsBothHeld
    ClickIsShort
    OffAnswered
    HoldAnswered
