SPECIFICATION FairSpec
CONSTANTS
    QLen = 2
    MaxFrames = 3
INVARIANTS TypeOK HoldBounded QueueOrder RecoveryArmed
PROPERTIES ListensAgain
