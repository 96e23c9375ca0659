SPECIFICATION EpochSpec
CONSTANTS
    MaxEpoch = 4
    MaxTime = 9
    Grace = 3
INVARIANTS
    EpochIInv
    GraceIsExact
PROPERTY EpochsRetireForGood
CHECK_DEADLOCK FALSE
