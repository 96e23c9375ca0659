SPECIFICATION Spec
CONSTANTS
    Words = 3
    WordBits = 3
    MaxSeq = 13
PROPERTY
    ImplementsReplayWindow
