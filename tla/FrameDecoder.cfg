SPECIFICATION Spec
CONSTANTS
    Base = 2
    HeaderBytes = 2
    MinPayload = 1
    MaxPayload = 2
    ReadSize = 6
    MaxMessages = 2
INVARIANTS
    TypeOK
    BufferBounded
    NoFalseAlarm
PROPERTIES
    ImplementsMessageChannel
    EveryMessageArrives
CHECK_DEADLOCK FALSE
