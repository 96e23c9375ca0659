\* Both programs may be through.
CHECK_DEADLOCK FALSE
SPECIFICATION Spec
CONSTANTS
    Timeout = 2
    HandshakeTimeout = 2
    Chunk = 2
    MaxReceived = 4
    MaxIterations = 4
    ShortFlight = 2
    LongFlight = 5
INVARIANTS
    TypeOK
    CallsEndClean
    PeersAgree
PROPERTY EveryCallReturns
