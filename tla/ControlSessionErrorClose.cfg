SPECIFICATION Spec
CONSTANTS
    MaxU32 = 7
    FirstStreamId <- MCFirstStreamId
    FirstKeyEpoch = 1
    SessionIds = {own, other}
    SessionId = own
    Ports = {p1, p2}
    StreamParams = {pcm30, pcm60}
    Timestamps = {t1, t2}
    None = None
    MaxActions = 11
INVARIANT ClosedHoldsNoStream
CHECK_DEADLOCK FALSE
