SPECIFICATION Spec
CONSTANTS
    MaxU32 = 7
    FirstStreamId <- MCFirstStreamId
    FirstKeyEpoch <- MCFirstKeyEpoch
    SessionIds = {own, other}
    SessionId = own
    Ports = {p1, p2}
    StreamParams = {pcm30, pcm60}
    Timestamps = {t1, t2}
    None = None
    MaxActions = 11
SYMMETRY Symmetry
INVARIANTS
    TypeOK
    ProvenPathIsCurrent
    CountersTellHistory
    IInv
PROPERTIES
    ClosedIsFinal
    RetriesAreIdempotent
    ImplementsKeySchedule
CHECK_DEADLOCK FALSE
