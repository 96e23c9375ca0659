SPECIFICATION Spec
CONSTANTS
    Packets = 4
    MaxFaults = 3
    MaxPayload = 1420
INVARIANTS
    NonceUsedOnce
    SessionNeverRefuses
    AudioOnProvenPath
    PlaysInOrder
PROPERTIES
    BothEnd
    CleanRunSucceeds
