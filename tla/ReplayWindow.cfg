SPECIFICATION Spec
CONSTANTS
    Window = 5
    MaxSeq = 12
INVARIANTS
    TypeOK
    BitmapIsHistory
PROPERTIES
    AcceptedOnce
    ImplementsAntiReplay
