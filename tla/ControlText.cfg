\* A text or a message may end anywhere.
CHECK_DEADLOCK FALSE
SPECIFICATION Spec
CONSTANTS
    MaxDepth = 4
    MaxObjectMembers = 2
    MaxMessageMembers = 3
    MaxArrayElements = 1
    MaxTokens = 11
    MaxStringBytes = 6
    MaxNumber = 255
    MaxU32 = 99999
    MaxU16 = 65535
    MaxEdits = 2
INVARIANTS
    TypeOK
    VerdictMatchesGrammar
    ScalarsReadExactly
    BothProgramsUnderstood
    SchemasAreClosed
PROPERTY InfoSaysWhatWasSaid
