\* Every caller may be done or gone for good.
CHECK_DEADLOCK FALSE
SPECIFICATION Spec
CONSTANTS
    None = None
    Bad = Bad
    Callers = {c1, c2, c3}
    MaxCalls = 3
    MaxTime = 1
    Validity = 1
    Permissions = {connect, audio}
INVARIANTS
    TypeOK
    IdentityCallsAgree
    RevocationIsKept
SYMMETRY CallerSymmetry
PROPERTY SettledIdentityStays
