\* Every caller may be done or gone for good.
CHECK_DEADLOCK FALSE
SPECIFICATION Spec
CONSTANTS
    None = None
    Bad = Bad
    Callers = {c1, c2}
    MaxCalls = 2
    MaxTime = 1
    Validity = 1
    Permissions = {connect}
INVARIANT ReturnedIsStored
SYMMETRY CallerSymmetry
