SPECIFICATION Spec
CONSTANTS
    Boots = {b1, b2}
    MayAbort = {b1, b2}
    Permits = 1
INVARIANTS NoPermitLeaks
CHECK_DEADLOCK FALSE
