SPECIFICATION FairSpec
CONSTANTS
    Boots = {b1, b2, b3, b4}
    MayAbort = {b1, b2, b3, b4}
    Permits = 2
INVARIANTS TypeOK BoundedConcurrency GrantedOnce
PROPERTIES AbortedSettles
CHECK_DEADLOCK FALSE
