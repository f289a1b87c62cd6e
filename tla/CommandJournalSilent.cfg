\* One command, resent once.
SPECIFICATION Spec
CONSTANTS
    Keys = {k1}
    Responses = {r1}
    CompactAfter = 3
    TornAppends = FALSE
    MaxSends = 2
    MaxCrashes = 1
INVARIANT ResentAfterReconnect
