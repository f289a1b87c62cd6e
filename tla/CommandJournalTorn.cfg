\* As CommandJournal.cfg, with writes that may stop before their newline.
SPECIFICATION Spec
CONSTANTS
    Keys = {k1, k2}
    Responses = {r1}
    CompactAfter = 3
    TornAppends = TRUE
    MaxSends = 3
    MaxCrashes = 2
INVARIANT NeverReplayed
