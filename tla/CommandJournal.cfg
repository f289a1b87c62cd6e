\* Two commands, so that appends of one meet the state of the other; a journal
\* that compacts from its third record on; one resend and one crash each.
SPECIFICATION Spec
CONSTANTS
    Keys = {k1, k2}
    Responses = {r1}
    CompactAfter = 3
    TornAppends = FALSE
    MaxSends = 2
    MaxCrashes = 1
SYMMETRY Symmetry
INVARIANTS TypeOK NeverReplayed AnswersAreResults DiskCoversMemory
           
PROPERTIES RecordedStaysRecorded OnceSpec
