\* One heartbeat over three instants, so that its ticks overlap: every step of an edit
\* and of a recovery interleaved with the timer and two batches.
SPECIFICATION FairSpec
CONSTANTS
    h = h  o = o  s1 = s1  s2 = s2
    Jobs = {h}
    Sessions = {s1}
    Home <- OneSession
    Recurring = {h}
    Batches = {b1, b2}
    None = None
    Period = 1
    MaxTime = 2
    MaxExits = 1
    Kinds = {"create", "pause", "resume"}
    StoreFails = FALSE
INVARIANTS NoOrphanClaim OneRunPerJob
PROPERTIES DueIsServed ClaimsEnd
CHECK_DEADLOCK FALSE
