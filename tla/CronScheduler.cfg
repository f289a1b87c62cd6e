\* A heartbeat and a one-shot job, each in a session and a file of its own; files that
\* may fail, two overlapping batches and one exit.
SPECIFICATION Spec
CONSTANTS
    h = h  o = o  s1 = s1  s2 = s2
    Jobs = {h, o}
    Sessions = {s1, s2}
    Home <- OwnSessions
    Recurring = {h}
    Batches = {b1, b2}
    None = None
    Period = 1
    MaxTime = 1
    MaxExits = 1
    Kinds = {"create"}
    StoreFails = TRUE
SYMMETRY Symmetry
INVARIANTS TypeOK TickOnce TimerCoversJobs
CHECK_DEADLOCK FALSE
