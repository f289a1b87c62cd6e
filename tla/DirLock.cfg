\* Three contenders for either lock, who may die while they hold or release it and
\* while they have a file set aside.
SPECIFICATION FairSpec
CONSTANTS
    Procs = {p1, p2, p3}
    Ghost = Ghost
    None = None
    Users = {"bootstrap", "launch"}
    CrashPoints = {"verify", "restore", "holding", "removing"}
INVARIANTS TypeOK MutualExclusion HeldLockExists
PROPERTIES StaleLockGoes 
