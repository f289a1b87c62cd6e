\* Two processes, one of which sweeps; a lease that may be left from before, a
\* crash, the code's three attempts and file operations that fail.
SPECIFICATION FairSpec
CONSTANTS
    Procs = {p1, p2}
    Stamps = {s1, s2}
    Sweepers = {p1}
    None = None
    Ghost = Ghost
    Attempts = 3
    MaxMishaps = 2
INVARIANTS TypeOK LeaseExclusive FailsOnlyHindered
PROPERTIES DeadLeaseGoes
