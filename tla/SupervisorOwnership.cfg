\* Two supervisors, one updater, two inodes, and one crash.
SPECIFICATION Spec
CONSTANTS
    Procs = {p1, p2, u1}
    Supervisors = {p1, p2}
    Updaters = {u1}
    Stamps = {i1, i2}
    None = None
    Ghost = Ghost
    MaxCrashes = 1
SYMMETRY Symmetry
INVARIANTS TypeOK SingleOwner
PROPERTIES AdmissionHonoured AdmissionKept
