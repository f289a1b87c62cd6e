------------------------ MODULE MCSupervisorOwnership ------------------------
EXTENDS SupervisorOwnership, TLC

\* Supervisors and inodes are interchangeable.
Symmetry == Permutations(Supervisors) \cup Permutations(Updaters) \cup Permutations(Stamps)
==============================================================================
