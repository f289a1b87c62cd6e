-------------------------- MODULE MCCommandJournal --------------------------
(* Instances of CommandJournal for TLC.                                    *)
EXTENDS CommandJournal, TLC

\* The keys are interchangeable: no action names one.
Symmetry == Permutations(Keys)
=============================================================================
