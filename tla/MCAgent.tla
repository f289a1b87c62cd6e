------------------------------- MODULE MCAgent -------------------------------
(* Messages are interchangeable: Agent tells them apart by their lane only. *)
EXTENDS Agent, TLC

Symmetry == Permutations(Messages)
==============================================================================
