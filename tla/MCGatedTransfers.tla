-------------------------- MODULE MCGatedTransfers --------------------------
(* Instances of GatedTransfers for TLC. *)
EXTENDS GatedTransfers, TLC

Symmetry == Permutations(Callers) \cup Permutations(Stakeholders)
=============================================================================
