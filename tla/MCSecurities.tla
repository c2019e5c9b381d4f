---------------------------- MODULE MCSecurities ----------------------------
(* Instances of Securities for TLC. *)
EXTENDS Securities, TLC

Symmetry == Permutations(Callers) \cup Permutations(Stakeholders)
=============================================================================
