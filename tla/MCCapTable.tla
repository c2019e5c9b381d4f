----------------------------- MODULE MCCapTable -----------------------------
(* Instances of CapTable for TLC. *)
EXTENDS CapTable, TLC

Symmetry == Permutations(Callers) \cup Permutations(EntryIds)
=============================================================================
