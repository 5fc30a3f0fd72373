----------------------------- MODULE MCLastUsed -----------------------------
(* LastUsed for TLC: interchangeable validations of one key.               *)
EXTENDS LastUsed, TLC

Symmetry == Permutations(Validations)
=============================================================================
