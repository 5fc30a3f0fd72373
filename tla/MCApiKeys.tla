----------------------------- MODULE MCApiKeys -----------------------------
(* ApiKeys for TLC: interchangeable keys and slots.                        *)
EXTENDS ApiKeys, TLC

Symmetry == Permutations(Requests)
=============================================================================
