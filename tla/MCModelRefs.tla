---------------------------- MODULE MCModelRefs -----------------------------
(* ModelRefs for TLC: interchangeable aliases and tenants.                        *)
EXTENDS ModelRefs, TLC

Symmetry == Permutations(Aliases) \cup Permutations(Tenants)
=============================================================================
