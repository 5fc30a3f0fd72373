---------------------------- MODULE MCSelection -----------------------------
(* Selection for TLC: interchangeable subscriptions; names of models.      *)
EXTENDS Selection, TLC

CONSTANTS m1, m2, n1, n2
DistinctNames == m1 :> n1 @@ m2 :> n2
Symmetry == Permutations(Subs)
=============================================================================
