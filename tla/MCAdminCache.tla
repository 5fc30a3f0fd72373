---------------------------- MODULE MCAdminCache ----------------------------
(* AdminCache for TLC: interchangeable users and calls.                    *)
EXTENDS AdminCache, TLC

Symmetry == Permutations(Users) \cup Permutations(Calls)
=============================================================================
