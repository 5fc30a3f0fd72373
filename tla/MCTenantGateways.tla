-------------------------- MODULE MCTenantGateways --------------------------
(* TenantGateways for TLC: interchangeable gateways.                       *)
EXTENDS TenantGateways, TLC

Symmetry == Permutations(Gateways)
=============================================================================
