--------------------------- MODULE MCAuthPolicies ---------------------------
(* AuthPolicies for TLC.                                                   *)
EXTENDS AuthPolicies

=============================================================================
