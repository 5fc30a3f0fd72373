--------------------------- MODULE MCGatewayAuth ---------------------------
(* GatewayAuth for TLC.  One key and one model: caches of different keys   *)
(* and models never share an entry, and a listing request already gives    *)
(* auth-valid and the validation it depends on different ages.             *)
EXTENDS GatewayAuth
=============================================================================
