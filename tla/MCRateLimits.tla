---------------------------- MODULE MCRateLimits ----------------------------
(* RateLimits for TLC: one limit that may be rejected.                     *)
EXTENDS RateLimits, TLC

CONSTANTS s1, m1
OneOverLong == {<<s1, m1>>}
=============================================================================
