---------------------------- MODULE KeyLifecycle ----------------------------
(***************************************************************************)
(* What maas-api promises about the life of an API key (api_keys/types.go):*)
(* a key is active once it is stored, leaves that status once, for revoked *)
(* or for expired, and a key that is gone does not come back.              *)
(***************************************************************************)
CONSTANT Keys

VARIABLE life

Stages == {"unborn", "active", "revoked", "expired", "gone"}

TypeOK == life \in [Keys -> Stages]

\* Keys stored before the service starts are active.
Init == life \in [Keys -> {"unborn", "active"}]

\* Every key of S that is at stage `from' moves to stage `to'.
Move(S, from, to) ==
    /\ \A k \in S : life[k] \in from
    /\ life' = [k \in Keys |-> IF k \in S THEN to ELSE life[k]]

Store(k) == Move({k}, {"unborn"}, "active")
Revoke(S) == Move(S, {"active"}, "revoked")
Expire(k) == Move({k}, {"active"}, "expired")

\* The row is deleted, or the key is given up before it is stored.
Purge(S) == Move(S, Stages \ {"gone"}, "gone")

Next ==
    \/ \E k \in Keys : Store(k) \/ Expire(k)
    \/ \E S \in SUBSET Keys : Revoke(S) \/ Purge(S)

Spec == Init /\ [][Next]_life
=============================================================================
