---------------------------- MODULE GatewayAuth ----------------------------
(***************************************************************************)
(* What a gateway's AuthPolicy, as maas-controller writes it, makes of the *)
(* requests that carry an API key: two metadata evaluators that call       *)
(* maas-api (apiKeyValidation, subscription-info), three authorization     *)
(* rules over their answers (auth-valid, subscription-valid,               *)
(* require-group-membership), and a cache in front of each of the five.    *)
(*                                                                         *)
(* The rules, the keys of the caches and their lifetimes are the           *)
(* controller's; that a cache keeps what an evaluator returned until its   *)
(* lifetime has passed, that an evaluator that failed leaves nothing, and  *)
(* that an authorization rule caches only what it allowed, is Authorino's. *)
(*                                                                         *)
(* The question is how long a key or a subscription that was withdrawn is  *)
(* still good for: the caches are stacked, so their lifetimes add up.      *)
(***************************************************************************)
EXTENDS Naturals

CONSTANTS
    Keys,               \* API keys presented to the gateway
    Models,             \* models a request can be routed to
    NoModel,            \* the request names no model, as GET /v1/models
    Never,              \* has not happened
    Nothing,            \* a cache miss; metadata that could not be fetched
    MetadataCacheTTL,   \* --metadata-cache-ttl
    AuthzCacheTTL,      \* --authz-cache-ttl
    MaxTime             \* bound on the clock

\* ValidateCacheTTLs refuses negative lifetimes; zero turns a cache off.
ASSUME TTLAssumption ==
    MetadataCacheTTL \in Nat /\ AuthzCacheTTL \in Nat

ASSUME GatewayConstants ==
    /\ NoModel \notin Models
    /\ Never \notin Nat
    /\ Nothing \notin BOOLEAN
    /\ MaxTime \in Nat

VARIABLES
    now,
    revokedAt,      \* when maas-api recorded the revocation of a key, or Never
    lostAt,         \* when a key's owner lost a model, or Never while she has it
    validations,    \* cache of apiKeyValidation, by key
    infos,          \* cache of subscription-info, by key and model
    authValid,      \* cache of auth-valid, by key and model or NoModel
    subValid,       \* cache of subscription-valid, by key and model
    groupMember,    \* cache of require-group-membership, by key and model
    last            \* the request answered last

truth == <<revokedAt, lostAt>>
caches == <<validations, infos, authValid, subValid, groupMember>>
vars == <<now, truth, caches, last>>

Pairs == Keys \X Models
Targets == Keys \X (Models \cup {NoModel})
Rules == {"auth-valid", "subscription-valid", "require-group-membership"}
Time == 0..MaxTime

\* What the caches hold: the value and the instant it is dropped.
Held(values) == [value : values, until : Nat]

TypeOK ==
    /\ now \in Time
    /\ revokedAt \in [Keys -> Time \cup {Never}]
    /\ lostAt \in [Pairs -> Time \cup {Never}]
    /\ validations \in [Keys -> Held(BOOLEAN) \cup {Nothing}]
    /\ infos \in [Pairs -> Held(BOOLEAN) \cup {Nothing}]
    /\ authValid \in [Targets -> Nat]
    /\ subValid \in [Pairs -> Nat]
    /\ groupMember \in [Pairs -> Nat]
    /\ last \in [key : Keys, model : Models \cup {NoModel}, at : Time,
                 allowed : BOOLEAN]

Init ==
    /\ now = 0
    /\ revokedAt = [k \in Keys |-> Never]
    /\ lostAt \in [Pairs -> {Never, 0}]
    /\ validations = [k \in Keys |-> Nothing]
    /\ infos = [p \in Pairs |-> Nothing]
    /\ authValid = [t \in Targets |-> 0]
    /\ subValid = [p \in Pairs |-> 0]
    /\ groupMember = [p \in Pairs |-> 0]
    /\ last \in [key : Keys, model : {NoModel}, at : {0}, allowed : {FALSE}]

---------------------------------------------------------------------------
(* maas-api's answers, and what the policy reads in them.                  *)

\* An authorization decision never gets a longer life than the metadata's.
UncappedTTL == AuthzCacheTTL
authzCacheTTL ==
    IF AuthzCacheTTL < MetadataCacheTTL THEN AuthzCacheTTL ELSE MetadataCacheTTL

\* POST /internal/v1/api-keys/validate answers 200 with valid true or false.
ValidateAPIKey(k) == revokedAt[k] = Never

\* POST /internal/v1/subscriptions/select: a usable subscription and access to
\* the model, or an answer whose error field says why not.
SelectSubscription(k, m) == lostAt[<<k, m>>] = Never

\* The identity the policy reads in the validation.  An answer with valid
\* false has neither userId nor username nor groups: those fields are omitted
\* when empty.  No validation at all leaves the raw key, which has none either.
IdentityOfAnyAnswer(validation) == validation # Nothing
HasIdentity(validation) == validation = TRUE

\* auth-valid: the key is valid, or there is no validation because the caller
\* used another kind of credential.
AuthValidRego(validation) == validation # FALSE

\* subscription-valid and require-group-membership ask for fields that only a
\* successful selection has.
SubscriptionValidRego(info) == info = TRUE
RequireGroupMembershipRego(info) == info = TRUE

---------------------------------------------------------------------------
(* One request.                                                            *)

\* The answers an evaluator can get: the one maas-api computes, an error
\* object (kept, and read like a refusal), or none.
Answers(computed) == {computed, FALSE, Nothing}

Fresh(entry) == entry # Nothing /\ now < entry.until

EvaluateProlonging(cache, key, computed, value, after) ==
    IF Fresh(cache[key])
    THEN /\ value = cache[key].value
         /\ after = [cache EXCEPT ![key].until = now + MetadataCacheTTL]
    ELSE /\ value \in Answers(computed)
         /\ after = IF value = Nothing THEN cache
                    ELSE [cache EXCEPT ![key] =
                            [value |-> value, until |-> now + MetadataCacheTTL]]

\* The metadata an evaluator hands to the rules, and the cache it leaves.
Evaluate(cache, key, computed, value, after) ==
    IF Fresh(cache[key])
    THEN value = cache[key].value /\ after = cache
    ELSE /\ value \in Answers(computed)
         /\ after = IF value = Nothing THEN cache
                    ELSE [cache EXCEPT ![key] =
                            [value |-> value, until |-> now + MetadataCacheTTL]]

\* A rule allows from its cache or by evaluating its policy.
Allows(cache, key, policy) == now < cache[key] \/ policy

\* What an evaluated rule leaves in its cache.
Remember(cache, key, policy) ==
    IF now < cache[key] \/ ~policy THEN cache
    ELSE [cache EXCEPT ![key] = now + authzCacheTTL]

\* The rules run concurrently and the first refusal cancels the others, so a
\* refused request may leave some of them unevaluated.
Completed(allowing, done) ==
    /\ done \subseteq Rules
    /\ Rules \subseteq allowing => done = Rules
    /\ ~(Rules \subseteq allowing) => ~(done \subseteq allowing)

\* The rules that allow a request to the model of p, given its metadata.  The
\* two that look at the subscription are keyed by the identity found in the
\* validation: without one there is no subscription, and nothing is cached.
Allowing(p, validation, info) ==
    {r \in Rules :
        CASE r = "auth-valid" ->
                Allows(authValid, p, AuthValidRego(validation))
          [] r = "subscription-valid" ->
                /\ HasIdentity(validation)
                /\ Allows(subValid, p, SubscriptionValidRego(info))
          [] r = "require-group-membership" ->
                /\ HasIdentity(validation)
                /\ Allows(groupMember, p, RequireGroupMembershipRego(info))}

\* A request to a model, given its metadata and the rules that ran to the end.
Infer(k, m, validation, info, done) ==
    LET p == <<k, m>>
        identified == HasIdentity(validation)
    IN /\ Evaluate(validations, k, ValidateAPIKey(k), validation, validations')
       /\ IF identified
          THEN Evaluate(infos, p, SelectSubscription(k, m), info, infos')
          ELSE info = Nothing /\ infos' = infos
       /\ Completed(Allowing(p, validation, info), done)
       /\ authValid' = IF "auth-valid" \in done
                       THEN Remember(authValid, p, AuthValidRego(validation))
                       ELSE authValid
       /\ subValid' = IF identified /\ "subscription-valid" \in done
                      THEN Remember(subValid, p, SubscriptionValidRego(info))
                      ELSE subValid
       /\ groupMember' =
             IF identified /\ "require-group-membership" \in done
             THEN Remember(groupMember, p, RequireGroupMembershipRego(info))
             ELSE groupMember
       /\ last' = [key |-> k, model |-> m, at |-> now,
                   allowed |-> Rules \subseteq Allowing(p, validation, info)]
       /\ UNCHANGED <<now, truth>>

InferenceRequest(k, m) ==
    \E validation, info \in BOOLEAN \cup {Nothing}, done \in SUBSET Rules :
        Infer(k, m, validation, info, done)

\* A request that names no model: the subscription rules do not apply.
ListingRequest(k) ==
    \E validation \in BOOLEAN \cup {Nothing} :
        LET p == <<k, NoModel>>
        IN /\ Evaluate(validations, k, ValidateAPIKey(k), validation, validations')
           /\ authValid' = Remember(authValid, p, AuthValidRego(validation))
           /\ last' = [key |-> k, model |-> NoModel, at |-> now,
                       allowed |-> Allows(authValid, p, AuthValidRego(validation))]
           /\ UNCHANGED <<now, truth, infos, subValid, groupMember>>

---------------------------------------------------------------------------
(* The world around the gateway.                                           *)

\* maas-api revokes a key, for good.
Revoke(k) ==
    /\ revokedAt[k] = Never
    /\ revokedAt' = [revokedAt EXCEPT ![k] = now]
    /\ UNCHANGED <<now, lostAt, caches, last>>

\* The subscription is deleted or fails, or the groups lose the model.
Withdraw(k, m) ==
    /\ lostAt[<<k, m>>] = Never
    /\ lostAt' = [lostAt EXCEPT ![<<k, m>>] = now]
    /\ UNCHANGED <<now, revokedAt, caches, last>>

Grant(k, m) ==
    /\ lostAt[<<k, m>>] # Never
    /\ lostAt' = [lostAt EXCEPT ![<<k, m>>] = Never]
    /\ UNCHANGED <<now, revokedAt, caches, last>>

\* Restarting Authorino, or deleting the AuthPolicy, empties every cache.
Flush ==
    /\ validations' = [k \in Keys |-> Nothing]
    /\ infos' = [p \in Pairs |-> Nothing]
    /\ authValid' = [t \in Targets |-> 0]
    /\ subValid' = [p \in Pairs |-> 0]
    /\ groupMember' = [p \in Pairs |-> 0]
    /\ UNCHANGED <<now, truth, last>>

Tick ==
    /\ now < MaxTime
    /\ now' = now + 1
    /\ UNCHANGED <<truth, caches, last>>

Next ==
    \/ \E k \in Keys : ListingRequest(k) \/ Revoke(k)
    \/ \E k \in Keys, m \in Models :
          InferenceRequest(k, m) \/ Withdraw(k, m) \/ Grant(k, m)
    \/ Flush
    \/ Tick

Spec == Init /\ [][Next]_vars

---------------------------------------------------------------------------
(* How long what was withdrawn is still good for.                          *)

\* The request answered last reached a model.
Admitted == last.allowed /\ last.model # NoModel

\* A revoked key opens no model once --metadata-cache-ttl has passed since the
\* revocation was recorded.  auth-valid alone would not give that: its cached
\* decision outlives the validation it was made from, and it allows whatever
\* it is asked while maas-api is out of reach.  It holds because the
\* subscription is selected for an identity that a refused key does not have.
RevokedKeyLag ==
    Admitted /\ revokedAt[last.key] # Never =>
        \/ last.at = revokedAt[last.key]
        \/ last.at < revokedAt[last.key] + MetadataCacheTTL

\* A model whose subscription or group access was withdrawn is out of reach
\* once both caches have run out one after the other: the decision may have
\* been made, from metadata about to expire, just before.  Whatever lifetime
\* is configured for decisions, that is at most twice --metadata-cache-ttl.
WithdrawnAccessLag ==
    Admitted /\ lostAt[<<last.key, last.model>>] # Never =>
        LET lost == lostAt[<<last.key, last.model>>]
        IN \/ last.at = lost
           \/ /\ last.at < lost + MetadataCacheTTL + AuthzCacheTTL
              /\ last.at < lost + 2 * MetadataCacheTTL

\* The last instant at which a fact withdrawn at t, or Never, still held.
StoodUntil(t) == IF t = Never THEN now ELSE t

\* Nothing was answered or withdrawn later than now.
NothingAhead ==
    /\ last.at <= now
    /\ \A p \in Pairs : lostAt[p] = Never \/ lostAt[p] <= now

\* A cached answer in favour of the caller is not older than it may be.
ValidationsRecent ==
    \A k \in Keys : validations[k] # Nothing /\ validations[k].value =>
        validations[k].until <= StoodUntil(revokedAt[k]) + MetadataCacheTTL

InfosRecent ==
    \A p \in Pairs : infos[p] # Nothing /\ infos[p].value =>
        infos[p].until <= StoodUntil(lostAt[p]) + MetadataCacheTTL

\* Nor is a decision made from one.
DecisionRecent(p, until) ==
    \/ until = 0
    \/ /\ until <= StoodUntil(lostAt[p]) + MetadataCacheTTL + AuthzCacheTTL
       /\ until <= StoodUntil(lostAt[p]) + 2 * MetadataCacheTTL

DecisionsRecent ==
    \A p \in Pairs :
        DecisionRecent(p, subValid[p]) /\ DecisionRecent(p, groupMember[p])

\* The inductive invariant: no cache holds an answer or a decision in favour
\* of the caller for longer than its own lifetime, and that of the metadata it
\* was made from, after the instant at which the answer was last true.
IndInv ==
    /\ TypeOK
    /\ NothingAhead
    /\ ValidationsRecent
    /\ InfosRecent
    /\ DecisionsRecent
    /\ RevokedKeyLag
    /\ WithdrawnAccessLag
=============================================================================
