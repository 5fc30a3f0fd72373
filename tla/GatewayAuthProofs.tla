------------------------- MODULE GatewayAuthProofs -------------------------
(***************************************************************************)
(* For every pair of cache lifetimes, set of keys and set of models: a     *)
(* revoked key opens no model once the metadata lifetime has passed, and   *)
(* withdrawn access is gone after at most twice that lifetime.             *)
(***************************************************************************)
EXTENDS GatewayAuth, TLAPS

\* The effective lifetime of a decision is a lifetime, and at most either of
\* the two that are configured.
LEMMA AuthzTTLBound ==
    /\ authzCacheTTL \in Nat
    /\ authzCacheTTL <= MetadataCacheTTL
    /\ authzCacheTTL <= AuthzCacheTTL
BY TTLAssumption DEF authzCacheTTL

\* The initial state, in which the caches are empty.
LEMMA InitInv == Init => IndInv
<1> SUFFICES ASSUME Init PROVE IndInv
    OBVIOUS
<1>1. TypeOK
    <2>1. now \in Time /\ revokedAt \in [Keys -> Time \cup {Never}]
        BY GatewayConstants DEF Init, Time
    <2>2. lostAt \in [Pairs -> Time \cup {Never}]
        BY GatewayConstants DEF Init, Time
    <2>3. /\ validations \in [Keys -> Held(BOOLEAN) \cup {Nothing}]
          /\ infos \in [Pairs -> Held(BOOLEAN) \cup {Nothing}]
          /\ authValid \in [Targets -> Nat]
          /\ subValid \in [Pairs -> Nat]
          /\ groupMember \in [Pairs -> Nat]
        BY DEF Init
    <2>4. last \in [key : Keys, model : Models \cup {NoModel}, at : Time,
                    allowed : BOOLEAN]
        <3>1. 0 \in Time /\ FALSE \in BOOLEAN
            BY GatewayConstants DEF Time
        <3>2. last \in [key : Keys, model : {NoModel}, at : {0}, allowed : {FALSE}]
            BY DEF Init
        <3> QED
            BY <3>1, <3>2, Zenon
    <2> QED
        BY <2>1, <2>2, <2>3, <2>4 DEF TypeOK
<1>2. ValidationsRecent /\ InfosRecent
    BY DEF Init, ValidationsRecent, InfosRecent
<1>3. DecisionsRecent
    BY DEF Init, DecisionsRecent, DecisionRecent
<1>4. RevokedKeyLag /\ WithdrawnAccessLag
    BY DEF Init, RevokedKeyLag, WithdrawnAccessLag, Admitted
<1>5. NothingAhead
    BY GatewayConstants DEF Init, NothingAhead
<1> QED
    BY <1>1, <1>2, <1>3, <1>4, <1>5 DEF IndInv

---------------------------------------------------------------------------
(* The evaluators.                                                         *)

\* What an evaluator leaves in its cache: the answer that was there, or one
\* obtained now, and a favourable one only when that is what maas-api says.
LEMMA EvaluateCache ==
    ASSUME NEW D, NEW cache \in [D -> Held(BOOLEAN) \cup {Nothing}],
           NEW key \in D, NEW computed \in BOOLEAN,
           NEW value, NEW after, now \in Nat,
           Evaluate(cache, key, computed, value, after)
    PROVE  /\ after \in [D -> Held(BOOLEAN) \cup {Nothing}]
           /\ \A d \in D : \/ after[d] = cache[d]
                           \/ /\ d = key
                              /\ after[d].until = now + MetadataCacheTTL
                              /\ after[d].value => computed
<1>1. CASE Fresh(cache[key])
    BY <1>1 DEF Evaluate
<1>2. CASE ~Fresh(cache[key])
    <2>1. CASE value = Nothing
        BY <1>2, <2>1 DEF Evaluate
    <2>2. CASE value # Nothing
        <3>1. value \in {computed, FALSE}
            BY <1>2, <2>2 DEF Evaluate, Answers
        <3>2. value \in BOOLEAN /\ (value => computed)
            <4>1. CASE value = computed
                BY <4>1
            <4>2. CASE value = FALSE
                BY <4>2
            <4> QED
                BY <3>1, <4>1, <4>2
        <3>3. [value |-> value, until |-> now + MetadataCacheTTL] \in Held(BOOLEAN)
            BY <3>2, TTLAssumption DEF Held
        <3>4. after = [cache EXCEPT ![key] =
                          [value |-> value, until |-> now + MetadataCacheTTL]]
            BY <1>2, <2>2 DEF Evaluate
        <3> QED
            BY <3>2, <3>3, <3>4
    <2> QED
        BY <2>1, <2>2
<1> QED
    BY <1>1, <1>2

\* The value an evaluator hands over, when it favours the caller, was cached
\* and is still fresh, or is what maas-api says now.
LEMMA EvaluateValue ==
    ASSUME NEW cache, NEW key, NEW computed \in BOOLEAN, NEW value, NEW after,
           Evaluate(cache, key, computed, value, after), value = TRUE
    PROVE  \/ /\ cache[key] # Nothing
              /\ cache[key].value = TRUE
              /\ now < cache[key].until
           \/ computed
<1>1. CASE Fresh(cache[key])
    BY <1>1 DEF Evaluate, Fresh
<1>2. CASE ~Fresh(cache[key])
    <2>1. value \in {computed, FALSE, Nothing}
        BY <1>2 DEF Evaluate, Answers
    <2> QED
        BY <2>1, GatewayConstants
<1> QED
    BY <1>1, <1>2

---------------------------------------------------------------------------
(* The steps of the world around the gateway: the caches stay as they are  *)
(* and the last instant at which a fact held can only move on.             *)

LEMMA StoodType ==
    ASSUME TypeOK
    PROVE  /\ \A k \in Keys : StoodUntil(revokedAt[k]) \in Nat
           /\ \A p \in Pairs : StoodUntil(lostAt[p]) \in Nat
BY GatewayConstants DEF TypeOK, Time, StoodUntil

LEMMA CachesAge ==
    ASSUME TypeOK, ValidationsRecent, InfosRecent, DecisionsRecent,
           TypeOK', UNCHANGED caches,
           \A k \in Keys : StoodUntil(revokedAt[k]) <= StoodUntil(revokedAt[k])',
           \A p \in Pairs : StoodUntil(lostAt[p]) <= StoodUntil(lostAt[p])'
    PROVE  ValidationsRecent' /\ InfosRecent' /\ DecisionsRecent'
<1>1. /\ \A k \in Keys : StoodUntil(revokedAt[k]) \in Nat
                         /\ StoodUntil(revokedAt[k])' \in Nat
      /\ \A p \in Pairs : StoodUntil(lostAt[p]) \in Nat
                          /\ StoodUntil(lostAt[p])' \in Nat
    BY GatewayConstants DEF TypeOK, Time, StoodUntil
<1>2. /\ validations' = validations /\ infos' = infos
      /\ subValid' = subValid /\ groupMember' = groupMember
    BY DEF caches
<1>3. ASSUME NEW k \in Keys, validations[k] # Nothing, validations[k].value
      PROVE  validations[k].until <= StoodUntil(revokedAt[k])' + MetadataCacheTTL
    <2>1. validations[k].until \in Nat
        BY <1>3 DEF TypeOK, Held
    <2>2. validations[k].until <= StoodUntil(revokedAt[k]) + MetadataCacheTTL
        BY <1>3 DEF ValidationsRecent
    <2> QED
        BY <1>1, <2>1, <2>2, TTLAssumption
<1>4. ASSUME NEW p \in Pairs, infos[p] # Nothing, infos[p].value
      PROVE  infos[p].until <= StoodUntil(lostAt[p])' + MetadataCacheTTL
    <2>1. infos[p].until \in Nat
        BY <1>4 DEF TypeOK, Held
    <2>2. infos[p].until <= StoodUntil(lostAt[p]) + MetadataCacheTTL
        BY <1>4 DEF InfosRecent
    <2> QED
        BY <1>1, <2>1, <2>2, TTLAssumption
<1>5. ASSUME NEW p \in Pairs, NEW until \in Nat, DecisionRecent(p, until)
      PROVE  \/ until = 0
             \/ /\ until <= StoodUntil(lostAt[p])' + MetadataCacheTTL + AuthzCacheTTL
                /\ until <= StoodUntil(lostAt[p])' + 2 * MetadataCacheTTL
    BY <1>1, <1>5, TTLAssumption DEF DecisionRecent
<1>6. \A p \in Pairs : subValid[p] \in Nat /\ groupMember[p] \in Nat
    BY DEF TypeOK
<1>7. DecisionsRecent'
    BY <1>2, <1>5, <1>6 DEF DecisionsRecent, DecisionRecent
<1> QED
    BY <1>2, <1>3, <1>4, <1>7 DEF ValidationsRecent, InfosRecent

LEMMA LagsFollow ==
    ASSUME TypeOK, TypeOK', NothingAhead, RevokedKeyLag, WithdrawnAccessLag,
           UNCHANGED last, now <= now',
           \A k \in Keys : revokedAt'[k] \in {revokedAt[k], now},
           \A p \in Pairs : lostAt'[p] \in {lostAt[p], Never, now}
    PROVE  NothingAhead' /\ RevokedKeyLag' /\ WithdrawnAccessLag'
<1>1. /\ last.at \in Nat /\ now \in Nat /\ now' \in Nat /\ last.key \in Keys
      /\ last.model # NoModel => <<last.key, last.model>> \in Pairs
    BY DEF TypeOK, Time, Pairs
<1>2. NothingAhead'
    BY <1>1, GatewayConstants DEF NothingAhead, TypeOK, Time
<1>3. RevokedKeyLag'
    BY <1>1, TTLAssumption, GatewayConstants DEF RevokedKeyLag, NothingAhead, Admitted
<1>4. WithdrawnAccessLag'
    BY <1>1, TTLAssumption, GatewayConstants DEF WithdrawnAccessLag, NothingAhead, Admitted
<1> QED
    BY <1>2, <1>3, <1>4

\* Revocations, withdrawals, grants and the clock keep the invariant.
LEMMA WorldStep ==
    ASSUME IndInv,
           \/ \E k \in Keys : Revoke(k)
           \/ \E k \in Keys, m \in Models : Withdraw(k, m) \/ Grant(k, m)
           \/ Tick
    PROVE  IndInv'
<1> USE DEF IndInv
<1>0. now \in Nat /\ now \in Time /\ MaxTime \in Nat
    BY GatewayConstants DEF TypeOK, Time
<1>1. UNCHANGED <<caches, last>>
    BY DEF Revoke, Withdraw, Grant, Tick
<1>2. TypeOK'
    <2>1. ASSUME NEW k \in Keys, Revoke(k) PROVE TypeOK'
        BY <1>0, <2>1 DEF Revoke, TypeOK, caches
    <2>2. ASSUME NEW k \in Keys, NEW m \in Models, Withdraw(k, m) PROVE TypeOK'
        BY <1>0, <2>2 DEF Withdraw, TypeOK, caches
    <2>3. ASSUME NEW k \in Keys, NEW m \in Models, Grant(k, m) PROVE TypeOK'
        BY <1>0, <2>3 DEF Grant, TypeOK, caches
    <2>4. ASSUME Tick PROVE TypeOK'
        BY <1>0, <2>4 DEF Tick, TypeOK, caches, truth, Time
    <2> QED
        BY <2>1, <2>2, <2>3, <2>4
<1>3. now <= now'
    <2>1. now' = now \/ now' = now + 1
        BY Zenon DEF Revoke, Withdraw, Grant, Tick
    <2> QED
        BY <1>0, <2>1
<1>4. \A k \in Keys : \/ revokedAt'[k] = revokedAt[k]
                      \/ revokedAt[k] = Never /\ revokedAt'[k] = now
    <2>1. ASSUME NEW k \in Keys, Revoke(k)
          PROVE  /\ revokedAt[k] = Never
                 /\ revokedAt' = [revokedAt EXCEPT ![k] = now]
        BY <2>1 DEF Revoke
    <2>2. \/ \E k \in Keys : Revoke(k)
          \/ revokedAt' = revokedAt
        BY Zenon DEF Withdraw, Grant, Tick, truth
    <2>3. revokedAt \in [Keys -> Time \cup {Never}]
        BY DEF TypeOK
    <2> QED
        BY <2>1, <2>2, <2>3
<1>5. \A p \in Pairs : \/ lostAt'[p] = lostAt[p]
                       \/ lostAt[p] = Never /\ lostAt'[p] = now
                       \/ lostAt'[p] = Never
    <2>1. ASSUME NEW k \in Keys, NEW m \in Models, Withdraw(k, m)
          PROVE  /\ lostAt[<<k, m>>] = Never
                 /\ lostAt' = [lostAt EXCEPT ![<<k, m>>] = now]
        BY <2>1 DEF Withdraw
    <2>2. ASSUME NEW k \in Keys, NEW m \in Models, Grant(k, m)
          PROVE  lostAt' = [lostAt EXCEPT ![<<k, m>>] = Never]
        BY <2>2 DEF Grant
    <2>3. \/ \E k \in Keys, m \in Models : Withdraw(k, m) \/ Grant(k, m)
          \/ lostAt' = lostAt
        BY Zenon DEF Revoke, Tick, truth
    <2>4. lostAt \in [Pairs -> Time \cup {Never}]
        BY DEF TypeOK
    <2> QED
        BY <2>1, <2>2, <2>3, <2>4
<1>7. \A k \in Keys : StoodUntil(revokedAt[k]) <= StoodUntil(revokedAt[k])'
    BY <1>0, <1>2, <1>3, <1>4, <1>5, GatewayConstants DEF StoodUntil, TypeOK, Time
<1>8. \A p \in Pairs : StoodUntil(lostAt[p]) <= StoodUntil(lostAt[p])'
    BY <1>0, <1>2, <1>3, <1>4, <1>5, GatewayConstants DEF StoodUntil, NothingAhead, TypeOK, Time
<1>9. ValidationsRecent' /\ InfosRecent' /\ DecisionsRecent'
    BY <1>1, <1>2, <1>7, <1>8, CachesAge
<1>10. NothingAhead' /\ RevokedKeyLag' /\ WithdrawnAccessLag'
    BY <1>1, <1>2, <1>3, <1>4, <1>5, LagsFollow
<1> QED
    BY <1>2, <1>9, <1>10

---------------------------------------------------------------------------
(* The requests: the facts and the clock stay, the caches change.          *)

\* The validations after an evaluation are as recent as before.
LEMMA ValidationsStep ==
    ASSUME IndInv, NEW k \in Keys, NEW value, UNCHANGED <<now, truth>>,
           Evaluate(validations, k, ValidateAPIKey(k), value, validations')
    PROVE  /\ validations' \in [Keys -> Held(BOOLEAN) \cup {Nothing}]
           /\ ValidationsRecent'
<1>1. now \in Nat /\ validations \in [Keys -> Held(BOOLEAN) \cup {Nothing}]
    BY DEF IndInv, TypeOK, Time
<1>2. ValidateAPIKey(k) \in BOOLEAN
    BY DEF ValidateAPIKey
<1>3. /\ validations' \in [Keys -> Held(BOOLEAN) \cup {Nothing}]
      /\ \A d \in Keys : \/ validations'[d] = validations[d]
                         \/ /\ d = k
                            /\ validations'[d].until = now + MetadataCacheTTL
                            /\ validations'[d].value => ValidateAPIKey(k)
    BY <1>1, <1>2, EvaluateCache
<1>4. revokedAt' = revokedAt /\ now' = now
    BY DEF truth
<1>5. ASSUME NEW d \in Keys, validations'[d] # Nothing, validations'[d].value
      PROVE  validations'[d].until <= StoodUntil(revokedAt[d]) + MetadataCacheTTL
    <2>1. CASE validations'[d] = validations[d]
        BY <1>5, <2>1 DEF IndInv, ValidationsRecent
    <2>2. CASE validations'[d] # validations[d]
        <3>1. /\ validations'[d].until = now + MetadataCacheTTL
              /\ StoodUntil(revokedAt[d]) = now
            BY <1>3, <1>5, <2>2 DEF ValidateAPIKey, StoodUntil
        <3> QED
            BY <3>1, <1>1, TTLAssumption
    <2> QED
        BY <2>1, <2>2
<1>6. \A d \in Keys : StoodUntil(revokedAt[d])' = StoodUntil(revokedAt[d])
    BY <1>4 DEF StoodUntil
<1> QED
    BY <1>3, <1>5, <1>6 DEF ValidationsRecent

\* So are the selections.
LEMMA InfosStep ==
    ASSUME IndInv, NEW k \in Keys, NEW m \in Models, NEW value,
           UNCHANGED <<now, truth>>,
           Evaluate(infos, <<k, m>>, SelectSubscription(k, m), value, infos')
    PROVE  /\ infos' \in [Pairs -> Held(BOOLEAN) \cup {Nothing}]
           /\ InfosRecent'
<1> DEFINE q == <<k, m>>
<1>0. q \in Pairs
    BY DEF Pairs
<1>1. now \in Nat /\ infos \in [Pairs -> Held(BOOLEAN) \cup {Nothing}]
    BY DEF IndInv, TypeOK, Time
<1>2. SelectSubscription(k, m) \in BOOLEAN
    BY DEF SelectSubscription
<1>3. /\ infos' \in [Pairs -> Held(BOOLEAN) \cup {Nothing}]
      /\ \A d \in Pairs : \/ infos'[d] = infos[d]
                          \/ /\ d = q
                             /\ infos'[d].until = now + MetadataCacheTTL
                             /\ infos'[d].value => SelectSubscription(k, m)
    BY <1>0, <1>1, <1>2, EvaluateCache
<1>4. lostAt' = lostAt /\ now' = now
    BY DEF truth
<1>5. ASSUME NEW d \in Pairs, infos'[d] # Nothing, infos'[d].value
      PROVE  infos'[d].until <= StoodUntil(lostAt[d]) + MetadataCacheTTL
    <2>1. CASE infos'[d] = infos[d]
        BY <1>5, <2>1 DEF IndInv, InfosRecent
    <2>2. CASE infos'[d] # infos[d]
        <3>1. /\ infos'[d].until = now + MetadataCacheTTL
              /\ StoodUntil(lostAt[d]) = now
            BY <1>3, <1>5, <2>2 DEF SelectSubscription, StoodUntil
        <3> QED
            BY <3>1, <1>1, TTLAssumption
    <2> QED
        BY <2>1, <2>2
<1>6. \A d \in Pairs : StoodUntil(lostAt[d])' = StoodUntil(lostAt[d])
    BY <1>4 DEF StoodUntil
<1> QED
    BY <1>3, <1>5, <1>6 DEF InfosRecent

\* A rule whose policy allows only while the metadata lifetime has not passed
\* leaves decisions as recent as they may be.
LEMMA RememberStep ==
    ASSUME IndInv, NEW p \in Pairs, NEW cache \in [Pairs -> Nat],
           \A q \in Pairs : DecisionRecent(q, cache[q]),
           NEW policy \in BOOLEAN,
           policy => now <= StoodUntil(lostAt[p]) + MetadataCacheTTL
    PROVE  /\ Remember(cache, p, policy) \in [Pairs -> Nat]
           /\ \A q \in Pairs : DecisionRecent(q, Remember(cache, p, policy)[q])
<1>1. now \in Nat /\ StoodUntil(lostAt[p]) \in Nat
    BY StoodType DEF IndInv, TypeOK, Time
<1>2. CASE Remember(cache, p, policy) = cache
    BY <1>2
<1>3. CASE Remember(cache, p, policy) # cache
    <2>1. /\ policy
          /\ Remember(cache, p, policy) = [cache EXCEPT ![p] = now + authzCacheTTL]
        BY <1>3 DEF Remember
    <2>2. now + authzCacheTTL \in Nat
        BY <1>1, AuthzTTLBound
    <2>3. DecisionRecent(p, now + authzCacheTTL)
        BY <1>1, <2>1, AuthzTTLBound, TTLAssumption DEF DecisionRecent
    <2> QED
        BY <2>1, <2>2, <2>3
<1> QED
    BY <1>2, <1>3

\* A selection in favour of the caller is not older than the lifetime of the
\* metadata, and it is what maas-api says now unless it is younger than that.
LEMMA InfoAge ==
    ASSUME IndInv, NEW k \in Keys, NEW m \in Models, NEW info,
           Evaluate(infos, <<k, m>>, SelectSubscription(k, m), info, infos'),
           info = TRUE
    PROVE  /\ now <= StoodUntil(lostAt[<<k, m>>]) + MetadataCacheTTL
           /\ lostAt[<<k, m>>] # Never => now < lostAt[<<k, m>>] + MetadataCacheTTL
<1> DEFINE q == <<k, m>>
<1>0. q \in Pairs
    BY DEF Pairs
<1>1. now \in Nat /\ StoodUntil(lostAt[q]) \in Nat
    BY <1>0, StoodType DEF IndInv, TypeOK, Time
<1>2. SelectSubscription(k, m) \in BOOLEAN
    BY DEF SelectSubscription
<1>3. \/ infos[q] # Nothing /\ infos[q].value = TRUE /\ now < infos[q].until
      \/ SelectSubscription(k, m)
    BY <1>2, EvaluateValue
<1>4. CASE SelectSubscription(k, m)
    BY <1>1, <1>4, TTLAssumption DEF SelectSubscription, StoodUntil
<1>5. CASE infos[q] # Nothing /\ infos[q].value = TRUE /\ now < infos[q].until
    <2>1. infos[q].until \in Nat
        BY <1>0, <1>5 DEF IndInv, TypeOK, Held
    <2>2. infos[q].until <= StoodUntil(lostAt[q]) + MetadataCacheTTL
        BY <1>0, <1>5 DEF IndInv, InfosRecent
    <2>3. now < StoodUntil(lostAt[q]) + MetadataCacheTTL
        BY <1>1, <1>5, <2>1, <2>2, TTLAssumption
    <2> QED
        BY <1>1, <2>3, TTLAssumption DEF StoodUntil
<1> QED
    BY <1>3, <1>4, <1>5

\* A validation in favour of the caller is one made before the revocation and
\* younger than the lifetime of the metadata.
LEMMA ValidationAge ==
    ASSUME IndInv, NEW k \in Keys, NEW validation,
           Evaluate(validations, k, ValidateAPIKey(k), validation, validations'),
           validation = TRUE, revokedAt[k] # Never
    PROVE  now < revokedAt[k] + MetadataCacheTTL
<1>1. now \in Nat /\ revokedAt[k] \in Nat
    BY DEF IndInv, TypeOK, Time
<1>2. ValidateAPIKey(k) = FALSE
    BY DEF ValidateAPIKey
<1>3. validations[k] # Nothing /\ validations[k].value = TRUE
      /\ now < validations[k].until
    BY <1>2, EvaluateValue
<1>4. validations[k].until \in Nat
    BY <1>3 DEF IndInv, TypeOK, Held
<1>5. validations[k].until <= revokedAt[k] + MetadataCacheTTL
    BY <1>3 DEF IndInv, ValidationsRecent, StoodUntil
<1> QED
    BY <1>1, <1>3, <1>4, <1>5, TTLAssumption

\* A request to a model keeps the invariant: whatever it stores is recent, and
\* it is admitted only on recent metadata and recent decisions.
LEMMA InferenceStep ==
    ASSUME IndInv, NEW k \in Keys, NEW m \in Models, InferenceRequest(k, m)
    PROVE  IndInv'
<1> DEFINE p == <<k, m>>
<1>1. PICK validation \in BOOLEAN \cup {Nothing}, info \in BOOLEAN \cup {Nothing},
           done \in SUBSET Rules : Infer(k, m, validation, info, done)
    BY DEF InferenceRequest
<1>2. UNCHANGED <<now, truth>>
    BY <1>1 DEF Infer
<1>3. p \in Pairs /\ p \in Targets /\ p[1] = k /\ p[2] = m
    BY DEF Pairs, Targets
<1>4. /\ now \in Nat /\ now \in Time
      /\ subValid \in [Pairs -> Nat] /\ groupMember \in [Pairs -> Nat]
      /\ authValid \in [Targets -> Nat]
    BY DEF IndInv, TypeOK, Time
<1>5. /\ validations' \in [Keys -> Held(BOOLEAN) \cup {Nothing}]
      /\ ValidationsRecent'
    BY <1>1, <1>2, ValidationsStep DEF Infer
<1>6. /\ infos' \in [Pairs -> Held(BOOLEAN) \cup {Nothing}]
      /\ InfosRecent'
    <2>1. CASE HasIdentity(validation)
        BY <1>1, <1>2, <2>1, InfosStep DEF Infer
    <2>2. CASE ~HasIdentity(validation)
        <3>1. infos' = infos /\ lostAt' = lostAt /\ now' = now
            BY <1>1, <1>2, <2>2 DEF Infer, truth
        <3> QED
            BY <3>1 DEF IndInv, TypeOK, InfosRecent, StoodUntil
    <2> QED
        BY <2>1, <2>2
<1>7. ASSUME HasIdentity(validation), info = TRUE
      PROVE  /\ now <= StoodUntil(lostAt[p]) + MetadataCacheTTL
             /\ lostAt[p] # Never => now < lostAt[p] + MetadataCacheTTL
    BY <1>1, <1>7, InfoAge DEF Infer
<1>8. /\ authValid' \in [Targets -> Nat]
      /\ last' = [key |-> k, model |-> m, at |-> now,
                  allowed |-> Rules \subseteq Allowing(p, validation, info)]
    BY <1>1, <1>3, <1>4, AuthzTTLBound DEF Infer, Remember
<1>9. /\ subValid' \in [Pairs -> Nat] /\ groupMember' \in [Pairs -> Nat]
      /\ \A q \in Pairs : DecisionRecent(q, subValid'[q])
      /\ \A q \in Pairs : DecisionRecent(q, groupMember'[q])
    <2>0. \A q \in Pairs : /\ DecisionRecent(q, subValid[q])
                           /\ DecisionRecent(q, groupMember[q])
        BY DEF IndInv, DecisionsRecent
    <2>1. CASE HasIdentity(validation)
        <3> DEFINE policy == (info = TRUE)
        <3>0. policy \in BOOLEAN
            OBVIOUS
        <3>1. policy => now <= StoodUntil(lostAt[p]) + MetadataCacheTTL
            BY <1>7, <2>1
        <3>2. /\ subValid' \in {subValid, Remember(subValid, p, policy)}
              /\ groupMember' \in {groupMember, Remember(groupMember, p, policy)}
            BY <1>1, <2>1 DEF Infer, SubscriptionValidRego, RequireGroupMembershipRego
        <3> HIDE DEF policy, p
        <3>3. /\ Remember(subValid, p, policy) \in [Pairs -> Nat]
              /\ \A q \in Pairs :
                    DecisionRecent(q, Remember(subValid, p, policy)[q])
            BY <1>3, <1>4, <2>0, <3>0, <3>1, RememberStep
        <3>4. /\ Remember(groupMember, p, policy) \in [Pairs -> Nat]
              /\ \A q \in Pairs :
                    DecisionRecent(q, Remember(groupMember, p, policy)[q])
            BY <1>3, <1>4, <2>0, <3>0, <3>1, RememberStep
        <3> QED
            BY <1>4, <2>0, <3>2, <3>3, <3>4
    <2>2. CASE ~HasIdentity(validation)
        <3>1. subValid' = subValid /\ groupMember' = groupMember
            BY <1>1, <2>2 DEF Infer
        <3> QED
            BY <1>4, <2>0, <3>1
    <2> QED
        BY <2>1, <2>2
<1>10. DecisionsRecent'
    BY <1>2, <1>9 DEF DecisionsRecent, DecisionRecent, StoodUntil, truth
<1>11. TypeOK'
    <2>1. last' \in [key : Keys, model : Models \cup {NoModel}, at : Time,
                     allowed : BOOLEAN]
        <3> DEFINE a == Rules \subseteq Allowing(p, validation, info)
        <3>1. a \in BOOLEAN
            OBVIOUS
        <3> HIDE DEF a
        <3>2. last' = [key |-> k, model |-> m, at |-> now, allowed |-> a]
            BY <1>8 DEF a
        <3> QED
            BY <1>4, <3>1, <3>2
    <2> QED
        BY <1>2, <1>5, <1>6, <1>8, <1>9, <2>1 DEF IndInv, TypeOK, truth
<1>12. NothingAhead'
    BY <1>2, <1>4, <1>8 DEF IndInv, NothingAhead, truth
<1>13. ASSUME last'.allowed
       PROVE  /\ HasIdentity(validation)
              /\ now < subValid[p] \/ info = TRUE
    <2>1. Rules \subseteq Allowing(p, validation, info)
        BY <1>8, <1>13
    <2>2. "subscription-valid" \in Allowing(p, validation, info)
        BY <2>1 DEF Rules
    <2> QED
        BY <2>2 DEF Allowing, Allows, SubscriptionValidRego
<1>14. RevokedKeyLag'
    <2>1. last'.key = k /\ last'.at = now /\ revokedAt' = revokedAt
        BY <1>2, <1>8 DEF truth
    <2>2. ASSUME last'.allowed, revokedAt[k] # Never
          PROVE  now < revokedAt[k] + MetadataCacheTTL
        <3>1. validation = TRUE
            BY <1>13, <2>2 DEF HasIdentity
        <3>2. Evaluate(validations, k, ValidateAPIKey(k), validation, validations')
            BY <1>1 DEF Infer
        <3> QED
            BY <2>2, <3>1, <3>2, ValidationAge
    <2> QED
        BY <2>1, <2>2 DEF RevokedKeyLag, Admitted
<1>15. WithdrawnAccessLag'
    <2>1. last'.key = k /\ last'.model = m /\ last'.at = now /\ lostAt' = lostAt
        BY <1>2, <1>8 DEF truth
    <2>2. ASSUME last'.allowed, lostAt[p] # Never
          PROVE  /\ now < lostAt[p] + MetadataCacheTTL + AuthzCacheTTL
                 /\ now < lostAt[p] + 2 * MetadataCacheTTL
        <3>1. lostAt[p] \in Nat /\ subValid[p] \in Nat
            BY <1>3, <1>4, <2>2 DEF IndInv, TypeOK, Time
        <3>2. CASE info = TRUE
            <4>1. now < lostAt[p] + MetadataCacheTTL
                BY <1>7, <1>13, <2>2, <3>2
            <4> QED
                BY <1>4, <3>1, <4>1, TTLAssumption
        <3>3. CASE now < subValid[p]
            <4>1. DecisionRecent(p, subValid[p])
                BY <1>3 DEF IndInv, DecisionsRecent
            <4> QED
                BY <1>4, <2>2, <3>1, <3>3, <4>1, TTLAssumption
                DEF DecisionRecent, StoodUntil
        <3> QED
            BY <1>13, <2>2, <3>2, <3>3
    <2> QED
        BY <2>1, <2>2 DEF WithdrawnAccessLag, Admitted
<1> QED
    BY <1>5, <1>6, <1>10, <1>11, <1>12, <1>14, <1>15 DEF IndInv

\* A request that names no model only refreshes the validation and auth-valid.
LEMMA ListingStep ==
    ASSUME IndInv, NEW k \in Keys, ListingRequest(k)
    PROVE  IndInv'
<1> DEFINE p == <<k, NoModel>>
<1>1. PICK validation \in BOOLEAN \cup {Nothing} :
        /\ Evaluate(validations, k, ValidateAPIKey(k), validation, validations')
        /\ authValid' = Remember(authValid, p, AuthValidRego(validation))
        /\ last' = [key |-> k, model |-> NoModel, at |-> now,
                    allowed |-> Allows(authValid, p, AuthValidRego(validation))]
    BY DEF ListingRequest
<1>2. UNCHANGED <<now, truth, infos, subValid, groupMember>>
    BY DEF ListingRequest
<1>3. /\ validations' \in [Keys -> Held(BOOLEAN) \cup {Nothing}]
      /\ ValidationsRecent'
    BY <1>1, <1>2, ValidationsStep
<1>4. now \in Nat /\ now \in Time /\ p \in Targets
    BY DEF IndInv, TypeOK, Time, Targets
<1>5. authValid' \in [Targets -> Nat]
    BY <1>1, <1>4, AuthzTTLBound DEF IndInv, TypeOK, Remember
<1>6. last' \in [key : Keys, model : Models \cup {NoModel}, at : Time,
                 allowed : BOOLEAN]
    <2> DEFINE a == Allows(authValid, p, AuthValidRego(validation))
    <2>1. a \in BOOLEAN
        BY DEF Allows
    <2> HIDE DEF a
    <2>2. last' = [key |-> k, model |-> NoModel, at |-> now, allowed |-> a]
        BY <1>1 DEF a
    <2> QED
        BY <1>4, <2>1, <2>2
<1>7. TypeOK'
    BY <1>2, <1>3, <1>5, <1>6 DEF IndInv, TypeOK, truth
<1>8. last'.model = NoModel /\ last'.at = now
    BY <1>1
<1>9. RevokedKeyLag' /\ WithdrawnAccessLag'
    BY <1>8 DEF RevokedKeyLag, WithdrawnAccessLag, Admitted
<1>10. NothingAhead'
    BY <1>2, <1>4, <1>8 DEF IndInv, NothingAhead, truth
<1>11. InfosRecent' /\ DecisionsRecent'
    BY <1>2 DEF IndInv, InfosRecent, DecisionsRecent, DecisionRecent, StoodUntil, truth
<1> QED
    BY <1>3, <1>7, <1>9, <1>10, <1>11 DEF IndInv

\* Emptying the caches keeps the invariant.
LEMMA FlushStep ==
    ASSUME IndInv, Flush
    PROVE  IndInv'
<1>1. TypeOK'
    BY DEF IndInv, Flush, TypeOK, truth
<1>2. ValidationsRecent' /\ InfosRecent'
    BY DEF Flush, ValidationsRecent, InfosRecent
<1>3. DecisionsRecent'
    BY DEF Flush, DecisionsRecent, DecisionRecent
<1>4. NothingAhead' /\ RevokedKeyLag' /\ WithdrawnAccessLag'
    BY DEF IndInv, Flush, NothingAhead, RevokedKeyLag, WithdrawnAccessLag, Admitted, truth
<1> QED
    BY <1>1, <1>2, <1>3, <1>4 DEF IndInv

---------------------------------------------------------------------------

\* The caches of the generated AuthPolicy never hold an answer or a decision
\* for longer than the configured lifetimes allow.
THEOREM Invariance == Spec => []IndInv
<1>1. Init => IndInv
    BY InitInv
<1>2. IndInv /\ [Next]_vars => IndInv'
    <2> SUFFICES ASSUME IndInv, [Next]_vars PROVE IndInv'
        OBVIOUS
    <2>1. ASSUME NEW k \in Keys, ListingRequest(k) PROVE IndInv'
        BY <2>1, ListingStep
    <2>2. ASSUME NEW k \in Keys, NEW m \in Models, InferenceRequest(k, m)
          PROVE  IndInv'
        BY <2>2, InferenceStep
    <2>3. CASE \/ \E k \in Keys : Revoke(k)
               \/ \E k \in Keys, m \in Models : Withdraw(k, m) \/ Grant(k, m)
               \/ Tick
        BY <2>3, WorldStep
    <2>4. CASE Flush
        BY <2>4, FlushStep
    <2>5. CASE UNCHANGED vars
        BY <2>5 DEF vars, truth, caches, IndInv, TypeOK, NothingAhead,
                    ValidationsRecent, InfosRecent, DecisionsRecent,
                    DecisionRecent, StoodUntil, RevokedKeyLag,
                    WithdrawnAccessLag, Admitted
    <2> QED
        BY <2>1, <2>2, <2>3, <2>4, <2>5 DEF Next
<1> QED
    BY <1>1, <1>2, PTL DEF Spec

\* A revoked API key opens no model once the metadata lifetime has passed
\* since maas-api recorded the revocation, whatever else is cached.
THEOREM RevocationBites == Spec => []RevokedKeyLag
<1>1. IndInv => RevokedKeyLag
    BY DEF IndInv
<1> QED
    BY <1>1, Invariance, PTL

\* Withdrawn access to a model is gone once the lifetimes of a selection and
\* of a decision made from it have passed, at most twice the former.
THEOREM WithdrawalBites == Spec => []WithdrawnAccessLag
<1>1. IndInv => WithdrawnAccessLag
    BY DEF IndInv
<1> QED
    BY <1>1, Invariance, PTL
=============================================================================
