# A verification project for MaaS billing (maas-api and maas-controller)

TLA+ modules that model the parts of the repository where several actors meet,
TLC configurations that check them on small instances, and TLAPS proofs of the
results that matter most.

## 1. The system

Two programs, and a gateway they steer.

* **maas-api** (`src/maas-api`) is an HTTP API on a Postgres table. It mints,
  validates, searches and revokes API keys, selects the subscription a request
  is charged to, and lists models. One instance runs per tenant; all share one
  database.
* **maas-controller** (`src/maas-controller`) is a Kubernetes operator. It
  provisions tenants (AITenant, MaasTenantConfig), and turns MaaSModelRefs,
  MaaSAuthPolicies and MaaSSubscriptions into AuthPolicies and
  TokenRateLimitPolicies of Kuadrant.
* **The gateway** (Envoy with Authorino and Limitador, external) evaluates the
  AuthPolicies: for each request it calls maas-api to validate the key and to
  select a subscription, and caches what it hears and what it decides.

### Components

| Component | State | Operations | Meets | What is hard |
|---|---|---|---|---|
| API key store and handlers | table `api_keys` | create, validate, get, search, revoke, bulk revoke, revoke a tenant, clean up | gateway (validate), administrators, deletion Job, cron Job | handlers of several statements interleave; two clocks; statements that commit although the caller gets an error |
| `last_used_at` debouncing | a `sync.Map` | decide, write in a goroutine, withdraw, sweep | validations of the same key | lock-free map; late failures; sweep against refresh |
| Administrator check | a map under a mutex | `IsAdmin` | API server (SubjectAccessReview) | the mutex is not held during the review; size limit |
| Gateway AuthPolicy | five caches in Authorino | a request | maas-api | stacked caches; outages; a rule that allows when metadata is missing |
| AITenant controller | AITenant (finalizer, status), claim ConfigMaps, MaasTenantConfig, gateway AuthPolicy, namespace labels, revocation Job | provision, retarget, delete, force-remove | webhook, garbage collector, the other controllers | optimistic concurrency, restarts between calls, ordered deletion with a deadline |
| AITenant webhook | none | validate create and update | API server | list-then-compare |
| MaasTenantConfig controller | status, platform objects, base AuthPolicy | pipeline, deletion | AITenant, MaaSAuthPolicy | order of deletion |
| MaaSAuthPolicy controller | gateway and per-model AuthPolicies | aggregate, clean up stale, delete | all policies of a tenant | shared output objects, conflict detection |
| MaaSSubscription controller | one TokenRateLimitPolicy per model | aggregate, delete, re-enqueue siblings | all subscriptions of a model | whoever remains must rebuild what a deletion removed |
| MaaSModelRef controller | phase, conditions, alias conflicts | derive readiness, detect conflicts | sibling refs, policies | verdicts about two objects stored on each |
| Subscription selector | informer caches | select, list | gateway, model listing | many selection paths that must agree |
| Lifecycle and teardown | Config anchor, default AITenant | bootstrap, requested teardown | everything | stopping what must still finalize |
| External model reconciler | legacy children, migrated objects | migrate, tear down | MaaSModelRef | partial migration |
| TLS profile watcher | current profile | fetch with retries, restart | cluster | retries |
| Platform manifests, middleware, logging, metrics | none of interest | | | |

### What makes each correct

* A revoked key never validates again; a bulk revocation covers everything in
  its scope; no statement crosses tenants; cleanup deletes nothing usable; the
  status a caller sees never goes back to active.
* A revoked key, or withdrawn access to a model, stops working at the gateway
  within a bound that follows from the configured cache lifetimes, also while
  maas-api is failing.
* A use is recorded at most once per debounce interval, but for what the sweep
  takes away, and a recording that failed with an error does not silence the
  next.
* A stale administrator verdict dies within its lifetime; the cache is bounded.
* A gateway serves one tenant: claims are exclusive and kept, the AuthPolicy of
  a gateway belongs to its owner, deletion completes and leaves nothing behind.
* The rate limit policy of a model reflects every live subscription once the
  workers that overwrite it come to rest, and they do come to rest; a policy an
  administrator has opted out is left alone.
* A model is Ready exactly when it is governed and served, and two models with
  one identity do not both call it unique.
* What a caller is shown can be used and is charged as shown; a key is served by
  its own subscription or not at all.
* An upgrade removes the AuthPolicy of a model only when the gateway's protects
  it, and does remove it in the end.
* A requested teardown ends, its completion signal is true and survives the
  objects it is written on; without a teardown the installation heals, and no
  binding is left for a collector that cannot be, but where it was not seen.

`PROJECT.json` lists the hazards with their lines and the properties aimed at them.

## 2. Modules

| Module | Models | Checked by | Proofs |
|---|---|---|---|
| `ApiKeys` | `api_keys/{store_postgres,service,handler}.go` | `MCApiKeys` | `ApiKeysProofs` |
| `KeyLifecycle` | the abstract life of a key (`types.go`: "one-way state transition") | through `ApiKeys!ImplementsLifecycle` | `ApiKeysProofs!KeysLiveOnce` |
| `GatewayAuth` | `maasauthpolicy_controller.go`: `buildGatewayAuthPolicySpec` and the cache lifetimes | `MCGatewayAuth` | `GatewayAuthProofs` |
| `LastUsed` | `service.go`: `shouldUpdateLastUsed`, `clearDebounceSlot`, `StartDebounceCleanup` | `MCLastUsed` | `MaasApiProofs` |
| `AdminCache` | `auth/cached_admin_checker.go` | `MCAdminCache` | `MaasApiProofs` |
| `TenantGateways` | `aitenant_controller.go`, `aitenant_webhook.go`, and the writers of the gateway AuthPolicy | `MCTenantGateways` | `TenantGatewaysProofs` |
| `AuthPolicies` | `maasauthpolicy_controller.go`: Reconcile, deletion, cutover from per-model to gateway AuthPolicies, watches | `MCAuthPolicies` | `AuthPoliciesProofs` |
| `RateLimits` | `maassubscription_controller.go` | `MCRateLimits` | `RateLimitsProofs` |
| `ModelRefs` | `maasmodelref_controller.go`, `model_identity_conflict.go`, `providers*.go` | `MCModelRefs` | `ModelRefsProofs` |
| `Selection` | `subscription/selector.go`, `authpolicy/checker.go`, `models/`, `handlers/models.go` | `MCSelection` | `MaasApiProofs` |
| `Lifecycle` | `self_deployment_controller.go`, `self_teardown.go`, `cmd/manager/main.go`, `tenant_reconcile.go`, `tenantreconcile/{pipeline,apply,prerequisites}.go` | `MCLifecycle` | `LifecycleProofs` |

Each MC module only extends its component and adds, where it is used, the
symmetry set and the value of a constant that is a function. The
definitions that carry a bug on purpose (named in `PROJECT.json` under
"mutants") stand directly before the definition they vary; nothing uses them.
`LastUsed` and `Selection` prefix the names of their specification
(`DebounceSpec`, `SelectionSpec`), so that one module can hold the proofs of
these two and of `AdminCache`.

### ApiKeys

`rows` is the table, `dbNow` the database's `NOW()`. `time.Now()` of maas-api is
another clock: every reading is any instant within `MaxSkew` of `dbNow`. Each
SQL statement is one atomic step. A handler with several statements occupies a
slot of `req`, whose `pc` names its next statement: create (compute the
expiration and select a subscription, then INSERT), validate (SELECT by hash,
then decide, perhaps UPDATE to expired), revoke (read and authorize, UPDATE,
read again). Statements may fail without effect, or commit while the caller
sees an error. `acked`, `bulkAt` and `reported` are history: what callers were
told. Initially the table is empty or has legacy rows, without expiration.
A key is its identity: format, entropy and hash are abstracted, as are
names, labels, sorting and pagination (a search answers an arbitrary page).
The tenant of a request is the tenant of the maas-api instance that serves it.

### GatewayAuth

One action per request with an API key, to a model or to none. The two metadata
evaluators (`apiKeyValidation`, `subscription-info`) and the three authorization
rules (`auth-valid`, `subscription-valid`, `require-group-membership`) have one
cache each, with the keys and lifetimes the controller writes: `authzCacheTTL`
is the smaller of the two flags. That a cache keeps a value until its lifetime
has passed, that a failed evaluator leaves nothing, and that only permissions
are cached, is Authorino's behaviour. maas-api may fail at any call, a refused
request may leave some rules unevaluated, caches may be flushed at any time.
Two facts of the code decide the result: `auth-valid` allows when there is no
validation metadata at all, and the subscription rules ask for an identity that
only a successful validation carries.

### LastUsed and AdminCache

Both at the granularity of the code's atomic steps: the calls of `sync.Map`, and
the two critical sections around a SubjectAccessReview. `LastUsed` is the entry
of one key (entries never meet). A write is made, fails with an error (and
withdraws its reservation in a later step) or panics, which ends the goroutine
with the reservation in place. The sweep looks at the entry in one step and
deletes whatever is there in a later one; `robbed` remembers that this was a
reservation it had not looked at. `AdminCache` has the API server's answer as a
variable that changes at any time; `MaxLatency` bounds how long a verdict is
under way, and the bound that is checked contains it.

### TenantGateways

Administrators create, retarget and delete AITenants. A request is admitted by
the webhook on the list of that moment (`ValidateCreate`, `ValidateUpdate`) and
stored in a later step (`Store`), unless another write to the object came
first. The AITenant controller is one worker; `rec` is its running Reconcile
with the copy of the object it read, and each call that changes something is a
step: finalizer, `status.gatewayRef`, namespace label, claim, stale claims,
MaasTenantConfig, phase; and for deletion phase, revocation Job,
MaasTenantConfig, AuthPolicy, claims, label, finalizer. A status update conflicts when the copy is stale. Adding and
removing the finalizer are patches of the object, so the webhook checks them
too, as it checks every update. A forced removal takes the same steps without
waiting. The MaaSAuthPolicy controller reads the gateway in one step and writes
the AuthPolicy in a later one.

Abstractions: every gateway exists, except as `GatewayCheckFailed` says; all
gateways select the infrastructure namespace by the same label, which therefore
is its set of owners, and no label conflicts; the default tenant is left out
(`Lifecycle` has it); a tenant has at most one MaaSAuthPolicy; the
revocation Job is its outcome; the controller's own patches are atomic with
their admission; `ensureGatewayManagementAuth` reads and writes in one step;
staleness of the controller's informer cache is not modelled.

### AuthPolicies

The MaaSAuthPolicies of one tenant during and after the upgrade from one
AuthPolicy per model to one of the gateway. A Reconcile has two parts, up to the
write of the gateway's AuthPolicy and from the look at its status to the end;
between them other Reconciles, watches and Kuadrant act. The policies and the
gateway AuthPolicy are read from a cache, the per-model ones from the API
server. `proven` is history: that the gateway's AuthPolicy was seen enforced and
maas-api ready. The content of the AuthPolicy is its OIDC configuration, a
number that every change makes new; its rules are `GatewayAuth`. Detection of
hostname conflicts between policies (`conflict_detection.go`) is left out.

### RateLimits

Subscriptions are read from a cache (`known`), TokenRateLimitPolicies from the
API server. Up to one worker per subscription runs at a time. Each works through
the models of its copy of the subscription: look whether the policy is opted
out, list the subscriptions of the model, write the policy from that list; and
deals with models it no longer names, or with all of them when it is being
deleted. Between any two of these calls other workers go on. A subscription of
a tenant whose gateway does not carry the model's route makes every Reconcile
of that model fail (`foreign`); a Reconcile that fails is queued again. A limit
is valid or rejected. The phase of a subscription is written to its status,
which no controller reads; how it is computed is left out.

### ModelRefs

The status of each model and the cache's copy of it; the backend of an
LLMInferenceService or ExternalModel with the gateway of its route (`ready` of
an ExternalModel: the gateway has accepted its route; `exists`: the object is
there; `named`: its status has the name of the route, which concerns the
`Canonical` ones, those of inference.opendatahub.io; the name of the others' is
derived); whether governance (a subscription and a policy) names it; the gateways
of the tenants. The models are new, or Ready from before the controller started,
when their gateway may since have passed to another tenant. One worker: it
reads a copy, works out backend, tenant, governance, phase and identity conflict,
and writes them if the copy is still current. A write that meets a newer object
is dropped, as the code does; `lost` remembers the model. Every watch is an
action that chooses whom to enqueue from the cache, as its mapping function
does; `missed` remembers the models that a change of their tenant, or of the
name in the status of their ExternalModel, was not passed on to.

### Selection

The selector's decisions are operators over the informers' copies, which change
one object at a time in any order, and a caller may mint a key. Listings and
requests change nothing; the properties evaluate them in every state. Models
have a namespaced name, a bare name and an alias, and a request may use any of
them; an order of the informer's list is chosen wherever the code takes a first
match. A listing shows an ExternalModel under `target`, the name in its spec, and
other models under the alias in their status, or their bare name as long as they
have none; selection looks the alias of every kind up in the status, which
follows the spec in a write of its own. The properties compare the listings with
what selection then does, so the two implementations of identity, health,
priority and access check each other.

### Lifecycle

`dep` is the Deployment with its owner reference and teardown annotations,
`config` the Config anchor with its UID, `aitenants` and `tenantConfig` what
hangs on it, `platform` and `logs` the objects applied under its ownership.
Each carries the UID of the Config it hangs on, and the garbage collector takes
what hangs on a UID that is gone. The process starts (namespace, secret
migration), stops and crashes; `allowed` says whether its service account has
the rights that its start asks for and can do without, `secret` which namespace
the database secret is in. `monitoring` says whether the monitoring namespace is
there, without which `ensureObservability` does nothing, and `BindingAfter`
what `ensureUsageLogs` leaves of the collector's ClusterRoleBinding: it is
removed only if it can be looked up, and `left` remembers that the last pass
left it unseen. LifecycleReconciler, bootstrap, namespace
monitor, TenantReconciler and the AITenant controller act on caches of the
Deployment and the Config. A teardown deletes the AITenants, waits for them,
deletes the Config and writes the completion annotation, in separate steps.

## 3. Runs

All runs use `CHECK_DEADLOCK FALSE`: bounds on clocks and counters, and idle
systems without requests, may legitimately stop.

| Run | Shows | Bounds |
|---|---|---|
| `api_keys` | `RevokedNeverValidates`, `BulkRevokedWithinSkew`, `RevokeAnswersRevoked`, `CleanupHarmless`, `NeverReportedActiveAgain`, `ImplementsLifecycle`, and `IndInv` that the proofs use | one key, perhaps legacy, two requests, two tenants, one user who is an administrator: each hazard is a race of two requests over one row. Clock to 4 with lifetimes up to 2, skew 1 and grace 1: enough to mint, expire, and be deleted by cleanup while another request still holds the row. What needs two rows, `OneTenantPerStatement`, is proved instead |
| `gateway_auth` | `RevokedKeyLag`, `WithdrawnAccessLag`, `IndInv` | metadata lifetime 2, authorization lifetime 5: more than twice as long, so that `WithdrawnAccessLag` would fail without the cap. Clock to 5: a decision, the withdrawal and the end of both caches fit. Caches of different keys and models do not meet, so one of each. The proofs cover the other order of lifetimes |
| `last_used` | `SlotBacked`, `Debounced` | four validations: one reservation, two that race at the boundary, one that fails late. TTL 2 and off; clock to 4, so that a sweep falls between two intervals. 1.1 million states |
| `admin_cache` | `VerdictLag`, `CacheBounded` | two users, two calls, room for one entry, both lifetimes and the latency distinct |
| `tenant_gateways` | `ActiveHoldsClaim`, `SettledClaimKept`, and until the first retargeting `PolicyKept`, `NoOrphanPolicy`, `NoOrphanLabel` | two names and two gateways, two AITenants ever (one after the other under one name, or two at once), one retargeting, one failure or restart, MaaSAuthPolicies in the namespace of one |
| `tenant_deletion_live` | `DeletionCompletes`, under `FairSpec`, with the deadline | two names on one gateway: the hard case is sharing it |
| `auth_policies` | `CutoverSafe`, `PhaseFollowsModels`, `CutoverFinishes` under `FairSpec` | two policies, two models, one change from outside or restart; initially any assignment of models to policies, each model with the AuthPolicy of the release before |
| `rate_limits` | `LimitsExact`, `OptedOutKept`, `Settles` under `FairSpec` | two subscriptions (so two workers) of two models, two edits or restarts; one limit may be a rejected one |
| `model_refs` | `ReadyIsServed`, `ConflictSeen` | an LLMInferenceService and a canonical ExternalModel, new or Ready before the controller starts; two identities, two tenants, one gateway, two edits. 4.4 million states |
| `selection` | `ListedIsServed`, `ServedAsListed`, `KeySticks` | two subscriptions, two models of distinct names, one of them an ExternalModel, an alias that is the name of a model and one that is not, two changes of the copies, from any lists of models and any aliases |
| `lifecycle` | `TeardownHonest`, `SignalSurvives`, `ModuleStatusAgrees`, `NoOrphanBinding`; `TeardownFinishes`, `AnchorHeals` under `FairSpec` | the default AITenant and another, fresh installation or upgrade, with and without the rights of the start and the monitoring namespace, one edit, fault or crash beside the teardown. A teardown request that is withdrawn and renewed during a teardown (`renewed`) takes two edits: with one AITenant and two edits the safety part holds on 5.2 million states; that is not kept as a run, and the theorems cover it |
| `lifecycle_terminating` | expected violation of `ControllerStarts`, see findings | the same |

Symmetry is used for safety properties only, over sets whose members no
definition tells apart.

### Fairness

`TenantGateways`: the AITenant controller's worker keeps running and its queue
serves every AITenant again after each error or requeue (`WF(Reconcile)`,
`SF(Get(t))`: every return of Reconcile with an unfinished object requeues it or
returns an error, which controller-runtime retries with back-off); time passes
(`WF(DeadlinePasses)`); the MaaSAuthPolicy and MaasTenantConfig controllers
retry likewise, and `cleanupMaaSAuthPolicies` of a config in deletion runs.
Nothing is assumed of administrators, and the revocation Job may fail for ever.
Failures are bounded by `MaxFaults`, so that calls eventually succeed.

`RateLimits`: watches deliver, queued subscriptions are reconciled, the garbage
collector works. Edits are bounded, and `Settles` speaks of what holds after
the last, as long as no foreign subscription blocks a model.

`AuthPolicies`: watches deliver and caches catch up, Kuadrant enforces the
AuthPolicy it is given, TenantReconciler provides the base one, and every
queued policy is reconciled. Readiness of maas-api is not assumed;
`CutoverFinishes` has it as its premise.

`Lifecycle`: the process is started again (kubelet), its watches deliver, its
three loops and the AITenant controller run, a namespace whose content is gone
goes away, and the garbage collector works. `TeardownFinishes` and
`AnchorHeals` speak of behaviours in which the process stops no more.

### Findings

* `lifecycle_terminating` (code): a starting controller that finds the AITenant
  namespace terminating polls for its end and then exits
  (`ensureManagedNamespaceWithClient`). An AITenant in the namespace keeps its
  finalizer until the AITenant controller of this very process runs, so the
  namespace never goes away and no restart helps, although the comment at
  `main.go:105` says that reinstallation is the case this is for.

### Also observed

Found with these modules and not kept as runs; each can be repeated with the
change named.

* *One lifetime.* An authorization entry made from metadata about to expire
  lives its full lifetime, so staleness is the sum of both lifetimes and not one,
  contrary to the comment on `authzCacheTTL`
  (`maasauthpolicy_controller.go:105`) and to `authorino-caching.md`.
  `WithdrawnAccessLag` is the bound that does hold.
* *Retargeting.* `status.gatewayRef` is set before the claim is won and the
  MaaSAuthPolicy controller trusts it: a retargeted tenant that lost the race
  for a gateway rewrites the owner's AuthPolicy (`PolicyKept` without
  `edits = 0`). The AuthPolicy and the label of a gateway that a tenant has left
  survive the tenant (`NoOrphanPolicy`, `NoOrphanLabel` without `edits = 0`;
  against `reference/crds/ai-tenant.md:31`).
* *Deadline.* The patch that removes a finalizer passes the webhook's uniqueness
  check and is refused while another AITenant names the same gateway, forced or
  not (`DeletionCompletes` without its exception), although
  `aitenant_controller.go:107` bounds deletion. After a forced removal the
  MaaSAuthPolicies of the namespace cannot be finalized, since the AITenant they
  look up is gone, and the MaasTenantConfig waits for them for ever.
* *Labels.* When labelling the infrastructure namespace fails, the tenant goes
  on to Active with a Degraded condition and is not requeued.
* *Keys of a deleted tenant.* The tenant's maas-api serves until its
  MaasTenantConfig is gone, which is after the revocation Job: keys minted in
  between are not revoked.
* *Debounce.* A write that panics keeps its reservation: the key is not written
  again until the TTL has passed (`SlotBacked` names the exception). The sweep's
  Delete does not compare, so it can take a reservation made since the sweep
  looked, and the next validation writes inside the TTL (`Debounced` without
  `robbed`), although the comment at `service.go:373` says that the sweep has no
  effect on debounce correctness.
* *Expired or revoked.* A key reported as expired can later be reported as
  revoked, because expiry is stored lazily.
* *Rejected limits.* A subscription whose limit `validateTokenRateLimit` rejects
  is left out of the policy and may still be reported Active, because
  `validateModelRefs` looks only at the MaaSModelRef
  (`maassubscription_controller.go:564`).
* *Identity conflicts.* Two models that resolve to one alias before either write
  is in the cache: the one written second is not looked at again and goes on
  calling the identity unique (`ConflictSeen` with both for one of them). A
  status write that is dropped is not repeated, so a model can stay Ready
  without governance until another event.
* *A route named late.* An ExternalModel of inference.opendatahub.io without
  `status.httpRouteName` is waited for without a retry and without a watch
  (`providers_external.go:94`). When the name comes after the last event of the
  route, the model stays Unhealthy (`ReadyIsServed` with `missed` for tenants
  only): the race that the comment at `maasmodelref_controller.go:550` calls
  fixed.
* *A tenant found late.* A change of an AITenant is passed on to the models whose
  cached status names the tenant (`maasmodelref_controller.go:763`). One that is
  handled before the cache has the tenant of a model, which the API server or a
  running Reconcile has already, is not passed on, and the model stays Ready at
  a gateway that its tenant has left (`ReadyIsServed` with `missed` for route
  names only), although AITenants are watched so that models are reconciled
  again (line 607).
* *Bare name for an answer.* A model without an alias is listed under its bare
  name, and a request under that id is answered with the bare name for
  `ResolvedModel` (`selector.go:221`), which by its comment (`types.go:30`) is a
  namespace/name. The key that the gateway AuthPolicy makes of it
  (`maasauthpolicy_controller.go:432`) is not one that a predicate of the
  TokenRateLimitPolicy compares with (`maassubscription_controller.go:608`).
  Selection's properties are about the model and subscription of an answer and
  do not claim that it is limited.
* *Listed before its status.* An ExternalModel whose spec was edited is listed
  under its new name at once, and refused under it until its status has the new
  alias (`ListedIsServed` without `AliasOf(m) = ModelID(m)`), although
  `providers_external.go:279` says that the two match. `ServedAsListed` shows that
  it is not taken for another model meanwhile, unless that one has the new name
  for an alias or a name.
* *Same bare name.* `checkModelHealth` looks up a model's limits by bare name:
  with models of one name in two namespaces the status of one vouches for the
  other (`ListedIsServed` without `OwnName` and with `NameOf` constant).
* *Usage logging.* With the collector's CRD gone every Reconcile applies the
  ClusterRoleBinding and deletes it again, and the watch of ClusterRoleBindings
  queues the next Reconcile for it: the controller is at rest only once it has
  failed to look the binding up (`self_deployment_controller.go:648`). That error
  is dropped and nil returned, and the binding stays, against the comment at line
  607. With the monitoring namespace gone nothing is cleaned up, and the binding,
  which is cluster-wide, stays as well. `NoOrphanBinding` names both exceptions
  with `left`.
* *Cutover.* Deleting one of two MaaSAuthPolicies of a model during the upgrade
  deletes the model's AuthPolicy before maas-api is ready, since
  `handleDeletion` has no gate. An OIDC configuration that changes and changes
  back within the lag of the cache may leave the one in between.
* *Renewed request.* A teardown that is withdrawn and requested again while the
  Reconcile of the first request is past its list of AITenants is reported
  complete without another look: AITenants created in between are not waited
  for. `TeardownHonest` excludes it with the history variable `renewed`.
* *Anchor.* The bootstrap marker may be set on a new Config while the default
  AITenant hangs on the old UID; once it is collected nobody creates it again
  (`main.go:523`). Platform objects of a dead Config are taken for somebody
  else's and the tenant is reported ready until they are collected; the
  periodic requeue repairs it. The completion annotation is never cleared, and
  can be written while a Config exists that the cache has not seen. The
  namespace monitor looks at the pause once and may then wait, and recreate the
  namespace during a teardown. `attemptLegacyCleanup` logs that it will retry
  and runs in a `sync.Once`. An accidental deletion of the Config takes the
  default AITenant with it. Creation of the monitoring namespace is not watched.

## 4. Proofs

| Theorems | For every |
|---|---|
| `ApiKeysProofs`: `Invariance`, `RevocationIsFinal`, `BulkRevocationIsTimely`, `RevokeAnswer`, `CleanupIsHarmless`, `TenantIsolation`, `KeysLiveOnce`, `ToldForGood` | number of keys, users, tenants, subscriptions and concurrent requests, every clock bound, lifetime and skew up to the grace period |
| `GatewayAuthProofs`: `Invariance`, `RevocationBites`, `WithdrawalBites` | number of keys and models, every pair of cache lifetimes, zero included |
| `MaasApiProofs` of `AdminCache`: `AdminCacheInvariance`, `VerdictsAge`, `CacheKeepsLimit` | number of users and calls, both lifetimes, every latency and size |
| `MaasApiProofs` of `LastUsed`: `LastUsedInvariance`, `ErrorsWithdraw`, `DebouncedByTTL` | number of validations of a key, every TTL, with the sweep |
| `MaasApiProofs` of `Selection`: `SelectionTypes`, `KeyKeepsSubscription`, `ListedCanBeUsed`, `ListedIsNotMistaken` | number of subscriptions, models of each kind, names, aliases and changes of the copies |
| `TenantGatewaysProofs`: `Invariance`, `ActiveMeansClaimed`, `ClaimStays`; and where `~DeletionTimeout`, `PoliciesHaveTenants`, `LabelsHaveTenants`, `PolicyIsKept` | number of AITenants, gateways, creations, retargetings and faults |
| `RateLimitsProofs`: `Invariance`, `LimitsAreExact`, `OptOutIsRespected` | number of subscriptions (and so of workers), models, edits and restarts, any limits rejected |
| `AuthPoliciesProofs`: `Invariance`, `CutoverIsSafe`, `PhaseIsCurrent` | number of policies, models, changes and restarts |
| `LifecycleProofs`: `Invariance`, `Typing`, `SignalIsHonest`, `SignalIsKept`, `StatusIsCurrent`, `BindingsAreBacked` | number of AITenants, edits, faults and crashes |
| `ModelRefsProofs`: `Invariance`, `ModelRefsTypes`, `ReadyModelsAreServed`, `SharedIdentityIsSeen` | number of models of each kind, tenants, gateways, identities, edits and restarts |

All safety properties that a passing run checks, invariants and action
properties, are theorems. Every inductive invariant was also
checked with TLC, on the instance of the component's run or a smaller one with
more edits; those of `ApiKeys` and `GatewayAuth` are kept in their runs. The
three small components of maas-api share `MaasApiProofs`; they have no state in
common and no theorem is about two of them.

Assumptions, each named in the module that declares the constants and evaluated
by TLC in the runs: that the model values for "nothing" (`None`, `NoRow`,
`NoSlot`, `NoKey`) are distinct from what they stand beside (`...Constants`,
`ConstantsAssumption`, `NoneAssumption`, `NoRowAssumption`), types of the
bounds, `SkewAssumption` (`MaxSkew <= Grace`: the two clocks are less than the
30 minutes of grace apart; only `CleanupIsHarmless` needs it) and
`TTLAssumption` (what `ValidateCacheTTLs` enforces). `ModelRefs` assumes that
models and tenants are finitely many. Three theorems of
`TenantGatewaysProofs` have `~DeletionTimeout` as a premise, as the run that
checks these properties has it as a constant: a forced deletion does leave
things behind, which is what forcing means.

**ApiKeys.** `RevokedNeverValidates` speaks of the answer of a request, so it is
not inductive: one must know what the request read. `HeldByRequest` says that a
validation that started after a confirmed revocation holds a row that is not
active, `ConfirmedInTable` that the table itself shows every confirmed
revocation, and `PendingFresh` that an INSERT under way cannot bring a revoked
key back: its key was minted for this request alone and nothing has happened to
it. For bulk revocation the same chain carries `LeftOverBy`: a covered row that
is still active had expired by the database's clock, so that a process's clock
accepts it for `MaxSkew` at most. `OnlyMinted` closes the circle. Each action has
a lemma; actions that only end a request share `QuietStep`, and statements that
retire rows share `RetireTable`. `TenantIsolation` needs of the invariant only
that an INSERT meets no row: every other statement selects among the rows of
the tenant it serves (`UpdateWithinTenant`).

`KeysLiveOnce` is the refinement of `KeyLifecycle`. `Statements` sorts the steps
by what they do to the table: a creation begins, succeeds or fails; the cleanup
deletes; active rows are revoked or one of them expires; or nothing. Each maps to
a step of the abstract specification or to none. The hard one is the creation:
that a key whose INSERT is under way is still unborn, and one whose INSERT failed
is gone, rests on `PendingFresh`. `ToldForGood` adds `Told`: a key somebody was
told is revoked or expired is `Retired`, by its stored status or by the clock
alone, and no statement makes it active again.

**GatewayAuth.** A cached favourable answer is not older than it may be
(`ValidationsRecent`, `InfosRecent`), where the age counts from the last instant
at which the answer was true (`StoodUntil`); a decision made from one adds its
own lifetime (`DecisionsRecent`). The bounds on admitted requests follow from
those at the step that answers. `CachesAge` shows that time and events outside
only relax them, `RememberStep` that a decision inherits its metadata's age.
`auth-valid`'s cache has no such bound, and needs none: `RevokedKeyLag` rests on
the identity that the other two rules require.

**LastUsed.** An entry is the reservation of a validation that was told to write
and has not withdrawn it, a write that panicked included (`Backed`); who is about to swap has seen an entry as
old as the TTL (`SeenExpired`), so that winning the compare-and-swap means that
the interval has passed; and the entry is the last reservation that has not
failed, unless there is none because the sweep deleted it unseen
(`HolderInSlot`), after which one write may come early.

**AdminCache.** A verdict may be stored after one that is newer. `Heard` dates a
verdict under way from the review that gave it, `Aged` an entry from the change
that made it false, so the order of the stores does not matter; `InThePast`
keeps the dates ordered. The size limit is arithmetic on the cardinality of the
users with an entry.

**TenantGateways.** Two layers. `RecInv` holds whatever happens: a copy with a
finalizer is a copy of the AITenant that is still there, and agrees with it
about the gateway it reports, because the finalizer goes last and nobody else
writes the status (`CopySound`); where the Reconcile stands follows from what it
read (`StepSound`); from `ensureGatewayClaim` on the claim is held
(`ClaimHeld`). `Uids` excludes that a name is taken for another object of the
name. The second layer is for deletions that are not forced (`Patient`): the
AITenant outlives its MaasTenantConfig, that its MaaSAuthPolicies and these
their writers (`ConfigHolds`); and until a tenant is retargeted its gateway is
one and the same (`SpecStays`), the webhook lets one AITenant of a gateway have
the finalizer (`OneHolder`), and a deletion has removed what it is past
(`NothingLeft`).

**RateLimits.** `LimitsExact` is about rest; the invariant says at every moment
why it will be true at rest. `NobodyMissed`: a subscription that should be
limited is, or everybody will hear of a change (`Heard`: an undelivered event,
or a worker about to write something else or to delete), or its own Reconcile
has the model still before it (`Ahead`). `NobodyKept`: one that should not be
limited is not, or everybody will hear, or its own Reconcile will find it
(`Clears`), or every subscription that names the model has it ahead. A worker
that comes to a model either finds all well or becomes one of those about to
strike (`Comes`); one that strikes leaves an event behind (`Written`). The
proof of the second half is where whoever remains must rebuild what a deletion
removed.

**AuthPolicies.** A deletion of a model's AuthPolicy is decided on a copy of the
policy and on statuses read earlier. `Proven` turns what was read into what was
once true; `CopiesSound` says that a copy that does not name a model of which
its policy is an owner is one from which an edit dropped the model; `RecSafe`
that a Reconcile past its gate has proof or nothing to delete. For the phase,
`RecCurrent` and `PhaseCurrent` compare what a Reconcile, and after it the
status, says with the models, up to the events still to be delivered;
`Unfinalized` covers the policy that is deleted and created again under the
name.

**Lifecycle.** `NoneLeft` carries `TeardownHonest` through the steps after the
list of AITenants; `Anchored` says what the Deployment hangs on until a
Reconcile has taken it off, which is what `SignalSurvives` needs; `StillKnown`
and `UpToDate` relate what a Reconcile works with, and what the last one
reported and left of the binding, to the events that are queued. Looking for `NoneLeft` showed that
`TeardownHonest` was false as first stated, in a case the bounds of its run do
not reach; see *Renewed request* above.

**ModelRefs.** Both properties are about rest, so the invariant says at every
moment what is still to come. `Replays` says that the cache becomes the store
once it has taken in the events under way. `StatusRight` and `VerdictRight` say
of a written status, and of a verdict about to be written, that it is right, or
that another Reconcile of the model is coming (`Coming`): queued, or brought
about by an event under way, which its handler passes on by the copies it will
find (`RightKept`). A verdict is compared with backend, route and tenant at the
moment they are read (`RouteOutcome`, `VerdictIsSound`). `OneTold` is the same
for identities: of two models that the cache has with one identity one knows of
it or will be told (`Told`, `OneToldKept`); both cannot be required, see
*Identity conflicts*. Looking for this invariant showed that `ReadyIsServed` was
false without the exception for `missed`; see *A tenant found late*. The
other exception is *A route named late*; a canonical
ExternalModel without a name has an outcome of its own in `RouteOutcome`.

**Selection.** Only `SelectionTypeOK` needs induction: the copies may change in
any way, and what is claimed holds of the decisions in every state of the right
shape. `FoundIsListed` says that the first match of an id is in the list,
`StatusIsOwn` that the status found by bare name is the model's own where names
differ, `Served` what an answer other than a refusal implies,
`ShownIdLeadsBack` that the id in a listing resolves to the model alone once it
is the alias in its status, `ShownIsUsable` that a listed subscription can be
charged, and `OwnEntry` that an id which is not yet an alias finds no entry but
the model's own.

**Only model-checked.** Liveness (`Settles`, `CutoverFinishes`,
`DeletionCompletes`, `TeardownFinishes`, `AnchorHeals`): liveness under fairness
is beyond the prover.

## 5. Not modelled

`PROJECT.json` gives the reason for each component. In short: the rendering of
manifests, logging, metrics, tracing and header middleware keep no protocol
state; the namespace webhooks compare an object with its namespace once; the
TLS profile watcher is a loop whose effect, a restart, is in the modules; the
external model reconciler renders objects of another operator and meets nothing
else modelled here. Inside the modelled components: legacy Tenant migration,
RBAC objects of a tenant, the revocation Job's own life, the wording of
conditions, `conflict_detection.go`, and the computation of the phase of a
subscription.

## 6. Plan

1. The revocation Job with its annotations, composed with `ApiKeys`: keys minted
   while a tenant is taken apart.
2. The migration of external models.
