---------------------------- MODULE AuthPolicies ----------------------------
(***************************************************************************)
(* The MaaSAuthPolicy controller of one tenant, through the upgrade that   *)
(* replaces an AuthPolicy per model by one AuthPolicy of the gateway.  The *)
(* AuthPolicies of the models, left by the release before, must stay until *)
(* the gateway's is enforced and the maas-api it calls can answer.         *)
(*                                                                         *)
(* The controller reads MaaSAuthPolicies and the gateway's AuthPolicy from *)
(* its cache and is told of changes by watches.  Several Reconciles run at *)
(* the same time, one per MaaSAuthPolicy, in two parts: up to the write of *)
(* the gateway's AuthPolicy, and from the look at its status to the end.   *)
(* The tenant has the gateway to itself (TenantGateways has the rest of    *)
(* that story) and no generated policy is opted out of management.         *)
(***************************************************************************)
EXTENDS Naturals, FiniteSets

CONSTANTS
    Policies,       \* names of MaaSAuthPolicies
    Models,         \* MaaSModelRefs that can be referenced
    None,           \* nothing there
    MaxEdits        \* bound on changes from outside, faults and restarts

ASSUME AuthPoliciesConstants ==
    /\ None \notin Policies \cup Models
    /\ MaxEdits \in Nat

VARIABLES
    policies, known,            \* the MaaSAuthPolicies and the cache's copies
    gateway, knownGateway,      \* the gateway's AuthPolicy and the cache's copy
    legacy,         \* AuthPolicies of models: the owners in their annotation
    models,         \* what there is of each model: "missing", "unrouted", "routed"
    oidc,           \* the tenant's OIDC configuration, 0 for none
    api,            \* whether the tenant's maas-api has a ready endpoint
    queue,          \* the work queue, with those to be requeued after 10 s
    events,         \* watch events of models and of the tenant
    rec,            \* the running Reconcile of each MaaSAuthPolicy
    lost,           \* history: policies whose last verdict was not written
    proven,         \* history: the gateway's AuthPolicy was enforced, and the API ready
    early,          \* history: models whose AuthPolicy was deleted before that
    dropped,        \* history: models a policy was deleted with or ceased to reference
    edits           \* counter for the bound

vars == <<policies, known, gateway, knownGateway, legacy, models, oidc, api, queue,
          events, rec, lost, proven, early, dropped, edits>>
cluster == <<models, oidc, api>>
caches == <<known, knownGateway>>
history == <<proven, early, dropped>>

Phases == {None, "Pending", "Active", "Degraded", "Failed"}
Refs == SUBSET Models \ {{}}
MaaSAuthPolicy == [refs : Refs, phase : Phases, finalizer : BOOLEAN, deleting : BOOLEAN]
\* spec: the OIDC configuration in it; observed: status is of this generation
AuthPolicy == [spec : 0..MaxEdits, observed : BOOLEAN, enforced : BOOLEAN]
Reconciliation == [obj : MaaSAuthPolicy, missing : SUBSET Models, check : BOOLEAN]
ASSUME NoneAssumption ==
    /\ None \notin MaaSAuthPolicy \cup AuthPolicy \cup Reconciliation
    /\ \A owners \in SUBSET Policies : owners # None
    /\ \A refs \in Refs : refs # None

TypeOK ==
    /\ policies \in [Policies -> MaaSAuthPolicy \cup {None}]
    /\ known \in [Policies -> MaaSAuthPolicy \cup {None}]
    /\ gateway \in AuthPolicy \cup {None} /\ knownGateway \in AuthPolicy \cup {None}
    /\ legacy \in [Models -> (SUBSET Policies) \cup {None}]
    /\ models \in [Models -> {"missing", "unrouted", "routed"}]
    /\ oidc \in 0..MaxEdits /\ api \in BOOLEAN
    /\ queue \subseteq Policies /\ lost \subseteq Policies
    /\ events \subseteq Models \cup {None}
    /\ rec \in [Policies -> Reconciliation \cup {None}]
    /\ proven \in [gateway : BOOLEAN, api : BOOLEAN]
    /\ early \subseteq Models /\ dropped \subseteq Models
    /\ edits \in 0..MaxEdits

\* The first start after the upgrade: the policies are Active, each model they
\* reference has an AuthPolicy of its own, the gateway has none.
Init ==
    /\ \E refs \in [Policies -> Refs \cup {None}] :
         /\ policies = [p \in Policies |->
              IF refs[p] = None THEN None
              ELSE [refs |-> refs[p], phase |-> "Active", finalizer |-> TRUE, deleting |-> FALSE]]
         /\ legacy = [m \in Models |->
              LET owners == {p \in Policies : refs[p] # None /\ m \in refs[p]} IN
              IF owners = {} THEN None ELSE owners]
    /\ known = policies /\ queue = {p \in Policies : policies[p] # None}
    /\ gateway = None /\ knownGateway = None
    /\ models = [m \in Models |-> "routed"]
    /\ oidc = 0 /\ api = FALSE
    /\ events = {} /\ rec = [p \in Policies |-> None]
    /\ lost = {} /\ proven = [gateway |-> FALSE, api |-> FALSE] /\ early = {} /\ dropped = {}
    /\ edits = 0

Live(o) == o # None /\ ~o.deleting

---------------------------------------------------------------------------
(* Administrators, KServe, Kuadrant and the deployment of maas-api.        *)

Edit == edits < MaxEdits /\ edits' = edits + 1

Create(p) ==
    /\ Edit /\ policies[p] = None
    /\ \E refs \in Refs : policies' = [policies EXCEPT ![p] =
         [refs |-> refs, phase |-> None, finalizer |-> FALSE, deleting |-> FALSE]]
    /\ UNCHANGED <<cluster, caches, gateway, legacy, queue, events, rec, lost, history>>

EditSpec(p) ==
    /\ Edit /\ Live(policies[p])
    /\ \E refs \in Refs \ {policies[p].refs} :
         /\ policies' = [policies EXCEPT ![p].refs = refs]
         /\ dropped' = dropped \cup (policies[p].refs \ refs)
    /\ UNCHANGED <<cluster, caches, gateway, legacy, queue, events, rec, lost, proven, early>>

Delete(p) ==
    /\ Edit /\ Live(policies[p])
    /\ policies' = [policies EXCEPT ![p] =
         IF @.finalizer THEN [@ EXCEPT !.deleting = TRUE] ELSE None]
    /\ dropped' = dropped \cup policies[p].refs
    /\ UNCHANGED <<cluster, caches, gateway, legacy, queue, events, rec, lost, proven, early>>

\* A MaaSModelRef or its HTTPRoute comes or goes.
ModelChanges(m) ==
    /\ Edit
    /\ \E s \in {"missing", "unrouted", "routed"} \ {models[m]} :
         models' = [models EXCEPT ![m] = s]
    /\ events' = events \cup {m}
    /\ UNCHANGED <<policies, caches, gateway, legacy, oidc, api, queue, rec, lost, history>>

\* Each configuration is a new one.
OIDCChanges ==
    /\ Edit /\ oidc' = oidc + 1
    /\ events' = events \cup {None}
    /\ UNCHANGED <<policies, caches, gateway, legacy, models, api, queue, rec, lost, history>>

ApiReady ==
    /\ ~api /\ api' = TRUE
    /\ proven' = [proven EXCEPT !.api = TRUE]
    /\ UNCHANGED <<policies, caches, gateway, legacy, models, oidc, queue, events, rec,
                   lost, early, dropped, edits>>

ApiDown ==
    /\ Edit /\ api /\ api' = FALSE
    /\ UNCHANGED <<policies, caches, gateway, legacy, models, oidc, queue, events, rec,
                   lost, history>>

Enforce(ok) ==
    /\ gateway # None
    /\ gateway' = [gateway EXCEPT !.observed = TRUE, !.enforced = ok]
    /\ proven' = [proven EXCEPT !.gateway = @ \/ ok]
    /\ UNCHANGED <<policies, caches, legacy, cluster, queue, events, rec, lost, early, dropped>>

KuadrantEnforces == Enforce(TRUE) /\ UNCHANGED edits

KuadrantFails == Enforce(FALSE) /\ Edit

---------------------------------------------------------------------------
(* Watches.  Of a MaaSAuthPolicy only a new generation or a deletion       *)
(* counts; the gateway's AuthPolicy has no label that leads to a policy.   *)

Sync(p) ==
    /\ known[p] # policies[p]
    /\ known' = [known EXCEPT ![p] = policies[p]]
    /\ LET Same == /\ known[p] # None /\ policies[p] # None
                   /\ known[p].refs = policies[p].refs
                   /\ known[p].deleting = policies[p].deleting
       IN  queue' = IF Same THEN queue ELSE queue \cup {p}
    /\ UNCHANGED <<policies, cluster, gateway, knownGateway, legacy, events, rec, lost,
                   history, edits>>

SyncGateway ==
    /\ knownGateway # gateway /\ knownGateway' = gateway
    /\ UNCHANGED <<policies, cluster, gateway, known, legacy, queue, events, rec, lost,
                   history, edits>>

AnyReferencing(m) ==
    LET ps == {p \in Policies : known[p] # None /\ m \in known[p].refs} IN
    IF ps = {} THEN {} ELSE {CHOOSE p \in ps : TRUE}

\* mapMaaSModelRefToMaaSAuthPolicies, mapHTTPRouteToMaaSAuthPolicies
Referencing(m) == {p \in Policies : known[p] # None /\ m \in known[p].refs}

\* mapAITenantToMaaSAuthPolicies: all of the tenant's
Deliver(e) ==
    /\ e \in events /\ events' = events \ {e}
    /\ queue' = queue \cup
         IF e = None THEN {p \in Policies : known[p] # None} ELSE Referencing(e)
    /\ UNCHANGED <<policies, cluster, caches, gateway, legacy, rec, lost, history, edits>>

---------------------------------------------------------------------------
(* The gateway's AuthPolicy.                                               *)

\* At startup without OIDC, later by the MaasTenantConfig controller with it
ensureBaseGatewayAuthPolicy ==
    /\ knownGateway = None /\ gateway = None
    /\ \E s \in {0, oidc} : gateway' = [spec |-> s, observed |-> FALSE, enforced |-> FALSE]
    /\ UNCHANGED <<policies, caches, legacy, cluster, queue, events, rec, lost, history, edits>>

\* What the AuthPolicy is built from
fetchOIDCConfig == oidc

GatewayDiffers == knownGateway = None \/ knownGateway.spec # fetchOIDCConfig

\* Create of what is there already, or Update of an outdated copy
GatewayConflict == GatewayDiffers /\ knownGateway # gateway

reconcileGatewayAuthPolicy ==
    gateway' = IF ~GatewayDiffers \/ GatewayConflict THEN gateway
               ELSE [spec |-> fetchOIDCConfig, observed |-> FALSE,
                     enforced |-> gateway # None /\ gateway.enforced]

ObservedOnly == knownGateway # None /\ knownGateway.observed

gatewayAuthPolicyReady ==
    knownGateway # None /\ knownGateway.observed /\ knownGateway.enforced

---------------------------------------------------------------------------
(* Reconcile.                                                              *)

Idle(p) == p \in queue /\ rec[p] = None

findMissingModelRefs(o) == {m \in o.refs : models[m] = "missing"}

\* Of any live policy of the tenant
hasLegacyModelAuthPolicy ==
    \E p \in Policies : Live(known[p]) /\ \E m \in known[p].refs : legacy[m] # None

\* Only a changed status is written; a write that meets a newer object is
\* logged and forgotten.
updateStatus(p, o, phase) ==
    /\ policies' = IF phase # o.phase /\ o = policies[p]
                   THEN [policies EXCEPT ![p].phase = phase] ELSE policies
    /\ lost' = IF policies'[p] # None /\ policies'[p].phase # phase
               THEN lost \cup {p} ELSE lost \ {p}

Forget(p) ==
    /\ Idle(p) /\ known[p] = None
    /\ queue' = queue \ {p}
    /\ UNCHANGED <<policies, cluster, caches, gateway, legacy, events, rec, lost, history, edits>>

\* The copy with the finalizer.  If adding it meets a newer object the Reconcile
\* fails and is retried, to no effect until the cache has caught up.
Finalized(o) == [o EXCEPT !.finalizer = TRUE]

Fresh(p) == known[p].finalizer \/ known[p] = policies[p]

\* Waiting for the target maas-api, to be requeued
WaitForApi(p) ==
    LET o == Finalized(known[p]) IN
    /\ Idle(p) /\ Live(known[p]) /\ Fresh(p)
    /\ hasLegacyModelAuthPolicy /\ ~api
    /\ IF known[p] = policies[p] /\ (o.phase # "Pending" \/ o # known[p])
       THEN policies' = [policies EXCEPT ![p] = [o EXCEPT !.phase = "Pending"]]
       ELSE UNCHANGED policies
    /\ lost' = lost \ {p}
    /\ UNCHANGED <<cluster, caches, gateway, legacy, queue, events, rec, history, edits>>

\* Up to the write of the gateway's AuthPolicy, which may fail
Begin(p) ==
    LET o == Finalized(known[p]) IN
    /\ Idle(p) /\ Live(known[p]) /\ Fresh(p)
    /\ hasLegacyModelAuthPolicy => api
    /\ policies' = IF known[p] = policies[p] THEN [policies EXCEPT ![p] = o] ELSE policies
    /\ reconcileGatewayAuthPolicy
    /\ rec' = IF GatewayConflict THEN rec
              ELSE [rec EXCEPT ![p] =
                     [obj |-> o, missing |-> findMissingModelRefs(o),
                      check |-> \/ GatewayDiffers \/ hasLegacyModelAuthPolicy
                                \/ o.phase # "Active"]]
    /\ queue' = IF GatewayConflict THEN queue ELSE queue \ {p}
    /\ UNCHANGED <<cluster, caches, legacy, events, lost, history, edits>>

ReturnAnyway(p) == queue' = queue /\ rec' = [rec EXCEPT ![p] = None]

\* The gateway's AuthPolicy is not enforced yet: requeue
Requeue(p) == queue' = queue \cup {p} /\ rec' = [rec EXCEPT ![p] = None]

WaitForGateway(p) ==
    /\ rec[p] # None /\ rec[p].check /\ ~gatewayAuthPolicyReady
    /\ updateStatus(p, rec[p].obj, "Pending")
    /\ Requeue(p)
    /\ UNCHANGED <<cluster, caches, gateway, legacy, events, history, edits>>

\* reconcileModelAuthPolicies: of referenced models all but those without a route
Obsolete(o) == {m \in o.refs : models[m] # "unrouted"}

cleanupStaleAuthPolicies(p, o) ==
    {m \in Models \ o.refs : legacy[m] # None /\ p \in legacy[m]}

deleteModelAuthPolicies(ms) ==
    /\ legacy' = [m \in Models |-> IF m \in ms THEN None ELSE legacy[m]]
    /\ early' = early \cup {m \in ms : legacy[m] # None /\ ~(proven.gateway /\ proven.api)}

deriveAuthPolicyPhase(o, missing) ==
    IF missing = o.refs THEN "Failed" ELSE IF missing # {} THEN "Degraded" ELSE "Active"

Finish(p) ==
    /\ rec[p] # None /\ (rec[p].check => gatewayAuthPolicyReady)
    /\ LET o == rec[p].obj IN
       /\ deleteModelAuthPolicies(Obsolete(o) \cup cleanupStaleAuthPolicies(p, o))
       /\ updateStatus(p, o, deriveAuthPolicyPhase(o, rec[p].missing))
    /\ rec' = [rec EXCEPT ![p] = None]
    /\ UNCHANGED <<cluster, caches, gateway, queue, events, proven, dropped, edits>>

\* The last policy of the tenant leaves a gateway AuthPolicy that is up to date.
handleDeletion(p) ==
    LET o == known[p]
        last == \A q \in Policies \ {p} : ~Live(known[q])
        ok == last => ~GatewayConflict
    IN  /\ Idle(p) /\ known[p] # None /\ known[p].deleting
        /\ IF o.finalizer
           THEN /\ deleteModelAuthPolicies(o.refs \cup cleanupStaleAuthPolicies(p, o))
                /\ IF last THEN reconcileGatewayAuthPolicy ELSE UNCHANGED gateway
                /\ policies' = IF ok /\ o = policies[p] THEN [policies EXCEPT ![p] = None]
                               ELSE policies
                /\ queue' = IF ok /\ o = policies[p] THEN queue \ {p} ELSE queue
           ELSE queue' = queue \ {p} /\ UNCHANGED <<policies, gateway, legacy, early>>
        /\ UNCHANGED <<cluster, caches, events, rec, lost, proven, dropped, edits>>

Restart ==
    /\ Edit
    /\ known' = policies /\ knownGateway' = gateway
    /\ queue' = {p \in Policies : policies[p] # None}
    /\ events' = {} /\ rec' = [p \in Policies |-> None]
    /\ UNCHANGED <<policies, cluster, gateway, legacy, lost, history>>

Reconcile(p) ==
    \/ Forget(p) \/ WaitForApi(p) \/ Begin(p)
    \/ WaitForGateway(p) \/ Finish(p) \/ handleDeletion(p)

Next ==
    \/ \E p \in Policies : Create(p) \/ EditSpec(p) \/ Delete(p) \/ Sync(p) \/ Reconcile(p)
    \/ \E m \in Models : ModelChanges(m)
    \/ \E e \in Models \cup {None} : Deliver(e)
    \/ OIDCChanges \/ ApiReady \/ ApiDown \/ KuadrantEnforces \/ KuadrantFails
    \/ SyncGateway \/ ensureBaseGatewayAuthPolicy \/ Restart

Spec == Init /\ [][Next]_vars

\* Watches deliver, queued requests are served and failed ones repeated.  Kuadrant
\* is assumed to enforce an AuthPolicy in the end; of maas-api nothing is assumed.
FairSpec ==
    /\ Spec
    /\ WF_vars(SyncGateway) /\ WF_vars(KuadrantEnforces)
    /\ WF_vars(ensureBaseGatewayAuthPolicy)
    /\ \A e \in Models \cup {None} : WF_vars(Deliver(e))
    /\ \A p \in Policies : WF_vars(Sync(p)) /\ WF_vars(Reconcile(p))

---------------------------------------------------------------------------
(* Properties.                                                             *)

\* The cutover is safe: a model that stayed referenced loses the AuthPolicy of its
\* own only after the gateway's was enforced and the new maas-api could answer,
\* however Reconciles, caches, restarts and other models' comings and goings
\* interleave.
CutoverSafe == early \subseteq dropped

\* At rest, a phase that was written tells which models are missing.
PhaseFollowsModels ==
    \A p \in Policies :
      ( /\ Live(policies[p]) /\ known[p] = policies[p]
        /\ events = {} /\ rec[p] = None /\ p \notin queue \cup lost )
      => policies[p].phase = deriveAuthPolicyPhase(policies[p], findMissingModelRefs(policies[p]))

\* The cutover ends: if maas-api stays ready, the AuthPolicies of models that have
\* a route or are gone are removed, and the gateway's AuthPolicy has the tenant's
\* OIDC configuration.
CutoverFinishes ==
    <>[]api =>
    <>[]( /\ \A m \in Models : legacy[m] # None => models[m] = "unrouted"
          /\ (\E p \in Policies : policies[p] # None) => gateway # None /\ gateway.spec = oidc )
=============================================================================
