------------------------------ MODULE ModelRefs ------------------------------
(***************************************************************************)
(* The MaaSModelRef controller, for the models of one namespace.  It works *)
(* out whether a model is governed, whether its backend runs behind the    *)
(* gateway of exactly one tenant, and whether another model of the         *)
(* namespace answers to the same name; and writes the verdict to the       *)
(* status.  There is one worker.  It reads models from a cache that lags   *)
(* behind the API server, its own writes included, and a status write that *)
(* meets a newer object is logged and dropped.                             *)
(*                                                                         *)
(* External: administrators, KServe and the ExternalModel reconciler (the  *)
(* backends and their HTTPRoutes), the AITenant controller, the API server *)
(* and its watches.  A name is used again only after the cache has seen    *)
(* the deletion.                                                           *)
(***************************************************************************)
EXTENDS Naturals, FiniteSets, Sequences

CONSTANTS
    Models,         \* MaaSModelRefs of the namespace
    External,       \* those of kind ExternalModel; the others: LLMInferenceService
    Canonical,      \* of these, the ones whose ExternalModel is of inference.opendatahub.io
                    \* and has the name of its route in its status
    Aliases,        \* model identities
    Tenants,        \* AITenants
    Gateways,       \* gateways
    NoParent,       \* the gateway of a route that names none
    None,           \* nothing there
    MaxEdits        \* bound on edits of objects and on restarts

ASSUME ModelRefsConstants ==
    /\ External \subseteq Models /\ Canonical \subseteq External
    /\ IsFiniteSet(Models) /\ IsFiniteSet(Tenants) /\ Models \cap Tenants = {}
    /\ None \notin Models \cup Aliases \cup Tenants \cup Gateways
    /\ NoParent \notin Gateways \cup {None}
    /\ MaxEdits \in Nat

VARIABLES
    store,          \* the MaaSModelRefs the API server has
    cache,          \* the controller's copy
    stream,         \* the changes of store it has still to see, in order
    backend,        \* of each model: its route's gateway, its state, its identity
    paired,         \* models with a live subscription and a live auth policy
    tenantGw,       \* status.gatewayRef of each AITenant
    events,         \* undelivered events of models and tenants
    queue,          \* the work queue
    worker,         \* the running Reconcile
    lost,           \* history: models whose last verdict was not written
    missed,         \* history: models to which a change of their tenant, or of the status
                    \* of their ExternalModel, was not passed on
    edits           \* counter for the bound

vars == <<store, cache, stream, backend, paired, tenantGw, events, queue, worker, lost, missed,
          edits>>

Phases == {None, "Pending", "Ready", "Unhealthy", "Failed"}
MaaSModelStatus ==
    [phase : Phases, alias : Aliases \cup {None}, unique : {"Unknown", "True", "False"},
     gateway : Gateways \cup {None}, tenant : Tenants \cup {None}]
MaaSModelRef ==
    [tenantRef : Tenants \cup {None}, finalizer : BOOLEAN, deleting : BOOLEAN,
     status : MaaSModelStatus]
\* ready: the LLMInferenceService is, or the gateway accepted the route of the
\* ExternalModel.  exists: the object itself is there.  named: the name of the route
\* is known, which for a canonical ExternalModel is up to its status.
Backend ==
    [gw : Gateways \cup {NoParent, None}, ready : BOOLEAN, exists : BOOLEAN,
     named : BOOLEAN, alias : Aliases \cup {None}]
Worker == [model : Models, base : MaaSModelRef, status : MaaSModelStatus, retry : BOOLEAN]

ASSUME NoneAssumption == None \notin MaaSModelRef \cup Worker

TypeOK ==
    /\ store \in [Models -> MaaSModelRef \cup {None}]
    /\ cache \in [Models -> MaaSModelRef \cup {None}]
    /\ stream \in Seq([model : Models, obj : MaaSModelRef \cup {None}])
    /\ backend \in [Models -> Backend]
    /\ \A m \in Models \ Canonical : backend[m].named
    /\ paired \subseteq Models
    /\ tenantGw \in [Tenants -> Gateways \cup {None}]
    /\ events \subseteq Models \cup Tenants
    /\ queue \subseteq Models
    /\ worker \in Worker \cup {None}
    /\ lost \subseteq Models
    /\ missed \subseteq Models
    /\ edits \in 0..MaxEdits

NewStatus == [phase |-> None, alias |-> None, unique |-> "Unknown", gateway |-> None,
              tenant |-> None]
NewModel(t) == [tenantRef |-> t, finalizer |-> FALSE, deleting |-> FALSE,
                status |-> NewStatus]

\* A model that became Ready when tenant t had its gateway.
ReadyModel(m, t) ==
    [tenantRef |-> None, finalizer |-> TRUE, deleting |-> FALSE,
     status |-> [phase |-> "Ready", alias |-> backend[m].alias, gateway |-> backend[m].gw,
                 unique |-> IF \E n \in Models \ {m} : backend[n].alias = backend[m].alias
                            THEN "False" ELSE "True",
                 tenant |-> t]]

\* The controller starts and has seen nothing.  The models have just been created,
\* or were there before and their gateway may have passed to another tenant.
Init ==
    /\ \E g \in Gateways :
         backend \in [Models -> [gw : {g}, ready : {TRUE}, exists : {TRUE}, named : BOOLEAN,
                                 alias : Aliases]]
    /\ \A m \in Models \ Canonical : backend[m].named
    /\ \/ \E t \in Tenants \cup {None} : store = [m \in Models |-> NewModel(t)]
       \/ \E t \in Tenants : store = [m \in Models |-> ReadyModel(m, t)]
    /\ cache = [m \in Models |-> None]
    /\ \E seq \in [1..Cardinality(Models) -> Models] :
         /\ \A m \in Models : \E i \in DOMAIN seq : seq[i] = m
         /\ stream = [i \in DOMAIN seq |-> [model |-> seq[i], obj |-> store[seq[i]]]]
    /\ paired = Models
    /\ \E g \in Gateways, t \in Tenants : tenantGw = [u \in Tenants |-> IF u = t THEN g ELSE None]
    /\ events = {}
    /\ queue = {}
    /\ worker = None
    /\ lost = {}
    /\ missed = {}
    /\ edits = 0

---------------------------------------------------------------------------
(* The rest of the cluster.                                                *)

Edit == edits < MaxEdits /\ edits' = edits + 1

\* The API server stores o as model m.
Save(m, o) ==
    IF o = store[m] THEN UNCHANGED <<store, stream>>
    ELSE /\ store' = [store EXCEPT ![m] = o]
         /\ stream' = Append(stream, [model |-> m, obj |-> o])

Create(m) ==
    /\ store[m] = None /\ cache[m] = None /\ Edit
    /\ Save(m, NewModel(None))
    /\ UNCHANGED <<cache, backend, paired, tenantGw, events, queue, worker, lost, missed>>

Delete(m) ==
    /\ store[m] # None /\ ~store[m].deleting /\ Edit
    /\ Save(m, IF store[m].finalizer THEN [store[m] EXCEPT !.deleting = TRUE] ELSE None)
    /\ UNCHANGED <<cache, backend, paired, tenantGw, events, queue, worker, lost, missed>>

\* A change of a route concerns every model of the namespace.  Of an
\* LLMInferenceService creation, deletion and a change of readiness are looked
\* at, of an ExternalModel nothing, the name of its route included.
Notified(m, old, new) ==
    IF new.gw # old.gw \/ (m \in External /\ new.ready # old.ready) THEN Models
    ELSE IF m \notin External /\ (new.ready # old.ready \/ new.exists # old.exists)
    THEN {m} ELSE {}

BackendChanges(m) ==
    /\ Edit
    /\ \E b \in {[backend[m] EXCEPT !.gw = g] : g \in Gateways \cup {NoParent, None}}
            \cup {[backend[m] EXCEPT !.ready = ~@], [backend[m] EXCEPT !.exists = ~@]}
            \cup {[backend[m] EXCEPT !.alias = a] : a \in IF m \in External THEN {} ELSE Aliases}
            \cup (IF m \in Canonical THEN {[backend[m] EXCEPT !.named = ~@]} ELSE {}) :
       /\ b # backend[m]
       /\ backend' = [backend EXCEPT ![m] = b]
       /\ events' = events \cup Notified(m, backend[m], b)
       /\ missed' = IF b.named = backend[m].named THEN missed ELSE missed \cup {m}
    /\ UNCHANGED <<store, cache, stream, paired, tenantGw, queue, worker, lost>>

\* A MaaSSubscription or MaaSAuthPolicy comes or goes.
GovernanceChanges(m) ==
    /\ Edit
    /\ paired' = IF m \in paired THEN paired \ {m} ELSE paired \cup {m}
    /\ events' = events \cup {m}
    /\ UNCHANGED <<store, cache, stream, backend, tenantGw, queue, worker, lost, missed>>

TenantChanges(t) ==
    /\ Edit
    /\ \E g \in Gateways \cup {None} : g # tenantGw[t] /\ tenantGw' = [tenantGw EXCEPT ![t] = g]
    /\ events' = events \cup {t}
    /\ UNCHANGED <<store, cache, stream, backend, paired, queue, worker, lost, missed>>

---------------------------------------------------------------------------
(* Watches.                                                                *)

AliasOf(o) == IF o = None THEN None ELSE o.status.alias

SiblingsWithOldAlias(m, new) ==
    {n \in Models \ {m} : AliasOf(cache[n]) \in {AliasOf(cache[m])} \ {None}}

\* enqueueSiblingsWithAlias: siblings with the alias the model had or has, in
\* the cache as it is when the event is handled.
Siblings(m, new) ==
    {n \in Models \ {m} : AliasOf(cache[n]) \in {AliasOf(cache[m]), AliasOf(new)} \ {None}}

\* The cache takes the next change.  A new object and a deletion enqueue the
\* model; a new, deleted or renamed one enqueues its siblings.
ModelEvent ==
    /\ stream # <<>>
    /\ stream' = Tail(stream)
    /\ LET m == Head(stream).model
           old == cache[m]
           new == Head(stream).obj
       IN  /\ cache' = [cache EXCEPT ![m] = new]
           /\ queue' = queue
                \cup (IF new # None /\ (old = None \/ new.deleting) THEN {m} ELSE {})
                \cup (IF AliasOf(old) # AliasOf(new) THEN Siblings(m, new) ELSE {})
    /\ UNCHANGED <<store, backend, paired, tenantGw, events, worker, lost, missed,
                   edits>>

\* mapHTTPRouteToMaaSModelRefs, mapLLMISvcToMaaSModelRefs and the mappings of
\* subscriptions and auth policies
BackendEvent(m) ==
    /\ m \in events
    /\ events' = events \ {m}
    /\ queue' = queue \cup {m}
    /\ UNCHANGED <<store, cache, stream, backend, paired, tenantGw, worker, lost, missed,
                   edits>>

\* tenantAssociationIndexer
TenantAssociation(o) == IF o.tenantRef # None THEN o.tenantRef ELSE o.status.tenant

\* The worker is at model m.
At(m) == worker # None /\ worker.model = m

\* Models that were found to be of tenant t, while the cache has them with another.
NotYetOf(t) ==
    {m \in Models : /\ cache[m] # None /\ TenantAssociation(cache[m]) \notin {t, None}
                    /\ \/ store[m] # None /\ store[m].status.tenant = t
                       \/ At(m) /\ worker.status.tenant = t}

EnqueueUnresolved(t) ==
    /\ t \in events
    /\ events' = events \ {t}
    /\ queue' = queue \cup {m \in Models : /\ cache[m] # None
                                          /\ TenantAssociation(cache[m]) = None}
    /\ missed' = missed \cup NotYetOf(t)
    /\ UNCHANGED <<store, cache, stream, backend, paired, tenantGw, worker, lost, edits>>

\* mapAITenantToMaaSModelRefs: the models of the tenant and those of none, in
\* the cache.
TenantEvent(t) ==
    /\ t \in events
    /\ events' = events \ {t}
    /\ queue' = queue \cup {m \in Models : /\ cache[m] # None
                                          /\ TenantAssociation(cache[m]) \in {t, None}}
    /\ missed' = missed \cup NotYetOf(t)
    /\ UNCHANGED <<store, cache, stream, backend, paired, tenantGw, worker, lost, edits>>

---------------------------------------------------------------------------
(* The verdict.                                                            *)

\* The one tenant that has the gateway.
resolveGatewayRefFromHTTPRoute(gw) ==
    LET matches == {t \in Tenants : tenantGw[t] = gw} IN
    IF Cardinality(matches) = 1 THEN CHOOSE t \in matches : TRUE ELSE None

resolveGatewayRef(o, gw) ==
    IF o.tenantRef = None THEN resolveGatewayRefFromHTTPRoute(gw)
    ELSE IF tenantGw[o.tenantRef] = None THEN None ELSE o.tenantRef

Result(status, err) == [status |-> status, err |-> err]

NoTenant(o, gw) ==
    Result([o.status EXCEPT !.tenant = None],
           IF gw = NoParent /\ o.tenantRef = None THEN "pending" ELSE "error")

\* The route's gateway must be the tenant's; the status has what was found.
validateLLMISvcHTTPRoute(m, o) ==
    LET gw == backend[m].gw
        t == resolveGatewayRef(o, gw)
        found == [o.status EXCEPT !.tenant = t, !.gateway = IF gw = NoParent THEN None ELSE gw]
    IN  IF gw = None THEN Result(o.status, "pending")
        ELSE IF t = None THEN NoTenant(o, gw)
        ELSE Result(found, IF tenantGw[t] = gw THEN "none" ELSE "error")

\* A route that is not there, or has no name yet, is waited for without a retry.  As
\* long as the gateway has not accepted the route, the status keeps the gateway that
\* it has.
ReconcileExternalRoute(m, o) ==
    LET gw == backend[m].gw
        t == resolveGatewayRef(o, gw)
        found == [o.status EXCEPT !.tenant = t]
    IN  IF ~backend[m].exists THEN Result(o.status, "error")
        ELSE IF ~backend[m].named \/ gw = None
        THEN Result([o.status EXCEPT !.gateway = None], "none")
        ELSE IF t = None THEN NoTenant(o, gw)
        ELSE IF tenantGw[t] # gw THEN Result(found, "error")
        ELSE IF ~backend[m].ready THEN Result(found, "none")
        ELSE Result([found EXCEPT !.gateway = gw], "none")

\* The handler of the model's kind
ReconcileRoute(m, o) ==
    IF m \in External THEN ReconcileExternalRoute(m, o) ELSE validateLLMISvcHTTPRoute(m, o)

LLMISvcReady(m) == backend[m].ready

\* There is no probe: ready once the route is, or was, accepted.
ExternalModelReady(status) == status.gateway # None

RuntimeReady(m, status) ==
    IF m \in External THEN ExternalModelReady(status) ELSE LLMISvcReady(m)

\* ResolveModelAlias: an identity that is not there yet does not replace another.
ResolvedModelAlias(m, status) ==
    IF backend[m].alias # None THEN backend[m].alias ELSE status.alias

checkGovernanceAttached(m) == m \in paired

\* findModelAliasConflicts, in the cache
Conflicts(m, alias) ==
    {n \in Models \ {m} : cache[n] # None /\ cache[n].status.alias = alias}

\* checkModelIdentityConflict
ModelIdentityUnique(m, alias) ==
    IF alias = None THEN "Unknown" ELSE IF Conflicts(m, alias) = {} THEN "True" ELSE "False"

deriveModelPhase(governed, runtimeReady) ==
    IF governed THEN (IF runtimeReady THEN "Ready" ELSE "Unhealthy") ELSE "Pending"

\* The status a Reconcile arrives at, and whether it ends with an error.
Verdict(m, o) ==
    LET r == ReconcileRoute(m, o)
        alias == ResolvedModelAlias(m, o.status)
    IN  IF r.err = "pending"
        THEN [status |-> [r.status EXCEPT !.phase = "Pending"], retry |-> FALSE]
        ELSE IF r.err = "error" \/ ~backend[m].exists
        THEN [status |-> [r.status EXCEPT !.phase = "Failed"], retry |-> TRUE]
        ELSE [status |-> [r.status EXCEPT
                            !.alias = alias,
                            !.unique = ModelIdentityUnique(m, alias),
                            !.phase = deriveModelPhase(checkGovernanceAttached(m),
                                                       RuntimeReady(m, r.status))],
              retry |-> FALSE]

---------------------------------------------------------------------------
(* Reconcile.                                                              *)

\* Adding the finalizer to an old copy is refused, and retried.
Reconcile(m) ==
    /\ m \in queue /\ worker = None /\ cache[m] # None /\ ~cache[m].deleting
    /\ cache[m].finalizer \/ cache[m] = store[m]
    /\ queue' = queue \ {m}
    /\ LET o == [cache[m] EXCEPT !.finalizer = TRUE]
           v == Verdict(m, o)
       IN  /\ IF cache[m].finalizer THEN UNCHANGED <<store, stream>> ELSE Save(m, o)
           /\ worker' = [model |-> m, base |-> o, status |-> v.status, retry |-> v.retry]
    /\ missed' = missed \ {m}
    /\ UNCHANGED <<cache, backend, paired, tenantGw, events, lost, edits>>

\* updateStatus: nothing is written if the copy already says so, and a refused
\* write is not repeated.
updateStatus ==
    /\ worker # None
    /\ LET m == worker.model
           o == [worker.base EXCEPT !.status = worker.status]
       IN  /\ IF store[m] = worker.base THEN Save(m, o) ELSE UNCHANGED <<store, stream>>
           /\ lost' = IF store[m] # None /\ store'[m].status = worker.status THEN lost \ {m}
                                                                             ELSE lost \cup {m}
           /\ queue' = IF worker.retry THEN queue \cup {m} ELSE queue
    /\ worker' = None
    /\ UNCHANGED <<cache, backend, paired, tenantGw, events, missed, edits>>

\* handleDeletion, after the generated policies are gone (RateLimits has them):
\* an old copy is refused, and retried.
handleDeletion(m) ==
    /\ m \in queue /\ worker = None /\ (cache[m] = None \/ (cache[m] # None /\ cache[m].deleting))
    /\ cache[m] = None \/ cache[m] = store[m]
    /\ queue' = queue \ {m}
    /\ IF cache[m] = None THEN UNCHANGED <<store, stream>> ELSE Save(m, None)
    /\ UNCHANGED <<cache, backend, paired, tenantGw, events, worker, lost, missed,
                   edits>>

Restart ==
    /\ Edit
    /\ worker' = None
    /\ cache' = store
    /\ stream' = <<>>
    /\ queue' = {m \in Models : store[m] # None}
    /\ events' = {}
    /\ missed' = {}
    /\ UNCHANGED <<store, backend, paired, tenantGw, lost>>

---------------------------------------------------------------------------
Work == updateStatus \/ \E m \in Models : Reconcile(m) \/ handleDeletion(m)
Watch == ModelEvent \/ (\E m \in Models : BackendEvent(m)) \/ \E t \in Tenants : TenantEvent(t)

Next ==
    \/ Work \/ Watch \/ Restart
    \/ \E m \in Models : Create(m) \/ Delete(m) \/ BackendChanges(m) \/ GovernanceChanges(m)
    \/ \E t \in Tenants : TenantChanges(t)

Spec == Init /\ [][Next]_vars

---------------------------------------------------------------------------
(* Properties.                                                             *)

\* Nothing is under way that concerns model m.
Settled(m) ==
    /\ store[m] # None /\ stream = <<>> /\ events = {}
    /\ m \notin queue /\ worker = None

\* The route of model m, by the name the ExternalModel gives, is at the gateway of the
\* tenant recorded in the status.
Served(m) ==
    LET t == store[m].status.tenant IN
    backend[m].named /\ backend[m].gw \in Gateways /\ t # None /\ tenantGw[t] = backend[m].gw

Up(m) == backend[m].exists /\ backend[m].ready

\* Model m is Ready if and only if it is governed, served and its backend is ready.  An
\* ExternalModel, once Ready, may be gone or its route no longer accepted.
ReadyAgrees(m) ==
    LET ready == store[m].status.phase = "Ready" IN
    /\ ready => m \in paired /\ Served(m)
    /\ ready /\ m \notin External => Up(m)
    /\ m \in paired /\ Up(m) /\ Served(m) => ready

\* At rest the status is right for every model whose last verdict was written, of
\* either kind: updateStatus, the mappings of the watches and the order of the cache
\* leave no model behind.  Two changes may fail to reach a model: one of a tenant
\* that comes before the cache has that tenant as the model's, and one of the route's
\* name in the status of an ExternalModel, which nobody watches.
ReadyIsServed ==
    \A m \in Models : Settled(m) /\ m \notin lost \cup missed => ReadyAgrees(m)

SharedIdentity(m, n) ==
    /\ m # n /\ Settled(m) /\ Settled(n) /\ {m, n} \cap lost = {}
    /\ store[m].status.phase = "Ready" /\ store[n].status.phase = "Ready"
    /\ store[m].status.alias # None /\ store[m].status.alias = store[n].status.alias

\* Two Ready models that came to share a recorded identity do not both go on
\* calling it unique: whoever is notified last sees the other.
ConflictSeen ==
    \A m, n \in Models : SharedIdentity(m, n)
      => "False" \in {store[m].status.unique, store[n].status.unique}
=============================================================================
