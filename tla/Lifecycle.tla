------------------------------ MODULE Lifecycle ------------------------------
(***************************************************************************)
(* The life of an installation: the maas-controller Deployment, the        *)
(* cluster-wide Config that anchors everything the controller creates, the *)
(* default AITenant with its MaasTenantConfig and the platform deployed    *)
(* for it, and the teardown that an operator requests on the Deployment.   *)
(*                                                                         *)
(* Objects hang on the Config by owner references that carry its UID; the  *)
(* garbage collector takes whatever hangs on a Config that is gone.  Three *)
(* parts of the controller work on these objects, each from caches that    *)
(* lag: LifecycleReconciler (one request, queued by watches), the          *)
(* bootstrap of the default AITenant (every 30 s) and TenantReconciler     *)
(* (each MaasTenantConfig, again and again).  The AITenant controller is   *)
(* the one of TenantGateways, reduced to what it does for these objects.   *)
(***************************************************************************)
EXTENDS Naturals, FiniteSets

CONSTANTS
    Tenants,        \* AITenants that can exist
    Default,        \* the default one, which alone hangs on the Config
    None,           \* nothing there
    MaxEdits        \* bound on changes from outside, faults and restarts

ASSUME LifecycleConstants ==
    /\ Default \in Tenants /\ None \notin Tenants
    /\ MaxEdits \in Nat

VARIABLES
    dep, knownDep,              \* the Deployment and the cache's copy
    config, knownConfig,        \* Config/default and the cache's copy
    aitenants,      \* the AITenants
    tenantConfig,   \* MaasTenantConfig/default-tenant
    platform,       \* maas-api and the rest of what is applied for the default tenant, by
                    \* the UID it hangs on; 0 if it is not there
    logs,           \* objects for observability, likewise
    crd,            \* whether the OpenTelemetryCollector CRD is installed
    monitoring,     \* whether the monitoring namespace is configured and there
    namespace,      \* the namespace of the AITenants
    maintain,       \* the namespace monitor found no reason to pause
    blocked,        \* something keeps the platform from being applied: the management
                    \* state, the gateway, a dependency or a prerequisite
    secret,         \* the namespace maas-db-config is in: that of maas-api, or the
                    \* controller's, where older releases have it
    allowed,        \* the controller's service account has the rights its start asks for:
                    \* to look at namespaces and to copy the secret
    running,        \* the controller process
    queue, rec,     \* LifecycleReconciler: request queued, Reconcile under way
    uid,            \* the last UID given to a Config
    old,            \* history: AITenants older than the requested teardown
    renewed,        \* history: the request is newer than the teardown under way, which
                    \* has already seen to the AITenants for an earlier request
    torn,           \* history: somebody deleted the Deployment, or the Config it hung on
    left,           \* history: the last look at observability left a binding it could not
                    \* look up, or for which it had no monitoring namespace to work in
    edits           \* counter for the bound

vars == <<dep, knownDep, config, knownConfig, aitenants, tenantConfig, platform, logs, crd,
          monitoring, namespace, maintain, blocked, secret, allowed, running, queue, rec, uid,
          old, renewed, torn, left, edits>>
caches == <<knownDep, knownConfig>>
environment == <<crd, monitoring, blocked, secret, allowed>>
process == <<maintain, running>>
tenantVars == <<tenantConfig, platform>>
history == <<old, renewed, torn, left>>

UIDs == Nat
Deployment == [requested : BOOLEAN, completed : BOOLEAN, owned : BOOLEAN,
               finalizer : BOOLEAN, deleting : BOOLEAN]
Config == [uid : UIDs, deleting : BOOLEAN, marker : BOOLEAN, logging : BOOLEAN,
           ready : BOOLEAN]
AITenant == [owner : UIDs, deleting : BOOLEAN, ready : BOOLEAN]
MaasTenantConfig == [owner : UIDs, deleting : BOOLEAN, finalizer : BOOLEAN, ready : BOOLEAN]
LogObjects == {"dashboard", "filter", "collector", "binding"}
Steps == {"link", "report", "delete", "mark"}
ASSUME NoneAssumption ==
    None \notin Deployment \cup Config \cup AITenant \cup MaasTenantConfig
                \cup [step : Steps, anchored : BOOLEAN]

TypeOK ==
    /\ dep \in Deployment \cup {None} /\ knownDep \in Deployment \cup {None}
    /\ config \in Config \cup {None} /\ knownConfig \in Config \cup {None}
    /\ aitenants \in [Tenants -> AITenant \cup {None}]
    /\ tenantConfig \in MaasTenantConfig \cup {None}
    /\ platform \in UIDs /\ logs \in [LogObjects -> UIDs]
    /\ namespace \in {"active", "terminating", "missing"}
    /\ secret \in {"maas-api", "controller", "missing"}
    /\ monitoring \in BOOLEAN /\ allowed \in BOOLEAN
    /\ crd \in BOOLEAN /\ blocked \in BOOLEAN /\ maintain \in BOOLEAN
    /\ running \in BOOLEAN /\ queue \in BOOLEAN /\ renewed \in BOOLEAN /\ torn \in BOOLEAN
    /\ left \in BOOLEAN
    /\ rec \in [step : Steps, anchored : BOOLEAN] \cup {None}
    /\ uid \in UIDs /\ old \subseteq Tenants /\ edits \in 0..MaxEdits

NoLogs == [l \in LogObjects |-> 0]

\* Nothing but the Deployment: a fresh installation
Fresh ==
    /\ dep = [requested |-> FALSE, completed |-> FALSE, owned |-> FALSE,
              finalizer |-> FALSE, deleting |-> FALSE]
    /\ config = None /\ uid = 0 /\ namespace = "missing"
    /\ secret \in {"maas-api", "missing"}
    /\ aitenants = [t \in Tenants |-> None] /\ tenantConfig = None /\ platform = 0
    /\ old = {}

\* An installation of an older release: its Deployment hangs on the Config and has a
\* finalizer, its maas-api has the database secret in the controller's namespace.  It
\* may have tenants and usage logging, and its teardown may have been requested since.
Upgrade ==
    \E requested, populated, logging \in BOOLEAN :
      /\ dep = [requested |-> requested, completed |-> FALSE, owned |-> TRUE,
                finalizer |-> TRUE, deleting |-> FALSE]
      /\ config = [uid |-> 1, deleting |-> FALSE, marker |-> FALSE, logging |-> logging,
                   ready |-> FALSE]
      /\ uid = 1 /\ secret = "controller" /\ namespace = "active"
      /\ aitenants = [t \in Tenants |->
           IF populated THEN [owner |-> IF t = Default THEN 1 ELSE 0, deleting |-> FALSE,
                              ready |-> FALSE]
           ELSE None]
      /\ tenantConfig = IF populated THEN [owner |-> 1, deleting |-> FALSE,
                                           finalizer |-> TRUE, ready |-> FALSE]
                        ELSE None
      /\ platform = IF populated THEN 1 ELSE 0
      /\ old = IF requested /\ populated THEN Tenants ELSE {}

Init ==
    /\ Fresh \/ Upgrade
    /\ knownDep = None /\ knownConfig = None
    /\ logs = NoLogs /\ crd = TRUE
    /\ monitoring \in BOOLEAN /\ allowed \in BOOLEAN
    /\ maintain = FALSE /\ blocked = FALSE
    /\ running = FALSE /\ queue = FALSE /\ rec = None
    /\ renewed = FALSE /\ torn = FALSE /\ left = FALSE /\ edits = 0

Exists(t) == aitenants[t] # None
Terminating(o) == [o EXCEPT !.deleting = TRUE]
DeleteAll(ts) == [t \in Tenants |-> IF t \in ts /\ Exists(t) THEN Terminating(aitenants[t])
                                    ELSE aitenants[t]]
AITenantEvents == queue' = (queue \/ aitenants'[Default] # aitenants[Default])

\* The watches tell LifecycleReconciler of the default AITenant and its MaasTenantConfig.
TenantEvents ==
    queue' = (queue \/ aitenants'[Default] # aitenants[Default] \/ tenantConfig' # tenantConfig)

DeletedTenantConfig ==
    IF tenantConfig = None \/ ~tenantConfig.finalizer THEN None ELSE Terminating(tenantConfig)

---------------------------------------------------------------------------
(* Operators and administrators.                                           *)

Edit == edits < MaxEdits /\ edits' = edits + 1

\* Of a teardown that is complete the annotation stays; a Deployment that has it is
\* not asked again.
RequestTeardown ==
    /\ Edit /\ dep # None /\ ~dep.requested /\ ~dep.completed
    /\ dep' = [dep EXCEPT !.requested = TRUE]
    /\ old' = {t \in Tenants : Exists(t)}
    /\ renewed' = (rec # None /\ rec.step \in {"delete", "mark"})
    /\ UNCHANGED <<caches, config, aitenants, tenantVars, logs, environment, namespace,
                   process, queue, rec, uid, torn, left>>

\* The operator thinks better of it before the teardown is complete.
WithdrawTeardown ==
    /\ Edit /\ dep # None /\ dep.requested /\ ~dep.completed
    /\ dep' = [dep EXCEPT !.requested = FALSE]
    /\ UNCHANGED <<caches, config, aitenants, tenantVars, logs, environment, namespace,
                   process, queue, rec, uid, history>>

DeleteDeployment ==
    /\ Edit /\ dep # None /\ ~dep.deleting
    /\ dep' = IF dep.finalizer THEN Terminating(dep) ELSE None
    /\ torn' = TRUE
    /\ UNCHANGED <<caches, config, aitenants, tenantVars, logs, environment, namespace,
                   process, queue, rec, uid, old, renewed, left>>

\* Of the Config, with its dependents before it or after it
DeleteConfig ==
    /\ Edit /\ config # None /\ ~config.deleting
    /\ config' \in {None, Terminating(config)}
    /\ torn' = (torn \/ (dep # None /\ dep.owned))
    /\ UNCHANGED <<dep, caches, aitenants, tenantVars, logs, environment, namespace,
                   process, queue, rec, uid, old, renewed, left>>

ToggleLogging ==
    /\ Edit /\ config # None
    /\ config' = [config EXCEPT !.logging = ~@]
    /\ UNCHANGED <<dep, caches, aitenants, tenantVars, logs, environment, namespace,
                   process, queue, rec, uid, history>>

\* A CRD takes its objects with it; LifecycleReconciler watches those of optional
\* operators.
ToggleCRD ==
    /\ Edit /\ crd' = ~crd
    /\ logs' = IF crd THEN [logs EXCEPT !["collector"] = 0] ELSE logs
    /\ queue' = TRUE
    /\ UNCHANGED <<dep, caches, config, aitenants, tenantVars, monitoring, blocked, secret,
                   allowed, namespace, process, rec, uid, history>>

\* Created or deleted.  What it holds goes with it, of which LifecycleReconciler watches
\* a part; the namespace itself is not watched, and the binding is not in it.
ToggleMonitoring ==
    /\ Edit /\ monitoring' = ~monitoring
    /\ IF monitoring
       THEN /\ logs' = [logs EXCEPT !["dashboard"] = 0, !["collector"] = 0]
            /\ queue' \in {queue, TRUE}
       ELSE UNCHANGED <<logs, queue>>
    /\ UNCHANGED <<dep, caches, config, aitenants, tenantVars, crd, blocked, secret, allowed,
                   namespace, process, rec, uid, history>>

CreateAITenant(t) ==
    /\ Edit /\ t # Default /\ ~Exists(t) /\ namespace = "active"
    /\ aitenants' = [aitenants EXCEPT ![t] = [owner |-> 0, deleting |-> FALSE, ready |-> FALSE]]
    /\ UNCHANGED <<dep, caches, config, tenantVars, logs, environment, namespace, process,
                   queue, rec, uid, history>>

DeleteAITenant(t) ==
    /\ Edit /\ Exists(t) /\ ~aitenants[t].deleting
    /\ aitenants' = DeleteAll({t}) /\ UNCHANGED tenantVars /\ TenantEvents
    /\ UNCHANGED <<dep, caches, config, logs, environment, namespace, process, rec, uid,
                   history>>

DeleteNamespace ==
    /\ Edit /\ namespace = "active" /\ namespace' = "terminating"
    /\ aitenants' = DeleteAll(Tenants) /\ UNCHANGED tenantVars /\ TenantEvents
    /\ UNCHANGED <<dep, caches, config, logs, environment, process, rec, uid, history>>

Block ==
    /\ Edit /\ ~blocked /\ blocked' = TRUE
    /\ UNCHANGED <<dep, caches, config, aitenants, tenantVars, logs, crd, monitoring, secret,
                   allowed, namespace, process, queue, rec, uid, history>>

Unblock ==
    /\ blocked /\ blocked' = FALSE
    /\ UNCHANGED <<dep, caches, config, aitenants, tenantVars, logs, crd, monitoring, secret,
                   allowed, namespace, process, queue, rec, uid, history, edits>>

Crash ==
    /\ Edit /\ running /\ running' = FALSE
    /\ rec' = None /\ queue' = FALSE /\ maintain' = FALSE
    /\ UNCHANGED <<dep, caches, config, aitenants, tenantVars, logs, environment, namespace,
                   uid, history>>

---------------------------------------------------------------------------
(* Start of the process, and the monitor of the AITenants' namespace.      *)

\* ensureManagedNamespaceWithClient: wait while it terminates, then create.  Without
\* the right to look at it, take it to be there.
ensureManagedNamespace ==
    IF allowed THEN namespace # "terminating" /\ namespace' = "active"
    ELSE UNCHANGED namespace

\* Without one to copy, or the right to, the process starts all the same.
migrateMaaSDBSecret ==
    secret' = IF secret = "controller" /\ allowed THEN "maas-api" ELSE secret

Start ==
    /\ ~running /\ dep # None /\ running' = TRUE
    /\ ensureManagedNamespace /\ migrateMaaSDBSecret
    /\ knownDep' = dep /\ knownConfig' = config
    /\ queue' = TRUE
    /\ UNCHANGED <<dep, config, aitenants, tenantVars, logs, crd, monitoring, blocked,
                   allowed, maintain, rec, uid, history, edits>>

\* The process goes with its Deployment.
Stop ==
    /\ running /\ dep = None /\ running' = FALSE
    /\ rec' = None /\ queue' = FALSE /\ maintain' = FALSE
    /\ UNCHANGED <<dep, caches, config, aitenants, tenantVars, logs, environment, namespace,
                   uid, history, edits>>

aitenantTeardownPauseCondition == dep = None \/ dep.requested

CheckNamespace ==
    /\ running /\ ~maintain /\ namespace # "active"
    /\ ~aitenantTeardownPauseCondition /\ maintain' = TRUE
    /\ UNCHANGED <<dep, caches, config, aitenants, tenantVars, logs, environment, namespace,
                   running, queue, rec, uid, history, edits>>

\* The wait ends with the namespace or after 90 s.
MaintainNamespace ==
    /\ running /\ maintain /\ maintain' = FALSE
    /\ \/ ensureManagedNamespace
       \/ namespace = "terminating" /\ UNCHANGED namespace
    /\ UNCHANGED <<dep, caches, config, aitenants, tenantVars, logs, environment,
                   running, queue, rec, uid, history, edits>>

NamespaceGone ==
    /\ namespace = "terminating" /\ \A t \in Tenants : ~Exists(t)
    /\ namespace' = "missing"
    /\ UNCHANGED <<dep, caches, config, aitenants, tenantVars, logs, environment, process,
                   queue, rec, uid, history, edits>>

---------------------------------------------------------------------------
(* Watches of LifecycleReconciler.                                         *)

SyncDeployment ==
    /\ running /\ knownDep # dep /\ knownDep' = dep /\ queue' = TRUE
    /\ UNCHANGED <<dep, config, knownConfig, aitenants, tenantVars, logs, environment,
                   namespace, process, rec, uid, history, edits>>

SyncConfig ==
    /\ running /\ knownConfig # config /\ knownConfig' = config /\ queue' = TRUE
    /\ UNCHANGED <<dep, knownDep, config, aitenants, tenantVars, logs, environment,
                   namespace, process, rec, uid, history, edits>>

---------------------------------------------------------------------------
(* LifecycleReconciler.                                                    *)

Idle == running /\ queue /\ rec = None

Running(d) == d # None /\ ~d.deleting

ToStep(s) == rec' = [step |-> s, anchored |-> knownConfig # None] /\ queue' = FALSE
Requeue == rec' = None /\ queue' = TRUE

\* A Deployment that is gone, or on its way: only the finalizer of older releases
\* is removed.
Leave ==
    /\ Idle /\ ~Running(knownDep)
    /\ queue' = FALSE
    /\ dep' = IF knownDep # None /\ dep # None /\ dep.deleting THEN None ELSE dep
    /\ UNCHANGED <<caches, config, aitenants, tenantVars, logs, environment, namespace,
                   process, rec, uid, history, edits>>

KeepOwnerReference == dep

stripLegacyOwnerReference == IF dep = None THEN None ELSE [dep EXCEPT !.owned = FALSE]

\* The patch fails where the Deployment is gone.
Ready == Idle /\ Running(knownDep) /\ (knownDep.owned => dep # None)

ensureInitialConfig ==
    /\ Ready /\ knownConfig = None /\ ~knownDep.requested /\ uid = 0
    /\ dep' = stripLegacyOwnerReference
    /\ config' = [uid |-> 1, deleting |-> FALSE, marker |-> FALSE, logging |-> FALSE,
                  ready |-> FALSE]
    /\ uid' = 1 /\ Requeue
    /\ UNCHANGED <<caches, aitenants, tenantVars, logs, environment, namespace, process,
                   history, edits>>

\* Create, or find that it exists; the cache will have it later.
ensureSingletonConfig ==
    /\ Ready
    /\ knownConfig = None /\ ~knownDep.requested
    /\ dep' = stripLegacyOwnerReference
    /\ IF config = None
       THEN /\ config' = [uid |-> uid + 1, deleting |-> FALSE, marker |-> FALSE,
                          logging |-> FALSE, ready |-> FALSE]
            /\ uid' = uid + 1
       ELSE UNCHANGED <<config, uid>>
    /\ Requeue
    /\ UNCHANGED <<caches, aitenants, tenantVars, logs, environment, namespace, process,
                   history, edits>>

Begin ==
    /\ Ready
    /\ knownConfig # None /\ ~knownDep.requested
    /\ dep' = stripLegacyOwnerReference
    /\ ToStep("link")
    /\ UNCHANGED <<caches, config, aitenants, tenantVars, logs, environment, namespace,
                   process, uid, history, edits>>

\* ensureDefaultAITenantReferencesConfig, ensureTenantReferencesConfig
Linked(o) == [o EXCEPT !.owner = knownConfig.uid]

Link ==
    /\ running /\ rec # None /\ rec.step = "link"
    /\ IF knownConfig = None \/ knownConfig.deleting
       THEN Requeue /\ UNCHANGED <<aitenants, tenantConfig>>
       ELSE /\ aitenants' = IF Exists(Default)
                            THEN [aitenants EXCEPT ![Default] = Linked(@)] ELSE aitenants
            /\ tenantConfig' = IF tenantConfig # None THEN Linked(tenantConfig) ELSE None
            /\ rec' = [rec EXCEPT !.step = "report"] /\ TenantEvents
    /\ UNCHANGED <<dep, caches, config, platform, logs, environment, namespace,
                   process, uid, history, edits>>

ensureUsageDashboard == knownConfig.uid

ensureUsageLogsEnvoyFilter == IF knownConfig # None /\ knownConfig.logging
                              THEN knownConfig.uid ELSE 0

BindingKept(found) == IF knownConfig.logging THEN knownConfig.uid ELSE 0

\* With its CRD missing the collector is left out.  The binding of its service account,
\* applied a moment ago with the Config as controller, is then looked up and deleted;
\* where it cannot be looked up it stays, and nobody is told.
BindingAfter(found) == IF knownConfig.logging /\ (crd \/ ~found) THEN knownConfig.uid ELSE 0

ensureUsageLogs(found) ==
    [l \in LogObjects |->
       CASE l = "dashboard" -> ensureUsageDashboard
         [] l = "filter" -> ensureUsageLogsEnvoyFilter
         [] l = "collector" -> IF knownConfig.logging /\ crd THEN knownConfig.uid ELSE 0
         [] l = "binding" -> BindingAfter(found)]

ensureObservability ==
    IF ~monitoring THEN UNCHANGED logs /\ left' = (logs["binding"] # 0)
    ELSE IF knownConfig = None
    THEN logs' = [logs EXCEPT !["filter"] = ensureUsageLogsEnvoyFilter] /\ UNCHANGED left
    ELSE \E found \in (IF knownConfig.logging /\ ~crd THEN BOOLEAN ELSE {TRUE}) :
           logs' = ensureUsageLogs(found) /\ left' = ~found

\* A binding that is applied only to be deleted again is an event for its watch, too.
BindingEvents ==
    \/ logs'["binding"] # logs["binding"]
    \/ monitoring /\ knownConfig # None /\ knownConfig.logging /\ ~crd /\ logs'["binding"] = 0

\* syncModuleStatus
OperandsReady ==
    /\ Exists(Default) /\ aitenants[Default].ready
    /\ tenantConfig # None /\ tenantConfig.ready

Report ==
    /\ running /\ rec # None /\ rec.step = "report"
    /\ ensureObservability
    /\ dep' = IF dep = None THEN None
              ELSE IF dep.deleting THEN None ELSE [dep EXCEPT !.finalizer = FALSE]
    /\ config' = IF config = None THEN None ELSE [config EXCEPT !.ready = OperandsReady]
    /\ IF config = None THEN Requeue ELSE rec' = None /\ queue' = (queue \/ BindingEvents)
    /\ UNCHANGED <<caches, aitenants, tenantVars, environment, namespace, process, uid,
                   old, renewed, torn, edits>>

---------------------------------------------------------------------------
(* Requested teardown.                                                     *)

MarkerKnown == knownConfig # None /\ knownConfig.marker

clearBootstrapMarker ==
    config' = IF config # None /\ MarkerKnown
              THEN [config EXCEPT !.marker = FALSE] ELSE config

UndeletedOnly == {t \in Tenants : Exists(t) /\ ~aitenants[t].deleting}

\* Pending are AITenants of which anything is left; the list is not a cached one.
cleanupTeardownResources == {t \in Tenants : Exists(t)}

\* Clearing the marker of a Config that is gone is an error, and the end of this pass.
handleRequestedTeardown ==
    LET pending == cleanupTeardownResources IN
    /\ Ready /\ knownDep.requested
    /\ dep' = stripLegacyOwnerReference
    /\ clearBootstrapMarker
    /\ IF MarkerKnown /\ config = None THEN UNCHANGED aitenants /\ Requeue
       ELSE /\ aitenants' = DeleteAll(pending)
            /\ IF pending = {} THEN ToStep("delete") ELSE Requeue
    /\ UNCHANGED <<caches, tenantVars, logs, environment, namespace, process, uid, history,
                   edits>>

DeleteAnchor ==
    /\ running /\ rec # None /\ rec.step = "delete"
    /\ config' = IF rec.anchored /\ config # None /\ ~config.deleting THEN None ELSE config
    /\ rec' = [rec EXCEPT !.step = "mark"]
    /\ UNCHANGED <<dep, caches, aitenants, tenantVars, logs, environment, namespace, process,
                   queue, uid, history, edits>>

markTeardownCompleted ==
    /\ running /\ rec # None /\ rec.step = "mark"
    /\ IF dep = None THEN Requeue /\ UNCHANGED dep
       ELSE dep' = [dep EXCEPT !.completed = TRUE] /\ rec' = None /\ UNCHANGED queue
    /\ UNCHANGED <<caches, config, aitenants, tenantVars, logs, environment, namespace,
                   process, uid, history, edits>>

---------------------------------------------------------------------------
(* Bootstrap of the default AITenant.                                      *)

BootstrapDuringTeardown ==
    /\ running /\ Running(knownDep) /\ knownConfig # None /\ ~knownConfig.deleting

BootstrapAllowed ==
    /\ running /\ Running(knownDep) /\ ~knownDep.requested
    /\ knownConfig # None /\ ~knownConfig.deleting

ensureDefaultAITenantBootstrap ==
    /\ BootstrapAllowed /\ ~knownConfig.marker
    /\ ~Exists(Default) /\ namespace = "active"
    /\ aitenants' = [aitenants EXCEPT ![Default] =
         [owner |-> knownConfig.uid, deleting |-> FALSE, ready |-> FALSE]]
    /\ UNCHANGED tenantVars /\ TenantEvents
    /\ UNCHANGED <<dep, caches, config, logs, environment, namespace, process, rec, uid,
                   history, edits>>

Bootstrapped(o) == o.ready /\ ~o.deleting

markDefaultAITenantBootstrapped ==
    /\ BootstrapAllowed /\ Exists(Default) /\ Bootstrapped(aitenants[Default])
    /\ ~knownConfig.marker /\ config # None /\ ~config.marker
    /\ config' = [config EXCEPT !.marker = TRUE]
    /\ UNCHANGED <<dep, caches, aitenants, tenantVars, logs, environment, namespace, process,
                   queue, rec, uid, history, edits>>

---------------------------------------------------------------------------
(* TenantReconciler: MaasTenantConfig/default-tenant and its platform.     *)

readyConfigOrWait == knownConfig # None /\ ~knownConfig.deleting

\* The dependencies, the gateway, the database secret
Prerequisites == ~blocked /\ Exists(Default) /\ secret = "maas-api"

isOwnedByExternalController == platform \notin {0, knownConfig.uid}

ApplyRendered == IF isOwnedByExternalController THEN platform ELSE knownConfig.uid

\* Whatever is amiss, the platform is left as it is.
RunPlatform == IF readyConfigOrWait /\ Prerequisites THEN ApplyRendered ELSE platform

\* What was applied earlier is up.
PlatformReady == readyConfigOrWait /\ Prerequisites /\ platform # 0

ReconcileTenant ==
    /\ running /\ tenantConfig # None /\ ~tenantConfig.deleting
    /\ platform' = RunPlatform
    /\ tenantConfig' = [tenantConfig EXCEPT !.finalizer = TRUE, !.ready = PlatformReady]
    /\ UNCHANGED aitenants /\ TenantEvents
    /\ UNCHANGED <<dep, caches, config, logs, environment, namespace, process, rec,
                   uid, history, edits>>

\* With the MaaSSubscriptions and MaaSAuthPolicies gone before, see TenantGateways
cleanupTenantResources ==
    /\ running /\ tenantConfig # None /\ tenantConfig.deleting
    /\ platform' = 0 /\ tenantConfig' = None
    /\ UNCHANGED aitenants /\ TenantEvents
    /\ UNCHANGED <<dep, caches, config, logs, environment, namespace, process, rec,
                   uid, history, edits>>

---------------------------------------------------------------------------
(* The AITenant controller.                                                *)

ProvisionDefault ==
    /\ running /\ Exists(Default) /\ ~aitenants[Default].deleting
    /\ tenantConfig' = IF tenantConfig # None THEN tenantConfig
                       ELSE [owner |-> 0, deleting |-> FALSE, finalizer |-> FALSE,
                             ready |-> FALSE]
    /\ aitenants' = [aitenants EXCEPT ![Default].ready =
         tenantConfig # None /\ ~tenantConfig.deleting /\ tenantConfig.ready]
    /\ TenantEvents
    /\ UNCHANGED <<dep, caches, config, platform, logs, environment, namespace, process,
                   rec, uid, history, edits>>

FinalizeAITenant(t) ==
    /\ running /\ Exists(t) /\ aitenants[t].deleting
    /\ IF t = Default /\ tenantConfig # None
       THEN tenantConfig' = DeletedTenantConfig /\ UNCHANGED <<aitenants, old>>
       ELSE /\ aitenants' = [aitenants EXCEPT ![t] = None] /\ old' = old \ {t}
            /\ UNCHANGED tenantConfig
    /\ TenantEvents
    /\ UNCHANGED <<dep, caches, config, platform, logs, environment, namespace, process,
                   rec, uid, renewed, torn, left, edits>>

---------------------------------------------------------------------------
(* The garbage collector.                                                  *)

Dead(u) == u \notin {0, IF config = None THEN 0 ELSE config.uid}

\* A Config deleted with its dependents first takes those that block it.
Doomed(u) == u # 0 /\ (config # None /\ config.uid = u => config.deleting)

CollectTenant ==
    /\ \/ /\ Exists(Default) /\ ~aitenants[Default].deleting /\ Dead(aitenants[Default].owner)
          /\ aitenants' = DeleteAll({Default}) /\ UNCHANGED tenantConfig
       \/ /\ tenantConfig # None /\ ~tenantConfig.deleting /\ Dead(tenantConfig.owner)
          /\ tenantConfig' = DeletedTenantConfig /\ UNCHANGED aitenants
    /\ TenantEvents
    /\ UNCHANGED <<dep, caches, config, platform, logs, environment, namespace, process,
                   rec, uid, history, edits>>

\* Nobody looks at the objects for observability between the collection of one and
\* that of the next.
CollectObjects ==
    LET gone == {l \in LogObjects : IF l = "filter" THEN Dead(logs[l]) ELSE Doomed(logs[l])} IN
    /\ gone # {} \/ Doomed(platform)
    /\ platform' = IF Doomed(platform) THEN 0 ELSE platform
    /\ logs' = [l \in LogObjects |-> IF l \in gone THEN 0 ELSE logs[l]]
    /\ queue' = (queue \/ "binding" \in gone)
    /\ UNCHANGED <<dep, caches, config, aitenants, tenantConfig, environment,
                   namespace, process, rec, uid, history, edits>>

\* The Deployment of an older release hangs on the first Config.
CollectDeployment ==
    /\ dep # None /\ dep.owned /\ ~dep.deleting /\ Dead(1)
    /\ dep' = IF dep.finalizer THEN Terminating(dep) ELSE None
    /\ UNCHANGED <<caches, config, aitenants, tenantVars, logs, environment, namespace,
                   process, queue, rec, uid, history, edits>>

CollectConfig ==
    /\ config # None /\ config.deleting
    /\ platform # config.uid
    /\ \A l \in LogObjects \ {"filter"} : logs[l] # config.uid
    /\ config' = None
    /\ UNCHANGED <<dep, caches, aitenants, tenantVars, logs, environment, namespace, process,
                   queue, rec, uid, history, edits>>

---------------------------------------------------------------------------
Outside ==
    \/ RequestTeardown \/ WithdrawTeardown \/ DeleteDeployment \/ DeleteConfig
    \/ ToggleLogging \/ ToggleCRD \/ ToggleMonitoring \/ DeleteNamespace
    \/ Block \/ Unblock \/ Crash
    \/ \E t \in Tenants : CreateAITenant(t) \/ DeleteAITenant(t)

ReconcileLifecycle ==
    \/ Leave \/ ensureSingletonConfig \/ Begin \/ Link \/ Report
    \/ handleRequestedTeardown \/ DeleteAnchor \/ markTeardownCompleted

Bootstrap == ensureDefaultAITenantBootstrap \/ markDefaultAITenantBootstrapped

Monitor == CheckNamespace \/ MaintainNamespace

ReconcileMaasTenantConfig == ReconcileTenant \/ cleanupTenantResources

ReconcileAITenant(t) == (t = Default /\ ProvisionDefault) \/ FinalizeAITenant(t)

GarbageCollection == CollectTenant \/ CollectObjects \/ CollectDeployment \/ CollectConfig

Next ==
    \/ Outside
    \/ Start \/ Stop \/ Monitor \/ NamespaceGone \/ SyncDeployment \/ SyncConfig
    \/ ReconcileLifecycle \/ Bootstrap \/ ReconcileMaasTenantConfig
    \/ \E t \in Tenants : ReconcileAITenant(t)
    \/ GarbageCollection

Spec == Init /\ [][Next]_vars

\* Kubernetes starts and stops the process and collects garbage, watches deliver,
\* every work queue and every periodic check makes progress.
FairSpec ==
    /\ Spec
    /\ WF_vars(Start \/ Stop) /\ WF_vars(Monitor) /\ WF_vars(NamespaceGone)
    /\ WF_vars(SyncDeployment) /\ WF_vars(SyncConfig)
    /\ WF_vars(ReconcileLifecycle) /\ WF_vars(Bootstrap)
    /\ WF_vars(ReconcileMaasTenantConfig)
    /\ \A t \in Tenants : WF_vars(ReconcileAITenant(t))
    /\ WF_vars(GarbageCollection)

---------------------------------------------------------------------------
(* Properties.                                                             *)

\* The signal tells the truth: where markTeardownCompleted has reported a requested
\* teardown complete, every AITenant there was when it was requested is gone,
\* finalizers and all.  Only a request that was withdrawn and made again while the
\* Reconcile for the first one was past its list of AITenants gets the answer to
\* that one.
TeardownHonest == dep # None /\ dep.requested /\ dep.completed /\ ~renewed => old = {}

\* The signal survives: handleRequestedTeardown never takes down, by way of the Config
\* it deletes, the Deployment that has to carry the annotation.
SignalSurvives == (dep = None \/ dep.deleting) => torn

\* At rest, the Config tells whether the default tenant is ready: syncModuleStatus runs
\* after every change of the two objects it looks at.
ModuleStatusAgrees ==
    ( /\ Running(dep) /\ ~dep.requested /\ config # None /\ ~config.deleting
      /\ knownDep = dep /\ knownConfig = config
      /\ running /\ ~queue /\ rec = None )
    => config.ready = OperandsReady

\* At rest, without the collector's CRD there is no binding for its service account:
\* ensureUsageLogs removes it even if the CRD, and the collector with it, went away.
\* A binding stays only where the last pass failed to look it up, or found no monitoring
\* namespace and did not come as far.
NoOrphanBinding ==
    ( /\ Running(dep) /\ ~dep.requested /\ config # None
      /\ knownDep = dep /\ knownConfig = config /\ running /\ ~queue /\ rec = None )
    => (logs["binding"] # 0 => crd \/ left)

\* handleRequestedTeardown finishes, although the controllers that finalize what it
\* deletes live in the same process, and leaves nothing behind, once the process no
\* longer stops.
TeardownFinishes ==
    <>[](Running(dep) /\ dep.requested /\ running)
    => <>[]( /\ Running(dep) /\ dep.completed /\ config = None /\ old = {} /\ ~Exists(Default)
             /\ tenantConfig = None /\ platform = 0 /\ logs = NoLogs )

\* The installation heals, once the process no longer stops: whatever was deleted,
\* ensureSingletonConfig, the bootstrap and the tenant's controllers see to it that
\* there is again a Config on which everything hangs, the namespace of the AITenants
\* (unless the controller may not look at namespaces), in it the default AITenant
\* (unless the Config says that it was there before) and its platform (unless the
\* database secret is missing or something else is amiss).
AnchorHeals ==
    <>[](Running(dep) /\ ~dep.requested /\ running)
    => <>[]( /\ config # None /\ ~config.deleting
             /\ allowed => namespace = "active"
             /\ namespace = "active" => Exists(Default) \/ config.marker
             /\ Exists(Default) => aitenants[Default].owner = config.uid
             /\ tenantConfig # None => tenantConfig.owner = config.uid
             /\ tenantConfig # None /\ ~blocked /\ secret = "maas-api" => platform = config.uid )

\* The controller comes up, whatever the state in which ensureManagedNamespace finds the
\* namespace of the AITenants: it waits for the deletion of one that is terminating.
\* It does not: the AITenants in the namespace wait for the finalizers of a controller
\* that is not started before they are gone.
ControllerStarts == []<>(running \/ dep = None)
=============================================================================
