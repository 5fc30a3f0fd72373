--------------------------- MODULE LifecycleProofs ---------------------------
(***************************************************************************)
(* The safety of the installation's life, for any number of AITenants,     *)
(* changes from outside, crashes and restarts: the signal of a complete    *)
(* teardown is honest and survives, at rest what LifecycleReconciler       *)
(* reports agrees with the state it was derived from, and a binding        *)
(* without its collector is left only where it could not be seen to.       *)
(***************************************************************************)
EXTENDS Lifecycle, TLAPS

USE LifecycleConstants, NoneAssumption

-----------------------------------------------------------------------------
(* The inductive invariant                                                 *)

\* An AITenant that is older than the request is one that is still there.
OldExist == \A t \in old : Exists(t)

\* Past the list of AITenants, the Reconcile has none left to wait for, unless it
\* serves an earlier request.
NoneLeft ==
    rec # None /\ rec.step \in {"delete", "mark"} /\ dep # None /\ dep.requested /\ ~renewed
    => old = {}

\* As long as the Deployment hangs on the first Config, that one is there to stay,
\* unless somebody else deletes it; and a Reconcile begins with taking it off.
Anchored ==
    /\ dep # None /\ dep.owned =>
         torn \/ (config # None /\ ~config.deleting /\ config.uid = 1)
    /\ rec # None => dep = None \/ ~dep.owned

\* A Reconcile without a request behind it in the queue works with what the caches
\* still say: nothing was delivered since it began.
StillKnown ==
    rec # None /\ ~queue =>
      /\ rec.step \in {"link", "report"} => knownConfig # None
      /\ rec.step \in {"delete", "mark"} => knownDep # None /\ knownDep.requested

\* LifecycleReconciler has nothing to do and does not know of a teardown.
Quiet == running /\ ~queue /\ rec = None /\ Running(knownDep) /\ ~knownDep.requested

\* With nothing to do, the last report and the last binding are up to date, even if the
\* caches are not.
UpToDate ==
    Quiet => /\ config # None => config.ready = OperandsReady
             /\ logs["binding"] # 0 => crd \/ left

IndInv ==
    /\ TypeOK /\ OldExist /\ NoneLeft /\ TeardownHonest
    /\ Anchored /\ SignalSurvives
    /\ StillKnown /\ UpToDate

-----------------------------------------------------------------------------
(* Who writes what                                                         *)

DepWritten ==
    \/ RequestTeardown \/ WithdrawTeardown \/ DeleteDeployment \/ Leave
    \/ ensureSingletonConfig \/ Begin \/ Report \/ handleRequestedTeardown
    \/ markTeardownCompleted \/ CollectDeployment

ConfigWritten ==
    \/ DeleteConfig \/ ToggleLogging \/ ensureSingletonConfig \/ Report
    \/ handleRequestedTeardown \/ DeleteAnchor \/ markDefaultAITenantBootstrapped
    \/ CollectConfig

AITenantsWritten ==
    \/ \E t \in Tenants : CreateAITenant(t) \/ DeleteAITenant(t) \/ FinalizeAITenant(t)
    \/ DeleteNamespace \/ Link \/ handleRequestedTeardown
    \/ ensureDefaultAITenantBootstrap \/ ProvisionDefault \/ CollectTenant

TenantConfigWritten ==
    \/ Link \/ ReconcileTenant \/ cleanupTenantResources \/ ProvisionDefault \/ CollectTenant
    \/ \E t \in Tenants : FinalizeAITenant(t)

RecWritten ==
    \/ Crash \/ Stop \/ ensureSingletonConfig \/ Begin \/ Link \/ Report
    \/ handleRequestedTeardown \/ DeleteAnchor \/ markTeardownCompleted

QueueWritten ==
    \/ RecWritten \/ AITenantsWritten \/ TenantConfigWritten
    \/ ToggleCRD \/ ToggleMonitoring \/ Start \/ SyncDeployment \/ SyncConfig \/ Leave
    \/ CollectObjects

LEMMA Writers ==
    ASSUME [Next]_vars
    PROVE  /\ dep' = dep \/ DepWritten
           /\ config' = config \/ ConfigWritten
           /\ aitenants' = aitenants \/ AITenantsWritten
           /\ tenantConfig' = tenantConfig \/ TenantConfigWritten
           /\ rec' = rec \/ RecWritten
           /\ queue' = queue \/ QueueWritten
           /\ knownDep' = knownDep \/ Start \/ SyncDeployment
           /\ knownConfig' = knownConfig \/ Start \/ SyncConfig
           /\ old' = old \/ RequestTeardown \/ \E t \in Tenants : FinalizeAITenant(t)
           /\ renewed' = renewed \/ RequestTeardown
           /\ torn' = torn \/ DeleteDeployment \/ DeleteConfig
           /\ logs' = logs \/ ToggleCRD \/ ToggleMonitoring \/ Report \/ CollectObjects
           /\ left' = left \/ Report
           /\ platform' = platform \/ ReconcileMaasTenantConfig \/ CollectObjects
           /\ crd' = crd \/ ToggleCRD
           /\ monitoring' = monitoring \/ ToggleMonitoring
           /\ allowed' = allowed
           /\ running' = running \/ Crash \/ Start \/ Stop
           /\ uid' = uid \/ ensureSingletonConfig
<1> USE DEF DepWritten, ConfigWritten, AITenantsWritten, TenantConfigWritten, RecWritten,
            QueueWritten, caches, environment, process, tenantVars, history
<1>1. CASE Outside
  BY <1>1 DEF Outside, RequestTeardown, WithdrawTeardown, DeleteDeployment, DeleteConfig,
     ToggleLogging, ToggleCRD, ToggleMonitoring, CreateAITenant, DeleteAITenant,
     DeleteNamespace, Block, Unblock, Crash
<1>2. CASE Start \/ Stop \/ Monitor \/ NamespaceGone \/ SyncDeployment \/ SyncConfig
  BY <1>2 DEF Start, Stop, Monitor, CheckNamespace, MaintainNamespace, NamespaceGone,
     SyncDeployment, SyncConfig
<1>3. CASE ReconcileLifecycle
  BY <1>3 DEF ReconcileLifecycle, Leave, ensureSingletonConfig, Begin, Link, Report,
     handleRequestedTeardown, DeleteAnchor, markTeardownCompleted
<1>4. CASE Bootstrap
  BY <1>4 DEF Bootstrap, ensureDefaultAITenantBootstrap, markDefaultAITenantBootstrapped
<1>5. CASE ReconcileMaasTenantConfig
  BY <1>5 DEF ReconcileMaasTenantConfig, ReconcileTenant, cleanupTenantResources
<1>6. CASE \E t \in Tenants : ReconcileAITenant(t)
  BY <1>6 DEF ReconcileAITenant, ProvisionDefault, FinalizeAITenant
<1>7. CASE GarbageCollection
  BY <1>7 DEF GarbageCollection, CollectTenant, CollectObjects, CollectDeployment, CollectConfig
<1>8. CASE UNCHANGED vars
  BY <1>8 DEF vars
<1> QED BY <1>1, <1>2, <1>3, <1>4, <1>5, <1>6, <1>7, <1>8 DEF Next

-----------------------------------------------------------------------------
(* Types                                                                   *)

RecType == [step : Steps, anchored : BOOLEAN]

LEMMA DepType ==
    ASSUME TypeOK, [Next]_vars
    PROVE  dep' \in Deployment \cup {None} /\ knownDep' \in Deployment \cup {None}
<1>1. dep' \in Deployment \cup {None}
  <2>1. CASE dep = None
    BY <2>1, Writers DEF DepWritten, RequestTeardown, WithdrawTeardown, DeleteDeployment, Leave,
       ensureSingletonConfig, Begin, Report, handleRequestedTeardown, markTeardownCompleted,
       CollectDeployment, stripLegacyOwnerReference
  <2>2. CASE dep \in Deployment
    <3>1. /\ [dep EXCEPT !.requested = TRUE] \in Deployment
          /\ [dep EXCEPT !.requested = FALSE] \in Deployment
          /\ [dep EXCEPT !.completed = TRUE] \in Deployment
          /\ [dep EXCEPT !.owned = FALSE] \in Deployment
          /\ [dep EXCEPT !.finalizer = FALSE] \in Deployment
          /\ [dep EXCEPT !.deleting = TRUE] \in Deployment
      BY <2>2 DEF Deployment
    <3> QED BY <2>2, <3>1, Writers DEF DepWritten, RequestTeardown, WithdrawTeardown, DeleteDeployment, Leave,
       ensureSingletonConfig, Begin, Report, handleRequestedTeardown, markTeardownCompleted,
       CollectDeployment, stripLegacyOwnerReference, Terminating
  <2> QED BY <2>1, <2>2 DEF TypeOK
<1>2. knownDep' \in Deployment \cup {None}
  BY Writers DEF TypeOK, Start, SyncDeployment
<1> QED BY <1>1, <1>2

LEMMA ConfigType ==
    ASSUME TypeOK, [Next]_vars
    PROVE  config' \in Config \cup {None} /\ knownConfig' \in Config \cup {None} /\ uid' \in UIDs
<1>1. config' \in Config \cup {None}
  <2>1. CASE config' = config
    BY <2>1 DEF TypeOK
  <2>2. CASE ensureSingletonConfig
    <3> DEFINE n == [uid |-> uid + 1, deleting |-> FALSE, marker |-> FALSE,
                     logging |-> FALSE, ready |-> FALSE]
    <3>1. n \in Config
      BY DEF Config, UIDs, TypeOK
    <3>2. config' = n \/ config' = config
      BY <2>2 DEF ensureSingletonConfig
    <3> HIDE DEF n
    <3> QED BY <3>1, <3>2 DEF TypeOK
  <2>3. ASSUME config # None PROVE
          /\ [config EXCEPT !.deleting = TRUE] \in Config
          /\ [config EXCEPT !.logging = ~@] \in Config
          /\ [config EXCEPT !.marker = FALSE] \in Config
          /\ [config EXCEPT !.marker = TRUE] \in Config
    BY <2>3 DEF TypeOK, Config
  <2>4. CASE Report
    <3> DEFINE b == OperandsReady
    <3>1. b \in BOOLEAN
      BY DEF OperandsReady, TypeOK, AITenant, MaasTenantConfig, Exists
    <3>2. config' = IF config = None THEN None ELSE [config EXCEPT !.ready = b]
      BY <2>4 DEF Report
    <3> HIDE DEF b
    <3> QED BY <3>1, <3>2 DEF TypeOK, Config
  <2>5. CASE \/ DeleteConfig \/ ToggleLogging \/ handleRequestedTeardown \/ DeleteAnchor
             \/ markDefaultAITenantBootstrapped \/ CollectConfig
    BY <2>3, <2>5 DEF TypeOK, DeleteConfig, ToggleLogging, handleRequestedTeardown, DeleteAnchor,
       clearBootstrapMarker, markDefaultAITenantBootstrapped, CollectConfig, Terminating
  <2> QED BY <2>1, <2>2, <2>4, <2>5, Writers DEF ConfigWritten
<1>2. knownConfig' \in Config \cup {None}
  BY Writers DEF TypeOK, Start, SyncConfig
<1>3. uid' \in UIDs
  <2>1. uid' = uid \/ uid' = uid + 1
    BY Writers DEF ensureSingletonConfig
  <2> QED BY <2>1 DEF TypeOK, UIDs
<1> QED BY <1>1, <1>2, <1>3

LEMMA AITenantType ==
    ASSUME TypeOK, [Next]_vars
    PROVE  aitenants' \in [Tenants -> AITenant \cup {None}]
<1>1. CASE aitenants' = aitenants
  BY <1>1 DEF TypeOK
<1>2. ASSUME NEW ts \in SUBSET Tenants PROVE DeleteAll(ts) \in [Tenants -> AITenant \cup {None}]
  <2>1. aitenants \in [Tenants -> AITenant \cup {None}]
    BY DEF TypeOK
  <2> QED BY <2>1 DEF DeleteAll, Terminating, AITenant, Exists
<1>3. ASSUME NEW u \in UIDs PROVE [owner |-> u, deleting |-> FALSE, ready |-> FALSE] \in AITenant
  BY DEF AITenant
<1>4. ASSUME NEW t \in Tenants, CreateAITenant(t) PROVE aitenants' \in [Tenants -> AITenant \cup {None}]
  <2>1. 0 \in UIDs
    BY DEF UIDs
  <2> QED BY <1>3, <1>4, <2>1 DEF CreateAITenant, TypeOK
<1>5. CASE \E t \in Tenants : DeleteAITenant(t)
  BY <1>2, <1>5 DEF DeleteAITenant
<1>6. CASE \E t \in Tenants : FinalizeAITenant(t)
  BY <1>6 DEF FinalizeAITenant, TypeOK
<1>7. CASE DeleteNamespace \/ CollectTenant \/ handleRequestedTeardown
  BY <1>2, <1>7 DEF DeleteNamespace, CollectTenant, handleRequestedTeardown,
     cleanupTeardownResources, TypeOK
<1>8. CASE Link
  <2>1. Exists(Default) /\ knownConfig # None => Linked(aitenants[Default]) \in AITenant
    <3>1. Exists(Default) => aitenants[Default] \in AITenant
      BY DEF Exists, TypeOK
    <3>2. knownConfig # None => knownConfig.uid \in UIDs
      BY DEF TypeOK, Config
    <3> QED BY <3>1, <3>2 DEF Linked, AITenant
  <2> QED BY <1>8, <2>1 DEF Link, TypeOK
<1>9. CASE ensureDefaultAITenantBootstrap
  <2>1. knownConfig.uid \in UIDs
    BY <1>9 DEF ensureDefaultAITenantBootstrap, BootstrapAllowed, TypeOK, Config
  <2> DEFINE n == [owner |-> knownConfig.uid, deleting |-> FALSE, ready |-> FALSE]
  <2>2. aitenants' = [aitenants EXCEPT ![Default] = n] /\ n \in AITenant
    BY <1>3, <1>9, <2>1 DEF ensureDefaultAITenantBootstrap
  <2> HIDE DEF n
  <2> QED BY <2>2 DEF TypeOK
<1>10. CASE ProvisionDefault
  <2> DEFINE b == tenantConfig # None /\ ~tenantConfig.deleting /\ tenantConfig.ready
  <2>1. b \in BOOLEAN
    BY DEF TypeOK, MaasTenantConfig
  <2>2. aitenants' = [aitenants EXCEPT ![Default].ready = b] /\ Exists(Default)
    BY <1>10 DEF ProvisionDefault
  <2> HIDE DEF b
  <2>3. aitenants[Default] \in AITenant
    BY <2>2 DEF TypeOK, Exists
  <2>4. [aitenants[Default] EXCEPT !.ready = b] \in AITenant
    BY <2>1, <2>3 DEF AITenant
  <2> QED BY <2>2, <2>4 DEF TypeOK
<1> QED BY <1>1, <1>4, <1>5, <1>6, <1>7, <1>8, <1>9, <1>10, Writers DEF AITenantsWritten

LEMMA TenantConfigType ==
    ASSUME TypeOK, [Next]_vars
    PROVE  tenantConfig' \in MaasTenantConfig \cup {None}
<1>1. CASE tenantConfig' = tenantConfig
  BY <1>1 DEF TypeOK
<1>2. DeletedTenantConfig \in MaasTenantConfig \cup {None}
  BY DEF DeletedTenantConfig, Terminating, TypeOK, MaasTenantConfig
<1>3. CASE Link
  <2>1. tenantConfig # None /\ knownConfig # None => Linked(tenantConfig) \in MaasTenantConfig
    BY DEF Linked, TypeOK, MaasTenantConfig, Config
  <2> QED BY <1>3, <2>1 DEF Link, TypeOK
<1>4. CASE ReconcileTenant
  <2> DEFINE b == PlatformReady
  <2>1. b \in BOOLEAN
    BY DEF PlatformReady, readyConfigOrWait, Prerequisites, TypeOK
  <2>2. tenantConfig' = [tenantConfig EXCEPT !.finalizer = TRUE, !.ready = b]
        /\ tenantConfig \in MaasTenantConfig
    BY <1>4 DEF ReconcileTenant, TypeOK
  <2> HIDE DEF b
  <2> QED BY <2>1, <2>2 DEF MaasTenantConfig
<1>5. CASE ProvisionDefault
  <2>1. [owner |-> 0, deleting |-> FALSE, finalizer |-> FALSE, ready |-> FALSE] \in MaasTenantConfig
    BY DEF MaasTenantConfig, UIDs
  <2> QED BY <1>5, <2>1 DEF ProvisionDefault, TypeOK
<1>6. CASE cleanupTenantResources \/ CollectTenant \/ \E t \in Tenants : FinalizeAITenant(t)
  BY <1>1, <1>2, <1>6 DEF cleanupTenantResources, CollectTenant, FinalizeAITenant
<1> QED BY <1>1, <1>3, <1>4, <1>5, <1>6, Writers DEF TenantConfigWritten

LEMMA RecTypes ==
    ASSUME TypeOK, [Next]_vars
    PROVE  rec' \in RecType \cup {None} /\ queue' \in BOOLEAN
<1>1. rec' \in RecType \cup {None}
  <2>1. ASSUME NEW s \in Steps, ToStep(s) PROVE rec' \in RecType
    <3> DEFINE b == knownConfig # None
    <3>1. rec' = [step |-> s, anchored |-> b] /\ b \in BOOLEAN
      BY <2>1 DEF ToStep
    <3> HIDE DEF b
    <3> QED BY <3>1 DEF RecType
  <2>2. CASE Begin \/ handleRequestedTeardown
    BY <2>1, <2>2 DEF Begin, handleRequestedTeardown, Requeue, Steps
  <2>3. CASE Link \/ DeleteAnchor
    <3>1. rec \in RecType
      BY <2>3 DEF Link, DeleteAnchor, TypeOK, RecType
    <3> QED BY <2>3, <3>1 DEF Link, DeleteAnchor, Requeue, RecType, Steps
  <2>4. CASE Crash \/ Stop \/ ensureSingletonConfig \/ Report \/ markTeardownCompleted
    BY <2>4 DEF Crash, Stop, ensureSingletonConfig, Report, markTeardownCompleted, Requeue
  <2> QED BY <2>2, <2>3, <2>4, Writers DEF RecWritten, TypeOK, RecType
<1>2. queue' \in BOOLEAN
  <2>1. CASE queue' = queue
    BY <2>1 DEF TypeOK
  <2>2. CASE TenantEvents
    BY <2>2 DEF TenantEvents, TypeOK
  <2>3. CASE queue' = TRUE \/ queue' = FALSE
    BY <2>3
  <2>4. CASE RecWritten
    BY <2>1, <2>2, <2>3, <2>4 DEF RecWritten, Crash, Stop, ensureSingletonConfig, Begin, Link,
       Report, handleRequestedTeardown, DeleteAnchor, markTeardownCompleted, ToStep, Requeue
  <2>5. CASE AITenantsWritten \/ TenantConfigWritten
    BY <2>1, <2>2, <2>4, <2>5 DEF AITenantsWritten, TenantConfigWritten, RecWritten, CreateAITenant,
       DeleteAITenant, FinalizeAITenant, DeleteNamespace, ensureDefaultAITenantBootstrap,
       ProvisionDefault, CollectTenant, ReconcileTenant, cleanupTenantResources
  <2>6. CASE ToggleCRD \/ ToggleMonitoring \/ Start \/ SyncDeployment \/ SyncConfig \/ Leave
    BY <2>1, <2>3, <2>6 DEF ToggleCRD, ToggleMonitoring, Start, SyncDeployment, SyncConfig, Leave
  <2>7. CASE CollectObjects
    BY <2>7 DEF CollectObjects, TypeOK
  <2> QED BY <2>1, <2>4, <2>5, <2>6, <2>7, Writers DEF QueueWritten
<1> QED BY <1>1, <1>2

LEMMA UidTypes ==
    ASSUME TypeOK, [Next]_vars
    PROVE  platform' \in UIDs /\ logs' \in [LogObjects -> UIDs]
<1>0. 0 \in UIDs /\ (knownConfig # None => knownConfig.uid \in UIDs)
  BY DEF TypeOK, Config, UIDs
<1>1. platform' \in UIDs
  BY <1>0, Writers DEF TypeOK, ReconcileMaasTenantConfig, ReconcileTenant,
     cleanupTenantResources, CollectObjects, RunPlatform, ApplyRendered, readyConfigOrWait
<1>2. logs' \in [LogObjects -> UIDs]
  <2>1. CASE Report
    <3>1. CASE ~monitoring
      BY <2>1, <3>1 DEF Report, ensureObservability, TypeOK
    <3>2. CASE monitoring /\ knownConfig = None
      BY <1>0, <2>1, <3>2 DEF Report, ensureObservability, ensureUsageLogsEnvoyFilter, TypeOK
    <3>3. CASE monitoring /\ knownConfig # None
      <4>1. ASSUME NEW f \in BOOLEAN PROVE ensureUsageLogs(f) \in [LogObjects -> UIDs]
        <5>1. BindingAfter(f) \in UIDs
          BY <1>0, <3>3 DEF BindingAfter
        <5>2. \A l \in LogObjects : ensureUsageLogs(f)[l] \in UIDs
          BY <1>0, <3>3, <5>1 DEF ensureUsageLogs, ensureUsageDashboard,
             ensureUsageLogsEnvoyFilter, LogObjects
        <5> QED BY <5>2 DEF ensureUsageLogs
      <4>2. \E f \in BOOLEAN : logs' = ensureUsageLogs(f)
        BY <2>1, <3>3 DEF Report, ensureObservability
      <4> QED BY <4>1, <4>2
    <3> QED BY <3>1, <3>2, <3>3 DEF TypeOK
  <2>2. CASE ToggleCRD \/ ToggleMonitoring \/ CollectObjects \/ logs' = logs
    BY <1>0, <2>2 DEF ToggleCRD, ToggleMonitoring, CollectObjects, TypeOK
  <2> QED BY <2>1, <2>2, Writers
<1> QED BY <1>1, <1>2

LEMMA FlagTypes ==
    ASSUME TypeOK, [Next]_vars
    PROVE  /\ namespace' \in {"active", "terminating", "missing"}
           /\ secret' \in {"maas-api", "controller", "missing"}
           /\ crd' \in BOOLEAN /\ blocked' \in BOOLEAN
           /\ monitoring' \in BOOLEAN /\ allowed' \in BOOLEAN
           /\ maintain' \in BOOLEAN /\ running' \in BOOLEAN
           /\ renewed' \in BOOLEAN /\ torn' \in BOOLEAN /\ left' \in BOOLEAN
           /\ old' \subseteq Tenants /\ edits' \in 0..MaxEdits
<1>0. monitoring' \in BOOLEAN /\ allowed' \in BOOLEAN /\ crd' \in BOOLEAN
  BY Writers DEF TypeOK, ToggleMonitoring, ToggleCRD
<1>a. running' \in BOOLEAN /\ old' \subseteq Tenants
  BY Writers DEF TypeOK, Crash, Start, Stop, RequestTeardown, FinalizeAITenant
<1>b. renewed' \in BOOLEAN
  BY Writers DEF TypeOK, RequestTeardown
<1>c. torn' \in BOOLEAN
  BY Writers DEF TypeOK, DeleteDeployment, DeleteConfig
<1>d. left' \in BOOLEAN
  BY Writers DEF TypeOK, Report, ensureObservability
<1> SUFFICES /\ namespace' \in {"active", "terminating", "missing"}
             /\ secret' \in {"maas-api", "controller", "missing"}
             /\ blocked' \in BOOLEAN /\ maintain' \in BOOLEAN
             /\ edits' \in 0..MaxEdits
  BY <1>0, <1>a, <1>b, <1>c, <1>d
<1> USE DEF TypeOK, environment, process, history, tenantVars, caches
<1>1. CASE Outside
  <2>1. edits' \in 0..MaxEdits
    <3>1. Edit \/ edits' = edits
      BY <1>1 DEF Outside, RequestTeardown, WithdrawTeardown, DeleteDeployment, DeleteConfig,
         ToggleLogging, ToggleCRD, ToggleMonitoring, CreateAITenant, DeleteAITenant,
         DeleteNamespace, Block, Unblock, Crash
    <3> QED BY <3>1 DEF Edit
  <2>2. secret' = secret /\ namespace' \in {namespace, "terminating"}
    BY <1>1 DEF Outside, RequestTeardown, WithdrawTeardown, DeleteDeployment, DeleteConfig,
       ToggleLogging, ToggleCRD, ToggleMonitoring, CreateAITenant, DeleteAITenant,
       DeleteNamespace, Block, Unblock, Crash
  <2>3. (blocked' = blocked \/ Block \/ Unblock) /\ (maintain' = maintain \/ Crash)
    BY <1>1 DEF Outside, RequestTeardown, WithdrawTeardown, DeleteDeployment, DeleteConfig,
       ToggleLogging, ToggleCRD, ToggleMonitoring, CreateAITenant, DeleteAITenant,
       DeleteNamespace, Block, Unblock, Crash
  <2> QED BY <2>1, <2>2, <2>3 DEF Block, Unblock, Crash
<1>2. CASE Start \/ Stop \/ Monitor \/ NamespaceGone \/ SyncDeployment \/ SyncConfig
  <2>1. namespace' \in {"active", "terminating", "missing"}
    BY <1>2 DEF Start, Stop, Monitor, CheckNamespace, MaintainNamespace, NamespaceGone,
       SyncDeployment, SyncConfig, ensureManagedNamespace
  <2>2. secret' \in {"maas-api", "controller", "missing"} /\ edits' = edits
    BY <1>2 DEF Start, Stop, Monitor, CheckNamespace, MaintainNamespace, NamespaceGone,
       SyncDeployment, SyncConfig, migrateMaaSDBSecret
  <2>3. blocked' = blocked /\ (maintain' = maintain \/ maintain' = TRUE \/ maintain' = FALSE)
    BY <1>2 DEF Start, Stop, Monitor, CheckNamespace, MaintainNamespace, NamespaceGone,
       SyncDeployment, SyncConfig
  <2> QED BY <2>1, <2>2, <2>3
<1>3. CASE ReconcileLifecycle
  BY <1>3 DEF ReconcileLifecycle, Leave, ensureSingletonConfig, Begin, Link, Report,
     handleRequestedTeardown, DeleteAnchor, markTeardownCompleted
<1>4. CASE Bootstrap
  BY <1>4 DEF Bootstrap, ensureDefaultAITenantBootstrap, markDefaultAITenantBootstrapped
<1>5. CASE ReconcileMaasTenantConfig
  BY <1>5 DEF ReconcileMaasTenantConfig, ReconcileTenant, cleanupTenantResources
<1>6. CASE \E t \in Tenants : ReconcileAITenant(t)
  BY <1>6 DEF ReconcileAITenant, ProvisionDefault, FinalizeAITenant
<1>7. CASE GarbageCollection
  BY <1>7 DEF GarbageCollection, CollectTenant, CollectObjects, CollectDeployment, CollectConfig
<1>8. CASE UNCHANGED vars
  BY <1>8 DEF vars
<1> QED BY <1>1, <1>2, <1>3, <1>4, <1>5, <1>6, <1>7, <1>8 DEF Next

LEMMA NextType == ASSUME TypeOK, [Next]_vars PROVE TypeOK'
BY DepType, ConfigType, AITenantType, TenantConfigType, RecTypes, UidTypes, FlagTypes
   DEF TypeOK, RecType

-----------------------------------------------------------------------------
(* The teardown is honest                                                  *)

\* No step but the end of a deletion takes an AITenant away.
LEMMA AITenantsStay ==
    ASSUME TypeOK, [Next]_vars, NEW t \in Tenants, Exists(t), ~FinalizeAITenant(t)
    PROVE  Exists(t)'
<1>1. aitenants[t] \in AITenant
  BY DEF TypeOK, Exists
<1>2. ASSUME NEW ts \in SUBSET Tenants, aitenants' = DeleteAll(ts) PROVE Exists(t)'
  <2>1. Terminating(aitenants[t]) \in AITenant
    BY <1>1 DEF Terminating, AITenant
  <2> QED BY <1>2, <2>1 DEF DeleteAll, Exists
<1>3. CASE \/ DeleteNamespace \/ CollectTenant \/ handleRequestedTeardown
           \/ \E s \in Tenants : DeleteAITenant(s)
  BY <1>2, <1>3 DEF DeleteNamespace, CollectTenant, handleRequestedTeardown, DeleteAITenant,
     cleanupTeardownResources, Exists
<1>4. CASE Link
  <2>1. knownConfig # None => Linked(aitenants[t]) \in AITenant
    BY <1>1 DEF Linked, AITenant, TypeOK, Config
  <2> QED BY <1>4, <2>1 DEF Link, TypeOK, Exists
<1>5. CASE ensureDefaultAITenantBootstrap \/ \E s \in Tenants : CreateAITenant(s)
  BY <1>5 DEF ensureDefaultAITenantBootstrap, CreateAITenant, Exists, TypeOK
<1>6. CASE ProvisionDefault
  <2>1. aitenants'[t] # None
    <3>1. aitenants' \in [Tenants -> AITenant \cup {None}]
      BY AITenantType
    <3> DEFINE b == tenantConfig # None /\ ~tenantConfig.deleting /\ tenantConfig.ready
    <3>2. aitenants' = [aitenants EXCEPT ![Default].ready = b] /\ b \in BOOLEAN
      BY <1>6 DEF ProvisionDefault, TypeOK, MaasTenantConfig
    <3> HIDE DEF b
    <3>3. [aitenants[t] EXCEPT !.ready = b] \in AITenant
      BY <1>1, <3>2 DEF AITenant
    <3> QED BY <3>2, <3>3 DEF TypeOK, Exists
  <2> QED BY <2>1 DEF Exists
<1>7. ASSUME NEW s \in Tenants, FinalizeAITenant(s) PROVE Exists(t)'
  BY <1>7 DEF FinalizeAITenant, TypeOK, Exists
<1>8. CASE aitenants' = aitenants
  BY <1>8 DEF Exists
<1> QED BY <1>3, <1>4, <1>5, <1>6, <1>7, <1>8, Writers DEF AITenantsWritten

LEMMA NextOldExist ==
    ASSUME TypeOK, OldExist, [Next]_vars PROVE OldExist'
<1>1. CASE old' = old /\ \A t \in Tenants : ~FinalizeAITenant(t)
  BY <1>1, AITenantsStay DEF OldExist, TypeOK
<1>2. CASE RequestTeardown
  BY <1>2 DEF RequestTeardown, OldExist, Exists
<1>3. ASSUME NEW t \in Tenants, FinalizeAITenant(t) PROVE OldExist'
  BY <1>3 DEF FinalizeAITenant, OldExist, Exists, TypeOK
<1> QED BY <1>1, <1>2, <1>3, Writers

\* The list of AITenants is empty when the Reconcile goes on, and what is older
\* than the request only becomes less.
LEMMA NextNoneLeft ==
    ASSUME TypeOK, OldExist, NoneLeft, [Next]_vars PROVE NoneLeft'
<1> SUFFICES ASSUME rec' # None, rec'.step \in {"delete", "mark"}, dep' # None, dep'.requested, ~renewed'
             PROVE  old' = {}
  BY DEF NoneLeft
<1>1. CASE RequestTeardown
  BY <1>1 DEF RequestTeardown
<1>2. CASE handleRequestedTeardown
  <2>1. cleanupTeardownResources = {} /\ old' = old
    BY <1>2 DEF handleRequestedTeardown, Requeue, history
  <2> QED BY <2>1 DEF cleanupTeardownResources, OldExist, TypeOK
<1>3. CASE ~RequestTeardown /\ ~handleRequestedTeardown
  <2>1. rec # None /\ rec.step \in {"delete", "mark"}
    <3>1. CASE Begin \/ Link
      BY <3>1 DEF Begin, Link, ToStep, Requeue, TypeOK
    <3>2. CASE DeleteAnchor
      BY <3>2 DEF DeleteAnchor
    <3>3. CASE Crash \/ Stop \/ ensureSingletonConfig \/ Report \/ markTeardownCompleted
      BY <3>3 DEF Crash, Stop, ensureSingletonConfig, Report, markTeardownCompleted, Requeue
    <3> QED BY <1>3, <3>1, <3>2, <3>3, Writers DEF RecWritten
  <2>2. dep # None /\ dep.requested
    <3>1. dep = None => dep' = None
      BY <1>3, Writers DEF DepWritten, WithdrawTeardown, DeleteDeployment, Leave,
         ensureSingletonConfig, Begin, Report, markTeardownCompleted, CollectDeployment,
         stripLegacyOwnerReference
    <3>2. dep \in Deployment
      BY <3>1 DEF TypeOK
    <3>3. /\ ~[dep EXCEPT !.requested = FALSE].requested
          /\ [dep EXCEPT !.completed = TRUE].requested = dep.requested
          /\ [dep EXCEPT !.owned = FALSE].requested = dep.requested
          /\ [dep EXCEPT !.finalizer = FALSE].requested = dep.requested
          /\ [dep EXCEPT !.deleting = TRUE].requested = dep.requested
      BY <3>2 DEF Deployment
    <3>4. dep'.requested = dep.requested \/ WithdrawTeardown
      BY <1>3, <3>1, <3>3, Writers DEF DepWritten, DeleteDeployment, Leave,
         ensureSingletonConfig, Begin, Report, markTeardownCompleted, CollectDeployment,
         stripLegacyOwnerReference, Terminating
    <3>5. ~WithdrawTeardown
      BY <3>3 DEF WithdrawTeardown
    <3> QED BY <3>1, <3>4, <3>5
  <2>3. ~renewed /\ old' \subseteq old
    BY <1>3, Writers DEF FinalizeAITenant
  <2> QED BY <2>1, <2>2, <2>3 DEF NoneLeft
<1> QED BY <1>1, <1>2, <1>3

LEMMA NextHonest ==
    ASSUME TypeOK, NoneLeft, TeardownHonest, [Next]_vars PROVE TeardownHonest'
<1> SUFFICES ASSUME dep' # None, dep'.requested, dep'.completed, ~renewed' PROVE old' = {}
  BY DEF TeardownHonest
<1>0. dep = None => dep' = None
  BY Writers DEF DepWritten, RequestTeardown, WithdrawTeardown, DeleteDeployment, Leave,
     ensureSingletonConfig, Begin, Report, markTeardownCompleted, CollectDeployment,
     handleRequestedTeardown, stripLegacyOwnerReference
<1>1. dep \in Deployment
  BY <1>0 DEF TypeOK
<1>2. /\ ~[dep EXCEPT !.requested = FALSE].requested
      /\ [dep EXCEPT !.requested = TRUE].completed = dep.completed
      /\ [dep EXCEPT !.completed = TRUE].requested = dep.requested
      /\ [dep EXCEPT !.owned = FALSE].requested = dep.requested
      /\ [dep EXCEPT !.owned = FALSE].completed = dep.completed
      /\ [dep EXCEPT !.finalizer = FALSE].requested = dep.requested
      /\ [dep EXCEPT !.finalizer = FALSE].completed = dep.completed
      /\ [dep EXCEPT !.deleting = TRUE].requested = dep.requested
      /\ [dep EXCEPT !.deleting = TRUE].completed = dep.completed
  BY <1>1 DEF Deployment
<1>3. ~RequestTeardown /\ ~WithdrawTeardown
  BY <1>2 DEF RequestTeardown, WithdrawTeardown
<1>4. ~renewed /\ old' \subseteq old
  BY <1>3, Writers DEF FinalizeAITenant
<1>5. CASE markTeardownCompleted
  BY <1>0, <1>2, <1>4, <1>5 DEF markTeardownCompleted, NoneLeft
<1>6. CASE ~markTeardownCompleted
  <2>1. dep'.requested = dep.requested /\ dep'.completed = dep.completed
    BY <1>2, <1>3, <1>6, Writers DEF DepWritten, DeleteDeployment, Leave,
         ensureSingletonConfig, Begin, Report, CollectDeployment, handleRequestedTeardown,
         stripLegacyOwnerReference, Terminating
  <2> QED BY <1>0, <1>4, <2>1 DEF TeardownHonest
<1> QED BY <1>5, <1>6

-----------------------------------------------------------------------------
(* The signal survives                                                     *)

\* No step hangs the Deployment on the Config again, or brings it back, and whoever
\* deletes it, or the Config it hangs on, is not LifecycleReconciler.
LEMMA NextAnchored ==
    ASSUME TypeOK, Anchored, SignalSurvives, [Next]_vars PROVE Anchored'
<1> USE DEF TypeOK
<1>0. dep = None => dep' = None
  BY Writers DEF DepWritten, RequestTeardown, WithdrawTeardown, DeleteDeployment, Leave,
     ensureSingletonConfig, Begin, Report, markTeardownCompleted, CollectDeployment,
     handleRequestedTeardown, stripLegacyOwnerReference
<1> SUFFICES ASSUME dep' # None, dep'.owned
             PROVE  /\ torn' \/ (config' # None /\ ~config'.deleting /\ config'.uid = 1)
                    /\ rec' = None
  BY DEF Anchored
<1>1. dep \in Deployment
  BY <1>0
<1>2. /\ ~[dep EXCEPT !.owned = FALSE].owned
      /\ [dep EXCEPT !.requested = TRUE].owned = dep.owned
      /\ [dep EXCEPT !.requested = FALSE].owned = dep.owned
      /\ [dep EXCEPT !.completed = TRUE].owned = dep.owned
      /\ [dep EXCEPT !.finalizer = FALSE].owned = dep.owned
      /\ [dep EXCEPT !.deleting = TRUE].owned = dep.owned
  BY <1>1 DEF Deployment
<1>3. ~ensureSingletonConfig /\ ~Begin /\ ~handleRequestedTeardown
  BY <1>2 DEF ensureSingletonConfig, Begin, handleRequestedTeardown, stripLegacyOwnerReference
<1>4. dep # None /\ dep.owned
  BY <1>0, <1>2, <1>3, Writers DEF DepWritten, RequestTeardown, WithdrawTeardown,
     DeleteDeployment, Leave, Report, markTeardownCompleted, CollectDeployment, Terminating
<1>5. rec = None
  BY <1>4 DEF Anchored
<1>6. ~Report /\ ~DeleteAnchor /\ ~Link /\ ~markTeardownCompleted
  BY <1>5 DEF Report, DeleteAnchor, Link, markTeardownCompleted
<1>7. rec' = None
  BY <1>3, <1>5, <1>6, Writers DEF RecWritten, Crash, Stop
<1>8. torn => torn'
  BY Writers DEF DeleteDeployment, DeleteConfig
<1>9. ASSUME ~torn' PROVE config' # None /\ ~config'.deleting /\ config'.uid = 1
  <2>1. config \in Config /\ ~config.deleting /\ config.uid = 1
    BY <1>4, <1>8, <1>9 DEF Anchored
  <2>2. /\ [config EXCEPT !.logging = ~@] \in Config
        /\ [config EXCEPT !.logging = ~@].deleting = config.deleting
        /\ [config EXCEPT !.logging = ~@].uid = config.uid
        /\ [config EXCEPT !.marker = TRUE] \in Config
        /\ [config EXCEPT !.marker = TRUE].deleting = config.deleting
        /\ [config EXCEPT !.marker = TRUE].uid = config.uid
    BY <2>1 DEF Config
  <2>3. ~DeleteConfig /\ ~CollectConfig
    BY <1>4, <1>9, <2>1 DEF DeleteConfig, CollectConfig
  <2> QED BY <1>3, <1>6, <2>1, <2>2, <2>3, Writers
             DEF ConfigWritten, ToggleLogging, markDefaultAITenantBootstrapped
<1> QED BY <1>7, <1>9

LEMMA NextSurvives ==
    ASSUME TypeOK, Anchored, SignalSurvives, [Next]_vars PROVE SignalSurvives'
<1> USE DEF TypeOK
<1>1. torn => torn'
  BY Writers DEF DeleteDeployment, DeleteConfig
<1>2. CASE dep = None
  BY <1>1, <1>2 DEF SignalSurvives
<1>3. CASE dep \in Deployment /\ dep.deleting
  BY <1>1, <1>3 DEF SignalSurvives
<1>4. CASE dep \in Deployment /\ ~dep.deleting
  <2>1. /\ \A b \in BOOLEAN : /\ [dep EXCEPT !.requested = b] \in Deployment
                              /\ [dep EXCEPT !.requested = b].deleting = dep.deleting
        /\ [dep EXCEPT !.completed = TRUE] \in Deployment
        /\ [dep EXCEPT !.completed = TRUE].deleting = dep.deleting
        /\ [dep EXCEPT !.owned = FALSE] \in Deployment
        /\ [dep EXCEPT !.owned = FALSE].deleting = dep.deleting
        /\ [dep EXCEPT !.finalizer = FALSE] \in Deployment
        /\ [dep EXCEPT !.finalizer = FALSE].deleting = dep.deleting
    BY <1>4 DEF Deployment
  <2>2. CASE DeleteDeployment
    BY <2>2 DEF DeleteDeployment, SignalSurvives
  <2>3. CASE CollectDeployment
    <3>1. config = None \/ config.uid # 1
      BY <2>3 DEF CollectDeployment, Dead
    <3>2. dep # None /\ dep.owned
      BY <2>3 DEF CollectDeployment
    <3> QED BY <1>1, <3>1, <3>2 DEF Anchored, SignalSurvives
  <2>4. CASE ~DeleteDeployment /\ ~CollectDeployment
    <3>1. dep' \in Deployment /\ dep'.deleting = dep.deleting
      BY <1>4, <2>1, <2>4, Writers DEF DepWritten, RequestTeardown, WithdrawTeardown, Leave,
         ensureSingletonConfig, Begin, Report, markTeardownCompleted,
         handleRequestedTeardown, stripLegacyOwnerReference
    <3> QED BY <1>4, <3>1 DEF SignalSurvives
  <2> QED BY <2>2, <2>3, <2>4
<1> QED BY <1>2, <1>3, <1>4

-----------------------------------------------------------------------------
(* Up to date at rest                                                      *)

\* A delivery queues a request, and only the end of the process or the begin of a
\* Reconcile takes one off the queue.
LEMMA QueueKept ==
    ASSUME TypeOK, [Next]_vars, ~queue'
    PROVE  /\ knownDep' = knownDep /\ knownConfig' = knownConfig /\ crd' = crd
           /\ ~Start /\ ~ToggleCRD
           /\ ~queue \/ Crash \/ Stop \/ Begin \/ handleRequestedTeardown \/ Leave
<1>1. ~Start /\ ~ToggleCRD /\ ~SyncDeployment /\ ~SyncConfig
  BY DEF Start, ToggleCRD, SyncDeployment, SyncConfig
<1>2. ASSUME queue, TenantEvents PROVE FALSE
  BY <1>2 DEF TenantEvents
<1>3. ASSUME queue, ~Crash, ~Stop, ~Begin, ~handleRequestedTeardown, ~Leave PROVE FALSE
  <2>1. ~RecWritten
    BY <1>2, <1>3 DEF RecWritten, ensureSingletonConfig, Link, Report, DeleteAnchor,
       markTeardownCompleted, Requeue
  <2>2. ~AITenantsWritten
    BY <1>2, <1>3, <2>1 DEF AITenantsWritten, RecWritten, CreateAITenant, DeleteAITenant,
       FinalizeAITenant, DeleteNamespace, ensureDefaultAITenantBootstrap, ProvisionDefault,
       CollectTenant
  <2>3. ~TenantConfigWritten
    BY <1>2, <1>3, <2>1, <2>2 DEF TenantConfigWritten, RecWritten, AITenantsWritten,
       ReconcileTenant, cleanupTenantResources
  <2>4. ~ToggleMonitoring /\ ~CollectObjects
    BY <1>3 DEF ToggleMonitoring, CollectObjects
  <2> QED BY <1>1, <1>3, <2>1, <2>2, <2>3, <2>4, Writers DEF QueueWritten, TypeOK
<1> QED BY <1>1, <1>3, Writers

\* Without a new request in the queue, the objects syncModuleStatus looks at are as
\* they were, unless a teardown is going on.
LEMMA OperandsKept ==
    ASSUME TypeOK, [Next]_vars, ~queue', ~handleRequestedTeardown
    PROVE  OperandsReady' = OperandsReady
<1>1. ASSUME TenantEvents PROVE aitenants'[Default] = aitenants[Default] /\ tenantConfig' = tenantConfig
  BY <1>1 DEF TenantEvents
<1>2. ASSUME Link PROVE aitenants'[Default] = aitenants[Default] /\ tenantConfig' = tenantConfig
  BY <1>1, <1>2 DEF Link, Requeue
<1>3. ASSUME NEW t \in Tenants, CreateAITenant(t) PROVE aitenants'[Default] = aitenants[Default]
  BY <1>3 DEF CreateAITenant, TypeOK
<1>4. aitenants'[Default] = aitenants[Default]
  BY <1>1, <1>2, <1>3, Writers DEF AITenantsWritten, DeleteAITenant, FinalizeAITenant,
     DeleteNamespace, ensureDefaultAITenantBootstrap, ProvisionDefault, CollectTenant
<1>5. tenantConfig' = tenantConfig
  BY <1>1, <1>2, Writers DEF TenantConfigWritten, ReconcileTenant, cleanupTenantResources,
     ProvisionDefault, CollectTenant, FinalizeAITenant
<1> QED BY <1>4, <1>5 DEF OperandsReady, Exists

LEMMA NextStillKnown ==
    ASSUME TypeOK, StillKnown, [Next]_vars PROVE StillKnown'
<1> SUFFICES ASSUME rec' # None, ~queue'
             PROVE  /\ rec'.step \in {"link", "report"} => knownConfig' # None
                    /\ rec'.step \in {"delete", "mark"} => knownDep' # None /\ knownDep'.requested
  BY DEF StillKnown
<1>0. knownDep' = knownDep /\ knownConfig' = knownConfig
  BY QueueKept
<1>1. CASE Begin
  BY <1>0, <1>1 DEF Begin, ToStep
<1>2. CASE handleRequestedTeardown
  BY <1>0, <1>2 DEF handleRequestedTeardown, ToStep, Requeue, Ready, Running
<1>3. CASE ~Begin /\ ~handleRequestedTeardown
  <2>1. ~Crash /\ ~Stop /\ ~ensureSingletonConfig /\ ~Report /\ ~markTeardownCompleted
    BY DEF Crash, Stop, ensureSingletonConfig, Report, markTeardownCompleted, Requeue
  <2>2. rec' = rec \/ Link \/ DeleteAnchor
    BY <1>3, <2>1, Writers DEF RecWritten
  <2>3. rec # None /\ ~Leave
    BY <2>2 DEF Link, DeleteAnchor, Leave, Idle
  <2>4. ~queue
    BY <1>3, <2>1, <2>3, QueueKept
  <2>5. rec \in RecType
    BY <2>3 DEF TypeOK, RecType
  <2>6. CASE Link
    BY <1>0, <2>5, <2>6 DEF Link, Requeue, RecType
  <2>7. CASE DeleteAnchor
    BY <1>0, <2>3, <2>4, <2>5, <2>7 DEF DeleteAnchor, RecType, StillKnown
  <2>8. CASE rec' = rec
    BY <1>0, <2>3, <2>4, <2>8 DEF StillKnown
  <2> QED BY <2>2, <2>6, <2>7, <2>8
<1> QED BY <1>1, <1>2, <1>3

LEMMA NextUpToDate ==
    ASSUME TypeOK, StillKnown, UpToDate, [Next]_vars PROVE UpToDate'
<1> SUFFICES ASSUME running', ~queue', rec' = None, Running(knownDep'), ~knownDep'.requested
             PROVE  /\ config' # None => config'.ready = OperandsReady'
                    /\ logs'["binding"] # 0 => crd' \/ left'
  BY DEF UpToDate, Quiet, Running
<1>1. /\ knownDep' = knownDep /\ knownConfig' = knownConfig /\ crd' = crd
      /\ ~Start /\ ~ToggleCRD
  BY QueueKept
<1>2. ~Crash /\ ~Stop /\ ~Begin /\ ~handleRequestedTeardown /\ ~Leave /\ ~ensureSingletonConfig
  <2>1. ASSUME NEW s \in Steps, ToStep(s) PROVE FALSE
    <3> DEFINE b == knownConfig # None
    <3>1. rec' = [step |-> s, anchored |-> b] /\ b \in BOOLEAN
      BY <2>1 DEF ToStep
    <3> HIDE DEF b
    <3>2. rec' \in [step : Steps, anchored : BOOLEAN]
      BY <3>1
    <3> QED BY <3>2
  <2> QED BY <1>1, <2>1 DEF Steps, Crash, Stop, Begin, handleRequestedTeardown, Leave, Requeue,
             ensureSingletonConfig
<1>3. ~queue /\ running
  BY <1>1, <1>2, QueueKept, Writers
<1>4. OperandsReady' = OperandsReady
  BY <1>2, OperandsKept
<1>5. CASE rec = None
  <2>1. Quiet
    BY <1>1, <1>3, <1>5 DEF Quiet
  <2>2. ~Report /\ ~DeleteAnchor
    BY <1>5 DEF Report, DeleteAnchor
  <2>3. config' = None \/ (config # None /\ config'.ready = config.ready)
    <3>1. config # None =>
            /\ [config EXCEPT !.marker = TRUE].ready = config.ready
            /\ [config EXCEPT !.deleting = TRUE].ready = config.ready
      BY DEF TypeOK, Config
    <3>2. CASE ToggleLogging
      <4> DEFINE l == ~config.logging
      <4>1. config # None /\ config' = [config EXCEPT !.logging = l]
        BY <3>2 DEF ToggleLogging
      <4> HIDE DEF l
      <4> QED BY <4>1 DEF TypeOK, Config
    <3>3. CASE DeleteConfig \/ CollectConfig
      BY <3>1, <3>3 DEF DeleteConfig, CollectConfig, Terminating
    <3>4. CASE markDefaultAITenantBootstrapped
      BY <3>1, <3>4 DEF markDefaultAITenantBootstrapped
    <3> QED BY <1>2, <2>2, <3>2, <3>3, <3>4, Writers DEF ConfigWritten
  <2>4. logs'["binding"] = logs["binding"] \/ logs'["binding"] = 0
    BY <1>1, <2>2, Writers DEF ToggleMonitoring, CollectObjects, LogObjects, TypeOK
  <2>5. left' = left
    BY <2>2, Writers
  <2> QED BY <1>1, <1>4, <2>1, <2>3, <2>4, <2>5 DEF UpToDate
<1>6. CASE rec # None
  <2>1. ~markTeardownCompleted
    BY <1>1, <1>3, <1>6 DEF markTeardownCompleted, Requeue, StillKnown
  <2>2. Report
    <3>1. ~Link /\ ~DeleteAnchor
      <4>1. [rec EXCEPT !.step = "report"] # None /\ [rec EXCEPT !.step = "mark"] # None
        BY <1>6 DEF TypeOK, Steps
      <4> QED BY <4>1 DEF Link, DeleteAnchor, Requeue
    <3> QED BY <1>2, <1>6, <2>1, <3>1, Writers DEF RecWritten
  <2>3. logs'["binding"] # 0 => crd \/ left'
    <3>1. knownConfig # None
      BY <1>3, <1>6, <2>2 DEF Report, StillKnown
    <3>2. CASE ~monitoring
      BY <2>2, <3>2 DEF Report, ensureObservability
    <3>3. CASE monitoring
      <4>1. PICK f \in BOOLEAN : logs' = ensureUsageLogs(f) /\ left' = ~f
        BY <2>2, <3>1, <3>3 DEF Report, ensureObservability
      <4>2. logs'["binding"] = BindingAfter(f)
        BY <4>1 DEF ensureUsageLogs, LogObjects
      <4> QED BY <4>1, <4>2 DEF BindingAfter
    <3> QED BY <3>2, <3>3 DEF TypeOK
  <2>4. config' # None => config'.ready = OperandsReady
    <3> DEFINE b == OperandsReady
    <3>1. config' = IF config = None THEN None ELSE [config EXCEPT !.ready = b]
      BY <2>2 DEF Report
    <3> HIDE DEF b
    <3>2. config' # None => config'.ready = b
      BY <3>1 DEF TypeOK, Config
    <3> QED BY <3>2 DEF b
  <2> QED BY <1>1, <1>4, <2>3, <2>4
<1> QED BY <1>5, <1>6

-----------------------------------------------------------------------------
(* The theorems                                                            *)

LEMMA InitInv == Init => IndInv
<1> SUFFICES ASSUME Init PROVE IndInv
  OBVIOUS
<1> USE DEF Init
<1>1. CASE Fresh
  <2>0. dep \in Deployment /\ ~dep.requested /\ ~dep.owned /\ ~dep.deleting
    BY <1>1 DEF Fresh, Deployment
  <2>1. dep # None
    BY <2>0
  <2>2. TypeOK
    <3>1. /\ uid \in UIDs /\ platform \in UIDs /\ logs \in [LogObjects -> UIDs]
          /\ edits \in 0..MaxEdits
      BY <1>1 DEF Fresh, UIDs, LogObjects, NoLogs
    <3>2. /\ secret \in {"maas-api", "controller", "missing"} /\ namespace \in {"active", "terminating", "missing"}
          /\ config = None /\ tenantConfig = None /\ old \subseteq Tenants
      BY <1>1 DEF Fresh
    <3>3. aitenants \in [Tenants -> AITenant \cup {None}]
      BY <1>1 DEF Fresh
    <3> QED BY <2>0, <3>1, <3>2, <3>3 DEF TypeOK
  <2>3. OldExist
    BY <1>1 DEF Fresh, OldExist
  <2>4. NoneLeft /\ TeardownHonest /\ Anchored /\ SignalSurvives /\ StillKnown /\ UpToDate
    BY <2>0, <2>1 DEF NoneLeft, TeardownHonest, Anchored, SignalSurvives, StillKnown,
       UpToDate, Quiet
  <2> QED BY <2>2, <2>3, <2>4 DEF IndInv
<1>2. CASE Upgrade
  <2>1. PICK requested \in BOOLEAN, populated \in BOOLEAN, logging \in BOOLEAN :
          /\ dep = [requested |-> requested, completed |-> FALSE, owned |-> TRUE,
                    finalizer |-> TRUE, deleting |-> FALSE]
          /\ config = [uid |-> 1, deleting |-> FALSE, marker |-> FALSE, logging |-> logging,
                       ready |-> FALSE]
          /\ uid = 1 /\ secret = "controller" /\ namespace = "active"
          /\ aitenants = [t \in Tenants |->
               IF populated THEN [owner |-> IF t = Default THEN 1 ELSE 0, deleting |-> FALSE,
                                  ready |-> FALSE]
               ELSE None]
          /\ tenantConfig = IF populated THEN [owner |-> 1, deleting |-> FALSE,
                                               finalizer |-> TRUE, ready |-> FALSE]
                            ELSE None
          /\ platform = IF populated THEN 1 ELSE 0
          /\ old = IF requested /\ populated THEN Tenants ELSE {}
    BY <1>2 DEF Upgrade
  <2>2. dep \in Deployment /\ dep.owned /\ ~dep.deleting /\ ~dep.completed
    BY <2>1 DEF Deployment
  <2>3. config \in Config /\ config.uid = 1 /\ ~config.deleting
    BY <2>1 DEF Config, UIDs
  <2>4. \A t \in Tenants : aitenants[t] \in AITenant \cup {None} /\ (populated => aitenants[t] \in AITenant)
    BY <2>1 DEF AITenant, UIDs
  <2>5. aitenants \in [Tenants -> AITenant \cup {None}]
    BY <2>1, <2>4
  <2>6. tenantConfig \in MaasTenantConfig \cup {None} /\ platform \in UIDs
    BY <2>1 DEF MaasTenantConfig, UIDs
  <2>7. old \subseteq Tenants /\ OldExist
    BY <2>1, <2>4 DEF OldExist, Exists
  <2>8. TypeOK
    <3>1. uid \in UIDs /\ logs \in [LogObjects -> UIDs] /\ edits \in 0..MaxEdits
      BY <2>1 DEF UIDs, LogObjects, NoLogs
    <3>2. secret \in {"maas-api", "controller", "missing"} /\ namespace \in {"active", "terminating", "missing"}
      BY <2>1
    <3> QED BY <2>2, <2>3, <2>5, <2>6, <2>7, <3>1, <3>2 DEF TypeOK
  <2>9. NoneLeft /\ TeardownHonest /\ Anchored /\ SignalSurvives /\ StillKnown /\ UpToDate
    <3>1. dep # None /\ config # None
      BY <2>2, <2>3
    <3> QED BY <2>2, <2>3, <3>1 DEF NoneLeft, TeardownHonest, Anchored, SignalSurvives, StillKnown,
       UpToDate, Quiet
  <2> QED BY <2>7, <2>8, <2>9 DEF IndInv
<1> QED BY <1>1, <1>2

\* IndInv is inductive: every action of the operators, of the controller's parts and
\* of the garbage collector keeps it.
THEOREM Invariance == Spec => []IndInv
<1>1. IndInv /\ [Next]_vars => IndInv'
  BY NextType, NextOldExist, NextNoneLeft, NextHonest, NextAnchored, NextSurvives,
     NextStillKnown, NextUpToDate DEF IndInv
<1> QED BY InitInv, <1>1, PTL DEF Spec

\* The values every variable takes, for any number of AITenants and changes.
THEOREM Typing == Spec => []TypeOK
<1>1. IndInv => TypeOK
  BY DEF IndInv
<1> QED BY Invariance, <1>1, PTL

\* markTeardownCompleted reports a requested teardown complete only once every
\* AITenant older than the request is gone.
THEOREM SignalIsHonest == Spec => []TeardownHonest
<1>1. IndInv => TeardownHonest
  BY DEF IndInv
<1> QED BY Invariance, <1>1, PTL

\* The Deployment that carries the annotation goes away only if somebody other than
\* LifecycleReconciler deletes it or the Config it hangs on.
THEOREM SignalIsKept == Spec => []SignalSurvives
<1>1. IndInv => SignalSurvives
  BY DEF IndInv
<1> QED BY Invariance, <1>1, PTL

\* With nothing queued and caches up to date, syncModuleStatus has reported the
\* default tenant as it is.
THEOREM StatusIsCurrent == Spec => []ModuleStatusAgrees
<1>1. IndInv => ModuleStatusAgrees
  BY DEF IndInv, UpToDate, Quiet, ModuleStatusAgrees
<1> QED BY Invariance, <1>1, PTL

\* With nothing queued and caches up to date, there is a binding for a collector whose
\* CRD is gone only where the last ensureObservability could not look it up, or
\* returned early for want of the monitoring namespace.
THEOREM BindingsAreBacked == Spec => []NoOrphanBinding
<1>1. IndInv => NoOrphanBinding
  BY DEF IndInv, UpToDate, Quiet, NoOrphanBinding
<1> QED BY Invariance, <1>1, PTL
=============================================================================
