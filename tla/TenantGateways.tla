--------------------------- MODULE TenantGateways ---------------------------
(***************************************************************************)
(* How AITenants come to own gateways, and who writes the AuthPolicy of a  *)
(* gateway.  Four parties meet in the API server:                          *)
(*                                                                         *)
(*   - administrators create, retarget and delete AITenants; the admission *)
(*     webhook lists the AITenants and compares gateways, and the object   *)
(*     is stored later;                                                    *)
(*   - the AITenant controller, one worker, provisions a tenant (finalizer,*)
(*     status.gatewayRef, gateway claim, MaasTenantConfig) and takes it    *)
(*     apart again; every call of its that changes something is a step;    *)
(*   - the MaasTenantConfig controller, and                                *)
(*   - the MaaSAuthPolicy controller, which find the gateway of a tenant   *)
(*     in status.gatewayRef and write the gateway's AuthPolicy.            *)
(*                                                                         *)
(* A tenant is not the default one, all gateways exist, and each tenant    *)
(* has at most one MaaSAuthPolicy.  The garbage collector, the API server  *)
(* and the administrators are external.                                    *)
(***************************************************************************)
EXTENDS Naturals, FiniteSets

CONSTANTS
    Names,          \* names an AITenant can have
    Gateways,       \* gateways of the gateway namespace
    None,           \* nothing there
    DeletionTimeout,\* whether a deletion is forced when it takes too long
    PolicyTenants,  \* the tenants whose namespaces get MaaSAuthPolicies
    MaxUID,         \* bound on the AITenants ever created
    MaxEdits,       \* bound on the retargetings
    MaxFaults       \* bound on failing calls and controller restarts

ASSUME TenantGatewaysConstants ==
    /\ None \notin Names \cup Gateways
    /\ DeletionTimeout \in BOOLEAN
    /\ PolicyTenants \subseteq Names
    /\ MaxUID \in Nat /\ MaxEdits \in Nat /\ MaxFaults \in Nat

VARIABLES
    tenants,        \* the AITenant stored under each name
    request,        \* the admitted but not yet stored gateway for each name
    overdue,        \* whether DeletionTimeout has passed for the tenant
    claim,          \* gateway-claim ConfigMaps: the controller owner reference
    config,         \* the MaasTenantConfig of each tenant namespace
    authCR,         \* the MaaSAuthPolicy of each tenant namespace
    policy,         \* <gateway>-maas-auth: the tenant whose maas-api it calls
    rec,            \* the running Reconcile of the AITenant controller
    writer,         \* the running Reconcile of each MaaSAuthPolicy
    owners,         \* gateways recorded as owners of the infra namespace's label
    created, edits, faults      \* counters for the bounds

vars == <<tenants, request, overdue, claim, config, authCR, policy, rec,
          writer, owners, created, edits, faults>>

crs == <<config, authCR, writer>>
resources == <<crs, owners>>
counters == <<created, edits, faults>>

Phases == {None, "Pending", "Failed", "Active", "Terminating"}
AITenants ==
    [uid : 1..MaxUID, spec : Gateways, status : Gateways \cup {None},
     phase : Phases, finalizer : BOOLEAN, deleting : BOOLEAN]
Owners == [name : Names, uid : 1..MaxUID]
ASSUME NoneAssumption ==
    /\ None \notin AITenants \cup Owners
    /\ None \notin {"Active", "present", "deleting", "live"}

Steps == {"finalize", "status", "label", "claim", "stale", "resources", "report",
          "terminate", "revoke", "config", "policy", "claims", "unlabel", "remove"}

TypeOK ==
    /\ tenants \in [Names -> AITenants \cup {None}]
    /\ request \in [Names -> Gateways \cup {None}]
    /\ overdue \in [Names -> BOOLEAN]
    /\ claim \in [Gateways -> Owners \cup {None}]
    /\ config \in [Names -> {None, "present", "deleting"}]
    /\ authCR \in [Names -> {None, "live", "deleting"}]
    /\ policy \in [Gateways -> Names \cup {None}]
    /\ rec \in [name : Names, pc : Steps, obj : AITenants, fresh : BOOLEAN,
                want : Phases, forced : BOOLEAN] \cup {None}
    /\ owners \subseteq Gateways
    /\ writer \in [Names -> [gateway : Gateways, last : BOOLEAN] \cup {None}]
    /\ created \in 0..MaxUID /\ edits \in 0..MaxEdits /\ faults \in 0..MaxFaults

Init ==
    /\ tenants = [t \in Names |-> None]
    /\ request = [t \in Names |-> None]
    /\ overdue = [t \in Names |-> FALSE]
    /\ claim = [g \in Gateways |-> None]
    /\ config = [t \in Names |-> None]
    /\ authCR = [t \in Names |-> None]
    /\ policy = [g \in Gateways |-> None]
    /\ rec = None
    /\ writer = [t \in Names |-> None]
    /\ owners = {}
    /\ created = 0 /\ edits = 0 /\ faults = 0

Exists(t) == tenants[t] # None
Owner(t, o) == [name |-> t, uid |-> o.uid]
Fault == faults < MaxFaults /\ faults' = faults + 1

UniqueByStatus(t, g) ==
    \A s \in Names \ {t} : Exists(s) => tenants[s].status # g

\* validateGatewayUniqueness: no other AITenant, deleted or not, wants g.
Unique(t, g) == \A s \in Names \ {t} : Exists(s) => tenants[s].spec # g

---------------------------------------------------------------------------
(* Administrators and the webhook.  A request is admitted on the list of   *)
(* AITenants of that moment and stored in a later step.  Storing compares  *)
(* resource versions, so every other write to the object ends the request, *)
(* and the copy a running Reconcile holds is no longer fresh.              *)

Save(t, o) ==
    /\ tenants' = [tenants EXCEPT ![t] = o]
    /\ request' = [request EXCEPT ![t] = None]

Overtake(t) ==
    rec' = IF rec # None /\ rec.name = t THEN [rec EXCEPT !.fresh = FALSE]
                                         ELSE rec

ValidateCreate(t, g) ==
    /\ ~Exists(t) /\ request[t] = None
    /\ created < MaxUID
    /\ Unique(t, g)
    /\ request' = [request EXCEPT ![t] = g]
    /\ created' = created + 1
    /\ UNCHANGED <<tenants, overdue, claim, policy, rec, resources, edits, faults>>

ValidateUpdate(t, g) ==
    /\ Exists(t) /\ tenants[t].spec # g /\ request[t] = None
    /\ edits < MaxEdits
    /\ Unique(t, g)
    /\ request' = [request EXCEPT ![t] = g]
    /\ edits' = edits + 1
    /\ UNCHANGED <<tenants, overdue, claim, policy, rec, resources, created, faults>>

\* Creations are numbered as they are admitted; a later one never meets an
\* earlier one of its name, so the number serves as the UID.
Store(t) ==
    /\ request[t] # None
    /\ Save(t, IF Exists(t)
               THEN [tenants[t] EXCEPT !.spec = request[t]]
               ELSE [uid |-> created, spec |-> request[t], status |-> None,
                     phase |-> None, finalizer |-> FALSE, deleting |-> FALSE])
    /\ Overtake(t)
    /\ UNCHANGED <<overdue, claim, policy, resources, counters>>

Delete(t) ==
    /\ Exists(t) /\ ~tenants[t].deleting
    /\ Save(t, IF tenants[t].finalizer
               THEN [tenants[t] EXCEPT !.deleting = TRUE] ELSE None)
    /\ Overtake(t)
    /\ UNCHANGED <<overdue, claim, policy, resources, counters>>

---------------------------------------------------------------------------
(* The AITenant controller.                                                *)

At(step) == rec # None /\ rec.pc = step
Goto(step) == rec' = [rec EXCEPT !.pc = step]
\* Return and be requeued.
Done == rec' = None

GetWithoutDeadline(t) ==
    /\ rec = None /\ Exists(t)
    /\ LET o == tenants[t] IN
       rec' = [name |-> t, obj |-> o, fresh |-> TRUE, want |-> None, forced |-> FALSE,
               pc |-> IF o.deleting THEN "terminate"
                      ELSE IF o.finalizer THEN "status" ELSE "finalize"]
    /\ UNCHANGED <<tenants, request, overdue, claim, policy, resources, counters>>

\* Reconcile reads the AITenant and takes its way.
Get(t) ==
    /\ rec = None /\ Exists(t)
    /\ LET o == tenants[t] IN
       rec' = [name |-> t, obj |-> o, fresh |-> TRUE, want |-> None,
               forced |-> o.deleting /\ overdue[t],
               pc |-> IF o.deleting THEN "terminate"
                      ELSE IF o.finalizer THEN "status" ELSE "finalize"]
    /\ UNCHANGED <<tenants, request, overdue, claim, policy, resources, counters>>

\* A restart, a call that fails, or a stale copy: the Reconcile is over.
Abort ==
    /\ rec # None /\ Fault
    /\ Done
    /\ UNCHANGED <<tenants, request, overdue, claim, policy, resources, created, edits>>

\* The patch passes the webhook, as every update of an AITenant does.
AddFinalizer ==
    /\ At("finalize")
    /\ LET t == rec.name IN
       IF Exists(t) /\ Unique(t, tenants[t].spec)
       THEN Save(t, [tenants[t] EXCEPT !.finalizer = TRUE])
       ELSE UNCHANGED <<tenants, request>>
    /\ Done
    /\ UNCHANGED <<overdue, claim, policy, resources, counters>>

\* Status().Update of the copy o: nothing to do, or a write, or a conflict.
\* The webhook is not asked.
updateAITenantStatus(o, step) ==
    \/ o = rec.obj /\ Goto(step) /\ UNCHANGED <<tenants, request>>
    \/ /\ o # rec.obj /\ rec.fresh
       /\ Save(rec.name, o)
       /\ rec' = [rec EXCEPT !.obj = o, !.pc = step]
    \/ o # rec.obj /\ ~rec.fresh /\ Done /\ UNCHANGED <<tenants, request>>

SetGatewayRef ==
    /\ At("status")
    /\ updateAITenantStatus([rec.obj EXCEPT !.status = rec.obj.spec], "label")
    /\ UNCHANGED <<overdue, claim, policy, resources, counters>>

Report(phase) == rec' = [rec EXCEPT !.pc = "report", !.want = phase]

\* validateTenantGateway finds no such Gateway.
GatewayCheckFailed ==
    /\ At("label") /\ Fault
    /\ Report("Failed")
    /\ UNCHANGED <<tenants, request, overdue, claim, policy, resources, created, edits>>

\* The gateways of this model ask for the same label on the infrastructure
\* namespace, which is there as long as it has owners.  A failure is logged.
ensureInfraNamespaceGatewayLabels ==
    /\ At("label")
    /\ owners' = owners \cup {rec.obj.spec}
    /\ Goto("claim")
    /\ UNCHANGED <<tenants, request, overdue, claim, policy, crs, counters>>

LabelsFailed ==
    /\ At("label") /\ Fault
    /\ Goto("claim")
    /\ UNCHANGED <<tenants, request, overdue, claim, policy, resources, created, edits>>

ClaimUnchecked ==
    /\ At("claim")
    /\ LET g == rec.obj.spec IN
       claim' = IF claim[g] = None
                THEN [claim EXCEPT ![g] = Owner(rec.name, rec.obj)] ELSE claim
    /\ Goto("stale")
    /\ UNCHANGED <<tenants, request, overdue, policy, resources, counters>>

\* Create-once: the claim is new, or ours already, or somebody else's.
ensureGatewayClaim ==
    /\ At("claim")
    /\ LET g == rec.obj.spec
           me == Owner(rec.name, rec.obj)
       IN  \/ claim[g] = None /\ claim' = [claim EXCEPT ![g] = me] /\ Goto("stale")
           \/ claim[g] = me /\ Goto("stale") /\ UNCHANGED claim
           \/ claim[g] \notin {None, me} /\ Report("Failed") /\ UNCHANGED claim
    /\ UNCHANGED <<tenants, request, overdue, policy, resources, counters>>

ReleaseAny(gateways) ==
    claim' = [g \in Gateways |-> IF g \in gateways THEN None ELSE claim[g]]

Release(gateways) ==
    claim' = [g \in Gateways |->
                IF g \in gateways /\ claim[g] = Owner(rec.name, rec.obj)
                THEN None ELSE claim[g]]

cleanupStaleClaims ==
    /\ At("stale")
    /\ Release(Gateways \ {rec.obj.spec})
    /\ Goto("resources")
    /\ UNCHANGED <<tenants, request, overdue, policy, resources, counters>>

\* A new MaasTenantConfig is not Ready; one in deletion is an error.
ensureTenantConfig(t) ==
    \/ /\ config[t] = None
       /\ config' = [config EXCEPT ![t] = "present"]
       /\ Report("Pending")
    \/ /\ config[t] = "present" /\ UNCHANGED config
       /\ \E phase \in {"Pending", "Active"} : Report(phase)
    \/ config[t] = "deleting" /\ UNCHANGED config /\ Report("Failed")

ensureTenantResources ==
    /\ At("resources")
    /\ ensureTenantConfig(rec.name)
    /\ UNCHANGED <<tenants, request, overdue, claim, policy, authCR, writer, owners, counters>>

ReportPhase ==
    /\ At("report")
    /\ LET o == [rec.obj EXCEPT !.phase = rec.want] IN
       IF o # rec.obj /\ rec.fresh THEN Save(rec.name, o)
                                   ELSE UNCHANGED <<tenants, request>>
    /\ Done
    /\ UNCHANGED <<overdue, claim, policy, resources, counters>>

---------------------------------------------------------------------------
(* reconcileAITenantDelete and forceRemoveAITenantFinalizer.  A forced     *)
(* removal goes through the same steps, waits for none of them and ignores *)
(* the ones that fail.                                                     *)

DeadlinePasses(t) ==
    /\ DeletionTimeout
    /\ Exists(t) /\ tenants[t].deleting /\ ~overdue[t]
    /\ overdue' = [overdue EXCEPT ![t] = TRUE]
    /\ UNCHANGED <<tenants, request, claim, policy, rec, resources, counters>>

Terminate ==
    /\ At("terminate") /\ ~rec.forced
    /\ updateAITenantStatus([rec.obj EXCEPT !.phase = "Terminating"], "revoke")
    /\ UNCHANGED <<overdue, claim, policy, resources, counters>>

\* The status of a forced removal is written if it can be.
ForceTerminate ==
    /\ At("terminate") /\ rec.forced
    /\ LET o == [rec.obj EXCEPT !.phase = "Terminating"] IN
       IF rec.fresh THEN /\ Save(rec.name, o)
                         /\ rec' = [rec EXCEPT !.obj = o, !.pc = "config"]
                    ELSE Goto("config") /\ UNCHANGED <<tenants, request>>
    /\ UNCHANGED <<overdue, claim, policy, resources, counters>>

\* The revocation Job has succeeded, or it is still running or has failed.
ensureTenantAPIKeysRevoked ==
    /\ At("revoke")
    /\ Goto("config") \/ Done
    /\ UNCHANGED <<tenants, request, overdue, claim, policy, resources, counters>>

ConfigNotAwaited ==
    /\ At("config")
    /\ LET t == rec.name IN
       config' = IF config[t] = "present"
                 THEN [config EXCEPT ![t] = "deleting"] ELSE config
    /\ Goto("policy")
    /\ UNCHANGED <<tenants, request, overdue, claim, policy, authCR, writer, owners, counters>>

deleteTenantConfig ==
    /\ At("config")
    /\ LET t == rec.name IN
       /\ config' = IF config[t] = "present"
                    THEN [config EXCEPT ![t] = "deleting"] ELSE config
       /\ IF rec.forced \/ config[t] = None THEN Goto("policy") ELSE Done
    /\ UNCHANGED <<tenants, request, overdue, claim, policy, authCR, writer, owners, counters>>

\* Whatever <gateway>-maas-auth is there goes, whomever it serves.
deleteTenantGatewayAuthPolicy ==
    /\ At("policy")
    /\ LET g == IF rec.obj.status # None THEN rec.obj.status ELSE rec.obj.spec
       IN  policy' = [policy EXCEPT ![g] = None]
    /\ Goto("claims")
    /\ UNCHANGED <<tenants, request, overdue, claim, resources, counters>>

deleteGatewayClaim ==
    /\ At("claims")
    /\ Release(Gateways)
    /\ Goto("unlabel")
    /\ UNCHANGED <<tenants, request, overdue, policy, resources, counters>>

OnlySoleOwner ==
    /\ At("unlabel")
    /\ owners' = IF owners = {rec.obj.spec} THEN {} ELSE owners
    /\ Goto("remove")
    /\ UNCHANGED <<tenants, request, overdue, claim, policy, crs, counters>>

cleanupGatewayLabelsOnDelete ==
    /\ At("unlabel")
    /\ owners' = owners \ {rec.obj.spec}
    /\ Goto("remove")
    /\ UNCHANGED <<tenants, request, overdue, claim, policy, crs, counters>>

\* A best-effort call of the forced removal fails and is logged.
IgnoreFailure ==
    /\ rec # None /\ rec.forced /\ Fault
    /\ \/ At("config") /\ Goto("policy")
       \/ At("policy") /\ Goto("claims")
       \/ At("claims") /\ Goto("unlabel")
       \/ At("unlabel") /\ Goto("remove")
    /\ UNCHANGED <<tenants, request, overdue, claim, policy, resources, created, edits>>

RemoveFinalizer ==
    /\ At("remove")
    /\ LET t == rec.name IN
       IF Unique(t, tenants[t].spec)
       THEN Save(t, None) /\ overdue' = [overdue EXCEPT ![t] = FALSE]
       ELSE UNCHANGED <<tenants, request, overdue>>
    /\ Done
    /\ UNCHANGED <<claim, policy, resources, counters>>

\* The garbage collector removes a claim whose owner no longer exists.
CollectClaim(g) ==
    /\ claim[g] # None
    /\ \A t \in Names : Exists(t) => claim[g] # Owner(t, tenants[t])
    /\ claim' = [claim EXCEPT ![g] = None]
    /\ UNCHANGED <<tenants, request, overdue, policy, rec, resources, counters>>

---------------------------------------------------------------------------
(* The other two controllers.  resolveAITenantPlatformContext needs the    *)
(* MaasTenantConfig, its AITenant and a status.gatewayRef; without them    *)
(* the Reconcile fails and is retried.                                     *)

PlatformContext(t) ==
    IF config[t] # None /\ Exists(t) THEN tenants[t].status ELSE None

CreateAuthCR(t) ==
    /\ t \in PolicyTenants
    /\ config[t] # None /\ authCR[t] = None
    /\ authCR' = [authCR EXCEPT ![t] = "live"]
    /\ UNCHANGED <<tenants, request, overdue, claim, policy, rec, config, writer, owners, counters>>

\* An administrator, or cleanupMaaSAuthPolicies.
DeleteAuthCR(t) ==
    /\ authCR[t] = "live"
    /\ authCR' = [authCR EXCEPT ![t] = "deleting"]
    /\ UNCHANGED <<tenants, request, overdue, claim, policy, rec, config, writer, owners, counters>>

\* Reconcile and handleDeletion read the gateway first ...
fetchGatewayInfo(t) ==
    /\ authCR[t] # None /\ writer[t] = None
    /\ PlatformContext(t) # None
    /\ writer' = [writer EXCEPT ![t] =
                    [gateway |-> PlatformContext(t), last |-> authCR[t] = "deleting"]]
    /\ UNCHANGED <<tenants, request, overdue, claim, policy, rec, config, authCR, owners, counters>>

\* ... and write its AuthPolicy; a deletion then gives up its finalizer.
reconcileGatewayAuthPolicy(t) ==
    /\ writer[t] # None
    /\ policy' = [policy EXCEPT ![writer[t].gateway] = t]
    /\ authCR' = IF writer[t].last THEN [authCR EXCEPT ![t] = None] ELSE authCR
    /\ writer' = [writer EXCEPT ![t] = None]
    /\ UNCHANGED <<tenants, request, overdue, claim, rec, config, owners, counters>>

\* TenantReconciler gives a gateway without an AuthPolicy a base one.
ensureGatewayManagementAuth(t) ==
    /\ config[t] = "present" /\ PlatformContext(t) # None
    /\ policy[PlatformContext(t)] = None
    /\ policy' = [policy EXCEPT ![PlatformContext(t)] = t]
    /\ UNCHANGED <<tenants, request, overdue, claim, rec, resources, counters>>

\* TenantReconciler lets a MaasTenantConfig go when its policies are gone.
removeTenantConfig(t) ==
    /\ config[t] = "deleting" /\ authCR[t] = None
    /\ config' = [config EXCEPT ![t] = None]
    /\ UNCHANGED <<tenants, request, overdue, claim, policy, rec, authCR, writer, owners, counters>>

---------------------------------------------------------------------------
Reconcile ==
    \/ \E t \in Names : Get(t)
    \/ AddFinalizer \/ SetGatewayRef \/ ensureInfraNamespaceGatewayLabels
    \/ ensureGatewayClaim
    \/ cleanupStaleClaims \/ ensureTenantResources \/ ReportPhase
    \/ Terminate \/ ForceTerminate \/ ensureTenantAPIKeysRevoked \/ deleteTenantConfig
    \/ deleteTenantGatewayAuthPolicy \/ deleteGatewayClaim
    \/ cleanupGatewayLabelsOnDelete \/ RemoveFinalizer

Admin ==
    \E t \in Names :
      \/ \E g \in Gateways : ValidateCreate(t, g) \/ ValidateUpdate(t, g)
      \/ Store(t) \/ Delete(t) \/ CreateAuthCR(t)

Next ==
    \/ Admin
    \/ Reconcile
    \/ Abort \/ GatewayCheckFailed \/ LabelsFailed \/ IgnoreFailure
    \/ \E g \in Gateways : CollectClaim(g)
    \/ \E t \in Names :
         \/ DeadlinePasses(t) \/ DeleteAuthCR(t)
         \/ fetchGatewayInfo(t) \/ reconcileGatewayAuthPolicy(t)
         \/ ensureGatewayManagementAuth(t) \/ removeTenantConfig(t)

Spec == Init /\ [][Next]_vars

\* The work queue of a controller serves every object that is waiting, again
\* after every error and every requeue, and time passes.  Nothing is assumed
\* of the administrators or of the revocation Job.
FairSpec ==
    /\ Spec
    /\ WF_vars(Reconcile)
    /\ \A t \in Names :
         /\ SF_vars(Get(t))
         /\ WF_vars(DeadlinePasses(t))
         /\ WF_vars(fetchGatewayInfo(t) \/ reconcileGatewayAuthPolicy(t))
         /\ WF_vars(config[t] = "deleting" /\ DeleteAuthCR(t))
         /\ SF_vars(removeTenantConfig(t))

---------------------------------------------------------------------------
(* Properties.                                                             *)

\* An AITenant is reported Active only while it holds the claim of the gateway
\* it reports: between ensureGatewayClaim and the status update at the end of
\* Reconcile nobody takes the claim away, whatever administrators, the garbage
\* collector or a restart do in between.
ActiveHoldsClaim ==
    [][\A t \in Names :
         tenants'[t] \notin {None, tenants[t]} =>
           LET o == tenants'[t] IN
           o.phase = "Active" /\ (Exists(t) => tenants[t].phase # "Active")
           => claim[o.status] = Owner(t, o)]_vars

\* The claim of an AITenant that is there to stay, on the gateway it serves,
\* is never released or taken over: cleanupStaleClaims, deleteGatewayClaim and
\* the garbage collector only touch claims of retargeted, deleted or vanished
\* owners.
SettledClaimKept ==
    [][\A g \in Gateways : claim'[g] # claim[g] =>
         ~ \E t \in Names : /\ Exists(t) /\ ~tenants[t].deleting
                            /\ claim[g] = Owner(t, tenants[t])
                            /\ tenants[t].status = g]_vars

\* Once the tenant that has claimed a gateway has its AuthPolicy there, nobody
\* else overwrites or deletes it as long as the tenant keeps the claim, at
\* least until an administrator first retargets a tenant: webhook, claim and
\* the order of Reconcile and of a deletion see to it together.
PolicyKept ==
    [][\A g \in Gateways : policy'[g] # policy[g] /\ edits = 0 =>
         ~ \E t \in Names : /\ Exists(t) /\ ~tenants[t].deleting
                            /\ claim[g] = Owner(t, tenants[t])
                            /\ policy[g] = t]_vars

\* As long as no tenant was retargeted, a gateway AuthPolicy serves an AITenant
\* that exists: deletion removes the AuthPolicy that sends requests to the
\* maas-api of the deleted tenant, and nothing writes it again.
NoOrphanPolicy ==
    edits = 0 => \A g \in Gateways : policy[g] # None => Exists(policy[g])

\* As long as no tenant was retargeted, a gateway owns the label of the
\* infrastructure namespace only for an AITenant that names it: the last
\* deletion takes the label away, and an earlier one leaves it to the others.
NoOrphanLabel ==
    edits = 0 => \A g \in owners : \E t \in Names : Exists(t) /\ tenants[t].spec = g

\* An AITenant whose deletion was asked for goes away, unless another AITenant
\* has the same gateway, whatever fails on the way: the deadline sees to it.
DeletionCompletes ==
    \A t \in Names :
      (Exists(t) /\ tenants[t].deleting)
      ~> (Exists(t) => ~Unique(t, tenants[t].spec))
=============================================================================
