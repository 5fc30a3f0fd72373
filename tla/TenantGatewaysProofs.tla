------------------------ MODULE TenantGatewaysProofs ------------------------
(***************************************************************************)
(* Who holds a gateway's claim, and whom its AuthPolicy serves, for any    *)
(* number of AITenants and gateways and any number of faults.              *)
(*                                                                         *)
(* The claim is safe whatever happens.  The AuthPolicy and the label of    *)
(* the infrastructure namespace are safe as long as no tenant was          *)
(* retargeted and no deletion is forced.                                   *)
(***************************************************************************)
EXTENDS TenantGateways, TLAPS

USE TenantGatewaysConstants, NoneAssumption

Provisioning == {"label", "claim", "stale", "resources", "report"}
Deleting == {"terminate", "revoke", "config", "policy", "claims", "unlabel", "remove"}

-----------------------------------------------------------------------------
(* The invariant of the AITenant controller                                *)

\* A UID is not used again, as far as claims and Reconciles go.
Uids ==
    /\ \A t \in Names : Exists(t) => tenants[t].uid <= created
    /\ \A g \in Gateways : claim[g] # None => claim[g].uid <= created
    /\ rec # None => rec.obj.uid <= created
    /\ \A t \in Names : ~Exists(t) /\ request[t] # None =>
         /\ \A g \in Gateways : claim[g] # None /\ claim[g].name = t => claim[g].uid < created
         /\ rec # None /\ rec.name = t => rec.obj.uid < created
    /\ \A t \in Names : request[t] # None => created # 0

\* An AITenant in deletion is held by its finalizer.
HeldInDeletion == \A t \in Names : Exists(t) /\ tenants[t].deleting => tenants[t].finalizer

\* A copy that is fresh is the AITenant.  A copy with the finalizer is one of the
\* AITenant that is still there, since the finalizer goes last, and says the same
\* about the gateway it reports, since nobody else writes the status.
CopySound ==
    rec # None =>
      /\ rec.fresh => tenants[rec.name] = rec.obj
      /\ rec.obj.finalizer =>
           /\ Exists(rec.name) /\ tenants[rec.name].finalizer
           /\ tenants[rec.name].uid = rec.obj.uid
           /\ tenants[rec.name].status = rec.obj.status
           /\ rec.obj.deleting => tenants[rec.name].deleting

\* Where the Reconcile is follows from what it read.
StepSound ==
    rec # None =>
      /\ rec.pc # "finalize" => rec.obj.finalizer
      /\ rec.pc \in Deleting <=> rec.obj.deleting
      /\ rec.pc \in Provisioning => rec.obj.status = rec.obj.spec

\* From ensureGatewayClaim on the claim is the tenant's, as long as the copy is
\* fresh: nobody releases it.
ClaimHeld ==
    rec # None /\ rec.fresh
    /\ (rec.pc \in {"stale", "resources"} \/ (rec.pc = "report" /\ rec.want = "Active"))
    => claim[rec.obj.spec] = Owner(rec.name, rec.obj)

RecInv == TypeOK /\ HeldInDeletion /\ CopySound /\ StepSound /\ ClaimHeld

-----------------------------------------------------------------------------
(* The invariant of gateways whose tenants stay                            *)

\* No deletion is forced.
Patient == (\A t \in Names : ~overdue[t]) /\ (rec # None => ~rec.forced)

\* An AITenant is held as long as there is anything of its MaasTenantConfig, and so
\* are the MaaSAuthPolicies and their writers.
ConfigHolds ==
    /\ \A t \in Names :
         /\ config[t] # None => Exists(t) /\ tenants[t].finalizer
         /\ authCR[t] # None => config[t] # None
         /\ writer[t] # None => authCR[t] # None
    /\ rec # None /\ rec.pc \in {"policy", "claims", "unlabel", "remove"}
       => config[rec.name] = None

\* Without retargeting a tenant's gateway is one and the same.
SpecStays ==
    /\ \A t \in Names :
         /\ request[t] # None => ~Exists(t)
         /\ Exists(t) => tenants[t].status \in {None, tenants[t].spec}
         /\ writer[t] # None => tenants[t].status = writer[t].gateway
    /\ rec # None /\ rec.obj.finalizer => tenants[rec.name].spec = rec.obj.spec

Held(t) == Exists(t) /\ tenants[t].finalizer

\* The webhook lets one tenant of a gateway have the finalizer, and who has a claim
\* or an AuthPolicy has the finalizer.
OneHolder ==
    /\ \A s, t \in Names : Held(s) /\ Held(t) /\ tenants[s].spec = tenants[t].spec => s = t
    /\ \A t \in Names, g \in Gateways :
         /\ Exists(t) /\ claim[g] = Owner(t, tenants[t])
            => tenants[t].finalizer /\ tenants[t].spec = g
         /\ policy[g] = t => Held(t) /\ tenants[t].spec = g

\* A deletion leaves nothing of the tenant's behind.
NothingLeft ==
    /\ rec # None /\ rec.pc \in {"claims", "unlabel", "remove"}
       => \A g \in Gateways : policy[g] # rec.name
    /\ rec # None /\ rec.pc = "remove" => rec.obj.spec \notin owners
    /\ \A g \in owners : \E t \in Names : Held(t) /\ tenants[t].spec = g

GatewayInv == ConfigHolds /\ (edits = 0 => SpecStays /\ OneHolder /\ NothingLeft)

IndInv == RecInv /\ Uids /\ (~DeletionTimeout => Patient /\ GatewayInv)

-----------------------------------------------------------------------------
(* RecInv: the parts actions are made of                                   *)

RecType == [name : Names, pc : Steps, obj : AITenants, fresh : BOOLEAN,
            want : Phases, forced : BOOLEAN]

\* Nothing of what RecInv is about changes.
LEMMA QuietRec ==
    ASSUME RecInv, TypeOK', UNCHANGED <<tenants, claim, rec>> PROVE RecInv'
BY DEF RecInv, HeldInDeletion, CopySound, StepSound, ClaimHeld, Exists, Owner

\* The Reconcile is over.
LEMMA DoneRec ==
    ASSUME TypeOK', HeldInDeletion', Done PROVE RecInv'
BY DEF RecInv, CopySound, StepSound, ClaimHeld, Done

LEMMA GotoFields ==
    ASSUME TypeOK, rec # None, NEW s \in Steps, Goto(s)
    PROVE  /\ rec' \in RecType /\ rec'.pc = s
           /\ rec'.name = rec.name /\ rec'.obj = rec.obj /\ rec'.fresh = rec.fresh
           /\ rec'.want = rec.want /\ rec'.forced = rec.forced
BY DEF TypeOK, Goto, RecType

LEMMA ReportFields ==
    ASSUME TypeOK, rec # None, NEW p \in Phases, Report(p)
    PROVE  /\ rec' \in RecType /\ rec'.pc = "report" /\ rec'.want = p
           /\ rec'.name = rec.name /\ rec'.obj = rec.obj /\ rec'.fresh = rec.fresh
           /\ rec'.forced = rec.forced
BY DEF TypeOK, Report, RecType, Steps

\* The Reconcile goes on with the copy it has.
LEMMA MoveRec ==
    ASSUME RecInv, TypeOK', UNCHANGED tenants, rec # None,
           rec'.name = rec.name, rec'.obj = rec.obj, rec'.fresh = rec.fresh,
           rec'.pc # "finalize" => rec.obj.finalizer,
           rec'.pc \in Deleting <=> rec.obj.deleting,
           rec'.pc \in Provisioning => rec.obj.status = rec.obj.spec,
           ClaimHeld'
    PROVE  RecInv'
BY DEF RecInv, HeldInDeletion, CopySound, StepSound, Exists

LEMMA OvertakeFields ==
    ASSUME TypeOK, NEW t \in Names, Overtake(t)
    PROVE  /\ rec' \in RecType \cup {None}
           /\ rec # None => /\ rec'.name = rec.name /\ rec'.obj = rec.obj
                            /\ rec'.pc = rec.pc /\ rec'.want = rec.want
                            /\ rec'.forced = rec.forced
                            /\ rec.name # t => rec' = rec
                            /\ rec.name = t => ~rec'.fresh
           /\ rec = None => rec' = None
<1>1. CASE rec # None /\ rec.name = t
  <2>1. rec' = [rec EXCEPT !.fresh = FALSE] /\ rec \in RecType
    BY <1>1 DEF Overtake, TypeOK, RecType
  <2> QED BY <1>1, <2>1 DEF RecType
<1>2. CASE ~(rec # None /\ rec.name = t)
  BY <1>2 DEF Overtake, TypeOK, RecType
<1> QED BY <1>1, <1>2

LEMMA SaveFields ==
    ASSUME TypeOK, NEW t \in Names, NEW o \in AITenants \cup {None}, Save(t, o)
    PROVE  /\ tenants' \in [Names -> AITenants \cup {None}] /\ tenants'[t] = o
           /\ request' \in [Names -> Gateways \cup {None}] /\ request'[t] = None
           /\ \A s \in Names \ {t} : tenants'[s] = tenants[s] /\ request'[s] = request[s]
BY DEF TypeOK, Save

\* A status update writes the copy where it is fresh, and ends the Reconcile where it
\* is not.
LEMMA StatusFields ==
    ASSUME RecInv, rec # None, NEW o \in AITenants, NEW s \in Steps,
           updateAITenantStatus(o, s)
    PROVE  \/ UNCHANGED <<tenants, request>> /\ Done
           \/ /\ UNCHANGED <<tenants, request>> /\ o = rec.obj
              /\ rec' \in RecType /\ rec'.pc = s /\ rec'.obj = o
              /\ rec'.name = rec.name /\ rec'.fresh = rec.fresh
              /\ rec'.want = rec.want /\ rec'.forced = rec.forced
           \/ /\ rec.fresh /\ tenants[rec.name] = rec.obj
              /\ Save(rec.name, o)
              /\ rec' \in RecType /\ rec'.pc = s /\ rec'.obj = o
              /\ rec'.name = rec.name /\ rec'.fresh = rec.fresh
              /\ rec'.want = rec.want /\ rec'.forced = rec.forced
<1>1. CASE o = rec.obj /\ Goto(s) /\ UNCHANGED <<tenants, request>>
  BY <1>1, GotoFields DEF RecInv
<1>2. CASE /\ o # rec.obj /\ rec.fresh
           /\ Save(rec.name, o) /\ rec' = [rec EXCEPT !.obj = o, !.pc = s]
  BY <1>2 DEF RecInv, TypeOK, RecType, CopySound
<1>3. CASE o # rec.obj /\ ~rec.fresh /\ Done /\ UNCHANGED <<tenants, request>>
  BY <1>3
<1> QED BY <1>1, <1>2, <1>3 DEF updateAITenantStatus

-----------------------------------------------------------------------------
(* RecInv: administrators, the garbage collector, the other controllers    *)

LEMMA ValidateRec ==
    ASSUME RecInv, NEW t \in Names, NEW g \in Gateways,
           ValidateCreate(t, g) \/ ValidateUpdate(t, g)
    PROVE  RecInv'
<1>1. TypeOK'
  BY DEF RecInv, TypeOK, ValidateCreate, ValidateUpdate, resources, crs
<1> QED BY <1>1, QuietRec DEF ValidateCreate, ValidateUpdate

\* An administrator's write makes the running Reconcile's copy stale.
LEMMA AdminWriteRec ==
    ASSUME RecInv, NEW t \in Names, NEW o \in AITenants \cup {None}, Save(t, o), Overtake(t),
           UNCHANGED <<overdue, claim, policy, resources, counters>>,
           o # None /\ o.deleting => o.finalizer,
           Exists(t) /\ tenants[t].finalizer =>
             /\ o # None /\ o.finalizer /\ o.uid = tenants[t].uid
             /\ o.status = tenants[t].status
             /\ tenants[t].deleting => o.deleting
    PROVE  RecInv'
<1> USE DEF RecInv
<1>1. TypeOK'
  BY SaveFields, OvertakeFields DEF TypeOK, RecType, resources, crs, counters
<1>2. HeldInDeletion'
  BY SaveFields DEF HeldInDeletion, Exists
<1>3. CopySound'
  <2> SUFFICES ASSUME rec' # None PROVE CopySound'
    BY DEF CopySound
  <2>1. rec # None /\ rec.name \in Names
    BY OvertakeFields DEF TypeOK
  <2>2. CASE rec.name = t
    BY <2>1, <2>2, SaveFields, OvertakeFields DEF CopySound, Exists
  <2>3. CASE rec.name # t
    BY <2>1, <2>3, SaveFields, OvertakeFields DEF CopySound, Exists
  <2> QED BY <2>2, <2>3
<1>4. StepSound'
  BY OvertakeFields DEF StepSound
<1>5. ClaimHeld'
  BY OvertakeFields DEF ClaimHeld, Owner
<1> QED BY <1>1, <1>2, <1>3, <1>4, <1>5

LEMMA StoreRec ==
    ASSUME RecInv, Uids, NEW t \in Names, Store(t) PROVE RecInv'
<1> USE DEF RecInv
<1> DEFINE o == IF Exists(t)
                THEN [tenants[t] EXCEPT !.spec = request[t]]
                ELSE [uid |-> created, spec |-> request[t], status |-> None,
                      phase |-> None, finalizer |-> FALSE, deleting |-> FALSE]
<1>1. Save(t, o) /\ Overtake(t) /\ UNCHANGED <<overdue, claim, policy, resources, counters>>
  BY DEF Store
<1>2. request[t] \in Gateways
  BY DEF Store, TypeOK
<1>3. CASE Exists(t)
  <2>1. tenants[t] \in AITenants /\ o = [tenants[t] EXCEPT !.spec = request[t]]
    BY <1>3 DEF TypeOK, Exists
  <2>2. /\ o \in AITenants /\ o.finalizer = tenants[t].finalizer
        /\ o.uid = tenants[t].uid /\ o.status = tenants[t].status
        /\ o.deleting = tenants[t].deleting
    BY <1>2, <2>1 DEF AITenants
  <2> HIDE DEF o
  <2> QED BY <1>1, <1>3, <2>2, AdminWriteRec DEF HeldInDeletion
<1>4. CASE ~Exists(t)
  <2>1. o = [uid |-> created, spec |-> request[t], status |-> None,
             phase |-> None, finalizer |-> FALSE, deleting |-> FALSE]
    BY <1>4
  <2>2. created \in 1..MaxUID
    BY DEF TypeOK, Store, Uids
  <2>3. o \in AITenants /\ ~o.deleting
    BY <1>2, <2>1, <2>2 DEF AITenants, Phases
  <2> HIDE DEF o
  <2> QED BY <1>1, <1>4, <2>3, AdminWriteRec
<1> QED BY <1>3, <1>4

LEMMA DeleteRec ==
    ASSUME RecInv, NEW t \in Names, Delete(t) PROVE RecInv'
<1> USE DEF RecInv
<1> DEFINE o == IF tenants[t].finalizer
                THEN [tenants[t] EXCEPT !.deleting = TRUE] ELSE None
<1>1. Save(t, o) /\ Overtake(t) /\ UNCHANGED <<overdue, claim, policy, resources, counters>>
  BY DEF Delete
<1>2. tenants[t] \in AITenants
  BY DEF Delete, TypeOK, Exists
<1>3. /\ o \in AITenants \cup {None}
      /\ tenants[t].finalizer => /\ o # None /\ o.finalizer /\ o.deleting
                                 /\ o.uid = tenants[t].uid /\ o.status = tenants[t].status
      /\ ~tenants[t].finalizer => o = None
  BY <1>2 DEF AITenants
<1> HIDE DEF o
<1> QED BY <1>1, <1>3, AdminWriteRec

LEMMA CollectRec ==
    ASSUME RecInv, NEW g \in Gateways, CollectClaim(g) PROVE RecInv'
<1> USE DEF RecInv, CollectClaim
<1>1. TypeOK'
  BY DEF TypeOK, resources, crs, counters
<1>2. HeldInDeletion' /\ CopySound' /\ StepSound'
  BY DEF HeldInDeletion, CopySound, StepSound, Exists
<1>3. ClaimHeld'
  BY DEF ClaimHeld, CopySound, Exists, Owner, TypeOK
<1> QED BY <1>1, <1>2, <1>3

LEMMA OthersRec ==
    ASSUME RecInv, NEW t \in Names,
           \/ DeadlinePasses(t) \/ CreateAuthCR(t) \/ DeleteAuthCR(t)
           \/ fetchGatewayInfo(t) \/ reconcileGatewayAuthPolicy(t)
           \/ ensureGatewayManagementAuth(t) \/ removeTenantConfig(t)
    PROVE  RecInv'
<1> USE DEF RecInv
<1>1. UNCHANGED <<tenants, claim, rec, request, owners, created, edits, faults>>
  BY DEF DeadlinePasses, CreateAuthCR, DeleteAuthCR, fetchGatewayInfo,
         reconcileGatewayAuthPolicy, ensureGatewayManagementAuth, removeTenantConfig,
         resources, counters
<1>2. overdue' \in [Names -> BOOLEAN] /\ config' \in [Names -> {None, "present", "deleting"}]
      /\ authCR' \in [Names -> {None, "live", "deleting"}]
  BY DEF DeadlinePasses, CreateAuthCR, DeleteAuthCR, fetchGatewayInfo,
         reconcileGatewayAuthPolicy, ensureGatewayManagementAuth, removeTenantConfig,
         resources, crs, TypeOK
<1>3. PlatformContext(t) # None => PlatformContext(t) \in Gateways
  BY DEF PlatformContext, Exists, TypeOK, AITenants
<1>4. writer' \in [Names -> [gateway : Gateways, last : BOOLEAN] \cup {None}]
  <2>1. CASE fetchGatewayInfo(t)
    <3> DEFINE b == authCR[t] = "deleting"
               w == [gateway |-> PlatformContext(t), last |-> b]
    <3>1. writer' = [writer EXCEPT ![t] = w] /\ PlatformContext(t) # None
      BY <2>1 DEF fetchGatewayInfo
    <3>2. b \in BOOLEAN
      OBVIOUS
    <3> HIDE DEF b
    <3>3. w \in [gateway : Gateways, last : BOOLEAN]
      BY <1>3, <3>1, <3>2
    <3> HIDE DEF w
    <3> QED BY <3>1, <3>3 DEF TypeOK
  <2>2. CASE reconcileGatewayAuthPolicy(t)
    BY <2>2 DEF reconcileGatewayAuthPolicy, TypeOK
  <2>3. CASE ~(fetchGatewayInfo(t) \/ reconcileGatewayAuthPolicy(t))
    BY <2>3 DEF DeadlinePasses, CreateAuthCR, DeleteAuthCR, ensureGatewayManagementAuth,
                removeTenantConfig, resources, crs, TypeOK
  <2> QED BY <2>1, <2>2, <2>3
<1>5. policy' \in [Gateways -> Names \cup {None}]
  BY <1>3 DEF DeadlinePasses, CreateAuthCR, DeleteAuthCR, fetchGatewayInfo,
         reconcileGatewayAuthPolicy, ensureGatewayManagementAuth, removeTenantConfig, TypeOK
<1>6. TypeOK'
  BY <1>1, <1>2, <1>4, <1>5 DEF TypeOK
<1> QED BY <1>1, <1>6, QuietRec

-----------------------------------------------------------------------------
(* RecInv: provisioning                                                    *)

LEMMA GetRec ==
    ASSUME RecInv, NEW t \in Names, Get(t) PROVE RecInv'
<1> USE DEF RecInv
<1> DEFINE o == tenants[t]
           b == o.deleting /\ overdue[t]
           p == IF o.deleting THEN "terminate" ELSE IF o.finalizer THEN "status" ELSE "finalize"
<1>1. rec' = [name |-> t, obj |-> o, fresh |-> TRUE, want |-> None, forced |-> b, pc |-> p]
      /\ UNCHANGED <<tenants, request, overdue, claim, policy, resources, counters>>
  BY DEF Get
<1>2. o \in AITenants /\ o # None
  BY DEF Get, Exists, TypeOK
<1>3. b \in BOOLEAN /\ p \in Steps /\ p \notin Provisioning
      /\ (p \in Deleting <=> o.deleting) /\ (p # "finalize" => o.finalizer)
  BY <1>2 DEF Steps, Provisioning, Deleting, HeldInDeletion, Get
<1> HIDE DEF b, p
<1>4. rec' \in RecType /\ rec'.name = t /\ rec'.obj = o /\ rec'.pc = p
  BY <1>1, <1>2, <1>3 DEF RecType, Phases
<1>5. TypeOK'
  BY <1>1, <1>4 DEF TypeOK, RecType, resources, crs, counters
<1>6. HeldInDeletion' /\ CopySound' /\ StepSound' /\ ClaimHeld'
  BY <1>1, <1>2, <1>3, <1>4 DEF HeldInDeletion, CopySound, StepSound, ClaimHeld, Exists,
                                 Provisioning
<1> QED BY <1>5, <1>6

LEMMA AbortRec ==
    ASSUME RecInv, Abort PROVE RecInv'
<1>1. TypeOK'
  BY DEF RecInv, TypeOK, Abort, Fault, Done, resources, crs
<1> QED BY <1>1, DoneRec DEF Abort, RecInv, HeldInDeletion, Exists

\* The patch and the deletion of the object at the end of a Reconcile
LEMMA AddFinalizerRec ==
    ASSUME RecInv, AddFinalizer PROVE RecInv'
<1> USE DEF RecInv
<1> DEFINE t == rec.name
           o == [tenants[t] EXCEPT !.finalizer = TRUE]
<1>1. t \in Names /\ rec' = None /\ Done /\ UNCHANGED <<overdue, claim, policy, resources, counters>>
  BY DEF AddFinalizer, At, Done, TypeOK
<1>2. CASE UNCHANGED <<tenants, request>>
  <2>1. TypeOK'
    BY <1>1, <1>2 DEF TypeOK, resources, crs, counters
  <2> QED BY <1>1, <1>2, <2>1, DoneRec DEF HeldInDeletion, Exists
<1>3. CASE Exists(t) /\ Save(t, o)
  <2>0. tenants[t] \in AITenants
    BY <1>1, <1>3 DEF TypeOK, Exists
  <2> HIDE DEF t
  <2>1. o \in AITenants /\ o.finalizer
    BY <2>0 DEF AITenants
  <2> HIDE DEF o
  <2>2. TypeOK'
    BY <1>1, <1>3, <2>1, SaveFields DEF TypeOK, resources, crs, counters
  <2>3. HeldInDeletion'
    BY <1>1, <1>3, <2>1, SaveFields DEF HeldInDeletion, Exists
  <2> QED BY <1>1, <2>2, <2>3, DoneRec
<1> QED BY <1>2, <1>3 DEF AddFinalizer

LEMMA ReportPhaseRec ==
    ASSUME RecInv, ReportPhase PROVE RecInv'
<1> USE DEF RecInv
<1> DEFINE o == [rec.obj EXCEPT !.phase = rec.want]
<1>1. rec # None /\ rec.name \in Names /\ rec' = None /\ Done
      /\ UNCHANGED <<overdue, claim, policy, resources, counters>>
  BY DEF ReportPhase, At, Done, TypeOK
<1>2. CASE UNCHANGED <<tenants, request>>
  <2>1. TypeOK'
    BY <1>1, <1>2 DEF TypeOK, resources, crs, counters
  <2> QED BY <1>1, <1>2, <2>1, DoneRec DEF HeldInDeletion, Exists
<1>3. CASE rec.fresh /\ Save(rec.name, o)
  <2>1. /\ o \in AITenants /\ o.finalizer = rec.obj.finalizer
        /\ o.deleting = rec.obj.deleting
    BY <1>1 DEF TypeOK, AITenants
  <2>2. o.deleting => o.finalizer
    <3>1. rec.obj # None /\ tenants[rec.name] = rec.obj
      BY <1>1, <1>3 DEF CopySound, TypeOK
    <3> HIDE DEF o
    <3> QED BY <1>1, <2>1, <3>1 DEF HeldInDeletion, Exists
  <2> HIDE DEF o
  <2>3. TypeOK'
    BY <1>1, <1>3, <2>1, SaveFields DEF TypeOK, resources, crs, counters
  <2>4. HeldInDeletion'
    BY <1>1, <1>3, <2>1, <2>2, SaveFields DEF HeldInDeletion, Exists
  <2> QED BY <1>1, <2>3, <2>4, DoneRec
<1> QED BY <1>2, <1>3 DEF ReportPhase

LEMMA RemoveFinalizerRec ==
    ASSUME RecInv, RemoveFinalizer PROVE RecInv'
<1> USE DEF RecInv
<1>1. rec.name \in Names /\ rec' = None /\ Done
      /\ UNCHANGED <<claim, policy, resources, counters>>
  BY DEF RemoveFinalizer, At, Done, TypeOK
<1>2. CASE UNCHANGED <<tenants, request, overdue>>
  <2>1. TypeOK'
    BY <1>1, <1>2 DEF TypeOK, resources, crs, counters
  <2> QED BY <1>1, <1>2, <2>1, DoneRec DEF HeldInDeletion, Exists
<1>3. CASE Save(rec.name, None) /\ overdue' = [overdue EXCEPT ![rec.name] = FALSE]
  <2>1. TypeOK'
    BY <1>1, <1>3, SaveFields DEF TypeOK, resources, crs, counters
  <2>2. HeldInDeletion'
    BY <1>1, <1>3, SaveFields DEF HeldInDeletion, Exists
  <2> QED BY <1>1, <2>1, <2>2, DoneRec
<1> QED BY <1>2, <1>3 DEF RemoveFinalizer

\* A status update keeps the invariant where the step that follows suits the copy.
LEMMA StatusRec ==
    ASSUME RecInv, rec # None, NEW o \in AITenants, NEW s \in Steps,
           updateAITenantStatus(o, s),
           UNCHANGED <<overdue, claim, policy, resources, counters>>,
           o.uid = rec.obj.uid, o.finalizer = rec.obj.finalizer,
           o.deleting = rec.obj.deleting, rec.obj.finalizer,
           s # "finalize", s \in Deleting <=> o.deleting,
           s \in Provisioning => o.status = o.spec,
           s \notin {"stale", "resources", "report"}
    PROVE  RecInv'
<1> USE DEF RecInv
<1>1. rec.name \in Names
  BY DEF TypeOK
<1>2. CASE UNCHANGED <<tenants, request>> /\ Done
  <2>1. TypeOK'
    BY <1>2 DEF TypeOK, Done, resources, crs, counters
  <2> QED BY <1>2, <2>1, DoneRec DEF HeldInDeletion, Exists
<1>3. CASE /\ UNCHANGED <<tenants, request>> /\ o = rec.obj
           /\ rec' \in RecType /\ rec'.pc = s /\ rec'.obj = o
           /\ rec'.name = rec.name /\ rec'.fresh = rec.fresh
  <2>1. TypeOK'
    BY <1>3 DEF TypeOK, RecType, resources, crs, counters
  <2>2. ClaimHeld'
    BY <1>3 DEF ClaimHeld
  <2> QED BY <1>3, <2>1, <2>2, MoveRec
<1>4. CASE /\ rec.fresh /\ tenants[rec.name] = rec.obj /\ Save(rec.name, o)
           /\ rec' \in RecType /\ rec'.pc = s /\ rec'.obj = o
           /\ rec'.name = rec.name /\ rec'.fresh = rec.fresh
  <2>1. TypeOK'
    BY <1>1, <1>4, SaveFields DEF TypeOK, RecType, resources, crs, counters
  <2>2. HeldInDeletion'
    <3>1. tenants'[rec.name] = o /\ \A t \in Names \ {rec.name} : tenants'[t] = tenants[t]
      BY <1>1, <1>4, SaveFields
    <3> QED BY <3>1 DEF HeldInDeletion, Exists
  <2>3. CopySound'
    BY <1>1, <1>4, SaveFields DEF CopySound, Exists
  <2>4. StepSound' /\ ClaimHeld'
    BY <1>4 DEF StepSound, ClaimHeld
  <2> QED BY <2>1, <2>2, <2>3, <2>4
<1> QED BY <1>2, <1>3, <1>4, StatusFields

LEMMA SetGatewayRefRec ==
    ASSUME RecInv, SetGatewayRef PROVE RecInv'
<1> USE DEF RecInv
<1> DEFINE o == [rec.obj EXCEPT !.status = rec.obj.spec]
<1>1. rec # None /\ rec.pc = "status" /\ rec.obj \in AITenants
      /\ updateAITenantStatus(o, "label")
      /\ UNCHANGED <<overdue, claim, policy, resources, counters>>
  BY DEF SetGatewayRef, At, TypeOK
<1>2. /\ o \in AITenants /\ o.uid = rec.obj.uid /\ o.finalizer = rec.obj.finalizer
      /\ o.deleting = rec.obj.deleting /\ o.status = o.spec
  BY <1>1 DEF AITenants
<1>3. rec.obj.finalizer /\ ~rec.obj.deleting /\ "label" \in Steps /\ "label" \notin Deleting
  BY <1>1 DEF StepSound, Deleting, Steps
<1> HIDE DEF o
<1> QED BY <1>1, <1>2, <1>3, StatusRec

LEMMA TerminateRec ==
    ASSUME RecInv, Terminate PROVE RecInv'
<1> USE DEF RecInv
<1> DEFINE o == [rec.obj EXCEPT !.phase = "Terminating"]
<1>1. rec # None /\ rec.pc = "terminate" /\ rec.obj \in AITenants
      /\ updateAITenantStatus(o, "revoke")
      /\ UNCHANGED <<overdue, claim, policy, resources, counters>>
  BY DEF Terminate, At, TypeOK
<1>2. /\ o \in AITenants /\ o.uid = rec.obj.uid /\ o.finalizer = rec.obj.finalizer
      /\ o.deleting = rec.obj.deleting
  BY <1>1 DEF AITenants, Phases
<1>3. /\ rec.obj.finalizer /\ rec.obj.deleting /\ "revoke" \in Steps
      /\ "revoke" \in Deleting /\ "revoke" \notin Provisioning
  BY <1>1 DEF StepSound, Deleting, Provisioning, Steps
<1> HIDE DEF o
<1> QED BY <1>1, <1>2, <1>3, StatusRec

LEMMA ForceTerminateRec ==
    ASSUME RecInv, ForceTerminate PROVE RecInv'
<1> USE DEF RecInv
<1> DEFINE o == [rec.obj EXCEPT !.phase = "Terminating"]
<1>1. rec # None /\ rec.pc = "terminate" /\ rec.obj \in AITenants /\ rec.name \in Names
      /\ UNCHANGED <<overdue, claim, policy, resources, counters>>
  BY DEF ForceTerminate, At, TypeOK
<1>2. /\ o \in AITenants /\ o.uid = rec.obj.uid /\ o.finalizer = rec.obj.finalizer
      /\ o.deleting = rec.obj.deleting /\ o.status = rec.obj.status
  BY <1>1 DEF AITenants, Phases
<1>3. /\ rec.obj.finalizer /\ rec.obj.deleting /\ "config" \in Steps
      /\ "config" \in Deleting /\ "config" \notin Provisioning
  BY <1>1 DEF StepSound, Deleting, Provisioning, Steps
<1>4. CASE rec.fresh
  <2>1. Save(rec.name, o) /\ rec' = [rec EXCEPT !.obj = o, !.pc = "config"]
    BY <1>4 DEF ForceTerminate
  <2> HIDE DEF o
  <2>2. /\ rec' \in RecType /\ rec'.pc = "config" /\ rec'.obj = o
        /\ rec'.name = rec.name
    BY <1>1, <1>2, <1>3, <2>1 DEF RecType, TypeOK
  <2>3. TypeOK'
    BY <1>1, <1>2, <2>1, <2>2, SaveFields DEF TypeOK, RecType, resources, crs, counters
  <2>4. HeldInDeletion' /\ CopySound'
    <3>1. tenants'[rec.name] = o /\ \A t \in Names \ {rec.name} : tenants'[t] = tenants[t]
      BY <1>1, <1>2, <2>1, SaveFields
    <3>2. HeldInDeletion'
      BY <1>2, <1>3, <3>1 DEF HeldInDeletion, Exists
    <3> QED BY <1>2, <1>3, <2>2, <3>1, <3>2 DEF CopySound, Exists
  <2>5. StepSound' /\ ClaimHeld'
    BY <1>2, <1>3, <2>2 DEF StepSound, ClaimHeld
  <2> QED BY <2>3, <2>4, <2>5
<1>5. CASE ~rec.fresh
  <2>1. Goto("config") /\ UNCHANGED <<tenants, request>>
    BY <1>5 DEF ForceTerminate
  <2>2. TypeOK'
    BY <1>1, <1>3, <2>1, GotoFields DEF TypeOK, RecType, resources, crs, counters
  <2>3. ClaimHeld'
    BY <1>1, <1>3, <2>1, GotoFields DEF ClaimHeld
  <2> QED BY <1>1, <1>3, <2>1, <2>2, <2>3, GotoFields, MoveRec
<1> QED BY <1>4, <1>5

-----------------------------------------------------------------------------
(* RecInv: the steps that leave the AITenants alone                        *)

LEMMA GotoRec ==
    ASSUME RecInv, TypeOK', UNCHANGED tenants, rec # None, NEW s \in Steps, Goto(s),
           s # "finalize", rec.pc # "finalize", rec.pc \in Deleting <=> s \in Deleting,
           s \in Provisioning => rec.pc \in Provisioning, ClaimHeld'
    PROVE  RecInv'
BY GotoFields, MoveRec DEF RecInv, StepSound

LEMMA ReportRec ==
    ASSUME RecInv, TypeOK', UNCHANGED <<tenants, claim>>, rec # None, NEW p \in Phases, Report(p),
           rec.pc \in Provisioning, p = "Active" => rec.pc = "resources"
    PROVE  RecInv'
<1> USE DEF RecInv
<1>1. ClaimHeld'
  BY ReportFields DEF ClaimHeld, Owner
<1>2. "report" \notin Deleting /\ rec.pc \notin Deleting /\ rec.pc # "finalize"
  BY DEF Deleting, Provisioning
<1> QED BY <1>1, <1>2, ReportFields, MoveRec DEF StepSound

LEMMA LabelRec ==
    ASSUME RecInv, GatewayCheckFailed \/ LabelsFailed \/ ensureInfraNamespaceGatewayLabels
    PROVE  RecInv'
<1> USE DEF RecInv
<1>1. rec # None /\ rec.pc = "label" /\ UNCHANGED <<tenants, claim>> /\ (Goto("claim") \/ Report("Failed"))
      /\ rec.obj.spec \in Gateways
  BY DEF GatewayCheckFailed, LabelsFailed, ensureInfraNamespaceGatewayLabels, At, TypeOK, AITenants
<1>2. rec' \in RecType
  BY <1>1, GotoFields, ReportFields DEF Steps, Phases
<1>3. TypeOK'
  <2>1. CASE GatewayCheckFailed \/ LabelsFailed
    BY <1>2, <2>1 DEF GatewayCheckFailed, LabelsFailed, Fault, TypeOK, RecType, resources, crs
  <2>2. CASE ensureInfraNamespaceGatewayLabels
    BY <1>1, <1>2, <2>2 DEF ensureInfraNamespaceGatewayLabels, TypeOK, RecType, crs, counters
  <2> QED BY <2>1, <2>2
<1>4. CASE Goto("claim")
  <2>1. ClaimHeld'
    BY <1>1, <1>4, GotoFields DEF ClaimHeld, Steps
  <2> QED BY <1>1, <1>3, <1>4, <2>1, GotoRec DEF Steps, Deleting, Provisioning
<1>5. CASE Report("Failed")
  BY <1>1, <1>3, <1>5, ReportRec DEF Phases, Provisioning
<1> QED BY <1>1, <1>4, <1>5

LEMMA EnsureClaimRec ==
    ASSUME RecInv, ensureGatewayClaim PROVE RecInv'
<1> USE DEF RecInv
<1> DEFINE g == rec.obj.spec
           me == Owner(rec.name, rec.obj)
<1>1. rec # None /\ rec.pc = "claim" /\ g \in Gateways /\ me \in Owners
      /\ UNCHANGED <<tenants, request, overdue, policy, resources, counters>>
  BY DEF ensureGatewayClaim, At, TypeOK, AITenants, Owner, Owners
<1>2. \/ claim' \in [Gateways -> Owners \cup {None}] /\ claim'[g] = me /\ Goto("stale")
      \/ claim' = claim /\ Report("Failed")
  BY <1>1 DEF ensureGatewayClaim, TypeOK
<1>3. TypeOK'
  BY <1>1, <1>2, GotoFields, ReportFields DEF TypeOK, RecType, Steps, Phases, resources, crs, counters
<1>4. CASE claim'[g] = me /\ Goto("stale")
  <2>1. ClaimHeld'
    BY <1>1, <1>4, GotoFields DEF ClaimHeld, Steps, Owner
  <2> QED BY <1>1, <1>3, <1>4, <2>1, GotoRec DEF Steps, Deleting, Provisioning
<1>5. CASE claim' = claim /\ Report("Failed")
  BY <1>1, <1>3, <1>5, ReportRec DEF Phases, Provisioning
<1> QED BY <1>2, <1>4, <1>5

LEMMA ReleaseRec ==
    ASSUME RecInv, cleanupStaleClaims \/ deleteGatewayClaim PROVE RecInv'
<1> USE DEF RecInv
<1>1. rec # None /\ rec.obj.spec \in Gateways
      /\ UNCHANGED <<tenants, request, overdue, policy, resources, counters>>
  BY DEF cleanupStaleClaims, deleteGatewayClaim, At, TypeOK, AITenants
<1>2. claim' \in [Gateways -> Owners \cup {None}]
  BY DEF cleanupStaleClaims, deleteGatewayClaim, Release, TypeOK
<1>3. TypeOK'
  BY <1>1, <1>2, GotoFields DEF cleanupStaleClaims, deleteGatewayClaim, TypeOK, RecType, Steps,
                                resources, crs, counters
<1>4. CASE cleanupStaleClaims
  <2>1. claim'[rec.obj.spec] = claim[rec.obj.spec] /\ Goto("resources") /\ rec.pc = "stale"
    BY <1>1, <1>4 DEF cleanupStaleClaims, Release, At
  <2>2. ClaimHeld'
    BY <1>1, <2>1, GotoFields DEF ClaimHeld, Steps, Owner
  <2> QED BY <1>1, <1>3, <2>1, <2>2, GotoRec DEF Steps, Deleting, Provisioning
<1>5. CASE deleteGatewayClaim
  <2>1. Goto("unlabel") /\ rec.pc = "claims"
    BY <1>5 DEF deleteGatewayClaim, At
  <2>2. ClaimHeld'
    BY <1>1, <2>1, GotoFields DEF ClaimHeld, Steps
  <2> QED BY <1>1, <1>3, <2>1, <2>2, GotoRec DEF Steps, Deleting, Provisioning
<1> QED BY <1>4, <1>5

LEMMA EnsureResourcesRec ==
    ASSUME RecInv, ensureTenantResources PROVE RecInv'
<1> USE DEF RecInv
<1>1. rec # None /\ rec.pc = "resources" /\ rec.name \in Names
      /\ UNCHANGED <<tenants, request, overdue, claim, policy, authCR, writer, owners, counters>>
  BY DEF ensureTenantResources, At, TypeOK
<1>2. config' \in [Names -> {None, "present", "deleting"}] /\ \E p \in Phases : Report(p)
  BY <1>1 DEF ensureTenantResources, ensureTenantConfig, TypeOK, Phases
<1>3. TypeOK'
  BY <1>1, <1>2, ReportFields DEF TypeOK, RecType, counters
<1> QED BY <1>1, <1>2, <1>3, ReportRec DEF Provisioning

LEMMA DeletionRec ==
    ASSUME RecInv,
           \/ ensureTenantAPIKeysRevoked \/ deleteTenantConfig \/ deleteTenantGatewayAuthPolicy
           \/ cleanupGatewayLabelsOnDelete \/ IgnoreFailure
    PROVE  RecInv'
<1> USE DEF RecInv
<1> DEFINE later == {"config", "policy", "claims", "unlabel", "remove"}
<1>1. /\ rec # None /\ rec.pc \in Deleting /\ rec.name \in Names /\ rec.obj \in AITenants
      /\ UNCHANGED <<tenants, request, overdue, claim, authCR, writer, created, edits>>
      /\ Done \/ \E s \in later : Goto(s)
      /\ faults' \in 0..MaxFaults
  BY DEF ensureTenantAPIKeysRevoked, deleteTenantConfig, deleteTenantGatewayAuthPolicy,
         cleanupGatewayLabelsOnDelete, IgnoreFailure, Fault, At, TypeOK, Deleting,
         resources, crs, counters
<1>2. config' \in [Names -> {None, "present", "deleting"}]
  BY <1>1 DEF ensureTenantAPIKeysRevoked, deleteTenantConfig, deleteTenantGatewayAuthPolicy,
         cleanupGatewayLabelsOnDelete, IgnoreFailure, TypeOK, resources, crs
<1>3. policy' \in [Gateways -> Names \cup {None}] /\ owners' \subseteq Gateways
  BY <1>1 DEF ensureTenantAPIKeysRevoked, deleteTenantConfig, deleteTenantGatewayAuthPolicy,
         cleanupGatewayLabelsOnDelete, IgnoreFailure, TypeOK, resources
<1>4. CASE Done
  <2>1. TypeOK'
    BY <1>1, <1>2, <1>3, <1>4 DEF TypeOK, Done
  <2> QED BY <1>1, <1>4, <2>1, DoneRec DEF HeldInDeletion, Exists
<1>5. CASE \E s \in later : Goto(s)
  <2>1. PICK s \in later : Goto(s)
    BY <1>5
  <2>2. s \in Steps /\ s \in Deleting /\ s \notin Provisioning /\ s # "finalize"
        /\ s \notin {"stale", "resources", "report"}
    BY DEF Steps, Deleting, Provisioning
  <2>3. TypeOK'
    BY <1>1, <1>2, <1>3, <2>1, <2>2, GotoFields DEF TypeOK, RecType
  <2>4. ClaimHeld'
    BY <1>1, <2>1, <2>2, GotoFields DEF ClaimHeld
  <2> QED BY <1>1, <2>1, <2>2, <2>3, <2>4, GotoRec DEF Deleting
<1> QED BY <1>1, <1>4, <1>5

LEMMA InitInv == Init => RecInv /\ Uids /\ Patient /\ GatewayInv
<1> SUFFICES ASSUME Init PROVE RecInv /\ Uids /\ Patient /\ GatewayInv
  OBVIOUS
<1>1. RecInv
  BY DEF Init, RecInv, TypeOK, HeldInDeletion, CopySound, StepSound, ClaimHeld, Exists
<1>2. Uids /\ Patient
  BY DEF Init, Uids, Patient, Exists
<1>3. GatewayInv
  BY DEF Init, GatewayInv, ConfigHolds, SpecStays, OneHolder, NothingLeft, Held, Exists, Owner, Owners
<1> QED BY <1>1, <1>2, <1>3

LEMMA NextRec ==
    ASSUME RecInv, Uids, [Next]_vars PROVE RecInv'
<1>1. CASE Admin
  BY <1>1, ValidateRec, StoreRec, DeleteRec, OthersRec DEF Admin
<1>2. CASE Reconcile
  BY <1>2, GetRec, AddFinalizerRec, SetGatewayRefRec, LabelRec, EnsureClaimRec, ReleaseRec,
     EnsureResourcesRec, ReportPhaseRec, TerminateRec, ForceTerminateRec, DeletionRec,
     RemoveFinalizerRec DEF Reconcile
<1>3. CASE Abort \/ GatewayCheckFailed \/ LabelsFailed \/ IgnoreFailure
  BY <1>3, AbortRec, LabelRec, DeletionRec
<1>4. CASE \E g \in Gateways : CollectClaim(g)
  BY <1>4, CollectRec
<1>5. CASE \E t \in Names :
         \/ DeadlinePasses(t) \/ DeleteAuthCR(t)
         \/ fetchGatewayInfo(t) \/ reconcileGatewayAuthPolicy(t)
         \/ ensureGatewayManagementAuth(t) \/ removeTenantConfig(t)
  BY <1>5, OthersRec
<1>6. CASE UNCHANGED vars
  BY <1>6, QuietRec DEF vars, RecInv, TypeOK
<1> QED BY <1>1, <1>2, <1>3, <1>4, <1>5, <1>6 DEF Next

-----------------------------------------------------------------------------
(* UIDs                                                                    *)

LEMMA UidsKept ==
    ASSUME RecInv, RecInv', Uids, created' = created,
           \A t \in Names :
             /\ tenants'[t] # None => tenants'[t].uid <= created
             /\ request'[t] # None =>
                  created # 0 /\ (tenants'[t] = None => ~Exists(t) /\ request[t] # None),
           \A g \in Gateways :
             claim'[g] # None =>
               claim'[g] = claim[g] \/ (rec # None /\ claim'[g] = Owner(rec.name, rec.obj)),
           rec' # None =>
             \/ rec # None /\ rec'.name = rec.name /\ rec'.obj.uid = rec.obj.uid
             \/ tenants'[rec'.name] # None /\ rec'.obj.uid <= created
    PROVE  Uids'
BY DEF Uids, Exists, Owner, RecInv, TypeOK

\* The steps of the Reconcile and of the other controllers that write no AITenant
LEMMA MoveUids ==
    ASSUME RecInv, RecInv', Uids, UNCHANGED <<tenants, request, created>>,
           \A g \in Gateways :
             claim'[g] # None =>
               claim'[g] = claim[g] \/ (rec # None /\ claim'[g] = Owner(rec.name, rec.obj)),
           rec' # None => rec # None /\ rec'.name = rec.name /\ rec'.obj = rec.obj
    PROVE  Uids'
<1>1. \A t \in Names :
        /\ tenants'[t] # None => tenants'[t].uid <= created
        /\ request'[t] # None =>
             created # 0 /\ (tenants'[t] = None => ~Exists(t) /\ request[t] # None)
  BY DEF Uids, Exists
<1> QED BY <1>1, UidsKept

LEMMA SaveUids ==
    ASSUME RecInv, RecInv', Uids, NEW t \in Names, NEW o \in AITenants \cup {None}, Save(t, o),
           UNCHANGED <<claim, created>>,
           o # None => o.uid <= created,
           rec' # None => rec # None /\ rec'.name = rec.name /\ rec'.obj.uid = rec.obj.uid
    PROVE  Uids'
<1>1. \A s \in Names :
        /\ tenants'[s] # None => tenants'[s].uid <= created
        /\ request'[s] # None =>
             created # 0 /\ (tenants'[s] = None => ~Exists(s) /\ request[s] # None)
  BY SaveFields DEF Uids, Exists, RecInv
<1> QED BY <1>1, UidsKept

\* What the copy of the Reconcile says of the UID is what the AITenant says.
LEMMA StatusUids ==
    ASSUME RecInv, RecInv', Uids, rec # None, NEW o \in AITenants, NEW s \in Steps,
           o.uid = rec.obj.uid, updateAITenantStatus(o, s), UNCHANGED <<claim, created>>
    PROVE  Uids'
<1>1. rec.name \in Names /\ o.uid <= created
  BY DEF RecInv, TypeOK, Uids
<1>2. CASE UNCHANGED <<tenants, request>> /\ Done
  BY <1>2, MoveUids DEF Done
<1>3. CASE /\ UNCHANGED <<tenants, request>> /\ o = rec.obj
           /\ rec'.obj = o /\ rec'.name = rec.name
  BY <1>3, MoveUids
<1>4. CASE Save(rec.name, o) /\ rec'.obj = o /\ rec'.name = rec.name
  BY <1>1, <1>4, SaveUids
<1> QED BY <1>2, <1>3, <1>4, StatusFields

LEMMA AdminUids ==
    ASSUME RecInv, RecInv', Uids, NEW t \in Names,
           (\E g \in Gateways : ValidateCreate(t, g) \/ ValidateUpdate(t, g))
           \/ Store(t) \/ Delete(t)
    PROVE  Uids'
<1>0. created \in Nat /\ \A s \in Names : Exists(s) => tenants[s] \in AITenants /\ tenants[s].uid \in 1..MaxUID
  BY DEF RecInv, TypeOK, Exists, AITenants
<1>1. ASSUME NEW g \in Gateways, ValidateCreate(t, g) PROVE Uids'
  <2>1. UNCHANGED <<tenants, claim, rec>> /\ created' = created + 1
    BY <1>1 DEF ValidateCreate
  <2>2. /\ \A s \in Names : tenants[s] # None => tenants[s].uid <= created
        /\ \A h \in Gateways : claim[h] # None => claim[h].uid <= created
        /\ rec # None => rec.obj.uid <= created
    BY DEF Uids, Exists
  <2>3. /\ \A s \in Names : tenants[s] # None => tenants[s].uid \in Nat
        /\ \A h \in Gateways : claim[h] # None => claim[h].uid \in Nat
        /\ rec # None => rec.obj.uid \in Nat
    BY DEF RecInv, TypeOK, AITenants, Owners
  <2> QED BY <1>0, <2>1, <2>2, <2>3 DEF Uids, Exists
<1>2. ASSUME NEW g \in Gateways, ValidateUpdate(t, g) PROVE Uids'
  <2>1. UNCHANGED <<tenants, claim, rec, created>> /\ Exists(t)
        /\ \A s \in Names \ {t} : request'[s] = request[s]
    BY <1>2 DEF ValidateUpdate, RecInv, TypeOK
  <2>2. \A s \in Names :
          /\ tenants'[s] # None => tenants'[s].uid <= created
          /\ request'[s] # None =>
               created # 0 /\ (tenants'[s] = None => ~Exists(s) /\ request[s] # None)
    BY <1>0, <2>1 DEF Uids, Exists
  <2> QED BY <2>1, <2>2, UidsKept
<1>3. CASE Store(t)
  <2> DEFINE o == IF Exists(t)
                  THEN [tenants[t] EXCEPT !.spec = request[t]]
                  ELSE [uid |-> created, spec |-> request[t], status |-> None,
                        phase |-> None, finalizer |-> FALSE, deleting |-> FALSE]
  <2>1. Save(t, o) /\ Overtake(t) /\ UNCHANGED <<claim, created>>
    BY <1>3 DEF Store, counters
  <2>2. request[t] \in Gateways /\ created \in 1..MaxUID
    BY <1>3 DEF Store, RecInv, TypeOK, Uids
  <2>3. o \in AITenants /\ o.uid <= created
    <3>1. CASE Exists(t)
      BY <1>0, <2>2, <3>1 DEF Uids, AITenants
    <3>2. CASE ~Exists(t)
      BY <2>2, <3>2 DEF AITenants, Phases
    <3> QED BY <3>1, <3>2
  <2> HIDE DEF o
  <2> QED BY <2>1, <2>3, OvertakeFields, SaveUids DEF RecInv
<1>4. CASE Delete(t)
  <2> DEFINE o == IF tenants[t].finalizer
                  THEN [tenants[t] EXCEPT !.deleting = TRUE] ELSE None
  <2>1. Save(t, o) /\ Overtake(t) /\ UNCHANGED <<claim, created>> /\ Exists(t)
    BY <1>4 DEF Delete, counters
  <2>2. o \in AITenants \cup {None} /\ (o # None => o.uid <= created)
    BY <1>0, <2>1 DEF Uids, AITenants
  <2> HIDE DEF o
  <2> QED BY <2>1, <2>2, OvertakeFields, SaveUids DEF RecInv
<1> QED BY <1>1, <1>2, <1>3, <1>4

LEMMA ReconcileUids ==
    ASSUME RecInv, RecInv', Uids, Reconcile PROVE Uids'
<1>0. rec # None => rec.obj \in AITenants /\ rec.name \in Names /\ rec.obj.uid <= created
  BY DEF RecInv, TypeOK, Uids
<1>1. ASSUME NEW t \in Names, Get(t) PROVE Uids'
  <2>1. /\ UNCHANGED <<tenants, request, claim, created>> /\ Exists(t)
        /\ rec'.name = t /\ rec'.obj = tenants[t]
    BY <1>1 DEF Get, counters
  <2>2. \A s \in Names :
          /\ tenants'[s] # None => tenants'[s].uid <= created
          /\ request'[s] # None =>
               created # 0 /\ (tenants'[s] = None => ~Exists(s) /\ request[s] # None)
    BY <2>1 DEF Uids, Exists
  <2> QED BY <2>1, <2>2, UidsKept DEF Exists
<1>2. CASE AddFinalizer
  <2> DEFINE t == rec.name
             o == [tenants[t] EXCEPT !.finalizer = TRUE]
  <2>1. rec # None /\ rec' = None /\ UNCHANGED <<claim, created>> /\ t \in Names
    BY <1>2, <1>0 DEF AddFinalizer, At, Done, counters
  <2>2. CASE UNCHANGED <<tenants, request>>
    BY <2>1, <2>2, MoveUids
  <2>3. CASE Exists(t) /\ Save(t, o)
    <3>1. tenants[t] \in AITenants /\ tenants[t].uid <= created
      BY <2>1, <2>3 DEF RecInv, TypeOK, Exists, Uids
    <3> HIDE DEF t
    <3>2. o \in AITenants /\ o.uid <= created
      BY <3>1 DEF AITenants
    <3> HIDE DEF o
    <3> QED BY <2>1, <2>3, <3>2, SaveUids
  <2> QED BY <1>2, <2>2, <2>3 DEF AddFinalizer
<1>3. CASE SetGatewayRef
  <2> DEFINE o == [rec.obj EXCEPT !.status = rec.obj.spec]
  <2>1. rec # None /\ updateAITenantStatus(o, "label") /\ UNCHANGED <<claim, created>>
    BY <1>3 DEF SetGatewayRef, At, counters
  <2>2. o \in AITenants /\ o.uid = rec.obj.uid /\ "label" \in Steps
    BY <1>0, <2>1 DEF AITenants, Steps
  <2> HIDE DEF o
  <2> QED BY <2>1, <2>2, StatusUids
<1>4. CASE Terminate
  <2> DEFINE o == [rec.obj EXCEPT !.phase = "Terminating"]
  <2>1. rec # None /\ updateAITenantStatus(o, "revoke") /\ UNCHANGED <<claim, created>>
    BY <1>4 DEF Terminate, At, counters
  <2>2. o \in AITenants /\ o.uid = rec.obj.uid /\ "revoke" \in Steps
    BY <1>0, <2>1 DEF AITenants, Steps, Phases
  <2> HIDE DEF o
  <2> QED BY <2>1, <2>2, StatusUids
<1>5. CASE ForceTerminate
  <2> DEFINE o == [rec.obj EXCEPT !.phase = "Terminating"]
  <2>1. /\ rec # None /\ UNCHANGED <<claim, created>> /\ rec \in RecType
        /\ \/ Save(rec.name, o) /\ rec' = [rec EXCEPT !.obj = o, !.pc = "config"]
           \/ Goto("config") /\ UNCHANGED <<tenants, request>>
    BY <1>5 DEF ForceTerminate, At, counters, RecInv, TypeOK, RecType
  <2>2. o \in AITenants /\ o.uid = rec.obj.uid /\ "config" \in Steps
    BY <1>0, <2>1 DEF AITenants, Steps, Phases
  <2> HIDE DEF o
  <2>3. CASE Save(rec.name, o) /\ rec' = [rec EXCEPT !.obj = o, !.pc = "config"]
    <3>1. rec'.name = rec.name /\ rec'.obj.uid = rec.obj.uid
      BY <2>1, <2>2, <2>3 DEF RecType
    <3> QED BY <1>0, <2>1, <2>2, <2>3, <3>1, SaveUids
  <2>4. CASE Goto("config") /\ UNCHANGED <<tenants, request>>
    BY <2>1, <2>2, <2>4, GotoFields, MoveUids DEF RecInv
  <2> QED BY <2>1, <2>3, <2>4
<1>6. CASE ReportPhase
  <2> DEFINE o == [rec.obj EXCEPT !.phase = rec.want]
  <2>1. /\ rec # None /\ UNCHANGED <<claim, created>> /\ rec' = None
        /\ Save(rec.name, o) \/ UNCHANGED <<tenants, request>>
    BY <1>6 DEF ReportPhase, At, Done, counters
  <2>2. o \in AITenants /\ o.uid = rec.obj.uid
    BY <1>0, <2>1 DEF AITenants, RecInv, TypeOK
  <2> HIDE DEF o
  <2> QED BY <1>0, <2>1, <2>2, SaveUids, MoveUids
<1>7. CASE RemoveFinalizer
  <2>1. /\ rec # None /\ UNCHANGED <<claim, created>> /\ rec' = None
        /\ Save(rec.name, None) \/ UNCHANGED <<tenants, request>>
    BY <1>7 DEF RemoveFinalizer, At, Done, counters
  <2> QED BY <1>0, <2>1, SaveUids, MoveUids
<1>8. CASE \/ ensureInfraNamespaceGatewayLabels \/ ensureGatewayClaim
           \/ cleanupStaleClaims \/ ensureTenantResources
           \/ ensureTenantAPIKeysRevoked \/ deleteTenantConfig
           \/ deleteTenantGatewayAuthPolicy \/ deleteGatewayClaim
           \/ cleanupGatewayLabelsOnDelete
  <2>1. /\ rec # None /\ UNCHANGED <<tenants, request, created>>
        /\ Done \/ (\E s \in Steps : Goto(s)) \/ (\E p \in Phases : Report(p))
    BY <1>8 DEF ensureInfraNamespaceGatewayLabels, ensureGatewayClaim, cleanupStaleClaims,
          ensureTenantResources, ensureTenantConfig, ensureTenantAPIKeysRevoked,
          deleteTenantConfig, deleteTenantGatewayAuthPolicy, deleteGatewayClaim,
          cleanupGatewayLabelsOnDelete, At, counters, Steps, Phases
  <2>2. rec' # None => rec'.name = rec.name /\ rec'.obj = rec.obj
    BY <2>1, GotoFields, ReportFields DEF Done, RecInv
  <2>3. \A g \in Gateways :
          claim'[g] # None => claim'[g] = claim[g] \/ claim'[g] = Owner(rec.name, rec.obj)
    BY <1>8 DEF ensureInfraNamespaceGatewayLabels, ensureGatewayClaim, cleanupStaleClaims,
          ensureTenantResources, ensureTenantAPIKeysRevoked, Release, RecInv, TypeOK,
          deleteTenantConfig, deleteTenantGatewayAuthPolicy, deleteGatewayClaim,
          cleanupGatewayLabelsOnDelete
  <2> QED BY <2>1, <2>2, <2>3, MoveUids
<1> QED BY <1>1, <1>2, <1>3, <1>4, <1>5, <1>6, <1>7, <1>8 DEF Reconcile

LEMMA NextUids ==
    ASSUME RecInv, RecInv', Uids, [Next]_vars PROVE Uids'
<1>1. CASE Admin
  BY <1>1, AdminUids, MoveUids DEF Admin, CreateAuthCR, counters
<1>2. CASE Reconcile
  BY <1>2, ReconcileUids
<1>3. CASE Abort \/ GatewayCheckFailed \/ LabelsFailed \/ IgnoreFailure
  <2>1. /\ rec # None /\ UNCHANGED <<tenants, request, claim, created>>
        /\ Done \/ (\E s \in Steps : Goto(s)) \/ (\E p \in Phases : Report(p))
    BY <1>3 DEF Abort, GatewayCheckFailed, LabelsFailed, IgnoreFailure, At, Steps, Phases
  <2>2. rec' # None => rec'.name = rec.name /\ rec'.obj = rec.obj
    BY <2>1, GotoFields, ReportFields DEF Done, RecInv
  <2> QED BY <2>1, <2>2, MoveUids
<1>4. ASSUME NEW g \in Gateways, CollectClaim(g) PROVE Uids'
  <2>1. \A h \in Gateways : claim'[h] # None => claim'[h] = claim[h]
    BY <1>4 DEF CollectClaim, RecInv, TypeOK
  <2> QED BY <1>4, <2>1, MoveUids DEF CollectClaim, counters
<1>5. CASE \E t \in Names :
         \/ DeadlinePasses(t) \/ DeleteAuthCR(t)
         \/ fetchGatewayInfo(t) \/ reconcileGatewayAuthPolicy(t)
         \/ ensureGatewayManagementAuth(t) \/ removeTenantConfig(t)
  BY <1>5, MoveUids DEF DeadlinePasses, DeleteAuthCR, fetchGatewayInfo, counters,
     reconcileGatewayAuthPolicy, ensureGatewayManagementAuth, removeTenantConfig
<1>6. CASE UNCHANGED vars
  BY <1>6, MoveUids DEF vars
<1> QED BY <1>1, <1>2, <1>3, <1>4, <1>5, <1>6 DEF Next

-----------------------------------------------------------------------------
(* The claim, whatever is retargeted, forced or interrupted                *)

LEMMA ClaimInvariance == Spec => [](RecInv /\ Uids)
<1>1. RecInv /\ Uids /\ [Next]_vars => RecInv' /\ Uids'
  BY NextRec, NextUids
<1> QED BY <1>1, InitInv, PTL DEF Spec

\* Only the report at the end of a Reconcile makes an AITenant Active.
LEMMA ActiveByReport ==
    ASSUME RecInv, Uids, Next, NEW t \in Names, tenants'[t] \notin {None, tenants[t]},
           tenants'[t].phase = "Active", Exists(t) => tenants[t].phase # "Active"
    PROVE  ReportPhase /\ t = rec.name /\ rec.fresh /\ tenants'[t] = [rec.obj EXCEPT !.phase = rec.want]
<1> USE DEF RecInv
<1>1. ASSUME NEW s \in Names, Store(s) \/ Delete(s) PROVE FALSE
  <2> DEFINE n == [uid |-> created, spec |-> request[s], status |-> None,
                   phase |-> None, finalizer |-> FALSE, deleting |-> FALSE]
             e == [tenants[s] EXCEPT !.spec = request[s]]
             d == [tenants[s] EXCEPT !.deleting = TRUE]
  <2>1. Save(s, IF Exists(s) THEN e ELSE n)
        \/ (Exists(s) /\ Save(s, IF tenants[s].finalizer THEN d ELSE None))
    BY <1>1 DEF Store, Delete
  <2>2. /\ n.phase # "Active"
        /\ Exists(s) => e.phase = tenants[s].phase /\ d.phase = tenants[s].phase
    <3>1. Exists(s) => tenants[s] \in AITenants
      BY DEF TypeOK, Exists
    <3> QED BY <3>1 DEF AITenants
  <2> HIDE DEF n, e, d
  <2>3. t = s /\ (tenants'[s] = n \/ (Exists(s) /\ (tenants'[s] = e \/ tenants'[s] = d)))
    BY <2>1 DEF Save, TypeOK
  <2> QED BY <2>2, <2>3
<1>2. CASE AddFinalizer
  <2> DEFINE s == rec.name
             o == [tenants[s] EXCEPT !.finalizer = TRUE]
  <2>1. (Exists(s) /\ Save(s, o)) \/ UNCHANGED tenants
    BY <1>2 DEF AddFinalizer
  <2>2. Exists(s) /\ s \in Names => o.phase = tenants[s].phase
    <3>1. Exists(s) /\ s \in Names => tenants[s] \in AITenants
      BY DEF TypeOK, Exists
    <3> QED BY <3>1 DEF AITenants
  <2> HIDE DEF o
  <2>3. Exists(s) /\ t = s /\ tenants'[s] = o
    BY <2>1 DEF Save, TypeOK
  <2> QED BY <2>2, <2>3
<1>3. CASE SetGatewayRef
  <2> DEFINE o == [rec.obj EXCEPT !.status = rec.obj.spec]
  <2>1. rec # None /\ rec.obj \in AITenants /\ rec.name \in Names /\ updateAITenantStatus(o, "label")
    BY <1>3 DEF SetGatewayRef, At, TypeOK
  <2>2. o.phase = rec.obj.phase
    BY <2>1 DEF AITenants
  <2> HIDE DEF o
  <2>3. t = rec.name /\ tenants'[t] = o /\ rec.fresh
    BY <2>1 DEF updateAITenantStatus, Save, TypeOK
  <2> QED BY <2>1, <2>2, <2>3 DEF CopySound, Exists
<1>4. CASE Terminate \/ ForceTerminate
  <2> DEFINE o == [rec.obj EXCEPT !.phase = "Terminating"]
  <2>1. /\ rec # None /\ rec.obj \in AITenants /\ rec.name \in Names
        /\ updateAITenantStatus(o, "revoke") \/ Save(rec.name, o) \/ UNCHANGED tenants
    BY <1>4 DEF Terminate, ForceTerminate, At, TypeOK
  <2>2. o.phase = "Terminating"
    BY <2>1 DEF AITenants
  <2> HIDE DEF o
  <2>3. tenants'[t] = o
    BY <2>1 DEF updateAITenantStatus, Save, TypeOK
  <2> QED BY <2>2, <2>3
<1>5. CASE ReportPhase
  BY <1>5 DEF ReportPhase, Save, TypeOK
<1>6. ~RemoveFinalizer
  BY DEF RemoveFinalizer, Save, TypeOK
<1>7. CASE UNCHANGED tenants
  BY <1>7
<1> QED BY <1>1, <1>2, <1>3, <1>4, <1>5, <1>6, <1>7 DEF Next, Admin, Reconcile,
      ValidateCreate, ValidateUpdate, CreateAuthCR, Get, ensureInfraNamespaceGatewayLabels,
      ensureGatewayClaim, cleanupStaleClaims, ensureTenantResources, ensureTenantAPIKeysRevoked,
      deleteTenantConfig, deleteTenantGatewayAuthPolicy, deleteGatewayClaim,
      cleanupGatewayLabelsOnDelete, Abort, GatewayCheckFailed, LabelsFailed, IgnoreFailure,
      CollectClaim, DeadlinePasses, DeleteAuthCR, fetchGatewayInfo, reconcileGatewayAuthPolicy,
      ensureGatewayManagementAuth, removeTenantConfig

\* An AITenant becomes Active only while it holds the claim of the gateway it
\* reports, however many tenants and gateways there are, whatever is retargeted or
\* forced and wherever the controller is interrupted.
THEOREM ActiveMeansClaimed == Spec => ActiveHoldsClaim
<1> DEFINE A == \A t \in Names :
         tenants'[t] \notin {None, tenants[t]} =>
           LET o == tenants'[t] IN
           o.phase = "Active" /\ (Exists(t) => tenants[t].phase # "Active")
           => claim[o.status] = Owner(t, o)
<1>1. RecInv /\ Uids /\ [Next]_vars => [A]_vars
  <2> SUFFICES ASSUME RecInv, Uids, Next, NEW t \in Names, tenants'[t] \notin {None, tenants[t]},
                      tenants'[t].phase = "Active", Exists(t) => tenants[t].phase # "Active"
               PROVE  claim[tenants'[t].status] = Owner(t, tenants'[t])
    BY DEF vars
  <2> DEFINE o == [rec.obj EXCEPT !.phase = rec.want]
  <2>1. ReportPhase /\ t = rec.name /\ rec.fresh /\ tenants'[t] = o
    BY ActiveByReport
  <2>2. rec # None /\ rec.pc = "report" /\ rec.obj \in AITenants /\ rec.want \in Phases
    BY <2>1 DEF ReportPhase, At, RecInv, TypeOK
  <2>3. o.phase = rec.want /\ o.status = rec.obj.status /\ o.uid = rec.obj.uid
    BY <2>2 DEF AITenants
  <2> HIDE DEF o
  <2>4. claim[rec.obj.spec] = Owner(rec.name, rec.obj) /\ rec.obj.status = rec.obj.spec
    BY <2>1, <2>2, <2>3 DEF RecInv, ClaimHeld, StepSound, Provisioning
  <2> QED BY <2>1, <2>3, <2>4 DEF Owner
<1>2. Spec => [][A]_vars
  BY <1>1, ClaimInvariance, PTL DEF Spec
<1> QED BY <1>2 DEF ActiveHoldsClaim

\* The claim of an AITenant that is not in deletion, on the gateway it reports, is
\* never released or taken over by cleanupStaleClaims, deleteGatewayClaim or the
\* garbage collector.
THEOREM ClaimStays == Spec => SettledClaimKept
<1> DEFINE A == \A g \in Gateways : claim'[g] # claim[g] =>
         ~ \E t \in Names : /\ Exists(t) /\ ~tenants[t].deleting
                            /\ claim[g] = Owner(t, tenants[t])
                            /\ tenants[t].status = g
<1>1. RecInv /\ Uids /\ [Next]_vars => [A]_vars
  <2> SUFFICES ASSUME RecInv, Next, NEW g \in Gateways, claim'[g] # claim[g],
                      NEW t \in Names, Exists(t), ~tenants[t].deleting,
                      claim[g] = Owner(t, tenants[t]), tenants[t].status = g
               PROVE  FALSE
    BY DEF vars
  <2> USE DEF RecInv
  <2>1. claim[g] # None
    BY DEF TypeOK, Exists, AITenants, Owner, Owners
  <2>2. CASE ensureGatewayClaim
    BY <2>1, <2>2 DEF ensureGatewayClaim, TypeOK
  <2>3. CASE cleanupStaleClaims \/ deleteGatewayClaim
    <3>1. /\ rec # None /\ rec.pc \in {"stale", "claims"} /\ claim[g] = Owner(rec.name, rec.obj)
          /\ rec.pc = "stale" => g # rec.obj.spec
      BY <2>3 DEF cleanupStaleClaims, deleteGatewayClaim, Release, At, TypeOK
    <3>2. t = rec.name
      BY <3>1 DEF Owner
    <3>3. rec.obj.finalizer /\ (rec.pc = "stale" => rec.obj.status = rec.obj.spec)
          /\ (rec.pc = "claims" => rec.obj.deleting)
      BY <3>1 DEF StepSound, Provisioning, Deleting
    <3> QED BY <3>1, <3>2, <3>3 DEF CopySound
  <2>4. ASSUME NEW h \in Gateways, CollectClaim(h) PROVE FALSE
    BY <2>4 DEF CollectClaim, TypeOK
  <2>5. CASE UNCHANGED claim
    BY <2>5
  <2> QED BY <2>2, <2>3, <2>4, <2>5 DEF Next, Admin, Reconcile, Store, Delete, AddFinalizer,
      SetGatewayRef, ReportPhase, Terminate, ForceTerminate, RemoveFinalizer,
      ValidateCreate, ValidateUpdate, CreateAuthCR, Get, ensureInfraNamespaceGatewayLabels,
      ensureTenantResources, ensureTenantAPIKeysRevoked,
      deleteTenantConfig, deleteTenantGatewayAuthPolicy,
      cleanupGatewayLabelsOnDelete, Abort, GatewayCheckFailed, LabelsFailed, IgnoreFailure,
      DeadlinePasses, DeleteAuthCR, fetchGatewayInfo, reconcileGatewayAuthPolicy,
      ensureGatewayManagementAuth, removeTenantConfig
<1>2. Spec => [][A]_vars
  BY <1>1, ClaimInvariance, PTL DEF Spec
<1> QED BY <1>2 DEF SettledClaimKept

-----------------------------------------------------------------------------
(* GatewayInv: no deletion is forced                                       *)

LEMMA NextPatient ==
    ASSUME ~DeletionTimeout, RecInv, Patient, [Next]_vars PROVE Patient'
<1> USE DEF RecInv, Patient
<1>1. CASE Admin
  BY <1>1, OvertakeFields DEF Admin, ValidateCreate, ValidateUpdate, Store, Delete, CreateAuthCR
<1>2. ASSUME NEW t \in Names, Get(t) PROVE Patient'
  BY <1>2 DEF Get
<1>3. CASE AddFinalizer \/ ReportPhase \/ RemoveFinalizer
  BY <1>3 DEF AddFinalizer, ReportPhase, RemoveFinalizer, Done, TypeOK
<1>4. CASE SetGatewayRef \/ Terminate
  <2>1. rec # None /\ rec \in RecType /\ overdue' = overdue
        /\ \E o : \E s : updateAITenantStatus(o, s)
    BY <1>4 DEF SetGatewayRef, Terminate, At, TypeOK, RecType
  <2> QED BY <2>1 DEF updateAITenantStatus, Goto, Done, RecType
<1>5. ~ForceTerminate /\ ~IgnoreFailure
  BY DEF ForceTerminate, IgnoreFailure, At
<1>6. CASE \/ ensureInfraNamespaceGatewayLabels \/ ensureGatewayClaim
           \/ cleanupStaleClaims \/ ensureTenantResources
           \/ ensureTenantAPIKeysRevoked \/ deleteTenantConfig
           \/ deleteTenantGatewayAuthPolicy \/ deleteGatewayClaim
           \/ cleanupGatewayLabelsOnDelete \/ Abort \/ GatewayCheckFailed \/ LabelsFailed
  <2>1. /\ rec # None /\ overdue' = overdue
        /\ Done \/ (\E s \in Steps : Goto(s)) \/ (\E p \in Phases : Report(p))
    BY <1>6 DEF ensureInfraNamespaceGatewayLabels, ensureGatewayClaim, cleanupStaleClaims,
          ensureTenantResources, ensureTenantConfig, ensureTenantAPIKeysRevoked,
          deleteTenantConfig, deleteTenantGatewayAuthPolicy, deleteGatewayClaim,
          cleanupGatewayLabelsOnDelete, Abort, GatewayCheckFailed, LabelsFailed, At, Steps, Phases
  <2> QED BY <2>1, GotoFields, ReportFields DEF Done
<1>7. CASE \/ \E g \in Gateways : CollectClaim(g)
           \/ \E t \in Names :
                \/ DeadlinePasses(t) \/ DeleteAuthCR(t)
                \/ fetchGatewayInfo(t) \/ reconcileGatewayAuthPolicy(t)
                \/ ensureGatewayManagementAuth(t) \/ removeTenantConfig(t)
  BY <1>7 DEF CollectClaim, DeadlinePasses, DeleteAuthCR, fetchGatewayInfo,
     reconcileGatewayAuthPolicy, ensureGatewayManagementAuth, removeTenantConfig
<1>8. CASE UNCHANGED vars
  BY <1>8 DEF vars
<1> QED BY <1>1, <1>2, <1>3, <1>4, <1>5, <1>6, <1>7, <1>8 DEF Next, Reconcile

-----------------------------------------------------------------------------
(* GatewayInv: steps that keep every AITenant and its gateway              *)

AfterConfig == {"policy", "claims", "unlabel", "remove"}
AfterPolicy == {"claims", "unlabel", "remove"}

Kept(t) ==
    /\ tenants'[t] = None <=> tenants[t] = None
    /\ Exists(t) =>
         /\ tenants'[t].uid = tenants[t].uid /\ tenants'[t].spec = tenants[t].spec
         /\ tenants'[t].finalizer = tenants[t].finalizer
         /\ tenants'[t].status \in {tenants[t].status, tenants[t].spec}

LEMMA KeptGateway ==
    ASSUME RecInv, RecInv', GatewayInv,
           UNCHANGED <<policy, config, authCR, writer, owners, edits>>,
           \A t \in Names : Kept(t) /\ (request'[t] # None => request[t] # None),
           \A g \in Gateways : claim'[g] \in {claim[g], None},
           rec' # None =>
             /\ edits = 0 /\ rec'.obj.finalizer => tenants'[rec'.name].spec = rec'.obj.spec
             /\ rec'.pc \in AfterConfig => config[rec'.name] = None
             /\ edits = 0 /\ rec'.pc \in AfterPolicy => \A g \in Gateways : policy[g] # rec'.name
             /\ edits = 0 /\ rec'.pc = "remove" => rec'.obj.spec \notin owners
    PROVE  GatewayInv'
<1>0. None \notin Owners
  OBVIOUS
<1>1. ConfigHolds'
  BY DEF GatewayInv, ConfigHolds, Kept, Exists, AfterConfig
<1>2. ASSUME edits = 0 PROVE SpecStays'
  <2>1. ASSUME NEW t \in Names PROVE
          /\ request'[t] # None => tenants'[t] = None
          /\ tenants'[t] # None => tenants'[t].status \in {None, tenants'[t].spec}
    BY <1>2 DEF GatewayInv, SpecStays, Kept, Exists
  <2>2. ASSUME NEW t \in Names, writer[t] # None PROVE tenants'[t].status = writer[t].gateway
    <3>1. Exists(t) /\ writer[t].gateway # None
      BY <2>2 DEF GatewayInv, ConfigHolds, RecInv, TypeOK
    <3> QED BY <1>2, <2>2, <3>1 DEF GatewayInv, SpecStays, Kept
  <2> QED BY <1>2, <2>1, <2>2 DEF SpecStays, Exists
<1>3. ASSUME edits = 0 PROVE OneHolder'
  <2>1. \A t \in Names : Held(t)' <=> Held(t)
    BY DEF Held, Kept, Exists
  <2>2. ASSUME NEW t \in Names, NEW g \in Gateways, tenants'[t] # None, claim'[g] = Owner(t, tenants'[t])
        PROVE  tenants'[t].finalizer /\ tenants'[t].spec = g
    <3>1. Exists(t) /\ Owner(t, tenants'[t]) = Owner(t, tenants[t])
      BY <2>2 DEF Kept, Owner, Exists
    <3>2. Owner(t, tenants[t]) \in Owners
      BY <3>1 DEF RecInv, TypeOK, Exists, AITenants, Owner, Owners
    <3>3. claim[g] = Owner(t, tenants[t])
      BY <1>0, <2>2, <3>1, <3>2
    <3> QED BY <1>3, <3>1, <3>3 DEF GatewayInv, OneHolder, Kept
  <2> QED BY <1>3, <2>1, <2>2 DEF GatewayInv, OneHolder, Held, Kept, Exists
<1>4. ASSUME edits = 0 PROVE NothingLeft'
  <2>1. \A t \in Names : Held(t) => Held(t)' /\ tenants'[t].spec = tenants[t].spec
    BY DEF Held, Kept, Exists
  <2> QED BY <1>4, <2>1 DEF GatewayInv, NothingLeft, AfterPolicy
<1> QED BY <1>1, <1>2, <1>3, <1>4 DEF GatewayInv

LEMMA SameKept ==
    ASSUME NEW t \in Names, tenants'[t] = tenants[t] PROVE Kept(t)
BY DEF Kept, Exists

\* The Reconcile goes on, or is over, and writes nothing but claims it releases.
LEMMA MoveGateway ==
    ASSUME RecInv, RecInv', GatewayInv,
           UNCHANGED <<tenants, request, policy, config, authCR, writer, owners, edits>>,
           \A g \in Gateways : claim'[g] \in {claim[g], None},
           rec' # None =>
             /\ rec # None /\ rec'.name = rec.name /\ rec'.obj = rec.obj
             /\ rec'.pc \in AfterConfig =>
                  rec'.pc = rec.pc \/ (rec.pc = "claims" /\ rec'.pc = "unlabel")
    PROVE  GatewayInv'
<1>1. \A t \in Names : Kept(t) /\ (request'[t] # None => request[t] # None)
  BY SameKept
<1>2. rec' # None =>
        /\ edits = 0 /\ rec'.obj.finalizer => tenants'[rec'.name].spec = rec'.obj.spec
        /\ rec'.pc \in AfterConfig => config[rec'.name] = None
        /\ edits = 0 /\ rec'.pc \in AfterPolicy => \A g \in Gateways : policy[g] # rec'.name
        /\ edits = 0 /\ rec'.pc = "remove" => rec'.obj.spec \notin owners
  BY DEF GatewayInv, ConfigHolds, SpecStays, NothingLeft, AfterConfig, AfterPolicy
<1> QED BY <1>1, <1>2, KeptGateway

\* A write of a fresh copy with the same gateway keeps every AITenant.
LEMMA CopyKept ==
    ASSUME RecInv, rec # None, NEW o \in AITenants, tenants[rec.name] = rec.obj, Save(rec.name, o),
           o.uid = rec.obj.uid, o.spec = rec.obj.spec, o.finalizer = rec.obj.finalizer,
           o.status \in {rec.obj.status, rec.obj.spec}
    PROVE  \A t \in Names : Kept(t) /\ (request'[t] # None => request[t] # None)
<1>1. rec.name \in Names /\ rec.obj # None
  BY DEF RecInv, TypeOK
<1>2. /\ tenants'[rec.name] = o /\ request'[rec.name] = None
      /\ \A t \in Names \ {rec.name} : tenants'[t] = tenants[t] /\ request'[t] = request[t]
  BY <1>1, SaveFields DEF RecInv
<1>3. Kept(rec.name)
  BY <1>1, <1>2 DEF Kept, Exists
<1> QED BY <1>1, <1>2, <1>3, SameKept

LEMMA StatusGateway ==
    ASSUME RecInv, RecInv', GatewayInv, rec # None, NEW o \in AITenants, NEW s \in Steps,
           updateAITenantStatus(o, s), s \notin AfterConfig,
           UNCHANGED <<claim, policy, config, authCR, writer, owners, edits>>,
           o.uid = rec.obj.uid, o.spec = rec.obj.spec, o.finalizer = rec.obj.finalizer,
           o.status \in {rec.obj.status, rec.obj.spec}
    PROVE  GatewayInv'
<1>1. CASE UNCHANGED <<tenants, request>> /\ Done
  BY <1>1, MoveGateway DEF Done
<1>2. CASE /\ UNCHANGED <<tenants, request>> /\ o = rec.obj
           /\ rec'.pc = s /\ rec'.obj = o /\ rec'.name = rec.name
  BY <1>2, MoveGateway
<1>3. CASE /\ tenants[rec.name] = rec.obj /\ Save(rec.name, o)
           /\ rec'.pc = s /\ rec'.obj = o /\ rec'.name = rec.name
  <2>1. \A t \in Names : Kept(t) /\ (request'[t] # None => request[t] # None)
    BY <1>3, CopyKept
  <2>2. rec' # None => tenants'[rec'.name].spec = rec'.obj.spec /\ rec'.pc \notin AfterConfig
                       /\ rec'.pc \notin AfterPolicy /\ rec'.pc # "remove"
    <3>1. rec.name \in Names /\ tenants'[rec.name] = o
      BY <1>3, SaveFields DEF RecInv, TypeOK
    <3> QED BY <1>3, <3>1 DEF AfterConfig, AfterPolicy
  <2> QED BY <2>1, <2>2, KeptGateway
<1> QED BY <1>1, <1>2, <1>3, StatusFields

LEMMA ReportsGateway ==
    ASSUME RecInv, RecInv', GatewayInv, SetGatewayRef \/ Terminate \/ ReportPhase
    PROVE  GatewayInv'
<1>0. /\ rec # None /\ rec.obj \in AITenants /\ rec.name \in Names /\ rec.want \in Phases
      /\ UNCHANGED <<claim, policy, config, authCR, writer, owners, edits>>
  BY DEF SetGatewayRef, Terminate, ReportPhase, At, RecInv, TypeOK, resources, crs, counters
<1>1. CASE SetGatewayRef
  <2> DEFINE o == [rec.obj EXCEPT !.status = rec.obj.spec]
  <2>1. updateAITenantStatus(o, "label")
    BY <1>1 DEF SetGatewayRef
  <2>2. /\ o \in AITenants /\ o.uid = rec.obj.uid /\ o.spec = rec.obj.spec
        /\ o.finalizer = rec.obj.finalizer /\ o.status \in {rec.obj.status, rec.obj.spec}
        /\ "label" \in Steps /\ "label" \notin AfterConfig
    BY <1>0 DEF AITenants, Steps, AfterConfig
  <2> HIDE DEF o
  <2> QED BY <1>0, <2>1, <2>2, StatusGateway
<1>2. CASE Terminate
  <2> DEFINE o == [rec.obj EXCEPT !.phase = "Terminating"]
  <2>1. updateAITenantStatus(o, "revoke")
    BY <1>2 DEF Terminate
  <2>2. /\ o \in AITenants /\ o.uid = rec.obj.uid /\ o.spec = rec.obj.spec
        /\ o.finalizer = rec.obj.finalizer /\ o.status \in {rec.obj.status, rec.obj.spec}
        /\ "revoke" \in Steps /\ "revoke" \notin AfterConfig
    BY <1>0 DEF AITenants, Steps, AfterConfig, Phases
  <2> HIDE DEF o
  <2> QED BY <1>0, <2>1, <2>2, StatusGateway
<1>3. CASE ReportPhase
  <2> DEFINE o == [rec.obj EXCEPT !.phase = rec.want]
  <2>1. rec' = None /\ ((rec.fresh /\ Save(rec.name, o)) \/ UNCHANGED <<tenants, request>>)
    BY <1>3 DEF ReportPhase, Done
  <2>2. /\ o \in AITenants /\ o.uid = rec.obj.uid /\ o.spec = rec.obj.spec
        /\ o.finalizer = rec.obj.finalizer /\ o.status \in {rec.obj.status, rec.obj.spec}
    BY <1>0 DEF AITenants
  <2> HIDE DEF o
  <2>3. CASE rec.fresh /\ Save(rec.name, o)
    <3>1. tenants[rec.name] = rec.obj
      BY <1>0, <2>3 DEF RecInv, CopySound
    <3>2. \A t \in Names : Kept(t) /\ (request'[t] # None => request[t] # None)
      BY <1>0, <2>2, <2>3, <3>1, CopyKept
    <3> QED BY <1>0, <2>1, <3>2, KeptGateway
  <2>4. CASE UNCHANGED <<tenants, request>>
    BY <1>0, <2>1, <2>4, MoveGateway
  <2> QED BY <2>1, <2>3, <2>4
<1> QED BY <1>1, <1>2, <1>3

\* The steps that only move on
LEMMA MovesGateway ==
    ASSUME RecInv, RecInv', GatewayInv,
           \/ ensureTenantAPIKeysRevoked \/ deleteGatewayClaim \/ cleanupStaleClaims
           \/ GatewayCheckFailed \/ LabelsFailed \/ Abort
           \/ \E g \in Gateways : CollectClaim(g)
           \/ \E t \in Names : DeadlinePasses(t)
           \/ UNCHANGED vars
    PROVE  GatewayInv'
<1>1. UNCHANGED <<tenants, request, policy, config, authCR, writer, owners, edits>>
  BY DEF ensureTenantAPIKeysRevoked, deleteGatewayClaim, cleanupStaleClaims, GatewayCheckFailed,
         LabelsFailed, Abort, CollectClaim, DeadlinePasses, vars, resources, crs, counters
<1>2. \A g \in Gateways : claim'[g] \in {claim[g], None}
  BY DEF ensureTenantAPIKeysRevoked, deleteGatewayClaim, cleanupStaleClaims, GatewayCheckFailed,
         LabelsFailed, Abort, CollectClaim, DeadlinePasses, vars, Release, RecInv, TypeOK
<1>3. rec' # None =>
        /\ rec # None /\ rec'.name = rec.name /\ rec'.obj = rec.obj
        /\ rec'.pc \in AfterConfig =>
             rec'.pc = rec.pc \/ (rec.pc = "claims" /\ rec'.pc = "unlabel")
  <2>1. \/ UNCHANGED rec
        \/ Done
        \/ rec # None /\ (Goto("config") \/ Goto("resources") \/ Goto("claim") \/ Report("Failed"))
        \/ rec # None /\ rec.pc = "claims" /\ Goto("unlabel")
    BY DEF ensureTenantAPIKeysRevoked, deleteGatewayClaim, cleanupStaleClaims,
           GatewayCheckFailed, LabelsFailed, Abort, CollectClaim, DeadlinePasses, vars, At
  <2>2. {"config", "resources", "claim", "unlabel"} \subseteq Steps /\ "Failed" \in Phases
        /\ {"config", "resources", "claim", "report"} \cap AfterConfig = {}
    BY DEF Steps, Phases, AfterConfig
  <2> QED BY <2>1, <2>2, GotoFields, ReportFields DEF Done, RecInv
<1> QED BY <1>1, <1>2, <1>3, MoveGateway

LEMMA GetGateway ==
    ASSUME RecInv, RecInv', GatewayInv, NEW t \in Names, Get(t) PROVE GatewayInv'
<1>1. UNCHANGED <<tenants, request, claim, policy, config, authCR, writer, owners, edits>>
      /\ rec'.name = t /\ rec'.obj = tenants[t]
      /\ rec'.pc \in {"terminate", "status", "finalize"}
  BY DEF Get, resources, crs, counters
<1>2. \A s \in Names : Kept(s) /\ (request'[s] # None => request[s] # None)
  BY <1>1, SameKept
<1>3. rec'.pc \notin AfterConfig /\ rec'.pc \notin AfterPolicy /\ rec'.pc # "remove"
  BY <1>1 DEF AfterConfig, AfterPolicy
<1> QED BY <1>1, <1>2, <1>3, KeptGateway

-----------------------------------------------------------------------------
(* GatewayInv: AITenants that come, get their finalizer and go             *)

\* Where a gateway invariant speaks of what does not change
StateOf == <<claim, policy, config, authCR, writer, owners, edits>>

LEMMA ValidateGateway ==
    ASSUME RecInv, GatewayInv, NEW t \in Names, NEW g \in Gateways,
           ValidateCreate(t, g) \/ ValidateUpdate(t, g)
    PROVE  GatewayInv'
<1>1. UNCHANGED <<tenants, claim, policy, rec, config, authCR, writer, owners>>
  BY DEF ValidateCreate, ValidateUpdate, resources, crs
<1>2. ConfigHolds'
  BY <1>1 DEF GatewayInv, ConfigHolds, Exists
<1>3. ASSUME edits' = 0 PROVE SpecStays' /\ OneHolder' /\ NothingLeft'
  <2>1. edits = 0 /\ ~Exists(t) /\ \A s \in Names \ {t} : request'[s] = request[s]
    BY <1>3 DEF ValidateCreate, ValidateUpdate, RecInv, TypeOK
  <2>2. SpecStays'
    BY <1>1, <2>1 DEF GatewayInv, SpecStays, Exists
  <2> QED BY <1>1, <2>1, <2>2 DEF GatewayInv, OneHolder, NothingLeft, Held, Exists, Owner
<1> QED BY <1>2, <1>3 DEF GatewayInv

LEMMA StoreGateway ==
    ASSUME RecInv, RecInv', Uids, GatewayInv, NEW t \in Names, Store(t) PROVE GatewayInv'
<1> DEFINE n == [uid |-> created, spec |-> request[t], status |-> None,
                 phase |-> None, finalizer |-> FALSE, deleting |-> FALSE]
           e == [tenants[t] EXCEPT !.spec = request[t]]
<1>1. Save(t, IF Exists(t) THEN e ELSE n) /\ Overtake(t) /\ UNCHANGED StateOf
      /\ UNCHANGED created
  BY DEF Store, resources, crs, counters, StateOf
<1>2. request[t] # None /\ request[t] \in Gateways /\ created \in 1..MaxUID
  BY DEF Store, RecInv, TypeOK, Uids
<1>3. /\ n \in AITenants /\ n.uid = created /\ n.status = None /\ ~n.finalizer
      /\ Exists(t) => e \in AITenants /\ e.finalizer = tenants[t].finalizer
  <2>1. Exists(t) => tenants[t] \in AITenants
    BY DEF RecInv, TypeOK, Exists
  <2> QED BY <1>2, <2>1 DEF AITenants, Phases
<1> HIDE DEF n, e
<1>4. /\ tenants'[t] = IF Exists(t) THEN e ELSE n
      /\ request'[t] = None
      /\ \A s \in Names \ {t} : tenants'[s] = tenants[s] /\ request'[s] = request[s]
  <2>1. (IF Exists(t) THEN e ELSE n) \in AITenants
    BY <1>3
  <2> QED BY <1>1, <2>1, SaveFields DEF RecInv
<1>5. /\ rec' # None => /\ rec # None /\ rec'.name = rec.name /\ rec'.obj = rec.obj
                        /\ rec'.pc = rec.pc
      /\ rec # None => rec.name \in Names
  BY <1>1, OvertakeFields DEF RecInv, TypeOK
<1>6. ConfigHolds'
  <2>1. \A s \in Names : Held(s) => Held(s)'
    BY <1>3, <1>4 DEF Held, Exists
  <2> QED BY <1>1, <1>5, <2>1 DEF GatewayInv, ConfigHolds, Held, StateOf
<1>7. ASSUME edits' = 0 PROVE SpecStays' /\ OneHolder' /\ NothingLeft'
  <2>1. edits = 0 /\ ~Exists(t) /\ tenants'[t] = n /\ n # None
    BY <1>1, <1>2, <1>3, <1>4, <1>7 DEF StateOf, GatewayInv, SpecStays
  <2>2. /\ \A s \in Names \ {t} : Held(s)' <=> Held(s)
        /\ ~Held(t) /\ ~Held(t)'
    BY <1>3, <1>4, <2>1 DEF Held, Exists
  <2>3. SpecStays'
    <3>1. writer[t] = None
      BY <2>1 DEF GatewayInv, ConfigHolds
    <3>2. rec # None /\ rec.obj.finalizer => rec.name # t
      BY <2>1 DEF RecInv, CopySound
    <3> QED BY <1>1, <1>3, <1>4, <1>5, <2>1, <3>1, <3>2 DEF GatewayInv, SpecStays, Exists, StateOf
  <2>4. OneHolder'
    <3>1. \A g \in Gateways : claim[g] # Owner(t, n)
      <4> SUFFICES ASSUME NEW g \in Gateways, claim[g] = Owner(t, n) PROVE FALSE
        OBVIOUS
      <4>1. claim[g].name = t /\ claim[g].uid = created /\ claim[g] # None
        BY <1>2, <1>3 DEF Owner, Owners
      <4> QED BY <1>2, <2>1, <4>1 DEF Uids
    <3>2. \A g \in Gateways : policy[g] # t
      BY <2>1, <2>2 DEF GatewayInv, OneHolder
    <3> QED BY <1>1, <1>4, <2>1, <2>2, <3>1, <3>2 DEF GatewayInv, OneHolder, Held, Exists, StateOf
  <2>5. NothingLeft'
    BY <1>1, <1>4, <1>5, <2>1, <2>2 DEF GatewayInv, NothingLeft, StateOf
  <2> QED BY <2>3, <2>4, <2>5
<1> QED BY <1>6, <1>7 DEF GatewayInv

LEMMA DeleteGateway ==
    ASSUME RecInv, RecInv', GatewayInv, NEW t \in Names, Delete(t) PROVE GatewayInv'
<1> DEFINE d == [tenants[t] EXCEPT !.deleting = TRUE]
<1>1. Save(t, IF tenants[t].finalizer THEN d ELSE None) /\ Overtake(t) /\ UNCHANGED StateOf
      /\ Exists(t)
  BY DEF Delete, resources, crs, counters, StateOf
<1>2. /\ d \in AITenants /\ d.uid = tenants[t].uid /\ d.spec = tenants[t].spec
      /\ d.finalizer = tenants[t].finalizer /\ d.status = tenants[t].status /\ d # None
  <2>1. tenants[t] \in AITenants
    BY <1>1 DEF RecInv, TypeOK, Exists
  <2> QED BY <2>1 DEF AITenants
<1> HIDE DEF d
<1>3. /\ tenants'[t] = IF tenants[t].finalizer THEN d ELSE None
      /\ request'[t] = None
      /\ \A s \in Names \ {t} : tenants'[s] = tenants[s] /\ request'[s] = request[s]
  <2>1. (IF tenants[t].finalizer THEN d ELSE None) \in AITenants \cup {None}
    BY <1>2
  <2> QED BY <1>1, <2>1, SaveFields DEF RecInv
<1>4. /\ rec' # None => /\ rec # None /\ rec'.name = rec.name /\ rec'.obj = rec.obj
                        /\ rec'.pc = rec.pc
      /\ rec # None => rec.name \in Names
  BY <1>1, OvertakeFields DEF RecInv, TypeOK
<1>5. CASE tenants[t].finalizer
  <2>1. \A s \in Names : Kept(s) /\ (request'[s] # None => request[s] # None)
    BY <1>1, <1>2, <1>3, <1>5 DEF Kept, Exists
  <2>2. rec' # None =>
          /\ edits = 0 /\ rec'.obj.finalizer => tenants'[rec'.name].spec = rec'.obj.spec
          /\ rec'.pc \in AfterConfig => config[rec'.name] = None
          /\ edits = 0 /\ rec'.pc \in AfterPolicy => \A g \in Gateways : policy[g] # rec'.name
          /\ edits = 0 /\ rec'.pc = "remove" => rec'.obj.spec \notin owners
    <3>1. rec # None /\ rec.obj.finalizer => tenants'[rec.name].spec = tenants[rec.name].spec
      BY <1>4, <2>1 DEF RecInv, CopySound, Kept
    <3> QED BY <1>4, <3>1 DEF GatewayInv, ConfigHolds, SpecStays, NothingLeft, AfterConfig, AfterPolicy
  <2> QED BY <1>1, <2>1, <2>2, KeptGateway DEF StateOf
<1>6. CASE ~tenants[t].finalizer
  <2>1. tenants'[t] = None /\ ~Held(t) /\ \A s \in Names : Held(s)' <=> Held(s)
    BY <1>3, <1>6 DEF Held, Exists
  <2>2. rec # None /\ rec.obj.finalizer => rec.name # t
    BY <1>6 DEF RecInv, CopySound
  <2>3. ConfigHolds'
    BY <1>1, <1>4, <2>1 DEF GatewayInv, ConfigHolds, Held, StateOf
  <2>4. ASSUME edits' = 0 PROVE SpecStays' /\ OneHolder' /\ NothingLeft'
    <3>1. edits = 0
      BY <1>1, <2>4 DEF StateOf
    <3>2. SpecStays'
      <4>1. writer[t] = None
        BY <2>1 DEF GatewayInv, ConfigHolds, Held
      <4> QED BY <1>1, <1>3, <1>4, <2>1, <2>2, <3>1, <4>1 DEF GatewayInv, SpecStays, Exists, StateOf
    <3>3. OneHolder'
      BY <1>1, <1>3, <2>1, <3>1 DEF GatewayInv, OneHolder, Held, Exists, StateOf
    <3>4. NothingLeft'
      BY <1>1, <1>3, <1>4, <2>1, <3>1 DEF GatewayInv, NothingLeft, StateOf
    <3> QED BY <3>2, <3>3, <3>4
  <2> QED BY <2>3, <2>4 DEF GatewayInv
<1> QED BY <1>5, <1>6

LEMMA AddFinalizerGateway ==
    ASSUME RecInv, RecInv', GatewayInv, AddFinalizer PROVE GatewayInv'
<1>0. PICK t \in Names : t = rec.name
  BY DEF AddFinalizer, At, RecInv, TypeOK
<1> DEFINE o == [tenants[t] EXCEPT !.finalizer = TRUE]
<1>1. rec # None /\ rec' = None /\ UNCHANGED StateOf
  BY DEF AddFinalizer, At, Done, RecInv, TypeOK, resources, crs, counters, StateOf
<1>2. CASE UNCHANGED <<tenants, request>>
  BY <1>1, <1>2, MoveGateway DEF StateOf
<1>3. CASE Exists(t) /\ Unique(t, tenants[t].spec) /\ Save(t, o)
  <2>1. tenants[t] \in AITenants
    BY <1>1, <1>3 DEF RecInv, TypeOK, Exists
  <2>2. /\ o \in AITenants /\ o.uid = tenants[t].uid /\ o.spec = tenants[t].spec
        /\ o.finalizer /\ o.status = tenants[t].status /\ o # None
    BY <2>1 DEF AITenants
  <2> HIDE DEF o
  <2>3. /\ tenants'[t] = o /\ request'[t] = None
        /\ \A s \in Names \ {t} : tenants'[s] = tenants[s] /\ request'[s] = request[s]
    BY <1>1, <1>3, <2>2, SaveFields DEF RecInv
  <2>4. /\ Held(t)' /\ \A s \in Names \ {t} : Held(s)' <=> Held(s)
        /\ \A s \in Names : Exists(s) => tenants'[s] # None /\ tenants'[s].spec = tenants[s].spec
                                         /\ Owner(s, tenants'[s]) = Owner(s, tenants[s])
    BY <1>3, <2>2, <2>3 DEF Held, Exists, Owner
  <2>5. ConfigHolds'
    BY <1>1, <2>2, <2>3 DEF GatewayInv, ConfigHolds, StateOf, Exists
  <2>6. ASSUME edits' = 0 PROVE SpecStays' /\ OneHolder' /\ NothingLeft'
    <3>1. edits = 0
      BY <1>1, <2>6 DEF StateOf
    <3>2. SpecStays'
      BY <1>1, <1>3, <2>2, <2>3, <3>1 DEF GatewayInv, SpecStays, Exists, StateOf
    <3>3. OneHolder'
      <4>1. \A s \in Names \ {t} : Held(s) => tenants[s].spec # tenants[t].spec
        BY <1>3 DEF Unique, Held
      <4> QED BY <1>1, <1>3, <2>2, <2>3, <2>4, <3>1, <4>1 DEF GatewayInv, OneHolder, StateOf, Held, Exists
    <3>4. NothingLeft'
      BY <1>1, <1>3, <2>2, <2>3, <2>4, <3>1 DEF GatewayInv, NothingLeft, StateOf, Held
    <3> QED BY <3>2, <3>3, <3>4
  <2> QED BY <2>5, <2>6 DEF GatewayInv
<1> QED BY <1>0, <1>2, <1>3 DEF AddFinalizer

LEMMA RemoveFinalizerGateway ==
    ASSUME RecInv, RecInv', GatewayInv, RemoveFinalizer PROVE GatewayInv'
<1> DEFINE t == rec.name
<1>1. rec # None /\ rec.pc = "remove" /\ t \in Names /\ rec' = None /\ UNCHANGED StateOf
  BY DEF RemoveFinalizer, At, Done, RecInv, TypeOK, resources, crs, counters, StateOf
<1>2. CASE UNCHANGED <<tenants, request>>
  BY <1>1, <1>2, MoveGateway DEF StateOf
<1>3. CASE Save(t, None)
  <2>1. /\ tenants'[t] = None /\ request'[t] = None
        /\ \A s \in Names \ {t} : tenants'[s] = tenants[s] /\ request'[s] = request[s]
    BY <1>1, <1>3, SaveFields DEF RecInv
  <2>2. \A s \in Names \ {t} : Held(s)' <=> Held(s)
    BY <2>1 DEF Held, Exists
  <2>3. config[t] = None /\ authCR[t] = None /\ writer[t] = None
    BY <1>1 DEF GatewayInv, ConfigHolds
  <2>4. ConfigHolds'
    BY <1>1, <2>1, <2>3 DEF GatewayInv, ConfigHolds, StateOf, Exists
  <2>5. ASSUME edits' = 0 PROVE SpecStays' /\ OneHolder' /\ NothingLeft'
    <3>1. edits = 0
      BY <1>1, <2>5 DEF StateOf
    <3>2. SpecStays'
      BY <1>1, <2>1, <2>3, <3>1 DEF GatewayInv, SpecStays, Exists, StateOf
    <3>3. \A g \in Gateways : policy[g] # t
      BY <1>1, <3>1 DEF GatewayInv, NothingLeft
    <3>4. tenants[t].spec \notin owners
      BY <1>1, <3>1 DEF GatewayInv, NothingLeft, SpecStays, RecInv, StepSound
    <3>5. OneHolder'
      BY <1>1, <2>1, <2>2, <3>1, <3>3 DEF GatewayInv, OneHolder, StateOf, Held, Exists
    <3>6. NothingLeft'
      BY <1>1, <2>1, <2>2, <3>1, <3>4 DEF GatewayInv, NothingLeft, StateOf
    <3> QED BY <3>2, <3>5, <3>6
  <2> QED BY <2>4, <2>5 DEF GatewayInv
<1> QED BY <1>2, <1>3 DEF RemoveFinalizer

-----------------------------------------------------------------------------
(* GatewayInv: what a Reconcile writes elsewhere                           *)

LEMMA LabelGateway ==
    ASSUME RecInv, RecInv', GatewayInv, ensureInfraNamespaceGatewayLabels PROVE GatewayInv'
<1>1. /\ rec # None /\ rec.pc = "label" /\ rec.name \in Names /\ rec.obj.finalizer
      /\ UNCHANGED <<tenants, request, claim, policy, config, authCR, writer, edits>>
      /\ owners' = owners \cup {rec.obj.spec} /\ Goto("claim")
  BY DEF ensureInfraNamespaceGatewayLabels, At, RecInv, TypeOK, StepSound, crs, counters
<1>2. rec'.name = rec.name /\ rec'.obj = rec.obj /\ rec'.pc = "claim"
  BY <1>1, GotoFields DEF RecInv, Steps
<1>3. ConfigHolds'
  BY <1>1, <1>2 DEF GatewayInv, ConfigHolds, Exists
<1>4. ASSUME edits = 0 PROVE SpecStays' /\ OneHolder' /\ NothingLeft'
  <2>1. SpecStays' /\ OneHolder'
    BY <1>1, <1>2, <1>4 DEF GatewayInv, SpecStays, OneHolder, Held, Exists, Owner
  <2>2. Held(rec.name) /\ tenants[rec.name].spec = rec.obj.spec
    BY <1>1, <1>4 DEF GatewayInv, SpecStays, RecInv, CopySound, Held
  <2>3. NothingLeft'
    BY <1>1, <1>2, <1>4, <2>2 DEF GatewayInv, NothingLeft, Held, Exists
  <2> QED BY <2>1, <2>3
<1> QED BY <1>1, <1>3, <1>4 DEF GatewayInv

LEMMA ClaimGateway ==
    ASSUME RecInv, RecInv', GatewayInv, ensureGatewayClaim PROVE GatewayInv'
<1>1. /\ rec # None /\ rec.pc = "claim" /\ rec.name \in Names /\ rec.obj.finalizer
      /\ rec.obj.spec \in Gateways
      /\ UNCHANGED <<tenants, request, policy, config, authCR, writer, owners, edits>>
      /\ Goto("stale") \/ Report("Failed")
  BY DEF ensureGatewayClaim, At, RecInv, TypeOK, AITenants, StepSound, resources, crs, counters
<1>2. rec'.name = rec.name /\ rec'.obj = rec.obj /\ rec'.pc \in {"stale", "report"}
  BY <1>1, GotoFields, ReportFields DEF RecInv, Steps, Phases
<1>3. ConfigHolds'
  BY <1>1, <1>2 DEF GatewayInv, ConfigHolds, Exists
<1>4. ASSUME edits = 0 PROVE SpecStays' /\ OneHolder' /\ NothingLeft'
  <2>1. SpecStays' /\ NothingLeft'
    BY <1>1, <1>2, <1>4 DEF GatewayInv, SpecStays, NothingLeft, Held, Exists
  <2>2. Held(rec.name) /\ tenants[rec.name].spec = rec.obj.spec
    BY <1>1, <1>4 DEF GatewayInv, SpecStays, RecInv, CopySound, Held
  <2>3. \A g \in Gateways : \/ claim'[g] = claim[g]
                            \/ g = rec.obj.spec /\ claim'[g] = Owner(rec.name, rec.obj)
    BY <1>1 DEF ensureGatewayClaim, RecInv, TypeOK
  <2>4. ASSUME NEW t \in Names, NEW g \in Gateways, Exists(t), claim'[g] = Owner(t, tenants[t])
        PROVE  tenants[t].finalizer /\ tenants[t].spec = g
    <3>1. CASE claim'[g] = claim[g]
      BY <1>4, <2>4, <3>1 DEF GatewayInv, OneHolder
    <3>2. CASE g = rec.obj.spec /\ claim'[g] = Owner(rec.name, rec.obj)
      <4>1. t = rec.name
        BY <2>4, <3>2 DEF Owner
      <4> QED BY <2>2, <3>2, <4>1 DEF Held
    <3> QED BY <2>3, <3>1, <3>2
  <2>5. OneHolder'
    BY <1>1, <1>4, <2>4 DEF GatewayInv, OneHolder, Held, Exists
  <2> QED BY <2>1, <2>5
<1> QED BY <1>1, <1>3, <1>4 DEF GatewayInv

LEMMA ConfigGateway ==
    ASSUME RecInv, RecInv', Patient, GatewayInv, ensureTenantResources \/ deleteTenantConfig
    PROVE  GatewayInv'
<1>1. /\ rec # None /\ rec.pc \in {"resources", "config"} /\ rec.name \in Names /\ rec.obj.finalizer
      /\ UNCHANGED <<tenants, request, claim, policy, authCR, writer, owners, edits>>
  BY DEF ensureTenantResources, deleteTenantConfig, At, RecInv, TypeOK, StepSound, counters
<1>2. /\ \A t \in Names \ {rec.name} : config'[t] = config[t]
      /\ config[rec.name] # None => config'[rec.name] # None
  BY <1>1 DEF ensureTenantResources, ensureTenantConfig, deleteTenantConfig, RecInv, TypeOK
<1>3. /\ rec' # None => /\ rec'.name = rec.name /\ rec'.obj = rec.obj
                        /\ rec'.pc \in {"report", "policy"}
                        /\ rec'.pc = "policy" => config'[rec.name] = None
  <2>1. CASE ensureTenantResources
    <3>1. \E p \in Phases : Report(p)
      BY <2>1 DEF ensureTenantResources, ensureTenantConfig, Phases
    <3> QED BY <1>1, <3>1, ReportFields DEF RecInv
  <2>2. CASE deleteTenantConfig
    <3>1. (config[rec.name] = None /\ config' = config /\ Goto("policy")) \/ Done
      BY <1>1, <2>2 DEF deleteTenantConfig, Patient
    <3> QED BY <1>1, <3>1, GotoFields DEF RecInv, Steps, Done
  <2> QED BY <2>1, <2>2
<1>4. Held(rec.name)
  BY <1>1 DEF RecInv, CopySound, Held
<1>5. ConfigHolds'
  BY <1>1, <1>2, <1>3, <1>4 DEF GatewayInv, ConfigHolds, Held, Exists
<1>6. ASSUME edits = 0 PROVE SpecStays' /\ OneHolder' /\ NothingLeft'
  <2>1. SpecStays' /\ OneHolder'
    BY <1>1, <1>3, <1>6 DEF GatewayInv, SpecStays, OneHolder, Held, Exists, Owner
  <2>2. NothingLeft'
    BY <1>1, <1>3, <1>6 DEF GatewayInv, NothingLeft, Held, Exists
  <2> QED BY <2>1, <2>2
<1> QED BY <1>1, <1>5, <1>6 DEF GatewayInv

LEMMA PolicyGateway ==
    ASSUME RecInv, RecInv', GatewayInv, deleteTenantGatewayAuthPolicy PROVE GatewayInv'
<1> DEFINE h == IF rec.obj.status # None THEN rec.obj.status ELSE rec.obj.spec
<1>1. /\ rec # None /\ rec.pc = "policy" /\ rec.name \in Names /\ rec.obj.finalizer
      /\ UNCHANGED <<tenants, request, claim, config, authCR, writer, owners, edits>>
      /\ policy' = [policy EXCEPT ![h] = None] /\ Goto("claims")
  BY DEF deleteTenantGatewayAuthPolicy, At, RecInv, TypeOK, StepSound, resources, crs, counters
<1>2. rec'.name = rec.name /\ rec'.obj = rec.obj /\ rec'.pc = "claims"
  BY <1>1, GotoFields DEF RecInv, Steps
<1>3. h \in Gateways /\ policy'[h] = None /\ \A g \in Gateways \ {h} : policy'[g] = policy[g]
  BY <1>1 DEF RecInv, TypeOK, AITenants
<1>4. ConfigHolds'
  BY <1>1, <1>2 DEF GatewayInv, ConfigHolds, Exists
<1>5. ASSUME edits = 0 PROVE SpecStays' /\ OneHolder' /\ NothingLeft'
  <2>1. SpecStays'
    BY <1>1, <1>2, <1>5 DEF GatewayInv, SpecStays, Exists
  <2>2. tenants[rec.name].spec = h
    BY <1>1, <1>5 DEF GatewayInv, SpecStays, RecInv, CopySound
  <2> HIDE DEF h
  <2>3. OneHolder'
    BY <1>1, <1>3, <1>5 DEF GatewayInv, OneHolder, Held, Exists, Owner
  <2>4. NothingLeft'
    BY <1>1, <1>2, <1>3, <1>5, <2>2 DEF GatewayInv, NothingLeft, OneHolder, Held, Exists
  <2> QED BY <2>1, <2>3, <2>4
<1> QED BY <1>1, <1>4, <1>5 DEF GatewayInv

LEMMA UnlabelGateway ==
    ASSUME RecInv, RecInv', GatewayInv, cleanupGatewayLabelsOnDelete PROVE GatewayInv'
<1>1. /\ rec # None /\ rec.pc = "unlabel" /\ rec.name \in Names
      /\ UNCHANGED <<tenants, request, claim, policy, config, authCR, writer, edits>>
      /\ owners' = owners \ {rec.obj.spec} /\ Goto("remove")
  BY DEF cleanupGatewayLabelsOnDelete, At, RecInv, TypeOK, crs, counters
<1>2. rec'.name = rec.name /\ rec'.obj = rec.obj /\ rec'.pc = "remove"
  BY <1>1, GotoFields DEF RecInv, Steps
<1>3. ConfigHolds'
  BY <1>1, <1>2 DEF GatewayInv, ConfigHolds, Exists
<1>4. ASSUME edits = 0 PROVE SpecStays' /\ OneHolder' /\ NothingLeft'
  BY <1>1, <1>2, <1>4 DEF GatewayInv, SpecStays, OneHolder, NothingLeft, Held, Exists, Owner
<1> QED BY <1>1, <1>3, <1>4 DEF GatewayInv

-----------------------------------------------------------------------------
(* GatewayInv: the other two controllers                                   *)

\* Who finds a gateway for a MaasTenantConfig finds the one the tenant holds.
LEMMA ContextGateway ==
    ASSUME RecInv, GatewayInv, edits = 0, NEW t \in Names, PlatformContext(t) # None
    PROVE  /\ Held(t) /\ PlatformContext(t) = tenants[t].spec
           /\ PlatformContext(t) = tenants[t].status /\ config[t] # None
BY DEF GatewayInv, ConfigHolds, SpecStays, PlatformContext, Held

LEMMA WriterGateway ==
    ASSUME RecInv, GatewayInv, edits = 0, NEW t \in Names, writer[t] # None
    PROVE  /\ Held(t) /\ writer[t].gateway = tenants[t].spec /\ writer[t].gateway \in Gateways
           /\ config[t] # None
<1>1. writer[t].gateway \in Gateways
  BY DEF RecInv, TypeOK
<1> QED BY <1>1 DEF GatewayInv, ConfigHolds, SpecStays, Held

\* A write for a tenant that has its MaasTenantConfig, on the gateway it holds
LEMMA WriteGateway ==
    ASSUME RecInv, GatewayInv, edits = 0, NEW t \in Names, Held(t), config[t] # None,
           NEW h \in Gateways, h = tenants[t].spec, policy' = [policy EXCEPT ![h] = t],
           UNCHANGED <<tenants, claim, rec, owners>>
    PROVE  OneHolder' /\ NothingLeft'
<1>1. policy'[h] = t /\ \A g \in Gateways \ {h} : policy'[g] = policy[g]
  BY DEF RecInv, TypeOK
<1>2. rec # None /\ rec.pc \in {"claims", "unlabel", "remove"} => rec.name # t
  BY DEF GatewayInv, ConfigHolds
<1>3. OneHolder'
  BY <1>1 DEF GatewayInv, OneHolder, Held, Exists, Owner
<1>4. NothingLeft'
  BY <1>1, <1>2 DEF GatewayInv, NothingLeft, Held, Exists
<1> QED BY <1>3, <1>4

LEMMA CRGateway ==
    ASSUME RecInv, GatewayInv, NEW t \in Names,
           \/ CreateAuthCR(t) \/ DeleteAuthCR(t) \/ fetchGatewayInfo(t) \/ removeTenantConfig(t)
    PROVE  GatewayInv'
<1>1. UNCHANGED <<tenants, request, claim, policy, rec, owners, edits>>
  BY DEF CreateAuthCR, DeleteAuthCR, fetchGatewayInfo, removeTenantConfig, counters
<1>2. ConfigHolds'
  BY <1>1 DEF CreateAuthCR, DeleteAuthCR, fetchGatewayInfo, removeTenantConfig, GatewayInv,
              ConfigHolds, Exists, RecInv, TypeOK
<1>3. ASSUME edits = 0 PROVE SpecStays'
  <2>1. CASE fetchGatewayInfo(t)
    <3>1. PlatformContext(t) = tenants[t].status
      BY <1>3, <2>1, ContextGateway DEF fetchGatewayInfo
    <3> DEFINE b == authCR[t] = "deleting"
               w == [gateway |-> PlatformContext(t), last |-> b]
    <3>2. writer' = [writer EXCEPT ![t] = w] /\ w.gateway = tenants[t].status
      BY <2>1, <3>1 DEF fetchGatewayInfo
    <3> HIDE DEF w
    <3>3. writer'[t] = w /\ \A s \in Names \ {t} : writer'[s] = writer[s]
      BY <3>2 DEF RecInv, TypeOK
    <3> QED BY <1>1, <1>3, <3>2, <3>3 DEF GatewayInv, SpecStays, Exists
  <2>2. CASE UNCHANGED writer
    BY <1>1, <1>3, <2>2 DEF GatewayInv, SpecStays, Exists
  <2> QED BY <2>1, <2>2 DEF CreateAuthCR, DeleteAuthCR, removeTenantConfig
<1>4. ASSUME edits = 0 PROVE OneHolder' /\ NothingLeft'
  BY <1>1, <1>4 DEF GatewayInv, OneHolder, NothingLeft, Held, Exists, Owner
<1> QED BY <1>1, <1>2, <1>3, <1>4 DEF GatewayInv

LEMMA WritersGateway ==
    ASSUME RecInv, GatewayInv, NEW t \in Names,
           reconcileGatewayAuthPolicy(t) \/ ensureGatewayManagementAuth(t)
    PROVE  GatewayInv'
<1>1. UNCHANGED <<tenants, request, claim, rec, owners, config, edits>>
  BY DEF reconcileGatewayAuthPolicy, ensureGatewayManagementAuth, resources, crs, counters
<1>2. /\ \A s \in Names \ {t} : writer'[s] = writer[s] /\ authCR'[s] = authCR[s]
      /\ \/ writer'[t] = None
         \/ writer'[t] = writer[t] /\ authCR'[t] = authCR[t]
      /\ authCR'[t] # None => authCR[t] # None
  BY DEF reconcileGatewayAuthPolicy, ensureGatewayManagementAuth, resources, crs, RecInv, TypeOK
<1>3. ConfigHolds'
  BY <1>1, <1>2 DEF GatewayInv, ConfigHolds, Exists
<1>4. ASSUME edits = 0 PROVE SpecStays'
  BY <1>1, <1>2, <1>4 DEF GatewayInv, SpecStays, Exists
<1>5. ASSUME edits = 0 PROVE OneHolder' /\ NothingLeft'
  <2>1. CASE reconcileGatewayAuthPolicy(t)
    BY <1>1, <1>5, <2>1, WriterGateway, WriteGateway DEF reconcileGatewayAuthPolicy
  <2>2. CASE ensureGatewayManagementAuth(t)
    <3>1. PlatformContext(t) # None /\ policy' = [policy EXCEPT ![PlatformContext(t)] = t]
      BY <2>2 DEF ensureGatewayManagementAuth
    <3>2. tenants[t].spec \in Gateways
      BY <1>5, <3>1, ContextGateway DEF Held, Exists, RecInv, TypeOK, AITenants
    <3> QED BY <1>1, <1>5, <3>1, <3>2, ContextGateway, WriteGateway
  <2> QED BY <2>1, <2>2
<1> QED BY <1>1, <1>3, <1>4, <1>5 DEF GatewayInv

LEMMA NextGateway ==
    ASSUME RecInv, RecInv', Uids, Patient, GatewayInv, [Next]_vars PROVE GatewayInv'
<1>1. CASE Admin
  BY <1>1, ValidateGateway, StoreGateway, DeleteGateway, CRGateway DEF Admin
<1>2. CASE Reconcile
  <2>1. ~ForceTerminate
    BY DEF ForceTerminate, At, Patient
  <2> QED BY <1>2, <2>1, GetGateway, AddFinalizerGateway, ReportsGateway, LabelGateway,
       ClaimGateway, MovesGateway, ConfigGateway, PolicyGateway, UnlabelGateway,
       RemoveFinalizerGateway DEF Reconcile
<1>3. CASE Abort \/ GatewayCheckFailed \/ LabelsFailed \/ IgnoreFailure
  <2>1. ~IgnoreFailure
    BY DEF IgnoreFailure, Patient
  <2> QED BY <1>3, <2>1, MovesGateway
<1>4. CASE (\E g \in Gateways : CollectClaim(g)) \/ UNCHANGED vars
  BY <1>4, MovesGateway
<1>5. CASE \E t \in Names :
         \/ DeadlinePasses(t) \/ DeleteAuthCR(t)
         \/ fetchGatewayInfo(t) \/ reconcileGatewayAuthPolicy(t)
         \/ ensureGatewayManagementAuth(t) \/ removeTenantConfig(t)
  BY <1>5, MovesGateway, CRGateway, WritersGateway
<1> QED BY <1>1, <1>2, <1>3, <1>4, <1>5 DEF Next

\* The inductive invariant holds in every state of every behaviour.
THEOREM Invariance == Spec => []IndInv
<1>1. Init => IndInv
  BY InitInv DEF IndInv
<1>2. IndInv /\ [Next]_vars => IndInv'
  BY NextRec, NextUids, NextPatient, NextGateway DEF IndInv
<1> QED BY <1>1, <1>2, PTL DEF Spec

-----------------------------------------------------------------------------
(* The AuthPolicy and the label of a gateway                               *)

\* Where deletions are not forced and no tenant was retargeted, every gateway
\* AuthPolicy serves an AITenant that exists: deletion takes it away and no
\* controller writes it again.
THEOREM PoliciesHaveTenants == ~DeletionTimeout => (Spec => []NoOrphanPolicy)
<1> SUFFICES ASSUME ~DeletionTimeout PROVE Spec => []NoOrphanPolicy
  OBVIOUS
<1>1. IndInv => NoOrphanPolicy
  BY DEF IndInv, GatewayInv, OneHolder, NoOrphanPolicy, Held, RecInv, TypeOK
<1> QED BY <1>1, Invariance, PTL

\* Where deletions are not forced and no tenant was retargeted, every gateway that
\* owns the label of the infrastructure namespace is named by an AITenant.
THEOREM LabelsHaveTenants == ~DeletionTimeout => (Spec => []NoOrphanLabel)
<1> SUFFICES ASSUME ~DeletionTimeout PROVE Spec => []NoOrphanLabel
  OBVIOUS
<1>1. IndInv => NoOrphanLabel
  BY DEF IndInv, GatewayInv, NothingLeft, NoOrphanLabel, Held
<1> QED BY <1>1, Invariance, PTL

\* Only a deletion takes an AuthPolicy away, and only the writers of a tenant that
\* holds the gateway write one; the gateway has one holder.
LEMMA PolicyStep ==
    ASSUME RecInv, GatewayInv, edits = 0, Next, NEW g \in Gateways, policy'[g] # policy[g],
           NEW t \in Names, Exists(t), ~tenants[t].deleting,
           claim[g] = Owner(t, tenants[t]), policy[g] = t
    PROVE  FALSE
<1>1. Held(t) /\ tenants[t].spec = g
  BY DEF GatewayInv, OneHolder, Held
<1>2. \A s \in Names : Held(s) /\ tenants[s].spec = g => s = t
  BY <1>1 DEF GatewayInv, OneHolder
<1>3. CASE deleteTenantGatewayAuthPolicy
  <2> DEFINE h == IF rec.obj.status # None THEN rec.obj.status ELSE rec.obj.spec
  <2>1. /\ rec # None /\ rec.pc = "policy" /\ rec.name \in Names
        /\ rec.obj.finalizer /\ rec.obj.deleting /\ policy' = [policy EXCEPT ![h] = None]
    BY <1>3 DEF deleteTenantGatewayAuthPolicy, At, RecInv, TypeOK, StepSound, Deleting
  <2>2. tenants[rec.name].spec = h /\ Held(rec.name) /\ tenants[rec.name].deleting
    BY <2>1 DEF GatewayInv, SpecStays, RecInv, CopySound, Held
  <2> HIDE DEF h
  <2>3. h = g
    BY <2>1 DEF RecInv, TypeOK
  <2> QED BY <1>2, <2>1, <2>2, <2>3
<1>4. ASSUME NEW s \in Names, reconcileGatewayAuthPolicy(s) PROVE FALSE
  <2>1. writer[s] # None /\ policy' = [policy EXCEPT ![writer[s].gateway] = s]
    BY <1>4 DEF reconcileGatewayAuthPolicy
  <2>2. writer[s].gateway = g /\ policy'[g] = s
    BY <2>1 DEF RecInv, TypeOK
  <2>3. s = t
    BY <1>2, <2>1, <2>2, WriterGateway
  <2> QED BY <2>2, <2>3
<1>5. ASSUME NEW s \in Names, ensureGatewayManagementAuth(s) PROVE FALSE
  BY <1>5 DEF ensureGatewayManagementAuth, RecInv, TypeOK
<1>6. CASE UNCHANGED policy
  BY <1>6
<1> QED BY <1>3, <1>4, <1>5, <1>6 DEF Next, Admin, Reconcile, Store, Delete, AddFinalizer,
      SetGatewayRef, ReportPhase, Terminate, ForceTerminate, RemoveFinalizer,
      ValidateCreate, ValidateUpdate, CreateAuthCR, Get, ensureInfraNamespaceGatewayLabels,
      ensureGatewayClaim, cleanupStaleClaims, deleteGatewayClaim,
      ensureTenantResources, ensureTenantAPIKeysRevoked, deleteTenantConfig,
      cleanupGatewayLabelsOnDelete, Abort, GatewayCheckFailed, LabelsFailed, IgnoreFailure,
      CollectClaim, DeadlinePasses, DeleteAuthCR, fetchGatewayInfo, removeTenantConfig

\* Where deletions are not forced, and until a tenant is first retargeted, nobody
\* overwrites or deletes the AuthPolicy of the tenant that has claimed the gateway.
THEOREM PolicyIsKept == ~DeletionTimeout => (Spec => PolicyKept)
<1> SUFFICES ASSUME ~DeletionTimeout PROVE Spec => PolicyKept
  OBVIOUS
<1> DEFINE A == \A g \in Gateways : policy'[g] # policy[g] /\ edits = 0 =>
         ~ \E t \in Names : /\ Exists(t) /\ ~tenants[t].deleting
                            /\ claim[g] = Owner(t, tenants[t])
                            /\ policy[g] = t
<1>1. IndInv /\ [Next]_vars => [A]_vars
  BY PolicyStep DEF IndInv, vars
<1>2. Spec => [][A]_vars
  BY <1>1, Invariance, PTL DEF Spec
<1> QED BY <1>2 DEF PolicyKept
=============================================================================
