------------------------- MODULE AuthPoliciesProofs -------------------------
(***************************************************************************)
(* The cutover is safe and a phase at rest is the right one, for any       *)
(* number of MaaSAuthPolicies and models, changes, faults and restarts.    *)
(***************************************************************************)
EXTENDS AuthPolicies, TLAPS

USE AuthPoliciesConstants, NoneAssumption

-----------------------------------------------------------------------------
(* The inductive invariant                                                 *)

\* Every OIDC configuration came by a change of its own.
OIDCCounted == oidc <= edits

\* What says that the cutover may go on is true of the past, if not of the present.
Proven ==
    /\ gateway # None /\ gateway.enforced => proven.gateway
    /\ knownGateway # None /\ knownGateway.enforced => proven.gateway
    /\ api => proven.api

\* A model of which p is an owner is one that p, whatever copy of it, references,
\* unless some edit dropped the model.
Accounted(p, o) ==
    \A m \in Models : /\ legacy[m] # None /\ p \in legacy[m]
                      /\ o = None \/ m \notin o.refs
                      => m \in dropped

\* A policy that is going has its models dropped.
GoingDrops(o) == o # None /\ o.deleting => o.refs \subseteq dropped

CopiesSound ==
    \A p \in Policies : /\ Accounted(p, policies[p]) /\ Accounted(p, known[p])
                        /\ rec[p] # None => Accounted(p, rec[p].obj)
                        /\ GoingDrops(policies[p]) /\ GoingDrops(known[p])

\* A Reconcile that does not look at the status of the gateway's AuthPolicy has
\* no model's AuthPolicy to delete; one that does began with maas-api ready, or
\* has none to delete either.
RecSafe ==
    \A p \in Policies : rec[p] # None =>
      \/ rec[p].check /\ proven.api
      \/ \A m \in rec[p].obj.refs : legacy[m] = None

\* A policy without a finalizer, or none at all, is one the controller does not know
\* of, or has in its queue, or last knew as another that was on its way out.
Unfinalized ==
    \A p \in Policies :
      /\ policies[p] = None \/ ~policies[p].finalizer =>
           \/ known[p] = None \/ known[p].deleting
           \/ ~known[p].finalizer /\ p \in queue
      /\ policies[p] # None /\ ~policies[p].finalizer => ~policies[p].deleting
      /\ rec[p] # None => rec[p].obj.finalizer

\* Of the models ms, those in missing are the missing ones, up to what the watches
\* have yet to tell.
UpToEvents(ms, missing) ==
    \A m \in ms : m \in events \/ (m \in missing <=> models[m] = "missing")

\* A Reconcile not in the queue again works with what the cache still has.
RecCurrent ==
    \A p \in Policies : rec[p] # None /\ p \notin queue =>
      /\ known[p] # None /\ known[p].refs = rec[p].obj.refs
      /\ rec[p].missing \subseteq known[p].refs
      /\ UpToEvents(known[p].refs, rec[p].missing)

\* After the last of them, the phase is the one that follows for what the cache has,
\* even if the policy was edited since.
PhaseCurrent ==
    \A p \in Policies :
      rec[p] = None /\ p \notin queue \cup lost /\ Live(known[p]) =>
        \E missing \in SUBSET known[p].refs :
          /\ policies[p].phase = deriveAuthPolicyPhase(known[p], missing)
          /\ UpToEvents(known[p].refs, missing)

IndInv ==
    /\ TypeOK /\ OIDCCounted
    /\ Proven /\ CopiesSound /\ RecSafe /\ CutoverSafe
    /\ Unfinalized /\ RecCurrent /\ PhaseCurrent

-----------------------------------------------------------------------------
(* Who writes what                                                         *)

\* A Reconcile, or somebody else, writes the policy p itself.
PolicyWritten(p) ==
    \/ Create(p) \/ EditSpec(p) \/ Delete(p) \/ WaitForApi(p) \/ Begin(p)
    \/ WaitForGateway(p) \/ Finish(p) \/ handleDeletion(p)

QueueWritten(p) ==
    \/ Sync(p) \/ Forget(p) \/ Begin(p) \/ WaitForGateway(p) \/ handleDeletion(p)

LEMMA Writers ==
    ASSUME [Next]_vars
    PROVE  /\ policies' = policies \/ \E p \in Policies : PolicyWritten(p)
           /\ known' = known \/ Restart \/ \E p \in Policies : Sync(p)
           /\ gateway' = gateway \/ KuadrantEnforces \/ KuadrantFails
                \/ ensureBaseGatewayAuthPolicy
                \/ \E p \in Policies : Begin(p) \/ handleDeletion(p)
           /\ knownGateway' = knownGateway \/ SyncGateway \/ Restart
           /\ \/ legacy' = legacy /\ early' = early
              \/ \E p \in Policies : Finish(p) \/ handleDeletion(p)
           /\ models' = models \/ \E m \in Models : ModelChanges(m)
           /\ oidc' = oidc \/ OIDCChanges
           /\ api' = api \/ ApiReady \/ ApiDown
           /\ queue' = queue \/ Restart \/ (\E p \in Policies : QueueWritten(p))
                \/ \E e \in Models \cup {None} : Deliver(e)
           /\ events' = events \/ Restart \/ OIDCChanges \/ (\E m \in Models : ModelChanges(m))
                \/ \E e \in Models \cup {None} : Deliver(e)
           /\ rec' = rec \/ Restart
                \/ \E p \in Policies : Begin(p) \/ WaitForGateway(p) \/ Finish(p)
           /\ lost' = lost
                \/ \E p \in Policies : WaitForApi(p) \/ WaitForGateway(p) \/ Finish(p)
           /\ proven' = proven \/ ApiReady \/ KuadrantEnforces \/ KuadrantFails
           /\ dropped' = dropped \/ \E p \in Policies : EditSpec(p) \/ Delete(p)
           /\ edits' = edits \/ Edit
<1> USE DEF PolicyWritten, QueueWritten, cluster, caches, history
<1>1. CASE \E p \in Policies : Create(p) \/ EditSpec(p) \/ Delete(p) \/ Sync(p)
  BY <1>1 DEF Create, EditSpec, Delete, Sync
<1>2. CASE \E p \in Policies : Forget(p) \/ WaitForApi(p) \/ Begin(p)
  BY <1>2 DEF Forget, WaitForApi, Begin
<1>3. CASE \E p \in Policies : WaitForGateway(p) \/ Finish(p) \/ handleDeletion(p)
  BY <1>3 DEF WaitForGateway, Finish, handleDeletion
<1>4. CASE \/ (\E m \in Models : ModelChanges(m)) \/ (\E e \in Models \cup {None} : Deliver(e))
           \/ OIDCChanges \/ ApiReady \/ ApiDown
  BY <1>4 DEF ModelChanges, Deliver, OIDCChanges, ApiReady, ApiDown
<1>5. CASE KuadrantEnforces \/ KuadrantFails
  BY <1>5 DEF KuadrantEnforces, KuadrantFails, Enforce
<1>6. CASE SyncGateway \/ ensureBaseGatewayAuthPolicy \/ Restart
  BY <1>6 DEF SyncGateway, ensureBaseGatewayAuthPolicy, Restart
<1>7. CASE UNCHANGED vars
  BY <1>7 DEF vars
<1> QED BY <1>1, <1>2, <1>3, <1>4, <1>5, <1>6, <1>7 DEF Next, Reconcile

-----------------------------------------------------------------------------
(* What becomes of one policy                                              *)

\* What a status write leaves
LEMMA StatusWritten ==
    ASSUME TypeOK, NEW p \in Policies, NEW o \in MaaSAuthPolicy, NEW phase \in Phases,
           updateStatus(p, o, phase)
    PROVE  /\ policies' \in [Policies -> MaaSAuthPolicy \cup {None}]
           /\ \A q \in Policies : q # p => policies'[q] = policies[q]
           /\ policies[p] = None => policies'[p] = None
           /\ policies[p] # None =>
                /\ policies'[p] # None
                /\ policies'[p].refs = policies[p].refs
                /\ policies'[p].deleting = policies[p].deleting
                /\ policies'[p].finalizer = policies[p].finalizer
           /\ lost' \subseteq Policies
           /\ \A q \in Policies : q # p => (q \in lost' <=> q \in lost)
           /\ p \notin lost' => policies'[p] = None \/ policies'[p].phase = phase
<1>1. CASE policies' = policies
  BY <1>1 DEF updateStatus, TypeOK
<1>2. CASE policies[p] \in MaaSAuthPolicy
  <2>1. [policies[p] EXCEPT !.phase = phase] \in MaaSAuthPolicy
    BY <1>2 DEF MaaSAuthPolicy
  <2>2. policies' = policies \/ policies' = [policies EXCEPT ![p].phase = phase]
    BY DEF updateStatus
  <2>3. /\ [policies[p] EXCEPT !.phase = phase].refs = policies[p].refs
        /\ [policies[p] EXCEPT !.phase = phase].deleting = policies[p].deleting
        /\ [policies[p] EXCEPT !.phase = phase].finalizer = policies[p].finalizer
        /\ [policies[p] EXCEPT !.phase = phase].phase = phase
    BY <1>2 DEF MaaSAuthPolicy
  <2>4. CASE policies' = [policies EXCEPT ![p].phase = phase]
    <3>1. policies' = [policies EXCEPT ![p] = [policies[p] EXCEPT !.phase = phase]]
      BY <2>4
    <3>2. policies'[p] = [policies[p] EXCEPT !.phase = phase]
      BY <3>1 DEF TypeOK
    <3>3. policies'[p] # None /\ policies' \in [Policies -> MaaSAuthPolicy \cup {None}]
      BY <2>1, <3>1, <3>2 DEF TypeOK
    <3>4. lost' = lost \ {p}
      BY <2>3, <3>2 DEF updateStatus
    <3> QED BY <1>2, <2>3, <3>1, <3>2, <3>3, <3>4 DEF TypeOK
  <2> QED BY <1>1, <2>2, <2>4
<1>3. CASE policies[p] = None /\ policies' # policies
  BY <1>3 DEF updateStatus
<1> QED BY <1>1, <1>2, <1>3 DEF TypeOK

\* The phase that follows is one.
LEMMA PhaseFollows ==
    ASSUME NEW o, NEW missing PROVE deriveAuthPolicyPhase(o, missing) \in Phases
BY DEF deriveAuthPolicyPhase, Phases

\* A step that writes p: what it makes of it
Created(p) ==
    /\ Create(p) /\ policies[p] = None /\ policies'[p] # None
    /\ ~policies'[p].finalizer /\ ~policies'[p].deleting

Removed(p) ==
    /\ policies[p] # None /\ policies'[p] = None
    /\ \/ Delete(p) /\ ~policies[p].finalizer
       \/ handleDeletion(p) /\ known[p] = policies[p] /\ policies[p].deleting

Modified(p) ==
    /\ policies[p] # None /\ policies'[p] # None
    /\ policies'[p].refs = policies[p].refs \/ EditSpec(p)
    /\ policies'[p].deleting = policies[p].deleting \/ (Delete(p) /\ policies[p].finalizer)
    /\ \/ policies'[p].finalizer = policies[p].finalizer
       \/ policies'[p].finalizer /\ known[p] = policies[p]
    /\ \/ policies'[p].phase = policies[p].phase
       \/ WaitForApi(p) \/ WaitForGateway(p) \/ Finish(p)

LEMMA OnePolicy ==
    ASSUME TypeOK, NEW p \in Policies, PolicyWritten(p)
    PROVE  /\ policies' \in [Policies -> MaaSAuthPolicy \cup {None}]
           /\ \A q \in Policies : q # p => policies'[q] = policies[q]
           /\ policies'[p] = policies[p] \/ Created(p) \/ Removed(p) \/ Modified(p)
<1>0. policies \in [Policies -> MaaSAuthPolicy \cup {None}]
  BY DEF TypeOK
<1>1. CASE Create(p)
  <2>1. PICK refs \in Refs : policies' = [policies EXCEPT ![p] =
          [refs |-> refs, phase |-> None, finalizer |-> FALSE, deleting |-> FALSE]]
    BY <1>1 DEF Create
  <2> DEFINE n == [refs |-> refs, phase |-> None, finalizer |-> FALSE, deleting |-> FALSE]
  <2>2. n \in MaaSAuthPolicy /\ ~n.finalizer /\ ~n.deleting
    BY DEF MaaSAuthPolicy, Phases
  <2>3. policies' = [policies EXCEPT ![p] = n]
    BY <2>1
  <2> HIDE DEF n
  <2>4. policies'[p] = n /\ n # None
    BY <1>0, <2>2, <2>3
  <2> QED BY <1>0, <1>1, <2>2, <2>3, <2>4 DEF Created, Create
<1>2. CASE EditSpec(p)
  <2>1. PICK refs \in Refs : policies' = [policies EXCEPT ![p].refs = refs]
    BY <1>2 DEF EditSpec
  <2>2. policies[p] \in MaaSAuthPolicy
    BY <1>0, <1>2 DEF EditSpec, Live
  <2> DEFINE n == [policies[p] EXCEPT !.refs = refs]
  <2>3. /\ n \in MaaSAuthPolicy /\ n.deleting = policies[p].deleting
        /\ n.finalizer = policies[p].finalizer /\ n.phase = policies[p].phase
    BY <2>2 DEF MaaSAuthPolicy
  <2>4. policies' = [policies EXCEPT ![p] = n]
    BY <2>1
  <2> HIDE DEF n
  <2>5. policies'[p] = n /\ n # None /\ policies[p] # None
    BY <1>0, <2>2, <2>3, <2>4
  <2> QED BY <1>0, <1>2, <2>3, <2>4, <2>5 DEF Modified
<1>3. CASE Delete(p)
  <2>2. policies[p] \in MaaSAuthPolicy /\ policies[p] # None
    BY <1>0, <1>3 DEF Delete, Live
  <2> DEFINE n == [policies[p] EXCEPT !.deleting = TRUE]
  <2>3. /\ n \in MaaSAuthPolicy /\ n.refs = policies[p].refs
        /\ n.finalizer = policies[p].finalizer /\ n.phase = policies[p].phase
    BY <2>2 DEF MaaSAuthPolicy
  <2>4. policies' = [policies EXCEPT ![p] = IF policies[p].finalizer THEN n ELSE None]
    BY <1>3 DEF Delete
  <2> HIDE DEF n
  <2>5. policies'[p] = (IF policies[p].finalizer THEN n ELSE None) /\ n # None
    BY <1>0, <2>3, <2>4
  <2> QED BY <1>0, <1>3, <2>2, <2>3, <2>4, <2>5 DEF Modified, Removed
<1>4. CASE WaitForApi(p)
  <2> DEFINE n == [Finalized(known[p]) EXCEPT !.phase = "Pending"]
  <2>1. policies' = policies \/ (policies' = [policies EXCEPT ![p] = n] /\ known[p] = policies[p])
    BY <1>4 DEF WaitForApi
  <2>2. policies[p] \in MaaSAuthPolicy \/ policies' = policies
    BY <1>0, <1>4, <2>1 DEF WaitForApi, Live
  <2>3. known[p] = policies[p] /\ policies[p] \in MaaSAuthPolicy =>
          /\ n \in MaaSAuthPolicy /\ n.refs = policies[p].refs
          /\ n.finalizer /\ n.deleting = policies[p].deleting
    BY DEF MaaSAuthPolicy, Finalized, Phases
  <2> HIDE DEF n
  <2>4. CASE policies' # policies
    <3>1. policies'[p] = n /\ n # None /\ policies[p] # None
      BY <1>0, <2>1, <2>2, <2>3, <2>4
    <3> QED BY <1>0, <1>4, <2>1, <2>2, <2>3, <2>4, <3>1 DEF Modified
  <2> QED BY <1>0, <2>4
<1>5. CASE Begin(p)
  <2> DEFINE n == Finalized(known[p])
  <2>1. policies' = policies \/ (policies' = [policies EXCEPT ![p] = n] /\ known[p] = policies[p])
    BY <1>5 DEF Begin
  <2>2. policies[p] \in MaaSAuthPolicy \/ policies' = policies
    BY <1>0, <1>5, <2>1 DEF Begin, Live
  <2>3. known[p] = policies[p] /\ policies[p] \in MaaSAuthPolicy =>
          /\ n \in MaaSAuthPolicy /\ n.refs = policies[p].refs /\ n.phase = policies[p].phase
          /\ n.finalizer /\ n.deleting = policies[p].deleting
    BY DEF MaaSAuthPolicy, Finalized
  <2> HIDE DEF n
  <2>4. CASE policies' # policies
    <3>1. policies'[p] = n /\ n # None /\ policies[p] # None
      BY <1>0, <2>1, <2>2, <2>3, <2>4
    <3> QED BY <1>0, <2>1, <2>2, <2>3, <2>4, <3>1 DEF Modified
  <2> QED BY <1>0, <2>4
<1>6. CASE WaitForGateway(p) \/ Finish(p)
  <2>1. PICK phase \in Phases : updateStatus(p, rec[p].obj, phase) /\ rec[p].obj \in MaaSAuthPolicy
    <3>1. rec[p].obj \in MaaSAuthPolicy
      BY <1>6 DEF WaitForGateway, Finish, TypeOK, Reconciliation
    <3> QED BY <1>6, <3>1, PhaseFollows DEF WaitForGateway, Finish, Phases
  <2> QED BY <1>6, <2>1, StatusWritten DEF Modified
<1>7. CASE handleDeletion(p)
  <2>1. policies' = policies
        \/ (policies' = [policies EXCEPT ![p] = None] /\ known[p] = policies[p])
    BY <1>7 DEF handleDeletion
  <2>2. known[p] # None /\ known[p].deleting
    BY <1>7 DEF handleDeletion
  <2> QED BY <1>0, <1>7, <2>1, <2>2 DEF Removed
<1> QED BY <1>1, <1>2, <1>3, <1>4, <1>5, <1>6, <1>7 DEF PolicyWritten

\* A copy that begins with a known one
LEMMA FinalizedType ==
    ASSUME NEW o \in MaaSAuthPolicy
    PROVE  /\ Finalized(o) \in MaaSAuthPolicy /\ Finalized(o).finalizer
           /\ Finalized(o).refs = o.refs /\ Finalized(o).deleting = o.deleting
BY DEF Finalized, MaaSAuthPolicy

\* The Reconcile that Begin starts
LEMMA Begun ==
    ASSUME TypeOK, NEW p \in Policies, Begin(p)
    PROVE  /\ known[p] \in MaaSAuthPolicy /\ known[p] # None /\ ~known[p].deleting
           /\ rec' \in [Policies -> Reconciliation \cup {None}]
           /\ \A q \in Policies : q # p => rec'[q] = rec[q]
           /\ rec' # rec =>
                /\ rec'[p] # None /\ ~GatewayConflict
                /\ rec'[p].obj = Finalized(known[p])
                /\ rec'[p].missing = findMissingModelRefs(Finalized(known[p]))
                /\ hasLegacyModelAuthPolicy => rec'[p].check
<1>1. known[p] \in MaaSAuthPolicy /\ known[p] # None /\ ~known[p].deleting
  BY DEF Begin, Live, TypeOK
<1> DEFINE o == Finalized(known[p])
           missing == findMissingModelRefs(o)
           check == GatewayDiffers \/ hasLegacyModelAuthPolicy \/ o.phase # "Active"
           n == [obj |-> o, missing |-> missing, check |-> check]
<1>2. o \in MaaSAuthPolicy
  BY <1>1, FinalizedType
<1>3. missing \in SUBSET Models
  BY <1>2 DEF findMissingModelRefs, MaaSAuthPolicy, Refs
<1>4. check \in BOOLEAN /\ (hasLegacyModelAuthPolicy => check)
  BY DEF hasLegacyModelAuthPolicy, GatewayDiffers
<1>5. rec' = IF GatewayConflict THEN rec ELSE [rec EXCEPT ![p] = n]
  BY DEF Begin
<1> HIDE DEF o, missing, check
<1>6. n \in Reconciliation /\ n.obj = o /\ n.missing = missing /\ n.check = check
  BY <1>2, <1>3, <1>4 DEF Reconciliation
<1> HIDE DEF n
<1>7. n # None
  BY <1>6
<1>8. rec' # rec => rec'[p] = n /\ ~GatewayConflict
  BY <1>5 DEF TypeOK
<1>9. rec' \in [Policies -> Reconciliation \cup {None}] /\ \A q \in Policies : q # p => rec'[q] = rec[q]
  BY <1>5, <1>6 DEF TypeOK
<1> QED BY <1>1, <1>4, <1>6, <1>7, <1>8, <1>9 DEF o, missing

LEMMA Pointwise ==
    ASSUME TypeOK, [Next]_vars, NEW p \in Policies
    PROVE  /\ \/ policies'[p] = policies[p]
              \/ PolicyWritten(p) /\ (Created(p) \/ Removed(p) \/ Modified(p))
           /\ known'[p] = known[p] \/ Sync(p) \/ Restart
           /\ rec'[p] = rec[p] \/ Begin(p) \/ WaitForGateway(p) \/ Finish(p) \/ Restart
           /\ (p \in queue' <=> p \in queue) \/ QueueWritten(p) \/ Restart
                \/ \E e \in Models \cup {None} : Deliver(e)
           /\ (p \in lost' <=> p \in lost) \/ WaitForApi(p) \/ WaitForGateway(p) \/ Finish(p)
<1>1. \/ policies'[p] = policies[p]
      \/ PolicyWritten(p) /\ (Created(p) \/ Removed(p) \/ Modified(p))
  <2>1. ASSUME NEW q \in Policies, PolicyWritten(q), policies'[p] # policies[p]
        PROVE  PolicyWritten(p) /\ (Created(p) \/ Removed(p) \/ Modified(p))
    BY <2>1, OnePolicy
  <2> QED BY <2>1, Writers
<1>2. known'[p] = known[p] \/ Sync(p) \/ Restart
  <2>1. ASSUME NEW q \in Policies, Sync(q), q # p PROVE known'[p] = known[p]
    BY <2>1 DEF Sync, TypeOK
  <2> QED BY <2>1, Writers
<1>3. rec'[p] = rec[p] \/ Begin(p) \/ WaitForGateway(p) \/ Finish(p) \/ Restart
  <2>1. ASSUME NEW q \in Policies, Begin(q) \/ WaitForGateway(q) \/ Finish(q), q # p
        PROVE  rec'[p] = rec[p]
    <3>1. CASE Begin(q)
      BY <2>1, <3>1, Begun
    <3>2. CASE WaitForGateway(q) \/ Finish(q)
      BY <2>1, <3>2 DEF WaitForGateway, Finish, Requeue, TypeOK
    <3> QED BY <2>1, <3>1, <3>2
  <2> QED BY <2>1, Writers
<1>4. (p \in queue' <=> p \in queue) \/ QueueWritten(p) \/ Restart
      \/ \E e \in Models \cup {None} : Deliver(e)
  <2>1. ASSUME NEW q \in Policies, QueueWritten(q), q # p PROVE p \in queue' <=> p \in queue
    BY <2>1 DEF QueueWritten, Sync, Forget, Begin, WaitForGateway, Requeue, handleDeletion
  <2> QED BY <2>1, Writers
<1>5. (p \in lost' <=> p \in lost) \/ WaitForApi(p) \/ WaitForGateway(p) \/ Finish(p)
  <2>1. ASSUME NEW q \in Policies, WaitForApi(q) \/ WaitForGateway(q) \/ Finish(q), q # p
        PROVE  p \in lost' <=> p \in lost
    BY <2>1 DEF WaitForApi, WaitForGateway, Finish, updateStatus
  <2> QED BY <2>1, Writers
<1> QED BY <1>1, <1>2, <1>3, <1>4, <1>5

\* AuthPolicies of models only go, and what was dropped stays so.
LEMMA OnlyLess ==
    ASSUME TypeOK, [Next]_vars
    PROVE  /\ legacy' \in [Models -> (SUBSET Policies) \cup {None}]
           /\ \A m \in Models : legacy'[m] = legacy[m] \/ legacy'[m] = None
           /\ dropped \subseteq dropped'
<1>1. \A m \in Models : legacy'[m] = legacy[m] \/ legacy'[m] = None
  BY Writers DEF Finish, handleDeletion, deleteModelAuthPolicies, TypeOK
<1>2. legacy' \in [Models -> (SUBSET Policies) \cup {None}]
  BY <1>1, Writers DEF Finish, handleDeletion, deleteModelAuthPolicies, TypeOK
<1>3. dropped \subseteq dropped'
  BY Writers DEF EditSpec, Delete
<1> QED BY <1>1, <1>2, <1>3

-----------------------------------------------------------------------------
(* Types                                                                   *)

LEMMA GatewayType ==
    ASSUME TypeOK, [Next]_vars
    PROVE  gateway' \in AuthPolicy \cup {None} /\ knownGateway' \in AuthPolicy \cup {None}
<1>0. 0 \in 0..MaxEdits
  OBVIOUS
<1>1. ASSUME reconcileGatewayAuthPolicy PROVE gateway' \in AuthPolicy \cup {None}
  <2> DEFINE e == gateway # None /\ gateway.enforced
             n == [spec |-> fetchOIDCConfig, observed |-> FALSE, enforced |-> e]
  <2>1. e \in BOOLEAN
    BY DEF TypeOK, AuthPolicy
  <2>2. gateway' = gateway \/ gateway' = n
    BY <1>1 DEF reconcileGatewayAuthPolicy
  <2> HIDE DEF e
  <2>3. n \in AuthPolicy
    BY <2>1 DEF AuthPolicy, fetchOIDCConfig, TypeOK
  <2> QED BY <2>2, <2>3 DEF TypeOK
<1>2. gateway' \in AuthPolicy \cup {None}
  <2>2. CASE \E p \in Policies : Begin(p) \/ handleDeletion(p)
    <3>1. reconcileGatewayAuthPolicy \/ gateway' = gateway
      BY <2>2 DEF Begin, handleDeletion
    <3> QED BY <1>1, <3>1 DEF TypeOK
  <2>3. CASE KuadrantEnforces \/ KuadrantFails
    <3>1. PICK ok \in BOOLEAN : Enforce(ok)
      BY <2>3 DEF KuadrantEnforces, KuadrantFails
    <3> QED BY <3>1 DEF Enforce, TypeOK, AuthPolicy
  <2>4. CASE ensureBaseGatewayAuthPolicy
    <3>1. PICK s \in {0, oidc} : gateway' = [spec |-> s, observed |-> FALSE, enforced |-> FALSE]
      BY <2>4 DEF ensureBaseGatewayAuthPolicy
    <3>2. s \in 0..MaxEdits
      BY <1>0 DEF TypeOK
    <3> QED BY <3>1, <3>2 DEF AuthPolicy
  <2> QED BY <2>2, <2>3, <2>4, Writers DEF TypeOK
<1> QED BY <1>2, Writers DEF SyncGateway, Restart, TypeOK

LEMMA NextType ==
    ASSUME TypeOK, OIDCCounted, [Next]_vars PROVE TypeOK' /\ OIDCCounted'
<1>1. policies' \in [Policies -> MaaSAuthPolicy \cup {None}]
  BY OnePolicy, Writers DEF TypeOK
<1>2. known' \in [Policies -> MaaSAuthPolicy \cup {None}]
  BY Writers DEF TypeOK, Sync, Restart
<1>3. models' \in [Models -> {"missing", "unrouted", "routed"}]
  BY Writers DEF TypeOK, ModelChanges
<1>4. edits' \in 0..MaxEdits /\ oidc' \in 0..MaxEdits /\ oidc' <= edits'
  <2>1. edits' = edits \/ (edits' = edits + 1 /\ edits < MaxEdits)
    BY Writers DEF Edit
  <2>2. oidc' = oidc \/ (oidc' = oidc + 1 /\ edits' = edits + 1)
    BY Writers DEF OIDCChanges, Edit
  <2> QED BY <2>1, <2>2 DEF TypeOK, OIDCCounted
<1>5. api' \in BOOLEAN
  BY Writers DEF ApiReady, ApiDown, TypeOK
<1>6. queue' \subseteq Policies
  BY Writers DEF QueueWritten, Sync, Forget, Begin, WaitForGateway, Requeue, handleDeletion,
     Restart, Deliver, Referencing, TypeOK
<1>7. lost' \subseteq Policies
  <2>1. ASSUME NEW p \in Policies, WaitForApi(p) \/ WaitForGateway(p) \/ Finish(p)
        PROVE  lost' \subseteq lost \cup {p}
    BY <2>1 DEF WaitForApi, WaitForGateway, Finish, updateStatus
  <2> QED BY <2>1, Writers DEF TypeOK
<1>8. events' \subseteq Models \cup {None}
  BY Writers DEF Restart, OIDCChanges, ModelChanges, Deliver, TypeOK
<1>9. rec' \in [Policies -> Reconciliation \cup {None}]
  BY Begun, Writers DEF Restart, WaitForGateway, Requeue, Finish, TypeOK
<1>10. proven' \in [gateway : BOOLEAN, api : BOOLEAN]
  <2>1. CASE ApiReady
    BY <2>1 DEF ApiReady, TypeOK
  <2>2. ASSUME NEW ok \in BOOLEAN, Enforce(ok) PROVE proven' \in [gateway : BOOLEAN, api : BOOLEAN]
    <3> DEFINE b == proven.gateway \/ ok
    <3>1. proven' = [proven EXCEPT !.gateway = b] /\ b \in BOOLEAN
      BY <2>2 DEF Enforce
    <3> HIDE DEF b
    <3> QED BY <3>1 DEF TypeOK
  <2> QED BY <2>1, <2>2, Writers DEF KuadrantEnforces, KuadrantFails, TypeOK
<1>11. early' \subseteq Models
  <2>1. ASSUME NEW p \in Policies, Finish(p) PROVE rec[p].obj.refs \subseteq Models
    BY <2>1 DEF Finish, TypeOK, Reconciliation, MaaSAuthPolicy, Refs
  <2>2. ASSUME NEW p \in Policies, handleDeletion(p) PROVE known[p].refs \subseteq Models
    BY <2>2 DEF handleDeletion, TypeOK, MaaSAuthPolicy, Refs
  <2> QED BY <2>1, <2>2, Writers DEF Finish, handleDeletion, deleteModelAuthPolicies, Obsolete,
             cleanupStaleAuthPolicies, TypeOK
<1>12. dropped' \subseteq Models
  BY Writers DEF EditSpec, Delete, Live, TypeOK, MaaSAuthPolicy, Refs
<1> QED BY <1>1, <1>2, <1>3, <1>4, <1>5, <1>6, <1>7, <1>8, <1>9, <1>10, <1>11, <1>12,
           GatewayType, OnlyLess DEF TypeOK, OIDCCounted

-----------------------------------------------------------------------------
(* The cutover is safe                                                     *)

\* What was proven stays proven.
LEMMA ProvenStays ==
    ASSUME TypeOK, [Next]_vars
    PROVE  (proven.gateway => proven'.gateway) /\ (proven.api => proven'.api)
<1>1. CASE ApiReady
  BY <1>1 DEF ApiReady, TypeOK
<1>2. ASSUME NEW ok \in BOOLEAN, Enforce(ok)
      PROVE  (proven.gateway => proven'.gateway) /\ (proven.api => proven'.api)
  <2> DEFINE b == proven.gateway \/ ok
  <2>1. proven' = [proven EXCEPT !.gateway = b]
    BY <1>2 DEF Enforce
  <2>2. proven.gateway => b
    OBVIOUS
  <2> HIDE DEF b
  <2> QED BY <2>1, <2>2 DEF TypeOK
<1> QED BY <1>1, <1>2, Writers DEF KuadrantEnforces, KuadrantFails

LEMMA NextProven ==
    ASSUME TypeOK, Proven, [Next]_vars PROVE Proven'
<1>1. ASSUME gateway' # None, gateway'.enforced PROVE proven'.gateway
  <2>1. ASSUME NEW ok \in BOOLEAN, Enforce(ok) PROVE proven'.gateway
    <3> DEFINE b == proven.gateway \/ ok
    <3>1. proven' = [proven EXCEPT !.gateway = b]
      BY <2>1 DEF Enforce
    <3>2. gateway'.enforced = ok
      BY <2>1 DEF Enforce, TypeOK, AuthPolicy
    <3>3. b
      BY <1>1, <3>2
    <3> HIDE DEF b
    <3> QED BY <3>1, <3>3 DEF TypeOK
  <2>2. CASE \E p \in Policies : Begin(p) \/ handleDeletion(p)
    <3>1. reconcileGatewayAuthPolicy \/ gateway' = gateway
      BY <2>2 DEF Begin, handleDeletion
    <3> DEFINE e == gateway # None /\ gateway.enforced
               n == [spec |-> fetchOIDCConfig, observed |-> FALSE, enforced |-> e]
    <3>2. gateway' = gateway \/ gateway' = n
      BY <3>1 DEF reconcileGatewayAuthPolicy
    <3>3. e => proven.gateway
      BY DEF Proven
    <3>4. gateway' = gateway => e
      BY <1>1
    <3> HIDE DEF e
    <3>5. e
      BY <1>1, <3>2, <3>4
    <3> QED BY <3>3, <3>5, ProvenStays
  <2>3. ~ensureBaseGatewayAuthPolicy
    BY <1>1 DEF ensureBaseGatewayAuthPolicy
  <2>4. CASE gateway' = gateway
    BY <1>1, <2>4, ProvenStays DEF Proven
  <2> QED BY <2>1, <2>2, <2>3, <2>4, Writers DEF KuadrantEnforces, KuadrantFails
<1>2. ASSUME knownGateway' # None, knownGateway'.enforced PROVE proven'.gateway
  BY <1>2, ProvenStays, Writers DEF Proven, SyncGateway, Restart
<1>3. ASSUME api' PROVE proven'.api
  BY <1>3, ProvenStays, Writers DEF Proven, ApiReady, ApiDown, TypeOK
<1> QED BY <1>1, <1>2, <1>3 DEF Proven

\* Fewer owners and more dropped models leave a copy that was accounted for so.
LEMMA AccountedStays ==
    ASSUME TypeOK, [Next]_vars, NEW p \in Policies, NEW o, Accounted(p, o)
    PROVE  \A m \in Models : /\ legacy'[m] # None /\ p \in legacy'[m]
                             /\ o = None \/ m \notin o.refs
                             => m \in dropped'
BY OnlyLess DEF Accounted

\* A Reconcile under way is the one there was, or has just begun.
LEMMA RecBegun ==
    ASSUME TypeOK, [Next]_vars, NEW p \in Policies, rec'[p] # None
    PROVE  rec'[p] = rec[p] \/ (Begin(p) /\ rec' # rec)
<1>1. ~Restart
  BY DEF Restart
<1>2. ~WaitForGateway(p) /\ ~Finish(p)
  <2>1. ~(rec' = [rec EXCEPT ![p] = None])
    BY DEF TypeOK
  <2> QED BY <2>1 DEF WaitForGateway, Finish, Requeue
<1> QED BY <1>1, <1>2, Pointwise

LEMMA NextCopies ==
    ASSUME TypeOK, CopiesSound, [Next]_vars PROVE CopiesSound'
<1> SUFFICES ASSUME NEW p \in Policies
             PROVE  /\ Accounted(p, policies[p])' /\ Accounted(p, known[p])'
                    /\ (rec[p] # None => Accounted(p, rec[p].obj))'
                    /\ GoingDrops(policies[p])' /\ GoingDrops(known[p])'
  BY DEF CopiesSound
<1>0. /\ Accounted(p, policies[p]) /\ Accounted(p, known[p])
      /\ rec[p] # None => Accounted(p, rec[p].obj)
      /\ GoingDrops(policies[p]) /\ GoingDrops(known[p])
  BY DEF CopiesSound
<1>1. Accounted(p, policies[p])' /\ GoingDrops(policies[p])'
  <2>1. CASE policies'[p] = policies[p]
    BY <1>0, <2>1, AccountedStays, OnlyLess DEF Accounted, GoingDrops
  <2>2. CASE Created(p)
    BY <1>0, <2>2, AccountedStays DEF Created, Accounted, GoingDrops
  <2>3. CASE Removed(p)
    <3>1. policies[p].refs \subseteq dropped'
      BY <1>0, <2>3, OnlyLess DEF Removed, GoingDrops, Delete
    <3> QED BY <1>0, <2>3, <3>1, AccountedStays DEF Removed, Accounted, GoingDrops
  <2>4. CASE Modified(p)
    <3>1. CASE EditSpec(p)
      <4>1. policies[p].refs \ policies'[p].refs \subseteq dropped'
        BY <3>1 DEF EditSpec, TypeOK, MaaSAuthPolicy, Live
      <4>2. ~policies'[p].deleting
        BY <2>4, <3>1 DEF Modified, EditSpec, Delete, Live, TypeOK
      <4> QED BY <1>0, <2>4, <4>1, <4>2, AccountedStays DEF Modified, Accounted, GoingDrops
    <3>2. CASE ~EditSpec(p)
      <4>1. policies'[p].refs = policies[p].refs
        BY <2>4, <3>2 DEF Modified
      <4>2. policies'[p].deleting => policies[p].refs \subseteq dropped'
        BY <1>0, <2>4, OnlyLess DEF Modified, Delete, GoingDrops
      <4> QED BY <1>0, <2>4, <4>1, <4>2, AccountedStays DEF Modified, Accounted, GoingDrops
    <3> QED BY <3>1, <3>2
  <2> QED BY <2>1, <2>2, <2>3, <2>4, Pointwise
<1>2. Accounted(p, known[p])' /\ GoingDrops(known[p])'
  <2>1. known'[p] = known[p] \/ known'[p] = policies[p]
    BY Pointwise DEF Sync, Restart, TypeOK
  <2> QED BY <1>0, <2>1, AccountedStays, OnlyLess DEF Accounted, GoingDrops
<1>3. ASSUME rec'[p] # None PROVE Accounted(p, rec[p].obj)'
  <2>1. \/ rec'[p] = rec[p]
        \/ Begin(p) /\ known[p] \in MaaSAuthPolicy /\ rec'[p].obj = Finalized(known[p])
    BY <1>3, RecBegun, Begun
  <2>2. CASE rec'[p] = rec[p]
    BY <1>0, <1>3, <2>2, AccountedStays DEF Accounted
  <2>3. CASE known[p] \in MaaSAuthPolicy /\ rec'[p].obj = Finalized(known[p])
    <3>1. rec'[p].obj.refs = known[p].refs /\ known[p] # None /\ rec'[p].obj # None
      <4>1. Finalized(known[p]) \in MaaSAuthPolicy /\ Finalized(known[p]).refs = known[p].refs
        BY <2>3, FinalizedType
      <4> QED BY <2>3, <4>1
    <3> QED BY <1>0, <3>1, AccountedStays DEF Accounted
  <2> QED BY <2>1, <2>2, <2>3
<1> QED BY <1>1, <1>2, <1>3

LEMMA NextRecSafe ==
    ASSUME TypeOK, Proven, RecSafe, [Next]_vars PROVE RecSafe'
<1> SUFFICES ASSUME NEW p \in Policies, rec'[p] # None
             PROVE  \/ rec'[p].check /\ proven'.api
                    \/ \A m \in rec'[p].obj.refs : legacy'[m] = None
  BY DEF RecSafe
<1>1. CASE rec'[p] = rec[p]
  <2>1. rec[p].obj.refs \subseteq Models
    BY <1>1 DEF TypeOK, Reconciliation, MaaSAuthPolicy, Refs
  <2> QED BY <1>1, <2>1, OnlyLess, ProvenStays DEF RecSafe
<1>2. CASE Begin(p) /\ rec' # rec
  <2>1. /\ known[p] \in MaaSAuthPolicy /\ known[p] # None /\ ~known[p].deleting
        /\ rec'[p].obj = Finalized(known[p])
        /\ hasLegacyModelAuthPolicy => rec'[p].check
    BY <1>2, Begun
  <2>2. rec'[p].obj.refs = known[p].refs
    BY <2>1, FinalizedType
  <2>3. CASE hasLegacyModelAuthPolicy
    BY <1>2, <2>1, <2>3, ProvenStays DEF Begin, Proven
  <2>4. CASE ~hasLegacyModelAuthPolicy
    <3>1. \A m \in known[p].refs : legacy[m] = None
      BY <2>1, <2>4 DEF hasLegacyModelAuthPolicy, Live
    <3>2. known[p].refs \subseteq Models
      BY <2>1 DEF MaaSAuthPolicy, Refs
    <3> QED BY <2>2, <3>1, <3>2, OnlyLess
  <2> QED BY <2>3, <2>4
<1>3. rec'[p] = rec[p] \/ (Begin(p) /\ rec' # rec)
  BY RecBegun
<1> QED BY <1>1, <1>2, <1>3

LEMMA NextCutover ==
    ASSUME TypeOK, Proven, CopiesSound, RecSafe, CutoverSafe, [Next]_vars PROVE CutoverSafe'
<1>1. ASSUME NEW p \in Policies, Finish(p) PROVE early' \subseteq dropped
  <2>1. rec[p] # None /\ rec[p].obj \in MaaSAuthPolicy /\ rec[p].obj # None
    BY <1>1 DEF Finish, TypeOK, Reconciliation
  <2>2. early' = early \cup {m \in Obsolete(rec[p].obj) \cup cleanupStaleAuthPolicies(p, rec[p].obj) :
                               legacy[m] # None /\ ~(proven.gateway /\ proven.api)}
    BY <1>1 DEF Finish, deleteModelAuthPolicies
  <2>3. CASE rec[p].check /\ proven.api
    <3>1. proven.gateway
      BY <1>1, <2>3 DEF Finish, gatewayAuthPolicyReady, Proven
    <3> QED BY <2>2, <2>3, <3>1 DEF CutoverSafe
  <2>4. CASE \A m \in rec[p].obj.refs : legacy[m] = None
    <3>1. cleanupStaleAuthPolicies(p, rec[p].obj) \subseteq dropped
      BY <2>1 DEF cleanupStaleAuthPolicies, CopiesSound, Accounted
    <3> QED BY <2>2, <2>4, <3>1 DEF CutoverSafe, Obsolete
  <2> QED BY <2>1, <2>3, <2>4 DEF RecSafe
<1>2. ASSUME NEW p \in Policies, handleDeletion(p) PROVE early' \subseteq dropped
  <2>1. known[p] # None /\ known[p].deleting
    BY <1>2 DEF handleDeletion
  <2>2. known[p].refs \subseteq dropped
    BY <2>1 DEF CopiesSound, GoingDrops
  <2>3. cleanupStaleAuthPolicies(p, known[p]) \subseteq dropped
    BY <2>1 DEF cleanupStaleAuthPolicies, CopiesSound, Accounted
  <2> QED BY <1>2, <2>2, <2>3 DEF handleDeletion, deleteModelAuthPolicies, CutoverSafe
<1>3. early' \subseteq dropped
  BY <1>1, <1>2, Writers DEF CutoverSafe
<1> QED BY <1>3, OnlyLess DEF CutoverSafe

-----------------------------------------------------------------------------
(* The phase at rest                                                       *)

\* What takes p off the queue
LEMMA QueueLoses ==
    ASSUME TypeOK, [Next]_vars, NEW p \in Policies, p \in queue, p \notin queue', ~Restart
    PROVE  rec[p] = None /\ ((Begin(p) /\ rec' # rec) \/ Forget(p) \/ handleDeletion(p))
<1>1. Begin(p) \/ Forget(p) \/ handleDeletion(p)
  BY Pointwise DEF QueueWritten, Sync, WaitForGateway, Requeue, Deliver
<1>2. rec[p] = None
  BY <1>1 DEF Begin, Forget, handleDeletion, Idle
<1>3. Begin(p) => rec' # rec
  <2> SUFFICES ASSUME Begin(p) PROVE rec' # rec
    OBVIOUS
  <2>1. ~GatewayConflict
    BY DEF Begin
  <2> DEFINE o == Finalized(known[p])
             missing == findMissingModelRefs(o)
             check == GatewayDiffers \/ hasLegacyModelAuthPolicy \/ o.phase # "Active"
             n == [obj |-> o, missing |-> missing, check |-> check]
  <2>2. rec' = [rec EXCEPT ![p] = n]
    BY <2>1 DEF Begin
  <2>3. o \in MaaSAuthPolicy
    BY Begun, FinalizedType
  <2>4. missing \in SUBSET Models /\ check \in BOOLEAN
    BY <2>3 DEF findMissingModelRefs, MaaSAuthPolicy, Refs, hasLegacyModelAuthPolicy,
       GatewayDiffers
  <2> HIDE DEF o, missing, check
  <2>5. n \in Reconciliation
    BY <2>3, <2>4 DEF Reconciliation
  <2> HIDE DEF n
  <2>6. rec'[p] = n /\ n # None
    BY <2>2, <2>5 DEF TypeOK
  <2> QED BY <1>2, <2>6
<1> QED BY <1>1, <1>2, <1>3

\* A known policy stays as it is in the cache, but for what the queue is not told of.
LEMMA KnownStays ==
    ASSUME TypeOK, [Next]_vars, NEW p \in Policies, p \notin queue', ~Restart
    PROVE  \/ known'[p] = known[p]
           \/ /\ Sync(p) /\ known'[p] = policies[p] /\ known[p] # None /\ policies[p] # None
              /\ known[p].refs = policies[p].refs /\ known[p].deleting = policies[p].deleting
<1>1. ASSUME Sync(p) PROVE known'[p] = policies[p]
  BY <1>1 DEF Sync, TypeOK
<1> QED BY <1>1, Pointwise DEF Sync

\* The watches tell of every model that the cache's copy of p references.
LEMMA EventsTold ==
    ASSUME TypeOK, [Next]_vars, NEW p \in Policies, p \notin queue', ~Restart,
           known[p] # None, NEW missing, UpToEvents(known[p].refs, missing)
    PROVE  \A m \in known[p].refs : m \in events' \/ (m \in missing <=> models'[m] = "missing")
<1> SUFFICES ASSUME NEW m \in known[p].refs, m \notin events'
             PROVE  m \in missing <=> models'[m] = "missing"
  OBVIOUS
<1>0. m \in Models /\ m # None
  BY DEF TypeOK, MaaSAuthPolicy, Refs
<1>1. m \notin events
  <2>1. ASSUME NEW e \in Models \cup {None}, Deliver(e) PROVE e # m
    BY <1>0, <2>1 DEF Deliver, Referencing
  <2> QED BY <2>1, Writers DEF OIDCChanges, ModelChanges, Deliver
<1>2. models'[m] = models[m]
  BY <1>0, Writers DEF ModelChanges, TypeOK
<1> QED BY <1>1, <1>2 DEF UpToEvents

LEMMA NextUnfinalized ==
    ASSUME TypeOK, Unfinalized, [Next]_vars PROVE Unfinalized'
<1> SUFFICES ASSUME NEW p \in Policies
             PROVE  /\ policies'[p] = None \/ ~policies'[p].finalizer =>
                         \/ known'[p] = None \/ known'[p].deleting
                         \/ ~known'[p].finalizer /\ p \in queue'
                    /\ policies'[p] # None /\ ~policies'[p].finalizer => ~policies'[p].deleting
                    /\ rec'[p] # None => rec'[p].obj.finalizer
  BY DEF Unfinalized
<1>0. /\ policies[p] = None \/ ~policies[p].finalizer =>
           \/ known[p] = None \/ known[p].deleting
           \/ ~known[p].finalizer /\ p \in queue
      /\ policies[p] # None /\ ~policies[p].finalizer => ~policies[p].deleting
      /\ rec[p] # None => rec[p].obj.finalizer
  BY DEF Unfinalized
<1>1. policies'[p] # None /\ ~policies'[p].finalizer => ~policies'[p].deleting
  BY <1>0, Pointwise DEF Created, Removed, Modified
<1>2. rec'[p] # None => rec'[p].obj.finalizer
  BY <1>0, RecBegun, Begun, FinalizedType
<1>3. ASSUME policies'[p] = None \/ ~policies'[p].finalizer
      PROVE  \/ known'[p] = None \/ known'[p].deleting
             \/ ~known'[p].finalizer /\ p \in queue'
  <2>1. CASE Restart
    BY <1>0, <1>3, <2>1 DEF Restart
  <2>2. CASE Sync(p)
    <3>1. policies' = policies /\ known'[p] = policies[p]
      BY <2>2 DEF Sync, TypeOK
    <3>2. policies[p] # None => p \in queue'
      BY <1>0, <1>3, <2>2, <3>1 DEF Sync
    <3> QED BY <1>3, <3>1, <3>2
  <2>3. CASE ~Restart /\ ~Sync(p)
    <3>1. known'[p] = known[p]
      BY <2>3, Pointwise
    <3>2. CASE handleDeletion(p) \/ Forget(p)
      BY <3>1, <3>2 DEF handleDeletion, Forget
    <3>3. CASE ~handleDeletion(p) /\ ~Forget(p)
      <4>1. policies[p] = None \/ ~policies[p].finalizer
        BY <1>3, <3>3, Pointwise DEF Created, Removed, Modified
      <4>2. CASE Begin(p)
        <5>1. known[p] \in MaaSAuthPolicy /\ known[p] # None /\ ~known[p].deleting
          BY <4>2, Begun
        <5>2. known[p] = policies[p]
          BY <1>0, <4>1, <4>2, <5>1 DEF Begin, Fresh
        <5>3. policies'[p] = Finalized(known[p])
          BY <4>2, <5>2 DEF Begin, TypeOK
        <5>4. policies'[p] # None /\ policies'[p].finalizer
          <6>1. Finalized(known[p]) \in MaaSAuthPolicy /\ Finalized(known[p]).finalizer
            BY <5>1, FinalizedType
          <6> QED BY <5>3, <6>1
        <5> QED BY <1>3, <5>4
      <4>3. CASE ~Begin(p)
        <5>1. p \in queue => p \in queue'
          BY <2>3, <3>3, <4>3, QueueLoses
        <5> QED BY <1>0, <3>1, <4>1, <5>1
      <4> QED BY <4>2, <4>3
    <3> QED BY <3>2, <3>3
  <2> QED BY <2>1, <2>2, <2>3
<1> QED BY <1>1, <1>2, <1>3

LEMMA NextRecCurrent ==
    ASSUME TypeOK, RecCurrent, [Next]_vars PROVE RecCurrent'
<1> SUFFICES ASSUME NEW p \in Policies, rec'[p] # None, p \notin queue'
             PROVE  /\ known'[p] # None /\ known'[p].refs = rec'[p].obj.refs
                    /\ rec'[p].missing \subseteq known'[p].refs
                    /\ \A m \in known'[p].refs :
                         m \in events' \/ (m \in rec'[p].missing <=> models'[m] = "missing")
  BY DEF RecCurrent, UpToEvents
<1>0. ~Restart
  BY DEF Restart
<1>1. CASE Begin(p) /\ rec' # rec
  <2>1. /\ known[p] \in MaaSAuthPolicy /\ known[p] # None
        /\ rec'[p].obj = Finalized(known[p])
        /\ rec'[p].missing = findMissingModelRefs(Finalized(known[p]))
    BY <1>1, Begun
  <2>2. Finalized(known[p]).refs = known[p].refs
    BY <2>1, FinalizedType
  <2>3. known' = known /\ models' = models
    BY <1>1 DEF Begin, caches, cluster
  <2> QED BY <2>1, <2>2, <2>3 DEF findMissingModelRefs
<1>2. CASE rec'[p] = rec[p]
  <2>1. p \notin queue
    BY <1>0, <1>2, QueueLoses
  <2>2. /\ known[p] # None /\ known[p].refs = rec[p].obj.refs
        /\ rec[p].missing \subseteq known[p].refs
        /\ UpToEvents(known[p].refs, rec[p].missing)
    BY <1>2, <2>1 DEF RecCurrent
  <2>3. known'[p] # None /\ known'[p].refs = known[p].refs
    BY <1>0, <2>2, KnownStays
  <2>4. \A m \in known[p].refs : m \in events' \/ (m \in rec[p].missing <=> models'[m] = "missing")
    BY <1>0, <2>2, EventsTold
  <2> QED BY <1>2, <2>2, <2>3, <2>4
<1> QED BY <1>1, <1>2, RecBegun

LEMMA NextPhaseCurrent ==
    ASSUME TypeOK, Unfinalized, Unfinalized', RecCurrent, PhaseCurrent, [Next]_vars
    PROVE  PhaseCurrent'
<1> SUFFICES ASSUME NEW p \in Policies, rec'[p] = None, p \notin queue', p \notin lost',
                    known'[p] # None, ~known'[p].deleting
             PROVE  \E missing \in SUBSET known'[p].refs :
                      /\ policies'[p].phase = deriveAuthPolicyPhase(known'[p], missing)
                      /\ \A m \in known'[p].refs :
                           m \in events' \/ (m \in missing <=> models'[m] = "missing")
  BY DEF PhaseCurrent, UpToEvents, Live, deriveAuthPolicyPhase
<1>0. ~Restart
  BY DEF Restart
<1>1. policies'[p] # None
  BY DEF Unfinalized
<1>2. CASE Finish(p)
  <2>1. rec[p] # None /\ p \notin queue /\ known' = known
    BY <1>2 DEF Finish, caches
  <2>2. /\ known[p] # None /\ known[p].refs = rec[p].obj.refs
        /\ rec[p].missing \subseteq known[p].refs
        /\ UpToEvents(known[p].refs, rec[p].missing)
    BY <2>1 DEF RecCurrent
  <2>3. \A m \in known[p].refs : m \in events' \/ (m \in rec[p].missing <=> models'[m] = "missing")
    BY <1>0, <2>2, EventsTold
  <2>4. policies'[p].phase = deriveAuthPolicyPhase(rec[p].obj, rec[p].missing)
    <3>1. rec[p].obj \in MaaSAuthPolicy
      BY <2>1 DEF TypeOK, Reconciliation
    <3>2. updateStatus(p, rec[p].obj, deriveAuthPolicyPhase(rec[p].obj, rec[p].missing))
      BY <1>2 DEF Finish
    <3> QED BY <1>1, <3>1, <3>2, PhaseFollows, StatusWritten
  <2>5. policies'[p].phase = deriveAuthPolicyPhase(known[p], rec[p].missing)
    BY <2>2, <2>4 DEF deriveAuthPolicyPhase
  <2> QED BY <2>1, <2>2, <2>3, <2>5
<1>3. CASE ~Finish(p)
  <2>1. ~WaitForGateway(p)
    BY DEF WaitForGateway, Requeue
  <2>2. ~(Begin(p) /\ rec' # rec)
    BY Begun
  <2>3. rec[p] = None
    BY <1>0, <1>3, <2>1, <2>2, Pointwise
  <2>4. p \notin queue
    <3>1. ~Forget(p) /\ ~handleDeletion(p)
      BY DEF Forget, handleDeletion, caches
    <3> QED BY <1>0, <2>2, <3>1, QueueLoses
  <2>5. ~WaitForApi(p)
    BY <2>4 DEF WaitForApi, Idle
  <2>6. p \notin lost
    BY <1>3, <2>1, <2>5, Pointwise
  <2>7. known[p] # None /\ ~known[p].deleting /\ known'[p].refs = known[p].refs
    BY <1>0, KnownStays
  <2>8. policies[p] # None
    BY <2>4, <2>7 DEF Unfinalized
  <2>9. policies'[p].phase = policies[p].phase
    BY <1>1, <1>3, <2>1, <2>5, <2>8, Pointwise DEF Created, Removed, Modified
  <2>10. PICK missing \in SUBSET known[p].refs :
           /\ policies[p].phase = deriveAuthPolicyPhase(known[p], missing)
           /\ UpToEvents(known[p].refs, missing)
    BY <2>3, <2>4, <2>6, <2>7 DEF PhaseCurrent, Live
  <2>11. \A m \in known[p].refs : m \in events' \/ (m \in missing <=> models'[m] = "missing")
    BY <1>0, <2>7, <2>10, EventsTold
  <2> QED BY <2>7, <2>9, <2>10, <2>11 DEF deriveAuthPolicyPhase
<1> QED BY <1>2, <1>3

-----------------------------------------------------------------------------
(* The theorems                                                            *)

LEMMA InitInv == Init => IndInv
<1> SUFFICES ASSUME Init PROVE IndInv
  OBVIOUS
<1>1. PICK refs \in [Policies -> Refs \cup {None}] :
         /\ policies = [p \in Policies |->
              IF refs[p] = None THEN None
              ELSE [refs |-> refs[p], phase |-> "Active", finalizer |-> TRUE, deleting |-> FALSE]]
         /\ legacy = [m \in Models |->
              LET owners == {p \in Policies : refs[p] # None /\ m \in refs[p]} IN
              IF owners = {} THEN None ELSE owners]
  BY DEF Init
<1>2. ASSUME NEW p \in Policies, policies[p] # None
      PROVE  /\ policies[p] \in MaaSAuthPolicy /\ refs[p] # None /\ policies[p].refs = refs[p]
             /\ policies[p].finalizer /\ ~policies[p].deleting
  <2>1. refs[p] # None /\ refs[p] \in Refs
    BY <1>1, <1>2
  <2>2. policies[p] = [refs |-> refs[p], phase |-> "Active", finalizer |-> TRUE, deleting |-> FALSE]
    BY <1>1, <2>1
  <2> QED BY <2>1, <2>2 DEF MaaSAuthPolicy, Phases
<1>3. \A m \in Models, p \in Policies :
        legacy[m] # None /\ p \in legacy[m] => policies[p] # None /\ m \in policies[p].refs
  <2> SUFFICES ASSUME NEW m \in Models, NEW p \in Policies, legacy[m] # None, p \in legacy[m]
               PROVE  policies[p] # None /\ m \in policies[p].refs
    OBVIOUS
  <2>1. refs[p] # None /\ m \in refs[p]
    BY <1>1
  <2> DEFINE n == [refs |-> refs[p], phase |-> "Active", finalizer |-> TRUE, deleting |-> FALSE]
  <2>2. policies[p] = n
    BY <1>1, <2>1
  <2>3. n \in MaaSAuthPolicy /\ n.refs = refs[p]
    BY <2>1 DEF MaaSAuthPolicy, Phases
  <2> HIDE DEF n
  <2> QED BY <2>1, <2>2, <2>3
<1>4. TypeOK /\ OIDCCounted
  <2>1. policies \in [Policies -> MaaSAuthPolicy \cup {None}]
    BY <1>1, <1>2
  <2>2. legacy \in [Models -> (SUBSET Policies) \cup {None}]
    BY <1>1
  <2>3. oidc \in 0..MaxEdits /\ edits \in 0..MaxEdits /\ oidc <= edits
    BY DEF Init
  <2> QED BY <2>1, <2>2, <2>3 DEF Init, TypeOK, OIDCCounted
<1>5. Proven /\ RecSafe /\ CutoverSafe /\ RecCurrent
  BY DEF Init, Proven, RecSafe, CutoverSafe, RecCurrent
<1>6. CopiesSound
  BY <1>2, <1>3 DEF Init, CopiesSound, Accounted, GoingDrops
<1>7. Unfinalized /\ PhaseCurrent
  BY <1>2 DEF Init, Unfinalized, PhaseCurrent, Live
<1> QED BY <1>4, <1>5, <1>6, <1>7 DEF IndInv

\* IndInv is inductive: every Reconcile, watch, restart and change keeps it.
THEOREM Invariance == Spec => []IndInv
<1>1. IndInv /\ [Next]_vars => IndInv'
  <2> SUFFICES ASSUME IndInv, [Next]_vars PROVE IndInv'
    OBVIOUS
  <2> USE DEF IndInv
  <2>1. TypeOK' /\ OIDCCounted'
    BY NextType
  <2>2. Proven' /\ CopiesSound' /\ RecSafe' /\ CutoverSafe'
    BY NextProven, NextCopies, NextRecSafe, NextCutover
  <2>3. Unfinalized' /\ RecCurrent'
    BY NextUnfinalized, NextRecCurrent
  <2>4. PhaseCurrent'
    BY <2>3, NextPhaseCurrent
  <2> QED BY <2>1, <2>2, <2>3, <2>4
<1> QED BY InitInv, <1>1, PTL DEF Spec

\* A model that stays referenced keeps the AuthPolicy of its own until the gateway's
\* was enforced and maas-api was ready, whatever Reconcile deletes it, from whatever copy.
THEOREM CutoverIsSafe == Spec => []CutoverSafe
<1>1. IndInv => CutoverSafe
  BY DEF IndInv
<1> QED BY Invariance, <1>1, PTL

\* With nothing left to deliver or to do, a phase that updateStatus wrote is the one
\* that follows from the models that are missing.
THEOREM PhaseIsCurrent == Spec => []PhaseFollowsModels
<1>1. IndInv => PhaseFollowsModels
  <2> SUFFICES ASSUME IndInv, NEW p \in Policies, Live(policies[p]), known[p] = policies[p],
                      events = {}, rec[p] = None, p \notin queue \cup lost
               PROVE  policies[p].phase =
                        deriveAuthPolicyPhase(policies[p], findMissingModelRefs(policies[p]))
    BY DEF PhaseFollowsModels
  <2>1. PICK missing \in SUBSET policies[p].refs :
          /\ policies[p].phase = deriveAuthPolicyPhase(policies[p], missing)
          /\ UpToEvents(policies[p].refs, missing)
    BY DEF IndInv, PhaseCurrent
  <2>2. missing = findMissingModelRefs(policies[p])
    BY <2>1 DEF UpToEvents, findMissingModelRefs
  <2> QED BY <2>1, <2>2
<1> QED BY Invariance, <1>1, PTL
=============================================================================
