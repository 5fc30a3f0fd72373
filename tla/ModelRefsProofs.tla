-------------------------- MODULE ModelRefsProofs --------------------------
(***************************************************************************)
(* ReadyIsServed and ConflictSeen, for any number of models, tenants and   *)
(* gateways, of edits and of restarts.                                     *)
(***************************************************************************)
EXTENDS ModelRefs, FiniteSetTheorems, TLAPS

USE ModelRefsConstants, NoneAssumption

\* The cache will be the store once it has taken in the stream: the last change of
\* a model that is on its way is what the store has.
Replays ==
    \A m \in Models :
      /\ (\A i \in 1..Len(stream) : stream[i].model # m) => cache[m] = store[m]
      /\ \A i \in 1..Len(stream) :
           /\ stream[i].model = m
           /\ \A j \in 1..Len(stream) : j > i => stream[j].model # m
           => stream[i].obj = store[m]

\* What status st says of model m is so.
Right(m, st) ==
    LET b == backend[m]
        served == /\ b.named /\ b.gw \in Gateways
                  /\ st.tenant # None /\ tenantGw[st.tenant] = b.gw
    IN  /\ st.phase = "Ready" => m \in paired /\ served
        /\ st.phase = "Ready" /\ m \notin External => b.exists /\ b.ready
        /\ m \in paired /\ (m \in External \/ b.exists) /\ b.ready /\ served
           => st.phase = "Ready"

\* A Reconcile of model m, that has or gets status st, is still to come.
Coming(m, st) == m \in queue \cup events \/ cache[m] = None \/ st.tenant \in events

\* A verdict in the status is right, or another will be reached.
StatusRight ==
    \A m \in Models :
      store[m] # None /\ m \notin lost \cup missed /\ ~At(m)
      => Coming(m, store[m].status) \/ Right(m, store[m].status)

\* So is one that is about to be written.
VerdictRight ==
    \A m \in Models :
      store[m] # None /\ m \notin missed /\ At(m)
      => Coming(m, worker.status) \/ worker.retry \/ Right(m, worker.status)

\* Status st does not call an identity unique that the cache has of model n.
Sees(st, n) ==
    st.phase = "Ready" /\ st.alias # None /\ st.alias = AliasOf(cache[n])
    => st.unique = "False"

\* Model m knows that n has its identity, or will.
Told(m, n) ==
    \/ m \in queue
    \/ At(m) /\ (worker.retry \/ Sees(worker.status, n))
    \/ ~At(m) /\ (store[m] = None \/ m \in lost \/ Sees(store[m].status, n))

\* Of two models that the cache has with one identity one at least knows.
OneTold ==
    \A m, n \in Models :
      m # n /\ AliasOf(cache[m]) # None /\ AliasOf(cache[m]) = AliasOf(cache[n])
      => Told(m, n) \/ Told(n, m)

IndInv == TypeOK /\ Replays /\ StatusRight /\ VerdictRight /\ OneTold

-----------------------------------------------------------------------------
(* The verdict.                                                            *)

LEMMA ResolvedTenant ==
    ASSUME TypeOK, NEW gw, NEW o \in MaaSModelRef
    PROVE  resolveGatewayRef(o, gw) \in Tenants \cup {None}
<1> DEFINE matches == {t \in Tenants : tenantGw[t] = gw}
<1>1. Cardinality(matches) = 1 => matches # {}
  BY FS_EmptySet
<1>2. resolveGatewayRefFromHTTPRoute(gw) \in Tenants \cup {None}
  BY <1>1 DEF resolveGatewayRefFromHTTPRoute
<1> QED BY <1>2 DEF resolveGatewayRef, MaaSModelRef

LEMMA StatusFields ==
    ASSUME NEW st \in MaaSModelStatus
    PROVE  /\ st.phase \in Phases /\ st.alias \in Aliases \cup {None}
           /\ st.unique \in {"Unknown", "True", "False"}
           /\ st.gateway \in Gateways \cup {None} /\ st.tenant \in Tenants \cup {None}
BY DEF MaaSModelStatus

\* A status with other tenant or gateway
LEMMA StatusFound ==
    ASSUME NEW st \in MaaSModelStatus, NEW t \in Tenants \cup {None},
           NEW g \in Gateways \cup {None}
    PROVE  /\ [st EXCEPT !.tenant = t] \in MaaSModelStatus
           /\ [st EXCEPT !.tenant = t].tenant = t
           /\ [st EXCEPT !.gateway = g] \in MaaSModelStatus
           /\ [st EXCEPT !.gateway = g].gateway = g
BY DEF MaaSModelStatus

\* What the handler of a route may say.
RouteOutcome(m, r) ==
    LET gw == backend[m].gw IN
    /\ r.status \in MaaSModelStatus
    /\ r.err \in {"none", "pending", "error"}
    /\ r.err = "pending" => gw \notin Gateways
    /\ r.err = "none" =>
         \/ m \in External /\ (~backend[m].named \/ gw = None) /\ r.status.gateway = None
         \/ /\ backend[m].named
            /\ gw \in Gateways /\ r.status.tenant # None /\ tenantGw[r.status.tenant] = gw
            /\ m \in External /\ backend[m].ready => r.status.gateway # None

LEMMA ResultFields ==
    ASSUME NEW st, NEW err PROVE Result(st, err).status = st /\ Result(st, err).err = err
BY DEF Result

LEMMA NoTenantOutcome ==
    ASSUME TypeOK, NEW m \in Models, NEW o \in MaaSModelRef
    PROVE  RouteOutcome(m, NoTenant(o, backend[m].gw))
<1>1. o.status \in MaaSModelStatus
  BY DEF MaaSModelRef
<1>2. [o.status EXCEPT !.tenant = None] \in MaaSModelStatus
  BY <1>1, StatusFound
<1> QED BY <1>2, ResultFields DEF NoTenant, RouteOutcome

LEMMA LLMISvcOutcome ==
    ASSUME TypeOK, NEW m \in Models, m \notin External, NEW o \in MaaSModelRef
    PROVE  RouteOutcome(m, validateLLMISvcHTTPRoute(m, o))
<1> DEFINE gw == backend[m].gw
           t == resolveGatewayRef(o, gw)
           g == IF gw = NoParent THEN None ELSE gw
           found == [o.status EXCEPT !.tenant = t, !.gateway = g]
<1>1. o.status \in MaaSModelStatus /\ gw \in Gateways \cup {NoParent, None}
  BY DEF MaaSModelRef, TypeOK, Backend
<1>2. t \in Tenants \cup {None} /\ backend[m].named
  BY ResolvedTenant DEF TypeOK
<1>3. g \in Gateways \cup {None}
  BY <1>1
<1>4. validateLLMISvcHTTPRoute(m, o) =
        IF gw = None THEN Result(o.status, "pending")
        ELSE IF t = None THEN NoTenant(o, gw)
        ELSE Result(found, IF tenantGw[t] = gw THEN "none" ELSE "error")
  BY DEF validateLLMISvcHTTPRoute
<1> HIDE DEF t, g
<1>5. found \in MaaSModelStatus /\ found.tenant = t
  BY <1>1, <1>2, <1>3 DEF MaaSModelStatus
<1> HIDE DEF found
<1>6. CASE gw = None
  BY <1>1, <1>4, <1>6, ResultFields DEF RouteOutcome
<1>7. CASE gw # None /\ t = None
  BY <1>4, <1>7, NoTenantOutcome
<1>8. CASE gw # None /\ t # None
  <2>1. tenantGw[t] \in Gateways \cup {None}
    BY <1>2, <1>8 DEF TypeOK
  <2> QED BY <1>1, <1>2, <1>4, <1>5, <1>8, <2>1, ResultFields DEF RouteOutcome
<1> QED BY <1>6, <1>7, <1>8

LEMMA ExternalOutcome ==
    ASSUME TypeOK, NEW m \in Models, m \in External, NEW o \in MaaSModelRef
    PROVE  RouteOutcome(m, ReconcileExternalRoute(m, o))
<1> DEFINE gw == backend[m].gw
           t == resolveGatewayRef(o, gw)
           found == [o.status EXCEPT !.tenant = t]
           without == [o.status EXCEPT !.gateway = None]
           with == [found EXCEPT !.gateway = gw]
<1>1. o.status \in MaaSModelStatus /\ gw \in Gateways \cup {NoParent, None}
  BY DEF MaaSModelRef, TypeOK, Backend
<1>2. t \in Tenants \cup {None}
  BY ResolvedTenant
<1>3. ReconcileExternalRoute(m, o) =
        IF ~backend[m].exists THEN Result(o.status, "error")
        ELSE IF ~backend[m].named \/ gw = None THEN Result(without, "none")
        ELSE IF t = None THEN NoTenant(o, gw)
        ELSE IF tenantGw[t] # gw THEN Result(found, "error")
        ELSE IF ~backend[m].ready THEN Result(found, "none")
        ELSE Result(with, "none")
  BY DEF ReconcileExternalRoute
<1> HIDE DEF t
<1>4. found \in MaaSModelStatus /\ found.tenant = t
  BY <1>1, <1>2, StatusFound
<1>5. without \in MaaSModelStatus /\ without.gateway = None
  BY <1>1, StatusFound
<1> HIDE DEF found, without
<1>6. t # None => tenantGw[t] \in Gateways \cup {None}
  BY <1>2 DEF TypeOK
<1>7. gw \in Gateways => with \in MaaSModelStatus /\ with.tenant = t /\ with.gateway = gw
  BY <1>4 DEF MaaSModelStatus
<1> HIDE DEF with
<1>8. CASE ~backend[m].exists
  BY <1>1, <1>3, <1>8, ResultFields DEF RouteOutcome
<1>9. CASE backend[m].exists /\ (~backend[m].named \/ gw = None)
  BY <1>3, <1>5, <1>9, ResultFields DEF RouteOutcome
<1>10. CASE backend[m].exists /\ backend[m].named /\ gw # None /\ t = None
  BY <1>3, <1>10, NoTenantOutcome
<1>11. CASE backend[m].exists /\ backend[m].named /\ gw # None /\ t # None
  <2>1. CASE tenantGw[t] # gw
    BY <1>3, <1>4, <1>11, <2>1, ResultFields DEF RouteOutcome
  <2>2. CASE tenantGw[t] = gw
    <3>1. gw \in Gateways
      BY <1>6, <1>11, <2>2
    <3> QED BY <1>3, <1>4, <1>7, <1>11, <2>2, <3>1, ResultFields DEF RouteOutcome
  <2> QED BY <2>1, <2>2
<1> QED BY <1>8, <1>9, <1>10, <1>11

LEMMA RouteIsSound ==
    ASSUME TypeOK, NEW m \in Models, NEW o \in MaaSModelRef
    PROVE  RouteOutcome(m, ReconcileRoute(m, o))
BY LLMISvcOutcome, ExternalOutcome DEF ReconcileRoute

\* A Reconcile arrives at a verdict that is right, unless it is repeated, and that
\* reckons with every identity in the cache.
LEMMA VerdictIsSound ==
    ASSUME TypeOK, NEW m \in Models, NEW o \in MaaSModelRef
    PROVE  LET v == Verdict(m, o) IN
           /\ v.status \in MaaSModelStatus /\ v.retry \in BOOLEAN
           /\ v.retry \/ Right(m, v.status)
           /\ \A n \in Models \ {m} : Sees(v.status, n)
<1> DEFINE r == ReconcileRoute(m, o)
           alias == ResolvedModelAlias(m, o.status)
           unique == ModelIdentityUnique(m, alias)
           phase == deriveModelPhase(checkGovernanceAttached(m), RuntimeReady(m, r.status))
           pending == [r.status EXCEPT !.phase = "Pending"]
           failed == [r.status EXCEPT !.phase = "Failed"]
           full == [r.status EXCEPT !.alias = alias, !.unique = unique, !.phase = phase]
           v == Verdict(m, o)
<1>1. RouteOutcome(m, r)
  BY RouteIsSound
<1>2. v = IF r.err = "pending" THEN [status |-> pending, retry |-> FALSE]
          ELSE IF r.err = "error" \/ ~backend[m].exists
          THEN [status |-> failed, retry |-> TRUE]
          ELSE [status |-> full, retry |-> FALSE]
  BY DEF Verdict
<1>3. alias \in Aliases \cup {None}
  BY DEF ResolvedModelAlias, TypeOK, Backend, MaaSModelRef, MaaSModelStatus
<1>4. /\ unique \in {"Unknown", "True", "False"}
      /\ \A n \in Models \ {m} : alias # None /\ alias = AliasOf(cache[n]) => unique = "False"
  BY DEF ModelIdentityUnique, Conflicts, AliasOf
<1>5. /\ phase \in Phases
      /\ phase = "Ready" <=> m \in paired /\ RuntimeReady(m, r.status)
  BY DEF deriveModelPhase, checkGovernanceAttached, Phases
<1> HIDE DEF alias, unique, phase, r
<1>6. r.status \in MaaSModelStatus
  BY <1>1 DEF RouteOutcome
<1>7. /\ pending \in MaaSModelStatus /\ pending.phase = "Pending"
      /\ failed \in MaaSModelStatus /\ failed.phase = "Failed"
      /\ full \in MaaSModelStatus /\ full.phase = phase /\ full.alias = alias
      /\ full.unique = unique /\ full.tenant = r.status.tenant
  BY <1>3, <1>4, <1>5, <1>6 DEF MaaSModelStatus, Phases
<1> HIDE DEF pending, failed, full
<1>8. CASE r.err = "pending"
  <2>1. v.status = pending /\ v.retry = FALSE
    BY <1>2, <1>8
  <2>2. Right(m, pending)
    BY <1>1, <1>7, <1>8 DEF RouteOutcome, Right
  <2> QED BY <1>7, <2>1, <2>2 DEF Sees
<1>9. CASE r.err # "pending" /\ (r.err = "error" \/ ~backend[m].exists)
  <2>1. v.status = failed /\ v.retry = TRUE
    BY <1>2, <1>9
  <2> QED BY <1>7, <2>1 DEF Sees
<1>10. CASE r.err # "pending" /\ ~(r.err = "error" \/ ~backend[m].exists)
  <2>1. v.status = full /\ v.retry = FALSE
    BY <1>2, <1>10
  <2>2. r.err = "none" /\ backend[m].exists
    BY <1>1, <1>10 DEF RouteOutcome
  <2>3. Right(m, full)
    <3>1. CASE m \notin External
      BY <1>1, <1>5, <1>7, <2>2, <3>1
      DEF RouteOutcome, Right, RuntimeReady, LLMISvcReady
    <3>2. CASE m \in External
      BY <1>1, <1>5, <1>7, <2>2, <3>2
      DEF RouteOutcome, Right, RuntimeReady, ExternalModelReady
    <3> QED BY <3>1, <3>2
  <2>4. \A n \in Models \ {m} : Sees(full, n)
    BY <1>4, <1>7 DEF Sees
  <2> QED BY <1>7, <2>1, <2>3, <2>4
<1> QED BY <1>8, <1>9, <1>10

-----------------------------------------------------------------------------
(* What steps have in common.                                              *)

Change == [model : Models, obj : MaaSModelRef \cup {None}]

LEMMA ChangeType ==
    ASSUME NEW m \in Models, NEW o \in MaaSModelRef \cup {None}
    PROVE  /\ [model |-> m, obj |-> o] \in Change
           /\ [model |-> m, obj |-> o].model = m /\ [model |-> m, obj |-> o].obj = o
BY DEF Change

LEMMA SaveStep ==
    ASSUME TypeOK, Replays, NEW m \in Models, NEW o \in MaaSModelRef \cup {None},
           Save(m, o), UNCHANGED cache
    PROVE  /\ store' = [store EXCEPT ![m] = o]
           /\ store' \in [Models -> MaaSModelRef \cup {None}]
           /\ stream' \in Seq(Change)
           /\ Replays'
<1> DEFINE e == [model |-> m, obj |-> o]
<1>1. /\ stream \in Seq(Change) /\ store \in [Models -> MaaSModelRef \cup {None}]
      /\ e \in Change /\ e.model = m /\ e.obj = o
  BY ChangeType DEF TypeOK, Change
<1>2. CASE UNCHANGED <<store, stream>> /\ o = store[m]
  BY <1>1, <1>2 DEF Replays
<1>3. CASE store' = [store EXCEPT ![m] = o] /\ stream' = Append(stream, e)
  <2> HIDE DEF e
  <2>1. /\ stream' \in Seq(Change) /\ Len(stream) \in Nat /\ Len(stream') = Len(stream) + 1
        /\ \A i \in 1..Len(stream) : stream'[i] = stream[i]
        /\ stream'[Len(stream) + 1] = e
    BY <1>1, <1>3
  <2>2. /\ store' \in [Models -> MaaSModelRef \cup {None}] /\ store'[m] = o
        /\ \A n \in Models \ {m} : store'[n] = store[n]
    BY <1>1, <1>3
  <2>3. ASSUME NEW n \in Models, \A i \in 1..Len(stream') : stream'[i].model # n
        PROVE  cache'[n] = store'[n]
    <3>1. n # m
      BY <1>1, <2>1, <2>3
    <3>2. \A i \in 1..Len(stream) : stream[i].model # n
      BY <2>1, <2>3
    <3> QED BY <2>2, <3>1, <3>2 DEF Replays
  <2>4. ASSUME NEW n \in Models, NEW i \in 1..Len(stream'), stream'[i].model = n,
               \A j \in 1..Len(stream') : j > i => stream'[j].model # n
        PROVE  stream'[i].obj = store'[n]
    <3>1. CASE i = Len(stream) + 1
      BY <1>1, <2>1, <2>2, <2>4, <3>1
    <3>2. CASE i # Len(stream) + 1
      <4>1. i \in 1..Len(stream) /\ stream'[i] = stream[i]
        BY <2>1, <3>2
      <4>2. n # m
        BY <1>1, <2>1, <2>4, <4>1
      <4>3. \A j \in 1..Len(stream) : j > i => stream[j].model # n
        BY <2>1, <2>4
      <4> QED BY <2>2, <2>4, <4>1, <4>2, <4>3 DEF Replays
    <3> QED BY <3>1, <3>2
  <2> QED BY <1>3, <2>1, <2>2, <2>3, <2>4 DEF Replays
<1> QED BY <1>1, <1>2, <1>3 DEF Save

\* Steps that leave the verdicts and the cache alone and take nothing off the queue
LEMMA OneToldKept ==
    ASSUME TypeOK, OneTold, UNCHANGED <<cache, worker, lost>>, queue \subseteq queue',
           \A m \in Models : \/ cache[m] = None \/ store'[m] = None
                             \/ store[m] # None /\ store'[m].status = store[m].status
    PROVE  OneTold'
<1>1. ASSUME NEW m \in Models, NEW n \in Models, cache[m] # None, Told(m, n)
      PROVE  Told(m, n)'
  BY <1>1 DEF Told, At, Sees, AliasOf
<1>2. ASSUME NEW m \in Models, NEW n \in Models, m # n,
             AliasOf(cache[m]) # None, AliasOf(cache[m]) = AliasOf(cache[n])
      PROVE  Told(m, n)' \/ Told(n, m)'
  <2>1. cache[m] # None /\ cache[n] # None
    BY <1>2 DEF AliasOf
  <2>2. Told(m, n) \/ Told(n, m)
    BY <1>2 DEF OneTold
  <2> QED BY <1>1, <2>1, <2>2
<1> QED BY <1>2 DEF OneTold, AliasOf

\* Model m has status st or is about to.
Has(m, st) ==
    \/ store[m] # None /\ st = store[m].status
    \/ At(m) /\ st = worker.status

\* Steps that leave the verdicts alone
LEMMA RightKept ==
    ASSUME TypeOK, StatusRight, VerdictRight, UNCHANGED <<worker, lost>>,
           missed \subseteq missed',
           \A m \in Models : \/ cache'[m] = None \/ store'[m] = None
                             \/ store[m] # None /\ store'[m].status = store[m].status,
           \A m \in Models, st \in MaaSModelStatus :
             Has(m, st) /\ (Coming(m, st) \/ Right(m, st))
             => Coming(m, st)' \/ Right(m, st)' \/ m \in missed'
    PROVE  StatusRight' /\ VerdictRight'
<1>1. ASSUME NEW m \in Models, store'[m] # None, m \notin lost' \cup missed', ~At(m)'
      PROVE  (Coming(m, store[m].status) \/ Right(m, store[m].status))'
  <2>1. CASE cache'[m] = None
    BY <2>1 DEF Coming
  <2>2. CASE cache'[m] # None
    <3>1. store[m] # None /\ store'[m].status = store[m].status
      BY <1>1, <2>2
    <3>2. PICK st \in MaaSModelStatus : st = store[m].status
      BY <3>1 DEF TypeOK, MaaSModelRef
    <3>3. Has(m, st) /\ (Coming(m, st) \/ Right(m, st))
      <4>1. m \notin lost \cup missed /\ ~At(m)
        BY <1>1 DEF At
      <4>2. Coming(m, store[m].status) \/ Right(m, store[m].status)
        BY <3>1, <4>1 DEF StatusRight
      <4>3. Coming(m, st) \/ Right(m, st)
        BY <3>2, <4>2
      <4>4. Has(m, st)
        BY <3>1, <3>2 DEF Has
      <4> QED BY <4>3, <4>4
    <3>4. Coming(m, st)' \/ Right(m, st)'
      BY <1>1, <3>3
    <3>5. st = store'[m].status
      BY <3>1, <3>2
    <3> QED BY <3>4, <3>5 DEF Coming, Right
  <2> QED BY <2>1, <2>2
<1>2. ASSUME NEW m \in Models, store'[m] # None, m \notin missed', At(m)'
      PROVE  Coming(m, worker.status)' \/ worker'.retry \/ Right(m, worker.status)'
  <2>1. CASE cache'[m] = None
    BY <2>1 DEF Coming
  <2>2. CASE cache'[m] # None
    <3>1. store[m] # None /\ At(m) /\ worker' = worker
      BY <1>2, <2>2 DEF At
    <3>2. PICK st \in MaaSModelStatus : st = worker.status
      BY <3>1 DEF TypeOK, Worker, At
    <3>3. Has(m, st) /\ (Coming(m, st) \/ worker.retry \/ Right(m, st))
      BY <1>2, <3>1, <3>2 DEF VerdictRight, Has
    <3>4. Coming(m, st)' \/ worker.retry \/ Right(m, st)'
      BY <1>2, <3>3
    <3>5. st = worker'.status
      BY <3>1, <3>2
    <3> QED BY <3>1, <3>4, <3>5 DEF Coming, Right
  <2> QED BY <2>1, <2>2
<1> QED BY <1>1, <1>2 DEF StatusRight, VerdictRight

-----------------------------------------------------------------------------
(* The controller starts.                                                  *)

LEMMA NewModelType ==
    ASSUME NEW t \in Tenants \cup {None}
    PROVE  NewModel(t) \in MaaSModelRef
BY DEF NewModel, NewStatus, MaaSModelRef, MaaSModelStatus, Phases

LEMMA ReadyModelType ==
    ASSUME NEW m \in Models, NEW t \in Tenants, backend[m].gw \in Gateways,
           backend[m].alias \in Aliases
    PROVE  ReadyModel(m, t) \in MaaSModelRef
<1> DEFINE u == IF \E n \in Models \ {m} : backend[n].alias = backend[m].alias
                THEN "False" ELSE "True"
           st == [phase |-> "Ready", alias |-> backend[m].alias,
                  gateway |-> backend[m].gw, unique |-> u, tenant |-> t]
<1>1. u \in {"Unknown", "True", "False"}
  OBVIOUS
<1>2. ReadyModel(m, t) = [tenantRef |-> None, finalizer |-> TRUE, deleting |-> FALSE,
                          status |-> st]
  BY DEF ReadyModel
<1> HIDE DEF u
<1>3. st \in MaaSModelStatus
  BY <1>1 DEF MaaSModelStatus, Phases
<1> HIDE DEF st
<1> QED BY <1>2, <1>3 DEF MaaSModelRef

LEMMA InitInv == Init => IndInv
<1> SUFFICES ASSUME Init PROVE IndInv
  OBVIOUS
<1>1. PICK g \in Gateways :
        backend \in [Models -> [gw : {g}, ready : {TRUE}, exists : {TRUE}, named : BOOLEAN,
                                alias : Aliases]]
  BY DEF Init
<1>2. \A m \in Models : /\ backend[m] \in Backend
                         /\ backend[m].gw \in Gateways /\ backend[m].alias \in Aliases
  BY <1>1 DEF Backend
<1>3. store \in [Models -> MaaSModelRef \cup {None}]
  <2>1. CASE \E t \in Tenants \cup {None} : store = [m \in Models |-> NewModel(t)]
    BY <2>1, NewModelType
  <2>2. CASE \E t \in Tenants : store = [m \in Models |-> ReadyModel(m, t)]
    BY <1>2, <2>2, ReadyModelType
  <2> QED BY <2>1, <2>2 DEF Init
<1>4. PICK seq \in [1..Cardinality(Models) -> Models] :
        /\ \A m \in Models : \E i \in DOMAIN seq : seq[i] = m
        /\ stream = [i \in DOMAIN seq |-> [model |-> seq[i], obj |-> store[seq[i]]]]
  BY DEF Init
<1>5. Cardinality(Models) \in Nat /\ DOMAIN seq = 1..Cardinality(Models)
  BY <1>4, FS_CardinalityType
<1>6. \A i \in DOMAIN seq : stream[i] \in Change /\ stream[i].model = seq[i]
                            /\ stream[i].obj = store[seq[i]]
  BY <1>3, <1>4, ChangeType
<1>7. stream \in Seq(Change) /\ Len(stream) = Cardinality(Models)
  BY <1>4, <1>5, <1>6
<1>8. TypeOK
  <2>1. backend \in [Models -> Backend]
    BY <1>1, <1>2
  <2> QED BY <1>3, <1>7, <2>1 DEF Init, TypeOK, Change
<1>9. Replays
  <2>1. ASSUME NEW m \in Models PROVE ~(\A i \in 1..Len(stream) : stream[i].model # m)
    BY <1>4, <1>5, <1>6, <1>7
  <2>2. ASSUME NEW m \in Models, NEW i \in 1..Len(stream), stream[i].model = m
        PROVE  stream[i].obj = store[m]
    BY <1>5, <1>6, <1>7, <2>2
  <2> QED BY <2>1, <2>2 DEF Replays
<1>10. StatusRight /\ VerdictRight
  BY DEF Init, StatusRight, VerdictRight, Coming, At
<1>11. OneTold
  BY DEF Init, OneTold, AliasOf
<1> QED BY <1>8, <1>9, <1>10, <1>11 DEF IndInv

-----------------------------------------------------------------------------
(* The rest of the cluster.                                                *)

LEMMA EditType == TypeOK /\ Edit => edits' \in 0..MaxEdits
BY DEF TypeOK, Edit

LEMMA CreateInv ==
    ASSUME IndInv, NEW m \in Models, Create(m) PROVE IndInv'
<1> USE DEF IndInv
<1>1. NewModel(None) \in MaaSModelRef
  BY NewModelType
<1>2. /\ store' = [store EXCEPT ![m] = NewModel(None)]
      /\ store' \in [Models -> MaaSModelRef \cup {None}]
      /\ stream' \in Seq(Change) /\ Replays'
  BY <1>1, SaveStep DEF Create
<1>3. TypeOK'
  BY <1>2, EditType DEF Create, TypeOK, Change
<1>4. \A n \in Models : \/ cache[n] = None
                        \/ store[n] # None /\ store'[n].status = store[n].status
                        \/ store'[n] = None
  BY <1>2 DEF Create, TypeOK
<1>5. OneTold'
  BY <1>4, OneToldKept DEF Create
<1>6. \A n \in Models, st \in MaaSModelStatus :
        Coming(n, st) \/ Right(n, st) => Coming(n, st)' \/ Right(n, st)'
  BY DEF Create, Coming, Right
<1>7. StatusRight' /\ VerdictRight'
  BY <1>4, <1>6, RightKept DEF Create
<1> QED BY <1>2, <1>3, <1>5, <1>7

LEMMA DeleteInv ==
    ASSUME IndInv, NEW m \in Models, Delete(m) PROVE IndInv'
<1> USE DEF IndInv
<1> DEFINE o == IF store[m].finalizer THEN [store[m] EXCEPT !.deleting = TRUE] ELSE None
<1>1. store[m] \in MaaSModelRef
  BY DEF Delete, TypeOK
<1>2. /\ o \in MaaSModelRef \cup {None}
      /\ o = None \/ o.status = store[m].status
  BY <1>1 DEF MaaSModelRef
<1>3. Save(m, o)
  BY DEF Delete
<1> HIDE DEF o
<1>4. /\ store' = [store EXCEPT ![m] = o]
      /\ store' \in [Models -> MaaSModelRef \cup {None}]
      /\ stream' \in Seq(Change) /\ Replays'
  BY <1>2, <1>3, SaveStep DEF Delete
<1>5. TypeOK'
  BY <1>4, EditType DEF Delete, TypeOK, Change
<1>6. \A n \in Models : \/ store'[n] = None
                        \/ store[n] # None /\ store'[n].status = store[n].status
  BY <1>2, <1>4 DEF Delete, TypeOK
<1>7. OneTold'
  BY <1>6, OneToldKept DEF Delete
<1>8. \A n \in Models, st \in MaaSModelStatus :
        Coming(n, st) \/ Right(n, st) => Coming(n, st)' \/ Right(n, st)'
  BY DEF Delete, Coming, Right
<1>9. StatusRight' /\ VerdictRight'
  BY <1>6, <1>8, RightKept DEF Delete
<1> QED BY <1>4, <1>5, <1>7, <1>9

\* Whom a change of the backend proves wrong is notified.
LEMMA BackendChangesInv ==
    ASSUME IndInv, NEW m \in Models, BackendChanges(m) PROVE IndInv'
<1> USE DEF IndInv
<1>1. PICK b : /\ \/ \E g \in Gateways \cup {NoParent, None} : b = [backend[m] EXCEPT !.gw = g]
                  \/ b = [backend[m] EXCEPT !.ready = ~@]
                  \/ b = [backend[m] EXCEPT !.exists = ~@]
                  \/ \E a \in Aliases : b = [backend[m] EXCEPT !.alias = a]
                  \/ m \in Canonical /\ b = [backend[m] EXCEPT !.named = ~@]
               /\ backend' = [backend EXCEPT ![m] = b]
               /\ events' = events \cup Notified(m, backend[m], b)
               /\ missed' = IF b.named = backend[m].named THEN missed ELSE missed \cup {m}
  BY DEF BackendChanges
<1>2. backend[m] \in Backend
  BY DEF TypeOK
<1>3. b \in Backend
  BY <1>1, <1>2 DEF Backend
<1>4. b.named = backend[m].named \/ m \in Canonical
  BY <1>1, <1>2 DEF Backend
<1>5. \/ b.gw # backend[m].gw
      \/ b.gw = backend[m].gw /\ b.exists = backend[m].exists /\ b.ready # backend[m].ready
      \/ b.gw = backend[m].gw /\ b.ready = backend[m].ready
  BY <1>1, <1>2 DEF Backend
<1>6. /\ backend' \in [Models -> Backend] /\ backend'[m] = b
      /\ \A n \in Models \ {m} : backend'[n] = backend[n]
  BY <1>1, <1>3 DEF TypeOK
<1>7. TypeOK'
  <2>1. Notified(m, backend[m], b) \subseteq Models
    BY DEF Notified
  <2>2. \A n \in Models \ Canonical : backend'[n].named
    BY <1>4, <1>6 DEF TypeOK
  <2>3. missed' \subseteq Models
    BY <1>1 DEF TypeOK
  <2> QED BY <1>1, <1>6, <2>1, <2>2, <2>3, EditType DEF BackendChanges, TypeOK
<1>8. /\ UNCHANGED <<store, cache, stream, paired, tenantGw, queue, worker, lost>>
      /\ missed \subseteq missed'
  BY <1>1 DEF BackendChanges
<1>9. Replays' /\ OneTold'
  <2>1. OneTold'
    BY <1>8, OneToldKept
  <2> QED BY <1>8, <2>1 DEF Replays
<1>10. \A n \in Models, st \in MaaSModelStatus :
        Coming(n, st) \/ Right(n, st) => Coming(n, st)' \/ Right(n, st)' \/ n \in missed'
  <2> SUFFICES ASSUME NEW n \in Models, NEW st \in MaaSModelStatus, n \notin missed',
                      Coming(n, st) \/ Right(n, st), ~Coming(n, st)'
               PROVE  Right(n, st)'
    OBVIOUS
  <2>1. ~Coming(n, st) /\ n \notin events'
    BY <1>1, <1>8 DEF Coming
  <2>2. Right(n, st)
    BY <2>1
  <2>3. CASE n # m
    BY <1>6, <1>8, <2>2, <2>3 DEF Right
  <2>4. CASE n = m
    <3>1. /\ b.gw = backend[m].gw /\ b.ready = backend[m].ready
          /\ m \in External \/ b.exists = backend[m].exists
          /\ b.named = backend[m].named
      BY <1>1, <1>5, <2>1, <2>4 DEF Notified
    <3> QED BY <1>6, <1>8, <2>2, <2>4, <3>1 DEF Right
  <2> QED BY <2>3, <2>4
<1>11. StatusRight' /\ VerdictRight'
  BY <1>8, <1>10, RightKept
<1> QED BY <1>7, <1>9, <1>11

LEMMA GovernanceChangesInv ==
    ASSUME IndInv, NEW m \in Models, GovernanceChanges(m) PROVE IndInv'
<1> USE DEF IndInv
<1>1. UNCHANGED <<store, cache, stream, backend, tenantGw, queue, worker, lost, missed>>
  BY DEF GovernanceChanges
<1>2. TypeOK'
  BY EditType DEF GovernanceChanges, TypeOK
<1>3. OneTold'
  BY <1>1, OneToldKept
<1>4. \A n \in Models, st \in MaaSModelStatus :
        Coming(n, st) \/ Right(n, st) => Coming(n, st)' \/ Right(n, st)'
  <2>1. events' = events \cup {m} /\ \A n \in Models \ {m} : n \in paired' <=> n \in paired
    BY DEF GovernanceChanges
  <2> QED BY <1>1, <2>1 DEF Coming, Right
<1>5. StatusRight' /\ VerdictRight'
  BY <1>1, <1>4, RightKept
<1> QED BY <1>1, <1>2, <1>3, <1>5 DEF Replays

LEMMA TenantChangesInv ==
    ASSUME IndInv, NEW t \in Tenants, TenantChanges(t) PROVE IndInv'
<1> USE DEF IndInv
<1>1. UNCHANGED <<store, cache, stream, backend, paired, queue, worker, lost, missed>>
  BY DEF TenantChanges
<1>2. TypeOK'
  BY EditType DEF TenantChanges, TypeOK
<1>3. OneTold'
  BY <1>1, OneToldKept
<1>4. \A n \in Models, st \in MaaSModelStatus :
        Coming(n, st) \/ Right(n, st) => Coming(n, st)' \/ Right(n, st)'
  <2>1. events' = events \cup {t} /\ \A u \in Tenants \ {t} : tenantGw'[u] = tenantGw[u]
    BY DEF TenantChanges, TypeOK
  <2>2. ASSUME NEW n \in Models, NEW st \in MaaSModelStatus, st.tenant # t,
               Coming(n, st) \/ Right(n, st)
        PROVE  Coming(n, st)' \/ Right(n, st)'
    BY <1>1, <2>1, <2>2, StatusFields DEF Coming, Right
  <2> QED BY <2>1, <2>2 DEF Coming
<1>5. StatusRight' /\ VerdictRight'
  BY <1>1, <1>4, RightKept
<1> QED BY <1>1, <1>2, <1>3, <1>5 DEF Replays

-----------------------------------------------------------------------------
(* Watches.                                                                *)

LEMMA BackendEventInv ==
    ASSUME IndInv, NEW m \in Models, BackendEvent(m) PROVE IndInv'
<1> USE DEF IndInv
<1>1. /\ UNCHANGED <<store, cache, stream, backend, paired, tenantGw, worker, lost, missed>>
      /\ events' = events \ {m} /\ queue' = queue \cup {m}
  BY DEF BackendEvent
<1>2. TypeOK'
  BY DEF BackendEvent, TypeOK
<1>3. OneTold'
  BY <1>1, OneToldKept
<1>4. \A n \in Models, st \in MaaSModelStatus :
        Coming(n, st) \/ Right(n, st) => Coming(n, st)' \/ Right(n, st)'
  BY <1>1, StatusFields DEF Coming, Right
<1>5. StatusRight' /\ VerdictRight'
  BY <1>1, <1>4, RightKept
<1> QED BY <1>1, <1>2, <1>3, <1>5 DEF Replays

\* A change of a tenant reaches the models that the cache has with it, and the
\* others that have it are missed.
LEMMA TenantEventInv ==
    ASSUME IndInv, NEW t \in Tenants, TenantEvent(t) PROVE IndInv'
<1> USE DEF IndInv
<1>1. /\ UNCHANGED <<store, cache, stream, backend, paired, tenantGw, worker, lost>>
      /\ events' = events \ {t} /\ queue \subseteq queue' /\ missed \subseteq missed'
  BY DEF TenantEvent
<1>2. TypeOK'
  BY DEF TenantEvent, TypeOK, NotYetOf
<1>3. OneTold'
  BY <1>1, OneToldKept
<1>4. ASSUME NEW n \in Models, NEW st \in MaaSModelStatus, Has(n, st),
             Coming(n, st) \/ Right(n, st)
      PROVE  Coming(n, st)' \/ Right(n, st)' \/ n \in missed'
  <2>1. CASE st.tenant # t
    BY <1>1, <1>4, <2>1 DEF Coming, Right
  <2>2. CASE st.tenant = t /\ cache[n] # None
    <3>1. n \in queue' \/ n \in NotYetOf(t)
      BY <1>4, <2>2 DEF TenantEvent, NotYetOf, Has
    <3> QED BY <3>1 DEF TenantEvent, Coming
  <2>3. CASE cache[n] = None
    BY <1>1, <2>3 DEF Coming
  <2> QED BY <2>1, <2>2, <2>3
<1>5. StatusRight' /\ VerdictRight'
  BY <1>1, <1>4, RightKept
<1> QED BY <1>1, <1>2, <1>3, <1>5 DEF Replays

\* A model that appears in the cache is enqueued, and so are the siblings that its
\* new identity concerns.
LEMMA ModelEventInv ==
    ASSUME IndInv, ModelEvent PROVE IndInv'
<1> USE DEF IndInv
<1>1. /\ stream \in Seq(Change) /\ stream # <<>>
      /\ cache \in [Models -> MaaSModelRef \cup {None}]
  BY DEF ModelEvent, TypeOK, Change
<1>2. PICK m \in Models, new \in MaaSModelRef \cup {None} :
        /\ m = Head(stream).model /\ new = Head(stream).obj
        /\ m = stream[1].model /\ new = stream[1].obj
  <2>1. stream[1] \in Change /\ Head(stream) = stream[1]
    BY <1>1
  <2> QED BY <2>1 DEF Change
<1>3. /\ stream' \in Seq(Change) /\ Len(stream) \in Nat /\ Len(stream) > 0
      /\ Len(stream') = Len(stream) - 1
      /\ \A i \in 1..Len(stream') : stream'[i] = stream[i + 1]
  BY <1>1 DEF ModelEvent
<1>4. /\ cache' = [cache EXCEPT ![m] = new]
      /\ queue' = queue
           \cup (IF new # None /\ (cache[m] = None \/ new.deleting) THEN {m} ELSE {})
           \cup (IF AliasOf(cache[m]) # AliasOf(new) THEN Siblings(m, new) ELSE {})
  BY <1>2, Zenon DEF ModelEvent
<1>5. UNCHANGED <<store, backend, paired, tenantGw, events, worker, lost, missed, edits>>
  BY DEF ModelEvent
<1>6. /\ cache' \in [Models -> MaaSModelRef \cup {None}] /\ cache'[m] = new
      /\ \A n \in Models \ {m} : cache'[n] = cache[n]
  BY <1>1, <1>4
<1>7. TypeOK'
  <2>1. queue' \subseteq Models
    BY <1>4 DEF TypeOK, Siblings
  <2> QED BY <1>3, <1>5, <1>6, <2>1 DEF TypeOK, Change
<1>8. Replays'
  <2>1. ASSUME NEW n \in Models, \A i \in 1..Len(stream') : stream'[i].model # n
        PROVE  cache'[n] = store'[n]
    <3>1. \A i \in 1..Len(stream) : i > 1 => stream[i].model # n
      <4> SUFFICES ASSUME NEW i \in 1..Len(stream), i > 1 PROVE stream[i].model # n
        OBVIOUS
      <4>1. i - 1 \in 1..Len(stream') /\ stream'[i - 1] = stream[(i - 1) + 1]
        BY <1>3
      <4> QED BY <1>3, <2>1, <4>1
    <3>2. CASE n = m
      BY <1>2, <1>3, <1>5, <1>6, <3>1, <3>2 DEF Replays
    <3>3. CASE n # m
      BY <1>2, <1>3, <1>5, <1>6, <3>1, <3>3 DEF Replays
    <3> QED BY <3>2, <3>3
  <2>2. ASSUME NEW n \in Models, NEW i \in 1..Len(stream'), stream'[i].model = n,
               \A j \in 1..Len(stream') : j > i => stream'[j].model # n
        PROVE  stream'[i].obj = store'[n]
    <3>1. i + 1 \in 1..Len(stream) /\ stream'[i] = stream[i + 1]
      BY <1>3
    <3>2. ASSUME NEW j \in 1..Len(stream), j > i + 1 PROVE stream[j].model # n
      <4>1. j - 1 \in 1..Len(stream') /\ stream'[j - 1] = stream[(j - 1) + 1] /\ j - 1 > i
        BY <1>3, <3>2
      <4> QED BY <1>3, <2>2, <4>1
    <3> QED BY <1>5, <2>2, <3>1, <3>2 DEF Replays
  <2> QED BY <2>1, <2>2 DEF Replays
<1>9. ASSUME NEW n \in Models, NEW st \in MaaSModelStatus, Coming(n, st) \/ Right(n, st)
      PROVE  Coming(n, st)' \/ Right(n, st)'
  BY <1>4, <1>5, <1>6, <1>9 DEF Coming, Right
<1>10. StatusRight' /\ VerdictRight'
  BY <1>5, <1>9, RightKept
<1>11. ASSUME NEW a \in Models, NEW b \in Models, Told(a, b),
              AliasOf(cache'[b]) = AliasOf(cache[b])
       PROVE  Told(a, b)'
  BY <1>4, <1>5, <1>11 DEF Told, At, Sees
<1>12. ASSUME NEW a \in Models, NEW b \in Models, a # b,
              AliasOf(cache'[a]) # None, AliasOf(cache'[a]) = AliasOf(cache'[b])
       PROVE  Told(a, b)' \/ Told(b, a)'
  <2>1. CASE AliasOf(cache'[a]) = AliasOf(cache[a]) /\ AliasOf(cache'[b]) = AliasOf(cache[b])
    BY <1>11, <1>12, <2>1 DEF OneTold
  <2>2. CASE AliasOf(cache'[a]) # AliasOf(cache[a])
    <3>1. a = m /\ b \in Siblings(m, new)
      BY <1>6, <1>12, <2>2 DEF Siblings
    <3> QED BY <1>4, <1>6, <2>2, <3>1 DEF Told
  <2>3. CASE AliasOf(cache'[b]) # AliasOf(cache[b])
    <3>1. b = m /\ a \in Siblings(m, new)
      BY <1>6, <1>12, <2>3 DEF Siblings
    <3> QED BY <1>4, <1>6, <2>3, <3>1 DEF Told
  <2> QED BY <2>1, <2>2, <2>3
<1>13. OneTold'
  BY <1>12 DEF OneTold, AliasOf
<1> QED BY <1>7, <1>8, <1>10, <1>13

-----------------------------------------------------------------------------
(* The worker.                                                             *)

\* A Reconcile arrives at a new verdict of m, and changes no other.
LEMMA ReconcileInv ==
    ASSUME IndInv, NEW m \in Models, Reconcile(m) PROVE IndInv'
<1> USE DEF IndInv
<1>1. PICK o \in MaaSModelRef : /\ o = [cache[m] EXCEPT !.finalizer = TRUE]
                                /\ o.status = cache[m].status
                                /\ cache[m].finalizer => o = cache[m]
  <2>1. cache[m] \in MaaSModelRef
    BY DEF Reconcile, TypeOK
  <2>2. /\ [cache[m] EXCEPT !.finalizer = TRUE] \in MaaSModelRef
        /\ [cache[m] EXCEPT !.finalizer = TRUE].status = cache[m].status
        /\ cache[m].finalizer => [cache[m] EXCEPT !.finalizer = TRUE] = cache[m]
    BY <2>1 DEF MaaSModelRef
  <2> QED BY <2>2, Zenon
<1>2. PICK st \in MaaSModelStatus, retry \in BOOLEAN :
        /\ st = Verdict(m, o).status /\ retry = Verdict(m, o).retry
        /\ retry \/ Right(m, st)
        /\ \A n \in Models \ {m} : Sees(st, n)
  BY VerdictIsSound
<1>3. /\ worker' = [model |-> m, base |-> o, status |-> st, retry |-> retry]
      /\ worker = None /\ queue' = queue \ {m} /\ missed' = missed \ {m}
  BY <1>1, <1>2 DEF Reconcile
<1>4. UNCHANGED <<cache, backend, paired, tenantGw, events, lost, edits>>
  BY DEF Reconcile
<1>5. /\ worker' \in Worker /\ worker' # None
      /\ worker'.model = m /\ worker'.status = st /\ worker'.retry = retry
  <2>1. worker' \in Worker
    BY <1>3 DEF Worker
  <2> QED BY <1>3, <2>1
<1>6. /\ store' \in [Models -> MaaSModelRef \cup {None}] /\ stream' \in Seq(Change)
      /\ Replays' /\ \A n \in Models \ {m} : store'[n] = store[n]
  <2>1. CASE cache[m].finalizer
    <3>1. UNCHANGED <<store, stream>>
      BY <2>1 DEF Reconcile
    <3> QED BY <1>4, <3>1 DEF TypeOK, Replays, Change
  <2>2. CASE ~cache[m].finalizer
    <3>1. Save(m, o)
      BY <1>1, <2>2 DEF Reconcile
    <3>2. /\ store' = [store EXCEPT ![m] = o]
          /\ store' \in [Models -> MaaSModelRef \cup {None}]
          /\ stream' \in Seq(Change) /\ Replays'
      BY <1>4, <3>1, SaveStep
    <3> QED BY <3>2 DEF TypeOK
  <2> QED BY <2>1, <2>2
<1>7. TypeOK'
  BY <1>3, <1>4, <1>5, <1>6 DEF TypeOK, Change
<1>8. ASSUME NEW n \in Models PROVE At(n)' <=> n = m
  BY <1>5 DEF At
<1>9. StatusRight'
  <2>1. ASSUME NEW n \in Models, n # m, store'[n] # None, n \notin lost' \cup missed'
        PROVE  (Coming(n, store[n].status) \/ Right(n, store[n].status))'
    <3>1. store'[n] = store[n] /\ n \notin lost \cup missed /\ ~At(n)
      BY <1>3, <1>4, <1>6, <2>1 DEF At
    <3>2. Coming(n, store[n].status) \/ Right(n, store[n].status)
      BY <2>1, <3>1 DEF StatusRight
    <3> QED BY <1>3, <1>4, <2>1, <3>1, <3>2 DEF Coming, Right
  <2> QED BY <1>8, <2>1 DEF StatusRight
<1>10. VerdictRight'
  <2>1. retry \/ Right(m, st)'
    BY <1>2, <1>4 DEF Right
  <2>2. worker'.retry \/ Right(m, worker.status)'
    BY <1>5, <2>1 DEF Right
  <2> QED BY <1>8, <2>2 DEF VerdictRight
<1>11. ASSUME NEW n \in Models, n # m PROVE Told(m, n)'
  <2>1. Sees(st, n)'
    BY <1>2, <1>4, <1>11 DEF Sees
  <2>2. Sees(worker.status, n)'
    BY <1>5, <2>1 DEF Sees
  <2> QED BY <1>8, <2>2 DEF Told
<1>12. ASSUME NEW a \in Models, NEW b \in Models, a # m, Told(a, b) PROVE Told(a, b)'
  <2>1. ~At(a) /\ ~At(a)' /\ store'[a] = store[a]
    BY <1>3, <1>6, <1>8, <1>12 DEF At
  <2> QED BY <1>3, <1>4, <1>12, <2>1 DEF Told, Sees
<1>13. OneTold'
  <2>1. ASSUME NEW a \in Models, NEW b \in Models, a # b, AliasOf(cache[a]) # None,
               AliasOf(cache[a]) = AliasOf(cache[b])
        PROVE  Told(a, b)' \/ Told(b, a)'
    BY <1>11, <1>12, <2>1 DEF OneTold
  <2> QED BY <1>4, <2>1 DEF OneTold, AliasOf
<1> QED BY <1>6, <1>7, <1>9, <1>10, <1>13

\* The verdict is in the status, or lost.
LEMMA updateStatusInv ==
    ASSUME IndInv, updateStatus PROVE IndInv'
<1> USE DEF IndInv
<1>1. worker \in Worker /\ worker # None
  BY DEF updateStatus, TypeOK
<1>2. PICK m \in Models, base \in MaaSModelRef, st \in MaaSModelStatus, retry \in BOOLEAN :
        /\ m = worker.model /\ base = worker.base /\ st = worker.status /\ retry = worker.retry
  BY <1>1 DEF Worker
<1>3. PICK o \in MaaSModelRef : o = [base EXCEPT !.status = st] /\ o.status = st
  <2>1. [base EXCEPT !.status = st] \in MaaSModelRef /\ [base EXCEPT !.status = st].status = st
    BY DEF MaaSModelRef
  <2> QED BY <2>1, Zenon
<1>4. /\ UNCHANGED <<cache, backend, paired, tenantGw, events, missed, edits>>
      /\ worker' = None /\ queue' = IF retry THEN queue \cup {m} ELSE queue
  BY <1>2 DEF updateStatus
<1>5. lost' = IF store[m] # None /\ store'[m].status = st THEN lost \ {m} ELSE lost \cup {m}
  BY <1>2, Zenon DEF updateStatus
<1>6. IF store[m] = base THEN Save(m, o) ELSE UNCHANGED <<store, stream>>
  BY <1>2, <1>3, Zenon DEF updateStatus
<1>7. /\ store' \in [Models -> MaaSModelRef \cup {None}] /\ stream' \in Seq(Change)
      /\ Replays' /\ \A n \in Models \ {m} : store'[n] = store[n]
  <2>1. CASE store[m] = base
    <3>1. Save(m, o)
      BY <1>6, <2>1
    <3>2. /\ store' = [store EXCEPT ![m] = o]
          /\ store' \in [Models -> MaaSModelRef \cup {None}]
          /\ stream' \in Seq(Change) /\ Replays'
      BY <1>4, <3>1, SaveStep
    <3> QED BY <3>2 DEF TypeOK
  <2>2. CASE store[m] # base
    <3>1. UNCHANGED <<store, stream>>
      BY <1>6, <2>2
    <3> QED BY <1>4, <3>1 DEF TypeOK, Replays, Change
  <2> QED BY <2>1, <2>2
<1>8. TypeOK'
  BY <1>4, <1>5, <1>7 DEF TypeOK, Change
<1>9. m \notin lost' => store[m] # None /\ store'[m].status = st
  BY <1>5
<1>10. \A n \in Models : ~At(n)' /\ (At(n) <=> n = m)
  BY <1>1, <1>2, <1>4 DEF At
<1>11. StatusRight' /\ VerdictRight'
  <2>1. ASSUME NEW n \in Models, n # m, store'[n] # None, n \notin lost' \cup missed'
        PROVE  (Coming(n, store[n].status) \/ Right(n, store[n].status))'
    <3>1. store'[n] = store[n] /\ n \notin lost \cup missed /\ ~At(n)
      BY <1>4, <1>5, <1>7, <1>10, <2>1
    <3>2. Coming(n, store[n].status) \/ Right(n, store[n].status)
      BY <2>1, <3>1 DEF StatusRight
    <3> QED BY <1>4, <2>1, <3>1, <3>2 DEF Coming, Right
  <2>2. ASSUME m \notin lost' \cup missed'
        PROVE  (Coming(m, store[m].status) \/ Right(m, store[m].status))'
    <3>1. m \notin missed /\ store[m] # None /\ store'[m].status = st
      BY <1>4, <1>9, <2>2
    <3>2. Coming(m, st) \/ retry \/ Right(m, st)
      BY <1>2, <1>10, <3>1 DEF VerdictRight
    <3>3. Coming(m, st)' \/ Right(m, st)'
      BY <1>4, <3>2 DEF Coming, Right
    <3> QED BY <3>1, <3>3 DEF Coming, Right
  <2> QED BY <1>10, <2>1, <2>2 DEF StatusRight, VerdictRight
<1>12. ASSUME NEW a \in Models, NEW b \in Models, Told(a, b) PROVE Told(a, b)'
  <2>1. CASE a # m
    <3>1. ~At(a) /\ ~At(a)' /\ store'[a] = store[a] /\ (a \in lost <=> a \in lost')
      BY <1>5, <1>7, <1>10, <2>1
    <3> QED BY <1>4, <1>12, <3>1 DEF Told, Sees
  <2>2. CASE a = m /\ (m \in queue \/ retry)
    BY <1>4, <2>2 DEF Told
  <2>3. CASE a = m /\ Sees(st, b)
    BY <1>4, <1>9, <1>10, <2>3 DEF Told, Sees
  <2> QED BY <1>2, <1>10, <1>12, <2>1, <2>2, <2>3 DEF Told
<1>13. OneTold'
  BY <1>4, <1>12 DEF OneTold, AliasOf
<1> QED BY <1>7, <1>8, <1>11, <1>13

LEMMA handleDeletionInv ==
    ASSUME IndInv, NEW m \in Models, handleDeletion(m) PROVE IndInv'
<1> USE DEF IndInv
<1>1. /\ UNCHANGED <<cache, backend, paired, tenantGw, events, worker, lost, missed, edits>>
      /\ worker = None /\ queue' = queue \ {m}
  BY DEF handleDeletion
<1>2. /\ store' \in [Models -> MaaSModelRef \cup {None}] /\ stream' \in Seq(Change)
      /\ Replays' /\ \A n \in Models \ {m} : store'[n] = store[n]
      /\ cache[m] = None \/ store'[m] = None
  <2>1. CASE cache[m] = None
    <3>1. UNCHANGED <<store, stream>>
      BY <2>1 DEF handleDeletion
    <3> QED BY <1>1, <2>1, <3>1 DEF TypeOK, Replays, Change
  <2>2. CASE cache[m] # None
    <3>1. Save(m, None)
      BY <2>2 DEF handleDeletion
    <3>2. /\ store' = [store EXCEPT ![m] = None]
          /\ store' \in [Models -> MaaSModelRef \cup {None}]
          /\ stream' \in Seq(Change) /\ Replays'
      BY <1>1, <3>1, SaveStep
    <3> QED BY <3>2 DEF TypeOK
  <2> QED BY <2>1, <2>2
<1>3. TypeOK'
  BY <1>1, <1>2 DEF TypeOK, Change
<1>4. StatusRight' /\ VerdictRight'
  <2>1. ASSUME NEW n \in Models, store'[n] # None, n \notin lost' \cup missed'
        PROVE  (Coming(n, store[n].status) \/ Right(n, store[n].status))'
    <3>1. CASE cache[n] = None
      BY <1>1, <3>1 DEF Coming
    <3>2. CASE cache[n] # None
      <4>1. n # m /\ store'[n] = store[n] /\ n \notin lost \cup missed /\ ~At(n)
        BY <1>1, <1>2, <2>1, <3>2 DEF At
      <4>2. Coming(n, store[n].status) \/ Right(n, store[n].status)
        BY <2>1, <4>1 DEF StatusRight
      <4> QED BY <1>1, <4>1, <4>2 DEF Coming, Right
    <3> QED BY <3>1, <3>2
  <2> QED BY <1>1, <2>1 DEF StatusRight, VerdictRight, At
<1>5. ASSUME NEW a \in Models, NEW b \in Models, Told(a, b), cache[a] # None
      PROVE  Told(a, b)'
  <2>1. ~At(a) /\ ~At(a)'
    BY <1>1 DEF At
  <2>2. CASE a = m
    BY <1>2, <1>5, <2>1, <2>2 DEF Told
  <2>3. CASE a # m
    BY <1>1, <1>2, <1>5, <2>1, <2>3 DEF Told, Sees
  <2> QED BY <2>2, <2>3
<1>6. OneTold'
  <2>1. ASSUME NEW a \in Models, NEW b \in Models, a # b, AliasOf(cache[a]) # None,
               AliasOf(cache[a]) = AliasOf(cache[b])
        PROVE  Told(a, b)' \/ Told(b, a)'
    <3>1. cache[a] # None /\ cache[b] # None
      BY <2>1 DEF AliasOf
    <3> QED BY <1>5, <2>1, <3>1 DEF OneTold
  <2> QED BY <1>1, <2>1 DEF OneTold, AliasOf
<1> QED BY <1>2, <1>3, <1>4, <1>6

LEMMA RestartInv == IndInv /\ Restart => IndInv'
<1> SUFFICES ASSUME IndInv, Restart PROVE IndInv'
  OBVIOUS
<1> USE DEF IndInv
<1>1. /\ UNCHANGED <<store, backend, paired, tenantGw, lost>>
      /\ worker' = None /\ cache' = store /\ stream' = <<>> /\ events' = {} /\ missed' = {}
      /\ queue' = {m \in Models : store[m] # None}
  BY DEF Restart
<1>2. TypeOK'
  BY <1>1, EditType DEF TypeOK, Restart
<1>3. Replays'
  BY <1>1 DEF Replays
<1>4. StatusRight' /\ VerdictRight'
  BY <1>1 DEF StatusRight, VerdictRight, Coming, At
<1>5. OneTold'
  BY <1>1 DEF OneTold, Told, AliasOf
<1> QED BY <1>2, <1>3, <1>4, <1>5

-----------------------------------------------------------------------------
(* The theorems.                                                           *)

LEMMA NextInv == IndInv /\ [Next]_vars => IndInv'
<1> SUFFICES ASSUME IndInv, [Next]_vars PROVE IndInv'
  OBVIOUS
<1>1. CASE Work
  BY <1>1, updateStatusInv, ReconcileInv, handleDeletionInv DEF Work
<1>2. CASE Watch
  BY <1>2, ModelEventInv, BackendEventInv, TenantEventInv DEF Watch
<1>3. CASE Restart
  BY <1>3, RestartInv
<1>4. CASE \E m \in Models : Create(m) \/ Delete(m) \/ BackendChanges(m) \/ GovernanceChanges(m)
  BY <1>4, CreateInv, DeleteInv, BackendChangesInv, GovernanceChangesInv
<1>5. CASE \E t \in Tenants : TenantChanges(t)
  BY <1>5, TenantChangesInv
<1>6. CASE UNCHANGED vars
  BY <1>6 DEF vars, IndInv, TypeOK, Replays, StatusRight, VerdictRight, OneTold, Told, Sees,
              Coming, Right, At, AliasOf
<1> QED BY <1>1, <1>2, <1>3, <1>4, <1>5, <1>6 DEF Next

\* IndInv is an invariant of the MaaSModelRef controller.
THEOREM Invariance == Spec => []IndInv
BY InitInv, NextInv, PTL DEF Spec

\* Every reachable state of the controller and of the cluster has its type.
THEOREM ModelRefsTypes == Spec => []TypeOK
<1>1. IndInv => TypeOK
  BY DEF IndInv
<1> QED BY Invariance, <1>1, PTL

\* Of any number of models of either kind, behind any number of gateways and tenants,
\* one at rest whose last verdict was written is Ready if and only if it is governed
\* and its route, by the name its backend gives, is at the gateway of its recorded
\* tenant with a ready backend; but for a model that missed a change of that tenant
\* made before the cache had it as the model's, or a change of the route's name in
\* the status of its ExternalModel.  The mappings of the watches miss no other.
THEOREM ReadyModelsAreServed == Spec => []ReadyIsServed
<1>1. IndInv => ReadyIsServed
  <2> SUFFICES ASSUME IndInv, NEW m \in Models, Settled(m), m \notin lost \cup missed
               PROVE  ReadyAgrees(m)
    BY DEF ReadyIsServed
  <2>1. cache[m] = store[m] /\ store[m] # None
    BY DEF IndInv, Replays, Settled
  <2>2. ~Coming(m, store[m].status) /\ ~At(m)
    BY <2>1 DEF Coming, Settled, At
  <2>3. Right(m, store[m].status)
    BY <2>1, <2>2 DEF IndInv, StatusRight
  <2> QED BY <2>3 DEF Right, ReadyAgrees, Served, Up
<1> QED BY Invariance, <1>1, PTL

\* Of any number of models, two that are Ready with one recorded identity do not
\* both call it unique once both are at rest: whichever of the two the cache
\* showed the identity of last, the other was enqueued again, or it saw itself.
THEOREM SharedIdentityIsSeen == Spec => []ConflictSeen
<1>1. IndInv => ConflictSeen
  <2> SUFFICES ASSUME IndInv, NEW m \in Models, NEW n \in Models, SharedIdentity(m, n)
               PROVE  "False" \in {store[m].status.unique, store[n].status.unique}
    BY DEF ConflictSeen
  <2>1. /\ cache[m] = store[m] /\ store[m] # None /\ cache[n] = store[n] /\ store[n] # None
        /\ m \notin queue /\ n \notin queue /\ ~At(m) /\ ~At(n)
    BY DEF SharedIdentity, IndInv, Replays, Settled, At
  <2>2. Told(m, n) \/ Told(n, m)
    BY <2>1 DEF SharedIdentity, AliasOf, IndInv, OneTold
  <2>3. Sees(store[m].status, n) \/ Sees(store[n].status, m)
    BY <2>1, <2>2 DEF Told, SharedIdentity
  <2> QED BY <2>1, <2>3 DEF Sees, AliasOf, SharedIdentity
<1> QED BY Invariance, <1>1, PTL
=============================================================================
