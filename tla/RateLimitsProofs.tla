-------------------------- MODULE RateLimitsProofs --------------------------
(***************************************************************************)
(* The limits at rest are exact, and what was opted out is left alone, for *)
(* any number of subscriptions, models and workers, whatever order they    *)
(* write and delete in.                                                    *)
(***************************************************************************)
EXTENDS RateLimits, TLAPS

USE RateLimitsConstants, NoneAssumption

-----------------------------------------------------------------------------
(* The inductive invariant                                                 *)

\* A subscription is in deletion only as long as it has a finalizer.
Finalizers ==
    \A s \in Subs : /\ subs[s] # None /\ subs[s].deleting => subs[s].finalizer
                    /\ known[s] # None /\ known[s].deleting => known[s].finalizer

\* A worker is at a model on its list, or between models; before it looks for stale
\* TRLPs, the list has models of its subscription.
WorkersSound ==
    \A s \in Subs : worker[s] # None =>
      /\ worker[s].pc = "next" => worker[s].at = None
      /\ worker[s].pc # "next" => worker[s].at \in worker[s].todo
      /\ worker[s].pc \in {"write", "list"} => ~worker[s].stale

\* The worker of s is about to change or delete the TRLP of m.
Strikes(s, m) ==
    /\ worker[s] # None /\ worker[s].at = m
    /\ \/ worker[s].pc = "write" /\ (trlp[m] = None \/ trlp[m].limits # worker[s].limits)
       \/ worker[s].pc = "list" /\ trlp[m] # None
       \/ worker[s].pc = "delete" /\ trlp[m] # None

\* Everybody will hear of a change of the TRLP of m.
Heard(m) == m \in notify \/ \E s \in Subs : Strikes(s, m)

\* The Reconcile of s, under way or queued, has m still before it ...
Ahead(s, m) ==
    \/ s \in queue
    \/ /\ worker[s] # None /\ ~worker[s].stale
       /\ m \in worker[s].todo /\ worker[s].at # m

\* ... or will find that the TRLP of m lists s for nothing.
Clears(s, m) ==
    \/ Ahead(s, m)
    \/ worker[s] # None /\ ~worker[s].stale /\ worker[s].obj.refs[m] = None
    \/ worker[s] # None /\ worker[s].stale /\ m \in worker[s].todo /\ worker[s].at # m

\* The TRLP of m limits s, or is none of the controller's business.
Limited(s, m) == trlp[m] # None /\ (trlp[m].managed => s \in trlp[m].limits)

\* Who should be limited is, or will be.
NobodyMissed ==
    \A m \in Models : \A s \in Contributing(known, m) :
      model[m] = "routed" => Limited(s, m) \/ Heard(m) \/ Ahead(s, m)

\* Who should not be limited is not, or will cease to be: by a Reconcile of its own,
\* or by that of any subscription that names the model.
NobodyKept ==
    \A m \in Models, s \in Subs :
      /\ model[m] = "routed" /\ trlp[m] # None /\ trlp[m].managed
      /\ s \in trlp[m].limits \ Contributing(known, m) /\ known[s] # None
      => \/ Heard(m) \/ Clears(s, m)
         \/ \A t \in Referencing(known, m) : Ahead(t, m)

IndInv == TypeOK /\ Finalizers /\ WorkersSound /\ NobodyMissed /\ NobodyKept

-----------------------------------------------------------------------------
(* Who writes what                                                         *)

\* A step of the Reconcile of s that is under way
Working(s) ==
    \/ CreateOrUpdateTRLP(s) \/ cleanupStaleTRLPs(s) \/ DeleteTRLP(s) \/ ReportPhase(s)
    \/ RemoveFinalizer(s)
    \/ \E m \in Models : reconcileTRLPForModel(s, m) \/ deleteModelTRLP(s, m)

LEMMA Writers ==
    ASSUME [Next]_vars
    PROVE  /\ subs' = subs \/ \E s \in Subs : Apply(s) \/ Delete(s) \/ Start(s) \/ RemoveFinalizer(s)
           /\ known' = known \/ Restart \/ \E s \in Subs : SubEvent(s)
           /\ foreign' = foreign \/ \E s \in Subs : Retarget(s)
           /\ model' = model \/ \E m \in Models : ModelChanges(m)
           /\ trlp' = trlp \/ (\E m \in Models : ModelChanges(m) \/ OptOut(m) \/ Collect(m))
                \/ \E s \in Subs : CreateOrUpdateTRLP(s) \/ DeleteTRLP(s)
           /\ notify' = notify \/ Restart
                \/ (\E m \in Models : ModelChanges(m) \/ Collect(m) \/ ModelEvent(m))
                \/ \E s \in Subs : CreateOrUpdateTRLP(s) \/ DeleteTRLP(s)
           /\ queue' = queue \/ Restart \/ (\E m \in Models : ModelEvent(m))
                \/ \E s \in Subs : \/ Retarget(s) \/ SubEvent(s) \/ Start(s) \/ RemoveFinalizer(s)
                                   \/ \E m \in Models : reconcileTRLPForModel(s, m)
           /\ worker' = worker \/ Restart \/ \E s \in Subs : Start(s) \/ Working(s)
           /\ edits' = edits \/ Edit
<1> USE DEF Working
<1>1. CASE \E s \in Subs : Apply(s) \/ Delete(s) \/ Retarget(s) \/ SubEvent(s)
  BY <1>1 DEF Apply, Delete, Retarget, SubEvent
<1>2. CASE \E s \in Subs : Start(s) \/ cleanupStaleTRLPs(s) \/ ReportPhase(s) \/ RemoveFinalizer(s)
  BY <1>2 DEF Start, cleanupStaleTRLPs, ReportPhase, RemoveFinalizer
<1>3. CASE \E s \in Subs : CreateOrUpdateTRLP(s) \/ DeleteTRLP(s)
  BY <1>3 DEF CreateOrUpdateTRLP, DeleteTRLP
<1>4. CASE \E s \in Subs, m \in Models : reconcileTRLPForModel(s, m) \/ deleteModelTRLP(s, m)
  BY <1>4 DEF reconcileTRLPForModel, deleteModelTRLP
<1>5. CASE Restart \/ \E m \in Models : ModelChanges(m) \/ OptOut(m) \/ Collect(m) \/ ModelEvent(m)
  BY <1>5 DEF Restart, ModelChanges, OptOut, Collect, ModelEvent
<1>6. CASE UNCHANGED vars
  BY <1>6 DEF vars
<1> QED BY <1>1, <1>2, <1>3, <1>4, <1>5, <1>6 DEF Next, Reconcile

-----------------------------------------------------------------------------
(* What a worker does                                                      *)

LEMMA ForgetType ==
    ASSUME NEW s \in Subs, worker[s] \in Worker, NEW m
    PROVE  /\ Forget(s, m) \in Worker
           /\ Forget(s, m).obj = worker[s].obj /\ Forget(s, m).stale = worker[s].stale
           /\ Forget(s, m).pc = "next" /\ Forget(s, m).at = None
           /\ Forget(s, m).todo = worker[s].todo \ {m}
<1> DEFINE t == worker[s].todo \ {m}
<1>1. Forget(s, m) = [worker[s] EXCEPT !.pc = "next", !.todo = t, !.at = None, !.limits = {}]
  BY DEF Forget
<1>2. t \in SUBSET Models
  BY DEF Worker
<1> HIDE DEF t
<1>3. /\ Forget(s, m) \in Worker
      /\ Forget(s, m).obj = worker[s].obj /\ Forget(s, m).stale = worker[s].stale
      /\ Forget(s, m).pc = "next" /\ Forget(s, m).at = None
      /\ Forget(s, m).todo = t
  BY <1>1, <1>2 DEF Worker
<1> QED BY <1>3 DEF t

\* The worker s is done with m and between models, ...
Done(s, m) ==
    /\ worker'[s] \in Worker /\ worker'[s] # None
    /\ worker'[s].obj = worker[s].obj /\ worker'[s].stale = worker[s].stale
    /\ worker'[s].pc = "next" /\ worker'[s].at = None
    /\ worker'[s].todo = worker[s].todo \ {m}

\* ... or has gone to m.
GoneTo(s, m, pc) ==
    /\ worker'[s] \in Worker /\ worker'[s] # None
    /\ worker'[s].obj = worker[s].obj /\ worker'[s].stale = worker[s].stale
    /\ worker'[s].pc = pc /\ worker'[s].at = m
    /\ worker'[s].todo = worker[s].todo

LEMMA StepDone ==
    ASSUME TypeOK, NEW s \in Subs, worker[s] # None, NEW m, Step(s, Forget(s, m)) PROVE Done(s, m)
<1>1. worker[s] \in Worker
  BY DEF TypeOK
<1> DEFINE w == Forget(s, m)
<1>2. /\ w \in Worker /\ w.obj = worker[s].obj /\ w.stale = worker[s].stale
      /\ w.pc = "next" /\ w.at = None /\ w.todo = worker[s].todo \ {m}
  BY <1>1, ForgetType
<1>3. worker' = [worker EXCEPT ![s] = w]
  BY DEF Step
<1> HIDE DEF w
<1>4. worker'[s] = w /\ w # None
  BY <1>2, <1>3 DEF TypeOK
<1> QED BY <1>2, <1>4 DEF Done

LEMMA StepTo ==
    ASSUME TypeOK, NEW s \in Subs, worker[s] # None, NEW m \in Models,
           NEW pc \in {"write", "list", "delete"}, NEW l \in SUBSET Subs,
           \/ Step(s, [worker[s] EXCEPT !.pc = pc, !.at = m])
           \/ Step(s, [worker[s] EXCEPT !.pc = pc, !.at = m, !.limits = l])
    PROVE  /\ GoneTo(s, m, pc)
           /\ Step(s, [worker[s] EXCEPT !.pc = pc, !.at = m, !.limits = l]) => worker'[s].limits = l
<1>1. worker[s] \in Worker
  BY DEF TypeOK
<1>2. CASE Step(s, [worker[s] EXCEPT !.pc = pc, !.at = m, !.limits = l])
  <2> DEFINE w == [worker[s] EXCEPT !.pc = pc, !.at = m, !.limits = l]
  <2>1. /\ w \in Worker /\ w.obj = worker[s].obj /\ w.stale = worker[s].stale
        /\ w.pc = pc /\ w.at = m /\ w.todo = worker[s].todo /\ w.limits = l
    BY <1>1 DEF Worker
  <2>2. worker' = [worker EXCEPT ![s] = w]
    BY <1>2 DEF Step
  <2> HIDE DEF w
  <2>3. worker'[s] = w /\ w # None
    BY <2>1, <2>2 DEF TypeOK
  <2> QED BY <2>1, <2>3 DEF GoneTo
<1>3. CASE ~Step(s, [worker[s] EXCEPT !.pc = pc, !.at = m, !.limits = l])
  <2> DEFINE w == [worker[s] EXCEPT !.pc = pc, !.at = m]
  <2>1. /\ w \in Worker /\ w.obj = worker[s].obj /\ w.stale = worker[s].stale
        /\ w.pc = pc /\ w.at = m /\ w.todo = worker[s].todo
    BY <1>1 DEF Worker
  <2>2. worker' = [worker EXCEPT ![s] = w]
    BY <1>3 DEF Step
  <2> HIDE DEF w
  <2>3. worker'[s] = w /\ w # None
    BY <2>1, <2>2 DEF TypeOK
  <2> QED BY <1>3, <2>1, <2>3 DEF GoneTo
<1> QED BY <1>2, <1>3

LEMMA Reconciled ==
    ASSUME TypeOK, NEW s \in Subs, NEW m \in Models, reconcileTRLPForModel(s, m)
    PROVE  /\ worker[s] # None /\ worker[s].pc = "next" /\ ~worker[s].stale
           /\ m \in worker[s].todo
           /\ \/ worker'[s] = None /\ s \in queue'
              \/ Done(s, m) /\ (model[m] = "routed" => trlp[m] # None /\ ~trlp[m].managed)
              \/ GoneTo(s, m, "list") /\ (model[m] = "routed" => Contributing(known, m) = {})
              \/ GoneTo(s, m, "write") /\ worker'[s].limits = Contributing(known, m)
<1>0. /\ worker[s] # None /\ worker[s].pc = "next" /\ ~worker[s].stale
      /\ m \in worker[s].todo
  BY DEF reconcileTRLPForModel, Running
<1> DEFINE w == worker[s]
           all == Referencing(known, m)
           delete == [w EXCEPT !.pc = "list", !.at = m]
           limits == Contributing(known, m)
<1>1. limits \in SUBSET Subs
  BY DEF Contributing, Referencing
<1>2. \/ Step(s, delete) /\ (model[m] = "routed" => limits = {})
      \/ Step(s, Forget(s, m)) /\ (model[m] = "routed" => trlp[m] # None /\ ~trlp[m].managed)
      \/ Failed(s)
      \/ Step(s, [w EXCEPT !.pc = "write", !.at = m, !.limits = limits])
  BY DEF reconcileTRLPForModel
<1>3. CASE Step(s, delete) /\ (model[m] = "routed" => limits = {})
  BY <1>0, <1>1, <1>3, StepTo
<1>4. CASE Step(s, Forget(s, m)) /\ (model[m] = "routed" => trlp[m] # None /\ ~trlp[m].managed)
  BY <1>0, <1>4, StepDone
<1>5. CASE Failed(s)
  BY <1>0, <1>5 DEF Failed, Return, TypeOK
<1>6. CASE Step(s, [w EXCEPT !.pc = "write", !.at = m, !.limits = limits])
  BY <1>0, <1>1, <1>6, StepTo
<1> QED BY <1>2, <1>3, <1>4, <1>5, <1>6

LEMMA Listed ==
    ASSUME TypeOK, NEW s \in Subs, NEW m \in Models, deleteModelTRLP(s, m)
    PROVE  /\ worker[s] # None
           /\ \/ worker[s].pc = "list" /\ worker[s].at = m
              \/ worker[s].pc = "next" /\ worker[s].stale /\ m \in worker[s].todo
           /\ \/ GoneTo(s, m, "delete") /\ trlp[m] # None
              \/ Done(s, m) /\ (trlp[m] # None => ~trlp[m].managed)
<1>0. /\ worker[s] # None
      /\ \/ worker[s].pc = "list" /\ worker[s].at = m
         \/ worker[s].pc = "next" /\ worker[s].stale /\ m \in worker[s].todo
  BY DEF deleteModelTRLP, Running
<1>1. \/ Step(s, [worker[s] EXCEPT !.pc = "delete", !.at = m]) /\ trlp[m] # None
      \/ Step(s, Forget(s, m)) /\ (trlp[m] # None => ~trlp[m].managed)
  BY DEF deleteModelTRLP
<1>2. {} \in SUBSET Subs
  OBVIOUS
<1>3. CASE Step(s, [worker[s] EXCEPT !.pc = "delete", !.at = m]) /\ trlp[m] # None
  BY <1>0, <1>2, <1>3, StepTo
<1>4. CASE Step(s, Forget(s, m)) /\ (trlp[m] # None => ~trlp[m].managed)
  BY <1>0, <1>4, StepDone
<1> QED BY <1>0, <1>1, <1>3, <1>4

\* The write and the deletion: what is there is as meant, or everybody is told.
LEMMA Written ==
    ASSUME TypeOK, WorkersSound, NEW s \in Subs, CreateOrUpdateTRLP(s) \/ DeleteTRLP(s)
    PROVE  /\ worker[s] # None /\ worker[s].at \in Models /\ Done(s, worker[s].at)
           /\ worker[s].pc \in {"write", "delete"}
           /\ trlp' \in [Models -> TRLP \cup {None}] /\ notify \subseteq notify'
           /\ notify' \subseteq notify \cup {worker[s].at}
           /\ \A m \in Models : trlp'[m] # trlp[m] => m \in notify' /\ m = worker[s].at
           /\ worker[s].pc = "write" =>
                LET m == worker[s].at IN
                /\ trlp'[m] = trlp[m] =>
                     trlp[m] # None /\ (trlp[m].managed => trlp[m].limits = worker[s].limits)
                /\ trlp'[m] # trlp[m] => trlp[m] = None \/ trlp[m].managed
           /\ worker[s].pc = "delete" => trlp'[worker[s].at] = None
<1>0. /\ worker[s] # None /\ worker[s].pc \in {"write", "delete"}
      /\ CreateOrUpdateTRLP(s) => worker[s].pc = "write"
      /\ DeleteTRLP(s) => worker[s].pc = "delete"
  BY DEF CreateOrUpdateTRLP, DeleteTRLP, Running
<1>1. worker[s] \in Worker
  BY <1>0 DEF TypeOK
<1>2. PICK m \in Models : m = worker[s].at
  BY <1>0, <1>1 DEF WorkersSound, Worker
<1>3. Done(s, m)
  BY <1>0, <1>2, StepDone DEF CreateOrUpdateTRLP, DeleteTRLP
<1>4. CASE CreateOrUpdateTRLP(s)
  <2> DEFINE new == [limits |-> worker[s].limits, managed |-> TRUE]
  <2>1. new \in TRLP /\ new.limits = worker[s].limits
    BY <1>1 DEF TRLP, Worker
  <2>2. IF trlp[m] = None \/ (trlp[m].managed /\ trlp[m] # new)
        THEN trlp' = [trlp EXCEPT ![m] = new] /\ notify' = notify \cup {m}
        ELSE trlp' = trlp /\ notify' = notify
    BY <1>2, <1>4 DEF CreateOrUpdateTRLP
  <2> HIDE DEF new
  <2>3. trlp' \in [Models -> TRLP \cup {None}]
    BY <2>1, <2>2 DEF TypeOK
  <2>4. trlp'[m] = trlp[m] =>
          trlp[m] # None /\ (trlp[m].managed => trlp[m].limits = worker[s].limits)
    BY <2>1, <2>2 DEF TypeOK
  <2>5. \A n \in Models : trlp'[n] # trlp[n] => n \in notify' /\ n = m
    BY <2>2 DEF TypeOK
  <2>6. trlp'[m] # trlp[m] => trlp[m] = None \/ trlp[m].managed
    BY <2>2
  <2> QED BY <1>0, <1>2, <1>3, <1>4, <2>2, <2>3, <2>4, <2>5, <2>6
<1>5. CASE DeleteTRLP(s)
  <2>1. /\ trlp' = [trlp EXCEPT ![m] = None]
        /\ notify' = IF trlp[m] # None THEN notify \cup {m} ELSE notify
    BY <1>2, <1>5 DEF DeleteTRLP
  <2>2. \A n \in Models : trlp'[n] # trlp[n] => n \in notify' /\ n = m
    BY <2>1 DEF TypeOK
  <2> QED BY <1>0, <1>2, <1>3, <1>5, <2>1, <2>2 DEF TypeOK
<1> QED BY <1>4, <1>5

\* cleanupStaleTRLPs turns to the TRLPs that list s for nothing.
LEMMA Cleared ==
    ASSUME TypeOK, NEW s \in Subs, cleanupStaleTRLPs(s)
    PROVE  /\ worker[s] # None /\ worker[s].pc = "next" /\ ~worker[s].stale /\ worker[s].todo = {}
           /\ worker'[s] \in Worker /\ worker'[s] # None
           /\ worker'[s].stale /\ worker'[s].todo = Stale(s, worker[s].obj)
           /\ worker'[s].pc = "next" /\ worker'[s].at = worker[s].at
<1>0. worker[s] # None /\ worker[s].pc = "next" /\ ~worker[s].stale /\ worker[s].todo = {}
  BY DEF cleanupStaleTRLPs, Running
<1>1. worker[s] \in Worker
  BY <1>0 DEF TypeOK
<1> DEFINE t == Stale(s, worker[s].obj)
           w == [worker[s] EXCEPT !.stale = TRUE, !.todo = t]
<1>2. t \in SUBSET Models
  BY DEF Stale
<1>3. worker' = [worker EXCEPT ![s] = w]
  BY DEF cleanupStaleTRLPs, Step
<1> HIDE DEF t
<1>4. w \in Worker /\ w.stale /\ w.todo = t /\ w.pc = "next" /\ w.at = worker[s].at
  BY <1>0, <1>1, <1>2 DEF Worker
<1> HIDE DEF w
<1>5. worker'[s] = w /\ w # None
  BY <1>3, <1>4 DEF TypeOK
<1> QED BY <1>0, <1>4, <1>5 DEF t

\* What Start makes of a subscription that the cache has
LEMMA Started ==
    ASSUME TypeOK, Finalizers, NEW s \in Subs, Start(s)
    PROVE  /\ worker[s] = None /\ s \in queue
           /\ worker'[s] \in Worker \cup {None}
           /\ worker'[s] # None => /\ worker'[s].pc = "next" /\ worker'[s].at = None
                                   /\ ~worker'[s].stale
           /\ known[s] # None =>
                /\ worker'[s] # None /\ worker'[s].obj.refs = known[s].refs
                /\ \A m \in Refs(known[s]) : model[m] # "absent" => m \in worker'[s].todo
<1>0. worker[s] = None /\ s \in queue
  BY DEF Start
<1>1. CASE known[s] = None
  BY <1>0, <1>1 DEF Start
<1>2. CASE known[s] # None
  <2>1. known[s] \in MaaSSubscription
    BY <1>2 DEF TypeOK
  <2> DEFINE o == [known[s] EXCEPT !.finalizer = TRUE]
             t == IF known[s].deleting \/ ValidModels(known[s]) # {} THEN Refs(known[s]) ELSE {}
             w == [obj |-> o, pc |-> "next", todo |-> t, stale |-> FALSE, at |-> None,
                   limits |-> {}]
  <2>2. Step(s, w)
    BY <1>2 DEF Start, Finalizers
  <2>3. o \in MaaSSubscription /\ o.refs = known[s].refs
    BY <2>1 DEF MaaSSubscription
  <2>4. t \in SUBSET Models
    BY DEF Refs
  <2>5. \A m \in Refs(known[s]) : model[m] # "absent" => m \in t
    BY DEF ValidModels
  <2>6. worker' = [worker EXCEPT ![s] = w]
    BY <2>2 DEF Step
  <2> HIDE DEF o, t
  <2>7. w \in Worker /\ w.obj = o /\ w.todo = t /\ w.pc = "next" /\ w.at = None /\ ~w.stale
    BY <2>3, <2>4 DEF Worker
  <2> HIDE DEF w
  <2>8. worker'[s] = w /\ w # None
    BY <2>6, <2>7 DEF TypeOK
  <2> QED BY <1>0, <2>3, <2>5, <2>7, <2>8
<1> QED BY <1>1, <1>2

-----------------------------------------------------------------------------
(* What a step does to one subscription                                    *)

LEMMA OneWorker ==
    ASSUME TypeOK, [Next]_vars, NEW s \in Subs
    PROVE  worker'[s] = worker[s] \/ Restart \/ Start(s) \/ Working(s)
<1>1. SUFFICES ASSUME NEW t \in Subs, t # s, Start(t) \/ Working(t)
               PROVE  worker'[s] = worker[s]
  BY Writers
<1>2. CASE Start(t)
  BY <1>1, <1>2 DEF Start, Step, TypeOK
<1>3. CASE CreateOrUpdateTRLP(t) \/ DeleteTRLP(t) \/ cleanupStaleTRLPs(t)
  BY <1>1, <1>3 DEF CreateOrUpdateTRLP, DeleteTRLP, cleanupStaleTRLPs, Step, TypeOK
<1>4. CASE ReportPhase(t) \/ RemoveFinalizer(t)
  BY <1>1, <1>4 DEF ReportPhase, RemoveFinalizer, Return, TypeOK
<1>5. ASSUME NEW m \in Models, reconcileTRLPForModel(t, m) \/ deleteModelTRLP(t, m)
      PROVE  worker'[s] = worker[s]
  BY <1>1, <1>5 DEF reconcileTRLPForModel, deleteModelTRLP, Step, Failed, Return, TypeOK
<1> QED BY <1>1, <1>2, <1>3, <1>4, <1>5 DEF Working

LEMMA OneRequest ==
    ASSUME TypeOK, [Next]_vars, NEW s \in Subs, s \in queue
    PROVE  s \in queue' \/ Restart \/ Start(s)
<1>1. CASE \E t \in Subs : Retarget(t) \/ SubEvent(t) \/ Start(t) \/ RemoveFinalizer(t)
  BY <1>1 DEF Retarget, SubEvent, Start, RemoveFinalizer
<1>2. CASE \E t \in Subs, m \in Models : reconcileTRLPForModel(t, m)
  BY <1>2 DEF reconcileTRLPForModel, Failed
<1>3. CASE \E m \in Models : ModelEvent(m)
  BY <1>3 DEF ModelEvent
<1> QED BY <1>1, <1>2, <1>3, Writers

LEMMA OneCopy ==
    ASSUME TypeOK, [Next]_vars, NEW s \in Subs
    PROVE  known'[s] = known[s] \/ Restart \/ SubEvent(s)
<1>1. CASE \E t \in Subs : SubEvent(t)
  BY <1>1 DEF SubEvent, TypeOK
<1> QED BY <1>1, Writers

\* The copy of the cache changes to a live one, or to one that names other models, only
\* with a request.
LEMMA CopyChanges ==
    ASSUME TypeOK, NEW s \in Subs, SubEvent(s)
    PROVE  /\ \A t \in Subs : t # s => known'[t] = known[t]
           /\ known'[s] = subs[s]
           /\ \/ s \in queue' \/ known'[s] = None
              \/ /\ known[s] # None /\ known'[s] # None /\ known'[s].refs = known[s].refs
                 /\ known'[s].deleting = known[s].deleting
  BY DEF SubEvent, TypeOK

-----------------------------------------------------------------------------
(* Types                                                                   *)

\* The stored subscription keeps its type, and a finalizer while it is in deletion.
LEMMA OneSubscription ==
    ASSUME TypeOK, Finalizers, NEW s \in Subs,
           Apply(s) \/ Delete(s) \/ Start(s) \/ RemoveFinalizer(s)
    PROVE  \/ subs' = subs
           \/ \E o \in MaaSSubscription \cup {None} :
                /\ o # None /\ o.deleting => o.finalizer
                /\ subs' = [subs EXCEPT ![s] = o]
<1>0. /\ subs[s] \in MaaSSubscription \cup {None}
      /\ subs[s] # None /\ subs[s].deleting => subs[s].finalizer
  BY DEF TypeOK, Finalizers
<1>1. CASE Apply(s)
  <2>1. PICK r \in Specs :
          \/ subs' = [subs EXCEPT ![s] = [refs |-> r, finalizer |-> FALSE, deleting |-> FALSE]]
          \/ subs[s] # None /\ subs' = [subs EXCEPT ![s].refs = r]
    BY <1>1 DEF Apply
  <2>2. r \in [Models -> Limits]
    BY DEF Specs
  <2> DEFINE new == [refs |-> r, finalizer |-> FALSE, deleting |-> FALSE]
             old == [subs[s] EXCEPT !.refs = r]
  <2>3. new \in MaaSSubscription /\ ~new.deleting
    BY <2>2 DEF MaaSSubscription
  <2>4. subs[s] # None => /\ old \in MaaSSubscription
                          /\ old.deleting = subs[s].deleting /\ old.finalizer = subs[s].finalizer
    BY <1>0, <2>2 DEF MaaSSubscription
  <2>5. subs' = [subs EXCEPT ![s] = new] \/ (subs[s] # None /\ subs' = [subs EXCEPT ![s] = old])
    BY <2>1
  <2> HIDE DEF new, old
  <2> QED BY <1>0, <2>3, <2>4, <2>5
<1>2. CASE Delete(s)
  <2> DEFINE o == [subs[s] EXCEPT !.deleting = TRUE]
  <2>1. subs[s] # None
    BY <1>2 DEF Delete, Live
  <2>2. o \in MaaSSubscription /\ o.finalizer = subs[s].finalizer
    BY <1>0, <2>1 DEF MaaSSubscription
  <2>3. \/ subs[s].finalizer /\ subs' = [subs EXCEPT ![s] = o]
        \/ subs' = [subs EXCEPT ![s] = None]
    BY <1>2 DEF Delete
  <2> HIDE DEF o
  <2> QED BY <1>0, <2>2, <2>3
<1>3. CASE Start(s)
  <2> DEFINE o == [subs[s] EXCEPT !.finalizer = TRUE]
  <2>1. subs' = subs \/ (subs[s] # None /\ subs' = [subs EXCEPT ![s] = o])
    BY <1>3 DEF Start
  <2>2. subs[s] # None => o \in MaaSSubscription /\ o.finalizer
    BY <1>0 DEF MaaSSubscription
  <2> HIDE DEF o
  <2> QED BY <2>1, <2>2
<1>4. CASE RemoveFinalizer(s)
  BY <1>4 DEF RemoveFinalizer
<1> QED BY <1>1, <1>2, <1>3, <1>4

LEMMA NextSubscriptions ==
    ASSUME IndInv, [Next]_vars
    PROVE  /\ subs' \in [Subs -> MaaSSubscription \cup {None}]
           /\ \A s \in Subs : subs'[s] # None /\ subs'[s].deleting => subs'[s].finalizer
<1>0. TypeOK /\ Finalizers
  BY DEF IndInv
<1>1. CASE subs' = subs
  BY <1>0, <1>1 DEF TypeOK, Finalizers
<1>2. ASSUME NEW s \in Subs, Apply(s) \/ Delete(s) \/ Start(s) \/ RemoveFinalizer(s), subs' # subs
      PROVE  /\ subs' \in [Subs -> MaaSSubscription \cup {None}]
             /\ \A t \in Subs : subs'[t] # None /\ subs'[t].deleting => subs'[t].finalizer
  <2>1. PICK o \in MaaSSubscription \cup {None} :
          /\ o # None /\ o.deleting => o.finalizer
          /\ subs' = [subs EXCEPT ![s] = o]
    BY <1>0, <1>2, OneSubscription
  <2> QED BY <1>0, <2>1 DEF TypeOK, Finalizers
<1> QED BY <1>1, <1>2, Writers

LEMMA TrlpType ==
    ASSUME IndInv, [Next]_vars
    PROVE  trlp' \in [Models -> TRLP \cup {None}]
<1>1. CASE \E m \in Models : ModelChanges(m) \/ Collect(m)
  BY <1>1 DEF ModelChanges, Collect, IndInv, TypeOK
<1>2. ASSUME NEW m \in Models, OptOut(m) PROVE trlp' \in [Models -> TRLP \cup {None}]
  <2> DEFINE new == [trlp[m] EXCEPT !.managed = FALSE]
  <2>1. trlp[m] \in TRLP
    BY <1>2 DEF OptOut, IndInv, TypeOK
  <2>2. new \in TRLP
    BY <2>1 DEF TRLP
  <2>3. trlp' = [trlp EXCEPT ![m] = new]
    BY <1>2 DEF OptOut
  <2> HIDE DEF new
  <2> QED BY <2>2, <2>3 DEF IndInv, TypeOK
<1>3. CASE \E s \in Subs : CreateOrUpdateTRLP(s) \/ DeleteTRLP(s)
  BY <1>3, Written DEF IndInv
<1> QED BY <1>1, <1>2, <1>3, Writers DEF IndInv, TypeOK

\* A worker that works is at a model on its list, or between models, and of its type.
LEMMA WorkerType ==
    ASSUME IndInv, [Next]_vars, NEW s \in Subs
    PROVE  /\ worker'[s] \in Worker \cup {None}
           /\ worker'[s] # None =>
                /\ worker'[s].pc = "next" => worker'[s].at = None
                /\ worker'[s].pc # "next" => worker'[s].at \in worker'[s].todo
                /\ worker'[s].pc \in {"write", "list"} => ~worker'[s].stale
<1>0. TypeOK /\ Finalizers /\ WorkersSound
  BY DEF IndInv
<1>1. CASE worker'[s] = worker[s]
  BY <1>0, <1>1 DEF TypeOK, WorkersSound
<1>2. CASE Restart
  BY <1>2 DEF Restart
<1>3. CASE Start(s)
  BY <1>0, <1>3, Started
<1>4. CASE CreateOrUpdateTRLP(s) \/ DeleteTRLP(s)
  BY <1>0, <1>4, Written DEF Done
<1>5. CASE cleanupStaleTRLPs(s)
  BY <1>0, <1>5, Cleared DEF WorkersSound
<1>6. CASE ReportPhase(s) \/ RemoveFinalizer(s)
  BY <1>0, <1>6 DEF ReportPhase, RemoveFinalizer, Return, TypeOK
<1>7. ASSUME NEW m \in Models, reconcileTRLPForModel(s, m)
      PROVE  /\ worker'[s] \in Worker \cup {None}
             /\ worker'[s] # None =>
                  /\ worker'[s].pc = "next" => worker'[s].at = None
                  /\ worker'[s].pc # "next" => worker'[s].at \in worker'[s].todo
                  /\ worker'[s].pc \in {"write", "list"} => ~worker'[s].stale
  BY <1>0, <1>7, Reconciled DEF Done, GoneTo
<1>8. ASSUME NEW m \in Models, deleteModelTRLP(s, m)
      PROVE  /\ worker'[s] \in Worker \cup {None}
             /\ worker'[s] # None =>
                  /\ worker'[s].pc = "next" => worker'[s].at = None
                  /\ worker'[s].pc # "next" => worker'[s].at \in worker'[s].todo
                  /\ worker'[s].pc \in {"write", "list"} => ~worker'[s].stale
  <2>1. m \in worker[s].todo
    BY <1>0, <1>8, Listed DEF WorkersSound
  <2> QED BY <1>0, <1>8, <2>1, Listed DEF Done, GoneTo
<1> QED BY <1>0, <1>1, <1>2, <1>3, <1>4, <1>5, <1>6, <1>7, <1>8, OneWorker DEF Working

LEMMA WorkerFunction ==
    ASSUME TypeOK, [Next]_vars PROVE worker' = [s \in Subs |-> worker'[s]]
<1>1. CASE Restart
  BY <1>1 DEF Restart
<1>2. ASSUME NEW s \in Subs, Start(s) \/ Working(s) PROVE worker' = [t \in Subs |-> worker'[t]]
  <2>1. worker' = worker \/ \E w : worker' = [worker EXCEPT ![s] = w]
    BY <1>2 DEF Start, Working, CreateOrUpdateTRLP, DeleteTRLP, cleanupStaleTRLPs, ReportPhase,
                RemoveFinalizer, reconcileTRLPForModel, deleteModelTRLP, Step, Failed, Return
  <2> QED BY <2>1 DEF TypeOK
<1> QED BY <1>1, <1>2, Writers DEF TypeOK

LEMMA NextType == ASSUME IndInv, [Next]_vars PROVE TypeOK'
<1>1. subs' \in [Subs -> MaaSSubscription \cup {None}]
  BY NextSubscriptions
<1>2. known' \in [Subs -> MaaSSubscription \cup {None}]
  BY Writers DEF IndInv, TypeOK, Restart, SubEvent
<1>3. foreign' \subseteq Subs
  BY Writers DEF IndInv, TypeOK, Retarget
<1>4. model' \in [Models -> {"absent", "unrouted", "routed"}]
  BY Writers DEF IndInv, TypeOK, ModelChanges
<1>5. trlp' \in [Models -> TRLP \cup {None}]
  BY TrlpType
<1>6. notify' \subseteq Models
  <2>1. CASE \E m \in Models : ModelChanges(m) \/ Collect(m) \/ ModelEvent(m)
    BY <2>1 DEF ModelChanges, Collect, ModelEvent, IndInv, TypeOK
  <2>2. CASE \E s \in Subs : CreateOrUpdateTRLP(s) \/ DeleteTRLP(s)
    BY <2>2, Written DEF IndInv, TypeOK
  <2>3. CASE Restart
    BY <2>3 DEF Restart
  <2> QED BY <2>1, <2>2, <2>3, Writers DEF IndInv, TypeOK
<1>7. queue' \subseteq Subs
  <2>1. CASE \E s \in Subs : Retarget(s) \/ SubEvent(s) \/ Start(s) \/ RemoveFinalizer(s)
    BY <2>1 DEF Retarget, SubEvent, Start, RemoveFinalizer, IndInv, TypeOK
  <2>2. CASE \E s \in Subs, m \in Models : reconcileTRLPForModel(s, m)
    BY <2>2 DEF reconcileTRLPForModel, Failed, IndInv, TypeOK
  <2>3. CASE Restart \/ \E m \in Models : ModelEvent(m)
    BY <2>3 DEF Restart, ModelEvent, Referencing, IndInv, TypeOK
  <2> QED BY <2>1, <2>2, <2>3, Writers DEF IndInv, TypeOK
<1>8. worker' \in [Subs -> Worker \cup {None}]
  <2>1. \A s \in Subs : worker'[s] \in Worker \cup {None}
    BY WorkerType
  <2>2. worker' = [s \in Subs |-> worker'[s]]
    BY WorkerFunction DEF IndInv
  <2> QED BY <2>1, <2>2
<1>9. edits' \in 0..MaxEdits
  BY Writers DEF IndInv, TypeOK, Edit
<1> QED BY <1>1, <1>2, <1>3, <1>4, <1>5, <1>6, <1>7, <1>8, <1>9 DEF TypeOK

LEMMA NextWorkersSound == ASSUME IndInv, [Next]_vars PROVE WorkersSound'
<1>1. \A s \in Subs : worker'[s] # None =>
        /\ worker'[s].pc = "next" => worker'[s].at = None
        /\ worker'[s].pc # "next" => worker'[s].at \in worker'[s].todo
        /\ worker'[s].pc \in {"write", "list"} => ~worker'[s].stale
  BY WorkerType
<1> QED BY <1>1 DEF WorkersSound

LEMMA NextFinalizers == ASSUME IndInv, [Next]_vars PROVE Finalizers'
<1>0. TypeOK /\ Finalizers
  BY DEF IndInv
<1>1. \A s \in Subs : subs'[s] # None /\ subs'[s].deleting => subs'[s].finalizer
  BY NextSubscriptions
<1>2. \A s \in Subs : known'[s] # None /\ known'[s].deleting => known'[s].finalizer
  BY <1>0, Writers DEF Finalizers, Restart, SubEvent, TypeOK
<1> QED BY <1>1, <1>2 DEF Finalizers

-----------------------------------------------------------------------------
(* Who hears of what                                                       *)

LEMMA TrlpHeard ==
    ASSUME IndInv, [Next]_vars, NEW m \in Models, trlp'[m] # trlp[m]
    PROVE  m \in notify' \/ (OptOut(m) /\ trlp'[m] # None /\ ~trlp'[m].managed)
<1>0. TypeOK /\ WorkersSound
  BY DEF IndInv
<1>1. CASE \E n \in Models : ModelChanges(n) \/ Collect(n)
  BY <1>0, <1>1 DEF ModelChanges, Collect, TypeOK
<1>2. ASSUME NEW n \in Models, OptOut(n)
      PROVE  OptOut(m) /\ trlp'[m] # None /\ ~trlp'[m].managed
  <2> DEFINE new == [trlp[n] EXCEPT !.managed = FALSE]
  <2>1. trlp[n] \in TRLP
    BY <1>0, <1>2 DEF OptOut, TypeOK
  <2>2. new \in TRLP /\ ~new.managed
    BY <2>1 DEF TRLP
  <2>3. trlp' = [trlp EXCEPT ![n] = new]
    BY <1>2 DEF OptOut
  <2> HIDE DEF new
  <2>4. n = m
    BY <1>0, <2>3 DEF TypeOK
  <2> QED BY <1>0, <1>2, <2>2, <2>3, <2>4 DEF TypeOK
<1>3. CASE \E s \in Subs : CreateOrUpdateTRLP(s) \/ DeleteTRLP(s)
  BY <1>0, <1>3, Written
<1> QED BY <1>1, <1>2, <1>3, Writers

LEMMA ModelHeard ==
    ASSUME IndInv, [Next]_vars, NEW m \in Models, model'[m] # model[m]
    PROVE  m \in notify'
  BY Writers DEF IndInv, TypeOK, ModelChanges

LEMMA NotifyKept ==
    ASSUME IndInv, [Next]_vars, NEW m \in Models, m \in notify
    PROVE  m \in notify' \/ ModelEvent(m) \/ Restart
<1>1. CASE \E n \in Models : ModelChanges(n) \/ Collect(n) \/ ModelEvent(n)
  BY <1>1 DEF ModelChanges, Collect, ModelEvent
<1>2. CASE \E s \in Subs : CreateOrUpdateTRLP(s) \/ DeleteTRLP(s)
  BY <1>2, Written DEF IndInv
<1> QED BY <1>1, <1>2, Writers

LEMMA StrikesKept ==
    ASSUME IndInv, [Next]_vars, NEW s \in Subs, NEW m \in Models, Strikes(s, m),
           trlp'[m] = trlp[m], ~Restart
    PROVE  Strikes(s, m)' \/ (trlp'[m] # None /\ ~trlp'[m].managed)
<1>0. TypeOK /\ Finalizers /\ WorkersSound
  BY DEF IndInv
<1>s. /\ worker[s] # None /\ worker[s].at = m
      /\ \/ worker[s].pc = "write" /\ (trlp[m] = None \/ trlp[m].limits # worker[s].limits)
         \/ worker[s].pc = "list" /\ trlp[m] # None
         \/ worker[s].pc = "delete" /\ trlp[m] # None
  BY DEF Strikes
<1>1. CASE worker'[s] = worker[s]
  BY <1>1, <1>s DEF Strikes
<1>2. CASE Start(s)
  BY <1>0, <1>2, <1>s, Started
<1>3. CASE CreateOrUpdateTRLP(s) \/ DeleteTRLP(s)
  BY <1>0, <1>3, <1>s, Written
<1>4. CASE cleanupStaleTRLPs(s) \/ ReportPhase(s) \/ RemoveFinalizer(s)
  BY <1>4, <1>s DEF cleanupStaleTRLPs, ReportPhase, RemoveFinalizer, Running
<1>5. ASSUME NEW n \in Models, reconcileTRLPForModel(s, n) PROVE FALSE
  BY <1>0, <1>5, <1>s, Reconciled
<1>6. ASSUME NEW n \in Models, deleteModelTRLP(s, n)
      PROVE  Strikes(s, m)' \/ (trlp'[m] # None /\ ~trlp'[m].managed)
  <2>1. n = m
    BY <1>0, <1>6, <1>s, Listed
  <2>2. \/ GoneTo(s, m, "delete") /\ trlp[m] # None
        \/ trlp[m] # None => ~trlp[m].managed
    BY <1>0, <1>6, <2>1, Listed
  <2> QED BY <1>0, <1>6, <1>s, <2>1, <2>2, Listed DEF GoneTo, Strikes
<1> QED BY <1>0, <1>1, <1>2, <1>3, <1>4, <1>5, <1>6, OneWorker DEF Working

LEMMA HeardKept ==
    ASSUME IndInv, [Next]_vars, NEW m \in Models, Heard(m), ~ModelEvent(m), ~Restart
    PROVE  Heard(m)' \/ (trlp'[m] # None /\ ~trlp'[m].managed)
<1>1. CASE m \in notify
  BY <1>1, NotifyKept DEF Heard
<1>2. CASE trlp'[m] # trlp[m]
  BY <1>2, TrlpHeard DEF Heard
<1>3. ASSUME NEW s \in Subs, Strikes(s, m), trlp'[m] = trlp[m]
      PROVE  Heard(m)' \/ (trlp'[m] # None /\ ~trlp'[m].managed)
  BY <1>3, StrikesKept DEF Heard
<1> QED BY <1>1, <1>2, <1>3 DEF Heard

-----------------------------------------------------------------------------
(* What is ahead stays ahead, or happens                                   *)

LEMMA AheadKept ==
    ASSUME IndInv, [Next]_vars, NEW s \in Subs, NEW m \in Models, Ahead(s, m),
           ~Restart, ~Start(s), ~reconcileTRLPForModel(s, m)
    PROVE  Ahead(s, m)'
<1>0. TypeOK /\ Finalizers /\ WorkersSound
  BY DEF IndInv
<1>1. CASE s \in queue
  BY <1>0, <1>1, OneRequest DEF Ahead
<1>2. CASE s \notin queue
  <2>0. worker[s] # None /\ ~worker[s].stale /\ m \in worker[s].todo /\ worker[s].at # m
    BY <1>2 DEF Ahead
  <2>1. CASE worker'[s] = worker[s]
    BY <2>0, <2>1 DEF Ahead
  <2>2. CASE CreateOrUpdateTRLP(s) \/ DeleteTRLP(s)
    BY <1>0, <2>0, <2>2, Written DEF Done, Ahead
  <2>3. CASE cleanupStaleTRLPs(s) \/ ReportPhase(s) \/ RemoveFinalizer(s)
    BY <2>0, <2>3 DEF cleanupStaleTRLPs, ReportPhase, RemoveFinalizer
  <2>4. ASSUME NEW n \in Models, reconcileTRLPForModel(s, n) PROVE Ahead(s, m)'
    <3>1. n # m
      BY <2>4
    <3> QED BY <1>0, <2>0, <2>4, <3>1, Reconciled DEF Done, GoneTo, Ahead
  <2>5. ASSUME NEW n \in Models, deleteModelTRLP(s, n) PROVE Ahead(s, m)'
    <3>1. n # m
      BY <1>0, <2>0, <2>5, Listed
    <3> QED BY <1>0, <2>0, <2>5, <3>1, Listed DEF Done, GoneTo, Ahead
  <2> QED BY <1>0, <2>1, <2>2, <2>3, <2>4, <2>5, OneWorker DEF Working
<1> QED BY <1>1, <1>2

\* When a Reconcile comes to m, it finds all well or strikes.
LEMMA Comes ==
    ASSUME IndInv, NEW s \in Subs, NEW m \in Models, reconcileTRLPForModel(s, m),
           model[m] = "routed"
    PROVE  /\ trlp' = trlp
           /\ \/ Ahead(s, m)' \/ Heard(m)'
              \/ trlp[m] # None /\ ~trlp[m].managed
              \/ trlp[m] # None /\ trlp[m].limits = Contributing(known, m)
              \/ trlp[m] = None /\ Contributing(known, m) = {}
<1>1. trlp' = trlp
  BY DEF reconcileTRLPForModel
<1>2. \/ s \in queue'
      \/ trlp[m] # None /\ ~trlp[m].managed
      \/ GoneTo(s, m, "list") /\ Contributing(known, m) = {}
      \/ GoneTo(s, m, "write") /\ worker'[s].limits = Contributing(known, m)
  BY Reconciled DEF IndInv
<1>3. CASE s \in queue'
  BY <1>1, <1>3 DEF Ahead
<1>4. CASE GoneTo(s, m, "list") /\ Contributing(known, m) = {}
  BY <1>1, <1>4 DEF GoneTo, Heard, Strikes
<1>5. CASE GoneTo(s, m, "write") /\ worker'[s].limits = Contributing(known, m)
  BY <1>1, <1>5 DEF GoneTo, Heard, Strikes
<1> QED BY <1>1, <1>2, <1>3, <1>4, <1>5

LEMMA AheadNext ==
    ASSUME IndInv, [Next]_vars, NEW m \in Models, NEW s \in Referencing(known, m),
           Ahead(s, m), model[m] = "routed", ~Restart
    PROVE  \/ Ahead(s, m)' \/ Heard(m)'
           \/ /\ trlp' = trlp
              /\ \/ trlp[m] # None /\ ~trlp[m].managed
                 \/ trlp[m] # None /\ trlp[m].limits = Contributing(known, m)
                 \/ trlp[m] = None /\ Contributing(known, m) = {}
<1>0. s \in Subs /\ known[s] # None /\ known[s].refs[m] # None
  BY DEF Referencing, Live
<1>1. CASE Start(s)
  <2>1. m \in Refs(known[s])
    BY <1>0 DEF Refs
  <2> QED BY <1>0, <1>1, <2>1, Started DEF IndInv, Ahead
<1>2. CASE reconcileTRLPForModel(s, m)
  BY <1>0, <1>2, Comes
<1> QED BY <1>0, <1>1, <1>2, AheadKept

LEMMA NextNobodyMissed == ASSUME IndInv, [Next]_vars PROVE NobodyMissed'
<1> SUFFICES ASSUME NEW m \in Models, NEW s \in Contributing(known', m), model'[m] = "routed"
             PROVE  Limited(s, m)' \/ Heard(m)' \/ Ahead(s, m)'
  BY DEF NobodyMissed, Contributing, Referencing, Live
<1>0. TypeOK /\ TypeOK'
  BY NextType DEF IndInv
<1>s. s \in Subs /\ known'[s] # None /\ ~known'[s].deleting /\ known'[s].refs[m] = "valid"
  BY DEF Contributing, Referencing, Live
<1>1. CASE model'[m] # model[m]
  BY <1>1, ModelHeard DEF Heard
<1>2. CASE Restart
  BY <1>2, <1>s DEF Restart, Ahead
<1>3. CASE s \in queue'
  BY <1>3 DEF Ahead
<1>4. CASE model'[m] = model[m] /\ ~Restart /\ s \notin queue'
  <2>1. s \in Contributing(known, m)
    <3>1. known[s] # None /\ known[s].refs = known'[s].refs /\ known[s].deleting = known'[s].deleting
      BY <1>0, <1>4, <1>s, OneCopy, CopyChanges
    <3> QED BY <1>s, <3>1 DEF Contributing, Referencing, Live
  <2>2. Limited(s, m) \/ Heard(m) \/ Ahead(s, m)
    BY <1>4, <2>1 DEF IndInv, NobodyMissed
  <2>3. CASE Limited(s, m)
    BY <2>3, TrlpHeard DEF Limited, Heard
  <2>4. CASE Heard(m)
    <3>1. ~ModelEvent(m)
      BY <1>4, <2>1 DEF ModelEvent, Contributing
    <3> QED BY <1>4, <2>4, <3>1, HeardKept DEF Limited
  <2>5. CASE Ahead(s, m)
    <3>1. s \in Referencing(known, m)
      BY <2>1 DEF Contributing
    <3>2. \/ Ahead(s, m)' \/ Heard(m)'
          \/ /\ trlp' = trlp
             /\ \/ trlp[m] # None /\ ~trlp[m].managed
                \/ trlp[m] # None /\ trlp[m].limits = Contributing(known, m)
                \/ trlp[m] = None /\ Contributing(known, m) = {}
      BY <1>4, <2>5, <3>1, AheadNext
    <3> QED BY <2>1, <3>2 DEF Limited
  <2> QED BY <2>2, <2>3, <2>4, <2>5
<1> QED BY <1>1, <1>2, <1>3, <1>4

-----------------------------------------------------------------------------
(* Nobody is kept                                                          *)

LEMMA ClearsKept ==
    ASSUME IndInv, [Next]_vars, NEW s \in Subs, NEW m \in Models, Clears(s, m), ~Restart,
           model[m] = "routed", trlp'[m] = trlp[m], trlp[m] # None, trlp[m].managed,
           s \in trlp[m].limits, s \notin Contributing(known, m), known[s] # None
    PROVE  Clears(s, m)' \/ Heard(m)'
<1>0. TypeOK /\ Finalizers /\ WorkersSound
  BY DEF IndInv
<1>1. CASE Ahead(s, m)
  <2>1. CASE Start(s)
    <3>1. CASE known[s].refs[m] = None
      BY <1>0, <2>1, <3>1, Started DEF Clears
    <3>2. CASE known[s].refs[m] # None
      <4>1. m \in Refs(known[s])
        BY <3>2 DEF Refs
      <4> QED BY <1>0, <2>1, <4>1, Started DEF Clears, Ahead
    <3> QED BY <3>1, <3>2
  <2>2. CASE reconcileTRLPForModel(s, m)
    BY <2>2, Comes DEF Clears
  <2>3. CASE ~Start(s) /\ ~reconcileTRLPForModel(s, m)
    BY <1>1, <2>3, AheadKept DEF Clears
  <2> QED BY <2>1, <2>2, <2>3
<1>2. CASE worker[s] # None /\ ~worker[s].stale /\ worker[s].obj.refs[m] = None
  <2>0. m \in Stale(s, worker[s].obj)
    BY <1>2 DEF Stale, Refs
  <2>1. CASE worker'[s] = worker[s]
    BY <1>2, <2>1 DEF Clears
  <2>2. CASE Start(s)
    BY <1>0, <1>2, <2>2, Started
  <2>3. CASE CreateOrUpdateTRLP(s) \/ DeleteTRLP(s)
    BY <1>0, <1>2, <2>3, Written DEF Done, Clears
  <2>4. CASE cleanupStaleTRLPs(s)
    <3>1. worker[s].at # m
      BY <1>0, <2>4, Cleared DEF WorkersSound
    <3> QED BY <1>0, <2>0, <2>4, <3>1, Cleared DEF Clears
  <2>5. CASE ReportPhase(s) \/ RemoveFinalizer(s)
    BY <1>2, <2>0, <2>5 DEF ReportPhase, RemoveFinalizer
  <2>6. ASSUME NEW n \in Models, reconcileTRLPForModel(s, n) PROVE Clears(s, m)'
    BY <1>0, <1>2, <2>6, Reconciled DEF Done, GoneTo, Clears, Ahead
  <2>7. ASSUME NEW n \in Models, deleteModelTRLP(s, n) PROVE Clears(s, m)'
    BY <1>0, <1>2, <2>7, Listed DEF Done, GoneTo, Clears
  <2> QED BY <1>0, <2>1, <2>2, <2>3, <2>4, <2>5, <2>6, <2>7, OneWorker DEF Working
<1>3. CASE worker[s] # None /\ worker[s].stale /\ m \in worker[s].todo /\ worker[s].at # m
  <2>1. CASE worker'[s] = worker[s]
    BY <1>3, <2>1 DEF Clears
  <2>2. CASE Start(s)
    BY <1>0, <1>3, <2>2, Started
  <2>3. CASE CreateOrUpdateTRLP(s) \/ DeleteTRLP(s)
    BY <1>0, <1>3, <2>3, Written DEF Done, Clears
  <2>4. CASE cleanupStaleTRLPs(s) \/ ReportPhase(s) \/ RemoveFinalizer(s)
    BY <1>3, <2>4 DEF cleanupStaleTRLPs, ReportPhase, RemoveFinalizer
  <2>5. ASSUME NEW n \in Models, reconcileTRLPForModel(s, n) PROVE FALSE
    BY <1>0, <1>3, <2>5, Reconciled
  <2>6. ASSUME NEW n \in Models, deleteModelTRLP(s, n) PROVE Clears(s, m)' \/ Heard(m)'
    <3>1. CASE n = m
      <4>1. GoneTo(s, m, "delete")
        BY <1>0, <2>6, <3>1, Listed
      <4> QED BY <4>1 DEF GoneTo, Heard, Strikes
    <3>2. CASE n # m
      BY <1>0, <1>3, <2>6, <3>2, Listed DEF Done, GoneTo, Clears
    <3> QED BY <3>1, <3>2
  <2> QED BY <1>0, <2>1, <2>2, <2>3, <2>4, <2>5, <2>6, OneWorker DEF Working
<1> QED BY <1>1, <1>2, <1>3 DEF Clears

LEMMA NextNobodyKept == ASSUME IndInv, [Next]_vars PROVE NobodyKept'
<1> SUFFICES ASSUME NEW m \in Models, NEW s \in Subs,
                    model'[m] = "routed", trlp'[m] # None, trlp'[m].managed,
                    s \in trlp'[m].limits, s \notin Contributing(known', m), known'[s] # None
             PROVE  \/ Heard(m)' \/ Clears(s, m)'
                    \/ \A t \in Referencing(known', m) : Ahead(t, m)'
  BY DEF NobodyKept, Contributing, Referencing, Live
<1>0. TypeOK
  BY DEF IndInv
<1>1. CASE model'[m] # model[m]
  BY <1>1, ModelHeard DEF Heard
<1>2. CASE trlp'[m] # trlp[m]
  BY <1>2, TrlpHeard DEF Heard
<1>3. CASE Restart
  BY <1>3 DEF Restart, Clears, Ahead
<1>4. CASE s \in queue'
  BY <1>4 DEF Clears, Ahead
<1>5. CASE model'[m] = model[m] /\ trlp'[m] = trlp[m] /\ ~Restart /\ s \notin queue'
  <2>1. known[s] # None /\ s \notin Contributing(known, m)
    <3>1. known[s] # None /\ known[s].refs = known'[s].refs /\ known[s].deleting = known'[s].deleting
      BY <1>0, <1>5, OneCopy, CopyChanges
    <3> QED BY <3>1 DEF Contributing, Referencing, Live
  <2>2. \/ Heard(m) \/ Clears(s, m)
        \/ \A t \in Referencing(known, m) : Ahead(t, m)
    BY <1>5, <2>1 DEF IndInv, NobodyKept
  <2>3. CASE Heard(m)
    <3>1. CASE ModelEvent(m)
      BY <3>1 DEF ModelEvent, Ahead, Referencing, Live
    <3> QED BY <1>5, <2>3, <3>1, HeardKept
  <2>4. CASE Clears(s, m)
    BY <1>5, <2>1, <2>4, ClearsKept
  <2>5. CASE \A t \in Referencing(known, m) : Ahead(t, m)
    <3> SUFFICES ASSUME NEW t \in Referencing(known', m), ~Heard(m)'
                 PROVE  Ahead(t, m)'
      OBVIOUS
    <3>0. t \in Subs /\ known'[t] # None /\ ~known'[t].deleting /\ known'[t].refs[m] # None
      BY DEF Referencing, Live
    <3>1. CASE t \in Referencing(known, m)
      <4>1. trlp[m].limits # Contributing(known, m)
        BY <1>5, <2>1
      <4> QED BY <1>5, <2>5, <3>1, <4>1, AheadNext
    <3>2. CASE t \notin Referencing(known, m)
      <4>1. t \in queue'
        BY <1>0, <1>5, <3>0, <3>2, OneCopy, CopyChanges DEF Referencing, Live
      <4> QED BY <4>1 DEF Ahead
    <3> QED BY <3>1, <3>2
  <2> QED BY <2>2, <2>3, <2>4, <2>5
<1> QED BY <1>1, <1>2, <1>3, <1>4, <1>5

-----------------------------------------------------------------------------
(* The theorems                                                            *)

\* In a cluster in which everything has been reconciled, everybody is as should be.
LEMMA Initial == Init => IndInv
<1> SUFFICES ASSUME Init PROVE IndInv
  OBVIOUS
<1> DEFINE new(m) == [limits |-> Contributing(subs, m), managed |-> TRUE]
<1>1. ASSUME NEW m \in Models
      PROVE  new(m) \in TRLP /\ new(m).limits = Contributing(subs, m) /\ new(m) # None
  <2>1. PICK c \in SUBSET Subs : c = Contributing(subs, m)
    BY DEF Contributing, Referencing
  <2>2. new(m) = [limits |-> c, managed |-> TRUE]
    BY <2>1
  <2> HIDE DEF new
  <2>3. new(m) \in TRLP /\ new(m).limits = c
    BY <2>2 DEF TRLP
  <2> QED BY <2>1, <2>3
<1>2. trlp = [m \in Models |-> IF Contributing(subs, m) = {} THEN None ELSE new(m)]
  BY DEF Init
<1> HIDE DEF new
<1>3. TypeOK
  <2>1. Acceptable \subseteq [Models -> Limits]
    BY DEF Acceptable, Specs
  <2>2. subs \in [Subs -> MaaSSubscription \cup {None}]
    BY <2>1 DEF Init, MaaSSubscription
  <2>3. trlp \in [Models -> TRLP \cup {None}]
    BY <1>1, <1>2
  <2> QED BY <2>2, <2>3 DEF Init, TypeOK
<1>4. Finalizers
  BY DEF Init, Finalizers
<1>5. WorkersSound
  BY DEF Init, WorkersSound
<1>6. \A m \in Models : trlp[m] # None => trlp[m].limits = Contributing(known, m)
  BY <1>1, <1>2 DEF Init
<1>7. NobodyMissed
  BY <1>1, <1>2, <1>6 DEF Init, NobodyMissed, Limited
<1>8. NobodyKept
  BY <1>6 DEF NobodyKept
<1> QED BY <1>3, <1>4, <1>5, <1>7, <1>8 DEF IndInv

\* The inductive invariant: who should be limited is or will be, and who should not be
\* is not or will cease to be, at every point of every interleaving of the workers.
THEOREM Invariance == Spec => []IndInv
<1>1. IndInv /\ [Next]_vars => IndInv'
  BY NextType, NextFinalizers, NextWorkersSound, NextNobodyMissed, NextNobodyKept DEF IndInv
<1> QED BY Initial, <1>1, PTL DEF Spec

\* When no request, event or Reconcile is left, every TRLP limits every subscription it
\* should and no other that exists, however the workers' writes and deletions raced.
THEOREM LimitsAreExact == Spec => []LimitsExact
<1>1. IndInv => LimitsExact
  <2> SUFFICES ASSUME IndInv, Idle, NEW m \in Models
               PROVE  /\ model[m] = "routed" /\ Contributing(subs, m) # {} => trlp[m] # None
                      /\ trlp[m] # None /\ trlp[m].managed /\ Referencing(subs, m) # {}
                         => /\ Contributing(subs, m) \subseteq trlp[m].limits
                            /\ \A s \in trlp[m].limits \ Contributing(subs, m) : subs[s] = None
    BY DEF LimitsExact
  <2>1. known = subs /\ ~Heard(m) /\ \A s \in Subs : ~Ahead(s, m) /\ ~Clears(s, m)
    BY DEF Idle, Heard, Strikes, Ahead, Clears
  <2>2. Contributing(subs, m) \subseteq Referencing(subs, m) /\ Referencing(subs, m) \subseteq Subs
    BY DEF Contributing, Referencing
  <2>3. model[m] = "routed" => \A s \in Contributing(subs, m) : Limited(s, m)
    BY <2>1, <2>2 DEF IndInv, NobodyMissed
  <2>4. trlp[m] # None => model[m] = "routed"
    BY DEF Idle
  <2>5. trlp[m] # None => trlp[m].limits \subseteq Subs
    BY DEF IndInv, TypeOK, TRLP
  <2>6. ASSUME trlp[m] # None, trlp[m].managed, Referencing(subs, m) # {},
               NEW s \in trlp[m].limits \ Contributing(subs, m), subs[s] # None
        PROVE  FALSE
    BY <2>1, <2>2, <2>4, <2>5, <2>6 DEF IndInv, NobodyKept
  <2> QED BY <2>3, <2>4, <2>6 DEF Limited
<1> QED BY <1>1, Invariance, PTL

\* Whatever the controller does, a TRLP that was opted out before a Reconcile looked at
\* it is left as it is while its route is there.
THEOREM OptOutIsRespected == Spec => OptedOutKept
<1> DEFINE A == \A m \in Models :
                  (/\ trlp[m] # None /\ ~trlp[m].managed /\ model[m] = "routed"
                   /\ \A s \in Subs : ~(Running(s, "delete") /\ worker[s].at = m))
                  => trlp'[m] = trlp[m]
<1>1. IndInv /\ [Next]_vars => [A]_vars
  <2> SUFFICES ASSUME IndInv, [Next]_vars, NEW m \in Models,
                      trlp[m] # None, ~trlp[m].managed, model[m] = "routed",
                      \A s \in Subs : ~(Running(s, "delete") /\ worker[s].at = m)
               PROVE  trlp'[m] = trlp[m]
    OBVIOUS
  <2>0. TypeOK /\ WorkersSound
    BY DEF IndInv
  <2>1. CASE \E n \in Models : ModelChanges(n) \/ OptOut(n) \/ Collect(n)
    BY <2>0, <2>1 DEF ModelChanges, OptOut, Collect, TypeOK
  <2>2. CASE \E s \in Subs : CreateOrUpdateTRLP(s) \/ DeleteTRLP(s)
    BY <2>0, <2>2, Written DEF Running
  <2> QED BY <2>1, <2>2, Writers
<1>2. Spec => [][A]_vars
  BY <1>1, Invariance, PTL DEF Spec
<1> QED BY <1>2 DEF OptedOutKept
=============================================================================
