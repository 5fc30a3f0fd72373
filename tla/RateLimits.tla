----------------------------- MODULE RateLimits -----------------------------
(***************************************************************************)
(* The MaaSSubscription controller.  Every subscription lists models with  *)
(* token rate limits; all subscriptions of a model are aggregated into one *)
(* TokenRateLimitPolicy (TRLP) on the model's HTTPRoute.  Up to five       *)
(* workers reconcile different subscriptions at a time and each of them    *)
(* writes the TRLP of every model of its subscription from a list it read  *)
(* earlier, out of a cache that lags behind the API server.                *)
(*                                                                         *)
(* External: administrators, the API server and its watches, the garbage   *)
(* collector, Kuadrant (which accepts a TRLP) and the providers of routes. *)
(* All subscriptions live in tenant namespaces.  TRLPs are read from the   *)
(* API server, subscriptions from the cache.                               *)
(***************************************************************************)
EXTENDS Naturals, FiniteSets

CONSTANTS
    Subs,           \* MaaSSubscriptions, by namespace and name
    Models,         \* MaaSModelRefs, by namespace and name
    None,           \* nothing there
    OverLong,       \* where a subscription may have a limit validation rejects
    MaxEdits        \* bound on edits of objects and on restarts

ASSUME RateLimitsConstants ==
    /\ None \notin Subs \cup Models
    /\ OverLong \subseteq Subs \X Models
    /\ MaxEdits \in Nat

VARIABLES
    subs,           \* the MaaSSubscription stored under each name
    known,          \* the informer cache's copy of it
    foreign,        \* subscriptions whose tenant's gateway is not the routes'
    model,          \* each MaaSModelRef: absent, without a route, routed
    trlp,           \* the TRLP maas-trlp-<model>
    notify,         \* models with an undelivered TRLP, route or model event
    queue,          \* the work queue
    worker,         \* the running Reconcile of each subscription
    edits           \* counter for the bound

vars == <<subs, known, foreign, model, trlp, notify, queue, worker, edits>>

Limits == {None, "valid", "invalid"}
MaaSSubscription ==
    [refs : [Models -> Limits], finalizer : BOOLEAN, deleting : BOOLEAN]
TRLP == [limits : SUBSET Subs, managed : BOOLEAN]
Worker ==
    [obj : MaaSSubscription, pc : {"next", "write", "list", "delete"},
     todo : SUBSET Models, stale : BOOLEAN, at : Models \cup {None}, limits : SUBSET Subs]
ASSUME NoneAssumption ==
    None \notin {"valid", "invalid"} \cup MaaSSubscription \cup TRLP \cup Worker

TypeOK ==
    /\ subs \in [Subs -> MaaSSubscription \cup {None}]
    /\ known \in [Subs -> MaaSSubscription \cup {None}]
    /\ foreign \subseteq Subs
    /\ model \in [Models -> {"absent", "unrouted", "routed"}]
    /\ trlp \in [Models -> TRLP \cup {None}]
    /\ notify \subseteq Models
    /\ queue \subseteq Subs
    /\ worker \in [Subs -> Worker \cup {None}]
    /\ edits \in 0..MaxEdits

Refs(o) == {m \in Models : o.refs[m] # None}
Live(objs, s) == objs[s] # None /\ ~objs[s].deleting

\* findAllSubscriptionsForModel
Referencing(objs, m) == {s \in Subs : Live(objs, s) /\ objs[s].refs[m] # None}

\* The subscriptions whose limits validateTokenRateLimit accepts.
Contributing(objs, m) == {s \in Referencing(objs, m) : objs[s].refs[m] = "valid"}

\* validateHTTPRouteReferencesGateway, for the gateway of the tenant of s
RouteReferencesGateway(s) == s \notin foreign

\* A spec names at least one model.
Specs == {r \in [Models -> Limits] : \E m \in Models : r[m] # None}
Acceptable == {r \in Specs : \A m \in Models : r[m] # "invalid"}

\* A cluster in which everything has been reconciled.
Init ==
    /\ subs \in [Subs -> {None} \cup [refs : Acceptable, finalizer : {TRUE}, deleting : {FALSE}]]
    /\ known = subs
    /\ foreign = {}
    /\ model = [m \in Models |-> "routed"]
    /\ trlp = [m \in Models |->
                 IF Contributing(subs, m) = {} THEN None
                 ELSE [limits |-> Contributing(subs, m), managed |-> TRUE]]
    /\ notify = {}
    /\ queue = {}
    /\ worker = [s \in Subs |-> None]
    /\ edits = 0

---------------------------------------------------------------------------
(* Administrators, tenants and providers.                                  *)

Edit == edits < MaxEdits /\ edits' = edits + 1

Apply(s) ==
    /\ Edit
    /\ \E r \in {r \in Specs : \A m \in Models : r[m] = "invalid" => <<s, m>> \in OverLong} :
       \/ /\ subs[s] = None
          /\ subs' = [subs EXCEPT ![s] = [refs |-> r, finalizer |-> FALSE,
                                          deleting |-> FALSE]]
       \/ /\ subs[s] # None /\ subs[s].refs # r
          /\ subs' = [subs EXCEPT ![s].refs = r]
    /\ UNCHANGED <<known, foreign, model, trlp, notify, queue, worker>>

Delete(s) ==
    /\ Live(subs, s) /\ Edit
    /\ subs' = [subs EXCEPT ![s] = IF @.finalizer THEN [@ EXCEPT !.deleting = TRUE]
                                                   ELSE None]
    /\ UNCHANGED <<known, foreign, model, trlp, notify, queue, worker>>

\* The AITenant of s gets another gateway; mapAITenantToMaaSSubscriptions.
Retarget(s) ==
    /\ Edit
    /\ foreign' = IF s \in foreign THEN foreign \ {s} ELSE foreign \cup {s}
    /\ queue' = IF known[s] # None THEN queue \cup {s} ELSE queue
    /\ UNCHANGED <<subs, known, model, trlp, notify, worker>>

\* Deleting a MaaSModelRef removes its managed TRLP (deleteGeneratedPoliciesByLabel).
ModelChanges(m) ==
    /\ Edit
    /\ \E v \in {"absent", "unrouted", "routed"} \ {model[m]} :
       /\ v = "routed" => model[m] = "unrouted"
       /\ model' = [model EXCEPT ![m] = v]
       /\ trlp' = IF v = "absent" /\ trlp[m] # None /\ trlp[m].managed
                  THEN [trlp EXCEPT ![m] = None] ELSE trlp
    /\ notify' = notify \cup {m}
    /\ UNCHANGED <<subs, known, foreign, queue, worker>>

\* opendatahub.io/managed: "false".  An annotation does not change the generation.
OptOut(m) ==
    /\ trlp[m] # None /\ trlp[m].managed /\ Edit
    /\ trlp' = [trlp EXCEPT ![m].managed = FALSE]
    /\ UNCHANGED <<subs, known, foreign, model, notify, queue, worker>>

\* The HTTPRoute that owns the TRLP is gone.
Collect(m) ==
    /\ trlp[m] # None /\ model[m] # "routed"
    /\ trlp' = [trlp EXCEPT ![m] = None]
    /\ notify' = notify \cup {m}
    /\ UNCHANGED <<subs, known, foreign, model, queue, worker, edits>>

---------------------------------------------------------------------------
(* Watches.                                                                *)

\* The cache catches up; a changed spec and a deletion enqueue.
SubEvent(s) ==
    /\ known[s] # subs[s]
    /\ known' = [known EXCEPT ![s] = subs[s]]
    /\ queue' = IF subs[s] # None
                   /\ (known[s] = None \/ known[s].refs # subs[s].refs
                                       \/ known[s].deleting # subs[s].deleting)
                THEN queue \cup {s} ELSE queue
    /\ UNCHANGED <<subs, foreign, model, trlp, notify, worker, edits>>

EnqueueContributors(m) ==
    /\ m \in notify
    /\ notify' = notify \ {m}
    /\ queue' = queue \cup (IF trlp[m] = None THEN {} ELSE trlp[m].limits)
    /\ UNCHANGED <<subs, known, foreign, model, trlp, worker, edits>>

\* mapGeneratedTRLPToParent, mapHTTPRouteToMaaSSubscriptions and
\* mapMaaSModelRefToMaaSSubscriptions.  The latter two also enqueue a
\* subscription in deletion, which the queue keeps until it is gone anyway.
ModelEvent(m) ==
    /\ m \in notify
    /\ notify' = notify \ {m}
    /\ queue' = queue \cup Referencing(known, m)
    /\ UNCHANGED <<subs, known, foreign, model, trlp, worker, edits>>

---------------------------------------------------------------------------
(* Reconcile.                                                              *)

Running(s, pc) == worker[s] # None /\ worker[s].pc = pc
Step(s, w) == worker' = [worker EXCEPT ![s] = w]
Return(s) == worker' = [worker EXCEPT ![s] = None]

\* validateModelRefs
ValidModels(o) == {m \in Refs(o) : model[m] # "absent"}

\* validateSubscriptionTenantGatewaysForRoute: all of them, or it is an error.
RouteServesAll(all) == \A s \in all : RouteReferencesGateway(s)

\* One Reconcile per subscription at a time.  The finalizer is added with the
\* copy from the cache, which the API server refuses when it is old: the
\* request is retried until the cache has caught up.
Start(s) ==
    /\ s \in queue /\ worker[s] = None
    /\ queue' = queue \ {s}
    /\ LET o == known[s] IN
       \/ /\ o = None \/ (o # None /\ o.deleting /\ ~o.finalizer)
          /\ UNCHANGED <<subs, worker>>
       \/ /\ o # None /\ (o.finalizer \/ (~o.deleting /\ o = subs[s]))
          /\ subs' = IF o.finalizer THEN subs ELSE [subs EXCEPT ![s].finalizer = TRUE]
          /\ Step(s, [obj |-> [o EXCEPT !.finalizer = TRUE], pc |-> "next",
                      \* Without a valid model only stale TRLPs are dealt with.
                      todo |-> IF o.deleting \/ ValidModels(o) # {} THEN Refs(o) ELSE {},
                      stale |-> FALSE, at |-> None, limits |-> {}])
    /\ UNCHANGED <<known, foreign, model, trlp, notify, edits>>

FailedForGood(s) == Return(s) /\ UNCHANGED queue

\* The Reconcile ends with an error and is retried.
Failed(s) ==
    /\ Return(s)
    /\ queue' = queue \cup {s}

Forget(s, m) == [worker[s] EXCEPT !.pc = "next", !.todo = @ \ {m}, !.at = None, !.limits = {}]

\* reconcileTRLPForModel up to the write: which subscriptions there are.
reconcileTRLPForModel(s, m) ==
    /\ Running(s, "next") /\ ~worker[s].stale /\ m \in worker[s].todo
    /\ LET w == worker[s]
           all == Referencing(known, m)
           delete == [w EXCEPT !.pc = "list", !.at = m]
       IN
       \/ /\ model[m] = "absent" \/ (model[m] = "unrouted" /\ all = {})
          /\ Step(s, delete)
          /\ UNCHANGED queue
       \/ /\ model[m] = "unrouted" /\ all # {}
          /\ Step(s, Forget(s, m))
          /\ UNCHANGED queue
       \/ /\ model[m] = "routed" /\ ~RouteServesAll(all)
          /\ Failed(s)
       \/ /\ model[m] = "routed" /\ RouteServesAll(all)
          /\ IF trlp[m] # None /\ ~trlp[m].managed
             THEN Step(s, Forget(s, m))
             ELSE IF Contributing(known, m) = {}
                  THEN Step(s, delete)
                  ELSE Step(s, [w EXCEPT !.pc = "write", !.at = m,
                                         !.limits = Contributing(known, m)])
          /\ UNCHANGED queue
    /\ UNCHANGED <<subs, known, foreign, model, trlp, notify, edits>>

OverwriteTRLP(s) ==
    /\ Running(s, "write")
    /\ LET m == worker[s].at
           new == [limits |-> worker[s].limits, managed |-> TRUE]
       IN  /\ trlp' = [trlp EXCEPT ![m] = new]
           /\ notify' = IF new # trlp[m] THEN notify \cup {m} ELSE notify
           /\ Step(s, Forget(s, m))
    /\ UNCHANGED <<subs, known, foreign, model, queue, edits>>

\* Create the TRLP, or update a managed one that differs.
CreateOrUpdateTRLP(s) ==
    /\ Running(s, "write")
    /\ LET m == worker[s].at
           new == [limits |-> worker[s].limits, managed |-> TRUE]
       IN  /\ IF trlp[m] = None \/ (trlp[m].managed /\ trlp[m] # new)
              THEN trlp' = [trlp EXCEPT ![m] = new] /\ notify' = notify \cup {m}
              ELSE UNCHANGED <<trlp, notify>>
           /\ Step(s, Forget(s, m))
    /\ UNCHANGED <<subs, known, foreign, model, queue, edits>>

\* The TRLPs that list s for a model that s no longer names.
Stale(s, o) == {m \in Models \ Refs(o) : trlp[m] # None /\ s \in trlp[m].limits}

cleanupStaleTRLPs(s) ==
    /\ Running(s, "next") /\ ~worker[s].stale /\ worker[s].todo = {}
    /\ worker[s].obj.deleting \/ Stale(s, worker[s].obj) # {}
    /\ Step(s, [worker[s] EXCEPT !.stale = TRUE, !.todo = Stale(s, worker[s].obj)])
    /\ UNCHANGED <<subs, known, foreign, model, trlp, notify, queue, edits>>

\* deleteModelTRLP lists and passes over what is not managed ...
deleteModelTRLP(s, m) ==
    /\ \/ Running(s, "list") /\ worker[s].at = m
       \/ Running(s, "next") /\ worker[s].stale /\ m \in worker[s].todo
    /\ IF trlp[m] # None /\ trlp[m].managed
       THEN Step(s, [worker[s] EXCEPT !.pc = "delete", !.at = m])
       ELSE Step(s, Forget(s, m))
    /\ UNCHANGED <<subs, known, foreign, model, trlp, notify, queue, edits>>

\* ... and deletes by name, without a precondition.
DeleteTRLP(s) ==
    /\ Running(s, "delete")
    /\ LET m == worker[s].at IN
       /\ trlp' = [trlp EXCEPT ![m] = None]
       /\ notify' = IF trlp[m] # None THEN notify \cup {m} ELSE notify
       /\ Step(s, Forget(s, m))
    /\ UNCHANGED <<subs, known, foreign, model, queue, edits>>

\* The end of Reconcile: the phase is written to the status, which nobody in
\* this module reads.
ReportPhase(s) ==
    /\ Running(s, "next") /\ worker[s].todo = {} /\ ~worker[s].obj.deleting
    /\ worker[s].stale \/ Stale(s, worker[s].obj) = {}
    /\ Return(s)
    /\ UNCHANGED <<subs, known, foreign, model, trlp, notify, queue, edits>>

\* The end of handleDeletion: an old copy is refused and retried.
RemoveFinalizer(s) ==
    /\ Running(s, "next") /\ worker[s].stale /\ worker[s].todo = {}
    /\ worker[s].obj.deleting
    /\ IF worker[s].obj = subs[s]
       THEN subs' = [subs EXCEPT ![s] = None] /\ UNCHANGED queue
       ELSE UNCHANGED subs /\ queue' = queue \cup {s}
    /\ Return(s)
    /\ UNCHANGED <<known, foreign, model, trlp, notify, edits>>

\* The controller restarts: its caches are read anew and everything is enqueued.
Restart ==
    /\ Edit
    /\ worker' = [s \in Subs |-> None]
    /\ known' = subs
    /\ queue' = {s \in Subs : subs[s] # None}
    /\ notify' = {}
    /\ UNCHANGED <<subs, foreign, model, trlp>>

---------------------------------------------------------------------------
Reconcile(s) ==
    \/ Start(s) \/ CreateOrUpdateTRLP(s) \/ cleanupStaleTRLPs(s)
    \/ DeleteTRLP(s) \/ ReportPhase(s) \/ RemoveFinalizer(s)
    \/ \E m \in Models : reconcileTRLPForModel(s, m) \/ deleteModelTRLP(s, m)

Next ==
    \/ \E s \in Subs : \/ Apply(s) \/ Delete(s) \/ Retarget(s)
                       \/ SubEvent(s) \/ Reconcile(s)
    \/ Restart
    \/ \E m \in Models : \/ ModelChanges(m) \/ OptOut(m) \/ Collect(m)
                         \/ ModelEvent(m)

Spec == Init /\ [][Next]_vars

\* The queue serves every request and the watches deliver every event.
FairSpec ==
    /\ Spec
    /\ \A s \in Subs : WF_vars(SubEvent(s)) /\ WF_vars(Reconcile(s))
    /\ WF_vars(\E m \in Models : ModelEvent(m) \/ Collect(m))

---------------------------------------------------------------------------
(* Properties.                                                             *)

\* Nothing is waiting: no event, no request, no Reconcile, no garbage.
Idle ==
    /\ known = subs /\ notify = {} /\ queue = {}
    /\ \A s \in Subs : worker[s] = None
    /\ \A m \in Models : trlp[m] # None => model[m] = "routed"

\* When the controller has nothing left to do, the TRLP of a routed model limits
\* every live subscription with acceptable limits, whatever order the workers
\* wrote and deleted it in; and as long as a live subscription names the model,
\* it limits no other subscription that still exists.
LimitsExact ==
    Idle => \A m \in Models :
      LET want == Contributing(subs, m) IN
      /\ model[m] = "routed" /\ want # {} => trlp[m] # None
      /\ trlp[m] # None /\ trlp[m].managed /\ Referencing(subs, m) # {}
         => /\ want \subseteq trlp[m].limits
            /\ \A s \in trlp[m].limits \ want : subs[s] = None

\* A TRLP that was opted out before a Reconcile looked at it is neither changed nor
\* deleted by one, as long as its route is there.
OptedOutKept ==
    [][\A m \in Models :
         (/\ trlp[m] # None /\ ~trlp[m].managed /\ model[m] = "routed"
          /\ \A s \in Subs : ~(Running(s, "delete") /\ worker[s].at = m))
         => trlp'[m] = trlp[m]]_vars

\* A live subscription of a tenant with another gateway names the model.
Blocked(m) == model[m] = "routed" /\ ~RouteServesAll(Referencing(subs, m))

\* Once administrators leave it alone and no model is blocked, every subscription
\* is limited and every subscription in deletion goes away: workers that overwrite
\* or delete each other's TRLPs do not do so for ever, and the last word has every
\* live subscription in it.
Settles ==
    <>[](\/ \E n \in Models : Blocked(n)
         \/ /\ \A s \in Subs : subs[s] # None => ~subs[s].deleting
            /\ \A m \in Models :
                 LET want == Contributing(subs, m) IN
                 model[m] = "routed" /\ want # {}
                 => trlp[m] # None /\ (trlp[m].managed => want \subseteq trlp[m].limits))
=============================================================================
