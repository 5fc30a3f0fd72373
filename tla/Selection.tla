------------------------------ MODULE Selection ------------------------------
(***************************************************************************)
(* Which subscription pays for a request, and which models a caller is     *)
(* shown: the selector of maas-api behind the gateway's                    *)
(* /internal/v1/subscriptions/select, the minting of API keys and the      *)
(* listings.  All of them read the informers' copies of MaaSSubscriptions, *)
(* MaaSModelRefs and MaaSAuthPolicies, in which the controllers' verdicts  *)
(* arrive one object at a time.                                            *)
(*                                                                         *)
(* One caller of one tenant.  Subscriptions are of the tenant's namespace, *)
(* so their names are unique; models are of every namespace, so neither    *)
(* their names nor their aliases are.  The order in which an informer      *)
(* lists is arbitrary.                                                     *)
(***************************************************************************)
EXTENDS Naturals, Sequences, FiniteSets

CONSTANTS
    Subs,           \* MaaSSubscriptions of the tenant
    Models,         \* MaaSModelRefs, as namespace/name
    NameOf,         \* the name of each, without the namespace
    External,       \* those whose spec.modelRef is an ExternalModel
    Aliases,        \* values of status.resolvedModelAlias and spec.modelRef.name
    None,           \* nothing there, nothing asked for
    MaxEdits        \* bound on changes of the informers' copies

ASSUME SelectionConstants ==
    /\ None \notin Subs \cup Models \cup Aliases
    /\ Models \cap Aliases = {} /\ External \subseteq Models
    /\ None \notin {NameOf[m] : m \in Models} /\ {NameOf[m] : m \in Models} \cap Models = {}
    /\ MaxEdits \in Nat

VARIABLES
    subs,           \* the subscriptions
    refs,           \* spec.modelRef.name, alias and readiness of each MaaSModelRef
    mine,           \* subscriptions whose owner is the caller or a group of the caller
    authorized,     \* models some MaaSAuthPolicy grants the caller
    key,            \* the subscription the caller's API key is bound to
    edits           \* counter for the bound

selectionVars == <<subs, refs, mine, authorized, key, edits>>

Phases == {None, "Pending", "Active", "Degraded", "Failed"}
RefLists == {<<m>> : m \in Models} \cup {<<m, n>> : m, n \in Models}
\* enforced: models whose entry in status.tokenRateLimitStatuses is ready
subscription == [modelRefs : RefLists, phase : Phases, deleting : BOOLEAN,
                 priority : 0..1, enforced : SUBSET Models]
MaaSModelRef == [target : Aliases, alias : Aliases \cup {None}, ready : BOOLEAN]

SelectionTypeOK ==
    /\ subs \in [Subs -> subscription \cup {None}]
    /\ refs \in [Models -> MaaSModelRef \cup {None}]
    /\ mine \subseteq Subs
    /\ authorized \subseteq Models
    /\ key \in Subs \cup {None}
    /\ edits \in 0..MaxEdits

SelectionInit ==
    /\ \E l \in [Subs -> RefLists] :
         subs = [s \in Subs |-> [modelRefs |-> l[s], phase |-> "Active", deleting |-> FALSE,
                                 priority |-> 0, enforced |-> Models]]
    /\ \E t \in [Models -> Aliases], a \in [Models -> Aliases \cup {None}] :
         /\ \A m \in External : a[m] = t[m]
         /\ refs = [m \in Models |-> [target |-> t[m], alias |-> a[m], ready |-> TRUE]]
    /\ mine = Subs
    /\ authorized = Models
    /\ key = None
    /\ edits = 0

userHasAccess(s) == subs[s] # None /\ s \in mine

AuthorizedModels(ms) == ms \cap authorized

Elements(o) == {o.modelRefs[i] : i \in DOMAIN o.modelRefs}

---------------------------------------------------------------------------
(* Select.                                                                 *)

\* Asked for with an id: a qualified name, an alias or a bare name.
Ids == Models \cup Aliases \cup {NameOf[m] : m \in Models}

ResolveByTarget(id) ==
    LET found == {m \in Models : refs[m] # None /\ refs[m].target = id} IN
    IF id = None \/ found = {} THEN {id} ELSE found

\* What the id may stand for: some model with that alias, or itself.
resolveModelAlias(id) ==
    LET found == {m \in Models : refs[m] # None /\ refs[m].alias = id} IN
    IF id = None \/ found = {} THEN {id} ELSE found

AliasOf(m) == IF refs[m] = None THEN None ELSE refs[m].alias

\* The first entry of the list that the id matches
findModelRef(o, id) ==
    LET Matches(i) == \/ AliasOf(o.modelRefs[i]) = id
                      \/ NameOf[o.modelRefs[i]] = id
        hits == {i \in DOMAIN o.modelRefs : Matches(i)}
    IN  IF id \in Elements(o) THEN id
        ELSE IF hits = {} THEN None
        ELSE o.modelRefs[CHOOSE i \in hits : \A j \in hits : i <= j]

subscriptionIncludesModel(o, id) == id = None \/ findModelRef(o, id) # None

\* The entry of tokenRateLimitStatuses is looked up by the model's bare name.
StatusFor(o, m) ==
    LET hits == {i \in DOMAIN o.modelRefs : NameOf[o.modelRefs[i]] = NameOf[m]} IN
    o.modelRefs[CHOOSE i \in hits : \A j \in hits : i <= j]

\* To mint a key the subscription may be Pending.  To be served it must be
\* Active, or Degraded with the model's limits enforced.
checkModelHealth(o, id) ==
    IF id = None THEN o.phase \notin {None, "Failed"}
    ELSE \/ o.phase = "Active"
         \/ o.phase = "Degraded" /\ StatusFor(o, findModelRef(o, id)) \in o.enforced

Refused == [sub |-> None, model |-> None, access |-> FALSE]

isModelAccessAllowed(o, id) == id = None \/ AuthorizedModels({findModelRef(o, id)}) # {}

Answer(s, id) ==
    IF /\ userHasAccess(s)
       /\ subscriptionIncludesModel(subs[s], id) /\ checkModelHealth(subs[s], id)
    THEN [sub |-> s, model |-> id, access |-> isModelAccessAllowed(subs[s], id)]
    ELSE Refused

\* Without a subscription there must be exactly one that will do.
AutoSelect(id) ==
    LET candidates == {s \in Subs : userHasAccess(s) /\ subscriptionIncludesModel(subs[s], id)} IN
    IF Cardinality(candidates) = 1 THEN Answer(CHOOSE s \in candidates : TRUE, id) ELSE Refused

SelectOrAuto(sub, id) ==
    {IF sub # None /\ subs[sub] # None THEN Answer(sub, r) ELSE AutoSelect(r) :
     r \in resolveModelAlias(id)}

\* The possible answers
Select(sub, id) ==
    {IF sub # None THEN Answer(sub, r) ELSE AutoSelect(r) : r \in resolveModelAlias(id)}

\* sortSubscriptionsByPriority, as far as a priority decides
SelectHighestPriority ==
    LET accessible == {s \in Subs : userHasAccess(s)} IN
    {s \in accessible : \A t \in accessible : subs[t].priority <= subs[s].priority}

---------------------------------------------------------------------------
(* Listings.                                                               *)

\* toResponse.  With a user's token the models are those that are authorized,
\* with an API key all of the key's subscription.
ModelRefs(s, withKey) ==
    IF withKey THEN Elements(subs[s]) ELSE AuthorizedModels(Elements(subs[s]))

AllButFailed ==
    {s \in Subs : /\ userHasAccess(s) /\ ~subs[s].deleting /\ subs[s].phase # "Failed"
                  /\ ModelRefs(s, FALSE) # {}}

GetAllAccessible ==
    {s \in Subs : /\ userHasAccess(s) /\ ~subs[s].deleting
                  /\ subs[s].phase \in {"Active", "Degraded"}
                  /\ ModelRefs(s, FALSE) # {}}

\* selectSubscriptionsForListing
SubscriptionsToUse(withKey) ==
    IF ~withKey THEN GetAllAccessible
    ELSE IF key # None /\ Refused \notin Select(key, None) THEN {key} ELSE {}

\* maasModelRefToModel: the id of an ExternalModel comes from the spec, that of the
\* others from the status.
ModelID(m) ==
    IF m \in External THEN refs[m].target
    ELSE IF AliasOf(m) # None THEN AliasOf(m) ELSE NameOf[m]

FilterModelsByAccess(ms) == {m \in ms : refs[m] # None /\ refs[m].ready}

\* aggregateModelsFromSubscriptions: with each model the subscriptions it is
\* shown through
ListLLMs(withKey) ==
    UNION {{<<m, s>> : m \in FilterModelsByAccess(ModelRefs(s, withKey))} :
           s \in SubscriptionsToUse(withKey)}

---------------------------------------------------------------------------
(* Behaviour: the copies change and keys are minted.                       *)

Edit == edits < MaxEdits /\ edits' = edits + 1

SubscriptionChanges(s) ==
    /\ Edit
    /\ \/ /\ subs[s] = None
          /\ \E l \in RefLists : subs' = [subs EXCEPT ![s] =
               [modelRefs |-> l, phase |-> None, deleting |-> FALSE, priority |-> 0,
                enforced |-> {}]]
       \/ /\ subs[s] # None
          /\ \/ \E p \in Phases \ {None}, e \in SUBSET Elements(subs[s]) :
                  subs' = [subs EXCEPT ![s].phase = p, ![s].enforced = e]
             \/ \E l \in RefLists : subs' = [subs EXCEPT ![s].modelRefs = l]
             \/ subs' = [subs EXCEPT ![s].priority = 1 - @]
             \/ subs' = [subs EXCEPT ![s] = IF @.deleting THEN None
                                            ELSE [@ EXCEPT !.deleting = TRUE]]
    /\ UNCHANGED <<refs, mine, authorized, key>>

\* A model is created, its spec edited, its status written or it is deleted.  The
\* status follows the spec in a write of its own: a Ready one has the alias of the
\* spec it was made for, a failed one keeps the alias before it.
ModelChanges(m) ==
    /\ Edit
    /\ \/ /\ refs[m] = None
          /\ \E t \in Aliases :
               refs' = [refs EXCEPT ![m] = [target |-> t, alias |-> None, ready |-> FALSE]]
       \/ /\ refs[m] # None
          /\ \/ \E t \in Aliases : refs' = [refs EXCEPT ![m].target = t]
             \/ refs' = [refs EXCEPT ![m].ready = FALSE]
             \/ \E b \in BOOLEAN,
                   a \in IF m \in External THEN {refs[m].target}
                        ELSE Aliases \cup {refs[m].alias} :
                  refs' = [refs EXCEPT ![m].alias = a, ![m].ready = b]
             \/ refs' = [refs EXCEPT ![m] = None]
    /\ UNCHANGED <<subs, mine, authorized, key>>

OwnershipChanges(s) ==
    /\ Edit
    /\ mine' = IF s \in mine THEN mine \ {s} ELSE mine \cup {s}
    /\ UNCHANGED <<subs, refs, authorized, key>>

AuthorizationChanges(m) ==
    /\ Edit
    /\ authorized' = IF m \in authorized THEN authorized \ {m} ELSE authorized \cup {m}
    /\ UNCHANGED <<subs, refs, mine, key>>

\* CreateAPIKey: for the subscription asked for, or the one of highest priority
MintKey ==
    /\ \/ \E s \in Subs : Refused \notin Select(s, None) /\ key' = s
       \/ \E s \in SelectHighestPriority : key' = s
    /\ UNCHANGED <<subs, refs, mine, authorized, edits>>

SelectionNext ==
    \/ \E s \in Subs : SubscriptionChanges(s) \/ OwnershipChanges(s)
    \/ \E m \in Models : ModelChanges(m) \/ AuthorizationChanges(m)
    \/ MintKey

SelectionSpec == SelectionInit /\ [][SelectionNext]_selectionVars

---------------------------------------------------------------------------
(* Properties.                                                             *)

\* No other model has the id of m for an alias.
OwnID(m) == \A n \in Models \ {m} : AliasOf(n) # ModelID(m)

\* No other model of the subscription has that name.
OwnName(name, m, s) == \A n \in Elements(subs[s]) \ {m} : NameOf[n] # name

\* What is listed can be used: a model that GET /v1/models shows through a
\* subscription is served under the id shown, charged to that subscription and
\* that model.  Not while the status lags an edit of the spec that the id comes
\* from, when two models have that id, or when a Degraded subscription's limits for
\* it are not enforced (a status looked up by the bare name of the model).  A user is
\* authorized for all that is shown; the holder of a key is shown a Pending
\* subscription too, and models no policy grants.
ListedIsServed ==
    \A m \in Models, s \in Subs, withKey \in BOOLEAN :
      ( /\ <<m, s>> \in ListLLMs(withKey)
        /\ AliasOf(m) = ModelID(m) /\ OwnID(m)
        /\ subs[s].phase = "Degraded" => m \in subs[s].enforced /\ OwnName(NameOf[m], m, s)
        /\ withKey => subs[s].phase # "Pending" )
      => Select(s, ModelID(m)) =
           {[sub |-> s, model |-> m, access |-> ~withKey \/ m \in authorized]}

\* A request under an id that is shown is never served as a request for another
\* model, nor charged to another subscription, even while the status lags the spec
\* or has no alias yet, unless two models have the id for an alias or a name.
ServedAsListed ==
    \A m \in Models, s \in Subs, withKey \in BOOLEAN :
      <<m, s>> \in ListLLMs(withKey) /\ OwnID(m) /\ OwnName(ModelID(m), m, s)
      => \A a \in Select(s, ModelID(m)) :
           a.sub # None => a.sub = s /\ findModelRef(subs[s], a.model) = m

\* A key is served by the subscription it was minted for or not at all, even after
\* that subscription is gone, was replaced or no longer has the model.
KeySticks ==
    key # None => \A id \in Ids : \A a \in Select(key, id) :
                    a.sub # None => /\ a.sub = key /\ key \in mine
                                    /\ findModelRef(subs[key], a.model) # None
=============================================================================
