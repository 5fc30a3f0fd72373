----------------------------- MODULE AdminCache -----------------------------
(***************************************************************************)
(* CachedAdminChecker of maas-api: whether a caller is an administrator is *)
(* a SubjectAccessReview of the Kubernetes API server, cached for ttl when *)
(* the answer is yes and for negativeTTL when it is no.                    *)
(*                                                                         *)
(* Calls of IsAdmin run concurrently.  The mutex is held while the map is  *)
(* read and while it is written, but not while the review is under way:    *)
(* reviews answered in one order can be stored in another.                 *)
(***************************************************************************)
EXTENDS Naturals, FiniteSets

CONSTANTS
    Users,          \* cache keys: a user name with its groups, sorted
    Calls,          \* calls of IsAdmin in flight
    NoEntry,        \* not in the cache
    NoUser,         \* an idle call
    TTL,            \* 30 seconds
    NegativeTTL,    \* 2 seconds
    MaxSize,        \* sarCacheMaxSize
    MaxLatency,     \* longest a review's verdict takes to reach the cache
    MaxTime         \* bound on the clock

\* NewCachedAdminChecker panics unless these are positive.
ASSUME AdminCacheConstants ==
    /\ TTL \in Nat \ {0} /\ NegativeTTL \in Nat \ {0} /\ MaxSize \in Nat \ {0}
    /\ MaxLatency \in Nat /\ MaxTime \in Nat
    /\ NoUser \notin Users

VARIABLES
    now,
    admin,          \* what the API server would answer
    changedAt,      \* when that changed last
    cache,
    call,
    answer          \* the verdict given last, to whom, and when he asked

vars == <<now, admin, changedAt, cache, call, answer>>

Time == 0..MaxTime

TypeOK ==
    /\ now \in Time
    /\ admin \in [Users -> BOOLEAN]
    /\ changedAt \in [Users -> Time]
    /\ cache \in [Users -> [isAdmin : BOOLEAN, expiresAt : Nat] \cup {NoEntry}]
    /\ call \in [Calls -> [pc : {"idle", "lookup", "review", "store"},
                           user : Users \cup {NoUser}, begun : Time,
                           verdict : BOOLEAN, heard : Time]]
    /\ answer \in [user : Users \cup {NoUser}, isAdmin : BOOLEAN, begun : Time]

Idle == [pc |-> "idle", user |-> NoUser, begun |-> 0, verdict |-> FALSE, heard |-> 0]

Init ==
    /\ now = 0
    /\ admin \in [Users -> BOOLEAN]
    /\ changedAt = [u \in Users |-> 0]
    /\ cache = [u \in Users |-> NoEntry]
    /\ call = [c \in Calls |-> Idle]
    /\ answer = [user |-> NoUser, isAdmin |-> FALSE, begun |-> 0]

\* The call returns a verdict; an error is no verdict.
Return(c, verdict) ==
    /\ answer' = [user |-> call[c].user, isAdmin |-> verdict,
                  begun |-> call[c].begun]
    /\ call' = [call EXCEPT ![c] = Idle]

---------------------------------------------------------------------------
(* IsAdmin.                                                                *)

\* The clock is read before the lock is taken.
Begin(c, u) ==
    /\ call[c].pc = "idle"
    /\ call' = [call EXCEPT ![c] = [Idle EXCEPT !.pc = "lookup", !.user = u,
                                                !.begun = now]]
    /\ UNCHANGED <<now, admin, changedAt, cache, answer>>

Live(entry, t) == entry # NoEntry /\ t < entry.expiresAt

Lookup(c) ==
    /\ call[c].pc = "lookup"
    /\ LET entry == cache[call[c].user]
       IN \/ Live(entry, call[c].begun) /\ Return(c, entry.isAdmin)
          \/ /\ ~Live(entry, call[c].begun)
             /\ call' = [call EXCEPT ![c].pc = "review"]
             /\ UNCHANGED answer
    /\ UNCHANGED <<now, admin, changedAt, cache>>

\* The API server reviews the access.
Review(c) ==
    /\ call[c].pc = "review"
    /\ call' = [call EXCEPT ![c].pc = "store", ![c].heard = now,
                            ![c].verdict = admin[call[c].user]]
    /\ UNCHANGED <<now, admin, changedAt, cache, answer>>

\* The review fails or the request is cancelled: an error, nothing cached.
Fail(c) ==
    /\ call[c].pc \in {"review", "store"}
    /\ call' = [call EXCEPT ![c] = Idle]
    /\ UNCHANGED <<now, admin, changedAt, cache, answer>>

SameLifetime(verdict) == TTL
Lifetime(verdict) == IF verdict THEN TTL ELSE NegativeTTL

\* An entry that expires at this very instant is kept.
evictExpiredLocked(entries) ==
    [u \in Users |-> IF entries[u] # NoEntry /\ now > entries[u].expiresAt
                     THEN NoEntry ELSE entries[u]]

Size(entries) == Cardinality({u \in Users : entries[u] # NoEntry})

RoomForOneMore(entries) == Size(entries) <= MaxSize
HasRoom(entries) == Size(entries) < MaxSize

\* Storing is refused when the cache is full, even over the caller's own entry.
Store(c) ==
    /\ call[c].pc = "store"
    /\ LET kept == evictExpiredLocked(cache)
           entry == [isAdmin |-> call[c].verdict,
                     expiresAt |-> now + Lifetime(call[c].verdict)]
       IN cache' = IF HasRoom(kept) THEN [kept EXCEPT ![call[c].user] = entry]
                   ELSE kept
    /\ Return(c, call[c].verdict)
    /\ UNCHANGED <<now, admin, changedAt>>

---------------------------------------------------------------------------

\* The role bindings of a user change.
Rebind(u) ==
    /\ admin' = [admin EXCEPT ![u] = ~@]
    /\ changedAt' = [changedAt EXCEPT ![u] = now]
    /\ UNCHANGED <<now, cache, call, answer>>

\* Time passes, but no verdict is under way for longer than MaxLatency.
Tick ==
    /\ now < MaxTime
    /\ \A c \in Calls : call[c].pc = "store" => now < call[c].heard + MaxLatency
    /\ now' = now + 1
    /\ UNCHANGED <<admin, changedAt, cache, call, answer>>

Next ==
    \/ \E c \in Calls, u \in Users : Begin(c, u)
    \/ \E c \in Calls : Lookup(c) \/ Review(c) \/ Fail(c) \/ Store(c)
    \/ \E u \in Users : Rebind(u)
    \/ Tick

Spec == Init /\ [][Next]_vars

---------------------------------------------------------------------------

\* A verdict that is no longer true was asked for before the lifetime of such a
\* verdict, and the time a review may be under way, had passed since the
\* bindings changed: a demoted administrator is refused after at most
\* TTL + MaxLatency and a promoted one served after NegativeTTL + MaxLatency,
\* although a late verdict can overwrite a newer one.
VerdictLag ==
    answer.user # NoUser =>
        \/ answer.isAdmin = admin[answer.user]
        \/ answer.begun <= changedAt[answer.user]
        \/ answer.begun < changedAt[answer.user]
                          + (IF answer.isAdmin THEN TTL ELSE NegativeTTL) + MaxLatency

\* The cache never outgrows its limit, although it is checked and filled only
\* after the review, when other calls may have filled it.
CacheBounded == Size(cache) <= MaxSize
=============================================================================
