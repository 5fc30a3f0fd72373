------------------------------ MODULE ApiKeys ------------------------------
(***************************************************************************)
(* The API keys of maas-api: the rows of the table api_keys and the HTTP   *)
(* requests that read and write them.                                      *)
(*                                                                         *)
(* Every SQL statement is atomic; a request is the sequence of statements  *)
(* its handler issues, and the statements of different requests interleave.*)
(* A request that issues a single statement is one action.  A request that *)
(* issues several (create, validate, revoke) has a slot in req, whose      *)
(* program counter names the statement that comes next and whose other     *)
(* fields hold what the request read before.                               *)
(*                                                                         *)
(* There are two clocks.  The database's, NOW(), is dbNow.  The process's, *)
(* time.Now(), is read anew each time it is needed, and a reading is any   *)
(* instant within MaxSkew of the database's.                               *)
(*                                                                         *)
(* Names, descriptions, groups and labels of a key are never changed after *)
(* the INSERT and decide nothing here, so a row has no such columns;       *)
(* last_used_at is the subject of module LastUsed.                         *)
(***************************************************************************)
EXTENDS Naturals

CONSTANTS
    Keys,           \* keys ever minted: a random hash and a UUID, never reused
    Users,          \* callers of the public routes
    Admins,         \* callers for whom the admin check answers yes
    Tenants,        \* tenants; each has its own maas-api on the shared table
    DefaultTenant,  \* tenant given to the rows that precede multi-tenancy
    Legacy,         \* keys whose rows may precede expiration and subscriptions
    Subs,           \* subscriptions a key can be bound to
    NoSub,          \* the empty subscription of a legacy row
    NoRow,          \* the key has no row
    NoKey,          \* the slot serves no key
    Requests,       \* slots for the requests in flight
    MaxTime,        \* bound on the database's clock
    MaxSkew,        \* distance between the two clocks
    MaxRegularTTL,  \* API_KEY_MAX_EXPIRATION_DAYS
    MaxEphemeralTTL,\* DefaultEphemeralKeyMaxExpiration, one hour
    Grace           \* the 30 minutes an expired ephemeral row is kept

ASSUME ConstantsAssumption ==
    /\ Admins \subseteq Users
    /\ DefaultTenant \in Tenants
    /\ Legacy \subseteq Keys
    /\ NoSub \notin Subs
    /\ NoKey \notin Keys
    /\ MaxTime \in Nat /\ MaxSkew \in Nat /\ Grace \in Nat
    /\ MaxRegularTTL \in Nat /\ MaxEphemeralTTL \in Nat

\* The clocks of the cluster are never half an hour apart.
ASSUME SkewAssumption == MaxSkew <= Grace

Status == {"active", "revoked", "expired"}

\* An expires_at that is NULL; the clock starts at 1.
NullTime == 0

Row == [owner : Users, tenant : Tenants, sub : Subs \cup {NoSub},
        status : Status, exp : Nat, eph : BOOLEAN]

ASSUME NoRowAssumption == NoRow \notin Row

VARIABLES
    rows,     \* the table: the row of each key
    minted,   \* keys generated so far
    dbNow,    \* the database's clock
    req,      \* the requests in flight, and the answer of the last one
    acked,    \* history: keys whose revocation was confirmed to a caller
    bulkAt,   \* history: when a confirmed bulk revocation last covered a key
    reported  \* history: the status a caller was last told

vars == <<rows, minted, dbNow, req, acked, bulkAt, reported>>
history == <<acked, bulkAt, reported>>

Answers == {"none", "created", "rejected", "valid", "invalid", "ok", "notfound",
            "failed"}

\* pc:   the statement the request issues next
\* row:  the row to insert, the row read, or the row the answer carries; its
\*       tenant is the tenant whose maas-api serves the request
\* late, bulk: history, acked and bulkAt of the key when a validation read it
\* asOf: history, the database's time when a validation decided
Request == [pc : {"idle", "insert", "check", "update", "reread"},
            key : Keys \cup {NoKey}, row : Row \cup {NoRow},
            late : BOOLEAN, bulk : Nat, asOf : Nat, resp : Answers]

TypeOK ==
    /\ rows \in [Keys -> Row \cup {NoRow}]
    /\ minted \in SUBSET Keys
    /\ dbNow \in Nat
    /\ req \in [Requests -> Request]
    /\ acked \in SUBSET Keys
    /\ bulkAt \in [Keys -> Nat]
    /\ reported \in [Keys -> Status \cup {"none"}]

-----------------------------------------------------------------------------
(* The clocks and the conditions of the SQL statements                     *)

\* What time.Now() may return now.
AppClock == {t \in 0 .. (dbNow + MaxSkew) : t + MaxSkew >= dbNow}

\* expires_at is set and lies before t.
Past(row, t) == row.exp # NullTime /\ row.exp < t

\* The rows a statement of tenant t's maas-api can see.
Visible(t) == {k \in Keys : rows[k] # NoRow /\ rows[k].tenant = t}

\* Mutant: a WHERE clause without status = 'active'.
AnyStatusIn(t) == Visible(t)

ActiveIn(t) == {k \in Visible(t) : rows[k].status = "active"}

\* CASE WHEN status = 'active' AND expires_at < NOW() THEN 'expired' ...
EffectiveStatus(row) ==
    IF row.status = "active" /\ Past(row, dbNow) THEN "expired" ELSE row.status

\* The rows a bulk revocation selects; scope names a user, a subscription
\* or both, and an empty field does not restrict it.
InScope(row, scope) ==
    /\ scope.user # {} => row.owner \in scope.user
    /\ scope.sub  # {} => row.sub \in scope.sub

\* Mutant: expires_at > NOW() alone, which a NULL does not satisfy.
bulkRevokeNotNull(t, scope) ==
    {k \in ActiveIn(t) : rows[k].exp > dbNow /\ InScope(rows[k], scope)}

bulkRevokeWhere(t, scope) ==
    {k \in ActiveIn(t) : /\ rows[k].exp = NullTime \/ rows[k].exp > dbNow
                         /\ InScope(rows[k], scope)}

\* UPDATE api_keys SET status = st WHERE id IN S
SetStatus(S, st) ==
    rows' = [k \in Keys |-> IF k \in S THEN [rows[k] EXCEPT !.status = st]
                                       ELSE rows[k]]

-----------------------------------------------------------------------------
(* Initial states: an empty table, or one with legacy rows.                *)

LegacyRow == [owner : Users, tenant : {DefaultTenant}, sub : Subs \cup {NoSub},
              status : {"active"}, exp : {NullTime}, eph : {FALSE}]

NoRequest == [pc |-> "idle", key |-> NoKey, row |-> NoRow, late |-> FALSE,
              bulk |-> 0, asOf |-> 0, resp |-> "none"]

Init ==
    /\ rows \in [Keys -> LegacyRow \cup {NoRow}]
    /\ minted = {k \in Keys : rows[k] # NoRow}
    /\ minted \subseteq Legacy
    /\ dbNow = 1
    /\ req = [r \in Requests |-> NoRequest]
    /\ acked = {}
    /\ bulkAt = [k \in Keys |-> 0]
    /\ reported = [k \in Keys |-> "none"]

Idle(r) == req[r].pc = "idle"

\* Slot r takes a request for key k that has read or built row.
Begin(r, pc, k, row) ==
    req' = [req EXCEPT ![r] = [NoRequest EXCEPT !.pc = pc, !.key = k, !.row = row]]

\* The request of slot r ends with answer a.
Reply(r, a) == req' = [req EXCEPT ![r] = [NoRequest EXCEPT !.resp = a]]

-----------------------------------------------------------------------------
(* POST /v1/api-keys: check the request, pick a subscription, INSERT       *)

\* The limit on the lifetime of a key.
MaxTTL(eph) == IF eph THEN MaxEphemeralTTL ELSE MaxRegularTTL

\* The request asks for lifetime ttl.  The absolute expiration is computed
\* and the subscription selected before the row is written.
CreateAPIKey(r) ==
    /\ Idle(r)
    /\ \E t \in Tenants, u \in Users, s \in Subs, eph \in BOOLEAN :
       \E ttl \in 1 .. MaxTTL(eph), now \in AppClock, k \in Keys \ minted :
         /\ minted' = minted \cup {k}
         /\ Begin(r, "insert", k, [owner |-> u, tenant |-> t, sub |-> s,
                                   status |-> "active", exp |-> now + ttl,
                                   eph |-> eph])
    /\ UNCHANGED <<rows, dbNow, history>>

\* The lifetime is not positive or too long, a group name is malformed, or
\* no subscription can be selected.
CreateRejected(r) ==
    /\ Idle(r)
    /\ Reply(r, "rejected")
    /\ UNCHANGED <<rows, minted, dbNow, history>>

AddKey(r) ==
    /\ req[r].pc = "insert"
    /\ rows' = [rows EXCEPT ![req[r].key] = req[r].row]
    /\ \/ Reply(r, "created")
       \/ Reply(r, "failed")   \* committed, but the connection broke
    /\ UNCHANGED <<minted, dbNow, history>>

-----------------------------------------------------------------------------
(* POST /internal/v1/api-keys/validate: SELECT by hash, then decide        *)

\* The SELECT of GetByHash, by the maas-api of tenant t.
GetByHash(r) ==
    /\ Idle(r)
    /\ \E t \in Tenants, k \in minted :
         IF k \in Visible(t)
         THEN req' = [req EXCEPT ![r] = [NoRequest EXCEPT
                !.pc = "check", !.key = k, !.row = rows[k],
                !.late = (k \in acked), !.bulk = bulkAt[k]]]
         ELSE Reply(r, "invalid")
    /\ UNCHANGED <<rows, minted, dbNow, history>>

\* Mutant: the second statement does not check that the key is still active.
ValidateExpiredUnguarded(r) ==
    /\ req[r].pc = "check"
    /\ req[r].row.status = "active"
    /\ \E now \in AppClock : Past(req[r].row, now)
    /\ SetStatus({req[r].key} \cap Visible(req[r].row.tenant), "expired")
    /\ Reply(r, "invalid")
    /\ UNCHANGED <<minted, dbNow, history>>

\* The row read is active but past its expiration: a second statement turns
\* the stored status to expired if it is still active.  Its failure is only
\* logged.
ValidateExpired(r) ==
    /\ req[r].pc = "check"
    /\ req[r].row.status = "active"
    /\ \E now \in AppClock : Past(req[r].row, now)
    /\ \/ SetStatus({req[r].key} \cap ActiveIn(req[r].row.tenant), "expired")
       \/ UNCHANGED rows
    /\ Reply(r, "invalid")
    /\ UNCHANGED <<minted, dbNow, history>>

\* Revoked, expired, or bound to no subscription.
ValidateRejected(r) ==
    /\ req[r].pc = "check"
    /\ \/ req[r].row.status # "active"
       \/ /\ req[r].row.sub = NoSub
          /\ \E now \in AppClock : ~Past(req[r].row, now)
    /\ Reply(r, "invalid")
    /\ UNCHANGED <<rows, minted, dbNow, history>>

\* Mutant: only expired rows are turned away, not revoked ones.
ValidateAcceptedRevoked(r) ==
    /\ req[r].pc = "check"
    /\ req[r].row.status # "expired"
    /\ req[r].row.sub # NoSub
    /\ \E now \in AppClock : ~Past(req[r].row, now)
    /\ req' = [req EXCEPT ![r].pc = "idle", ![r].asOf = dbNow, ![r].resp = "valid"]
    /\ UNCHANGED <<rows, minted, dbNow, history>>

ValidateAccepted(r) ==
    /\ req[r].pc = "check"
    /\ req[r].row.status = "active"
    /\ req[r].row.sub # NoSub
    /\ \E now \in AppClock : ~Past(req[r].row, now)
    /\ req' = [req EXCEPT ![r].pc = "idle", ![r].asOf = dbNow, ![r].resp = "valid"]
    /\ UNCHANGED <<rows, minted, dbNow, history>>

-----------------------------------------------------------------------------
(* GET and DELETE /v1/api-keys/:id                                         *)

\* Tenant isolation first, then owner, then the admin check.
isAuthorizedForKey(u, row) == row.owner = u \/ u \in Admins

\* Mutant: the stored status is returned as it is.
GetAPIKeyStoredStatus ==
    \E t \in Tenants, u \in Users : \E k \in Visible(t) :
        /\ isAuthorizedForKey(u, rows[k])
        /\ reported' = [reported EXCEPT ![k] = rows[k].status]
        /\ UNCHANGED <<rows, minted, dbNow, req, acked, bulkAt>>

\* The caller learns the effective status; reads that fail or are refused
\* tell it nothing and change nothing.
GetAPIKey ==
    \E t \in Tenants, u \in Users : \E k \in Visible(t) :
        /\ isAuthorizedForKey(u, rows[k])
        /\ reported' = [reported EXCEPT ![k] = EffectiveStatus(rows[k])]
        /\ UNCHANGED <<rows, minted, dbNow, req, acked, bulkAt>>

\* POST /v1/api-keys/search: a page of the rows the filters select, their
\* effective statuses computed by the query.  Only an admin sees the keys of
\* other users; ephemeral keys are shown on request.
SearchAPIKeys ==
    \E t \in Tenants, u \in Users, includeEphemeral \in BOOLEAN :
    \E page \in SUBSET {k \in Visible(t) : /\ u \in Admins \/ rows[k].owner = u
                                           /\ includeEphemeral \/ ~rows[k].eph} :
        /\ reported' = [k \in Keys |-> IF k \in page THEN EffectiveStatus(rows[k])
                                                     ELSE reported[k]]
        /\ UNCHANGED <<rows, minted, dbNow, req, acked, bulkAt>>

\* The read that the authorization of a revocation rests on.
RevokeAPIKey(r) ==
    /\ Idle(r)
    /\ \E t \in Tenants, u \in Users, k \in minted :
         IF k \in Visible(t) /\ isAuthorizedForKey(u, rows[k])
         THEN Begin(r, "update", k, rows[k])
         ELSE Reply(r, "notfound")
    /\ UNCHANGED <<rows, minted, dbNow, history>>

\* Mutant: the UPDATE also revokes keys that have left the active status.
RevokeUnguarded(r) ==
    /\ req[r].pc = "update"
    /\ SetStatus({req[r].key} \cap Visible(req[r].row.tenant), "revoked")
    /\ acked' = acked \cup {req[r].key}
    /\ req' = [req EXCEPT ![r].pc = "reread"]
    /\ UNCHANGED <<minted, dbNow, bulkAt, reported>>

\* UPDATE ... WHERE id AND tenant AND status = 'active'; no row is 404.
Revoke(r) ==
    LET k == req[r].key
        hit == {k} \cap ActiveIn(req[r].row.tenant)
    IN /\ req[r].pc = "update"
       /\ SetStatus(hit, "revoked")
       /\ \/ /\ hit # {}
             /\ acked' = acked \cup {k}
             /\ req' = [req EXCEPT ![r].pc = "reread"]
          \/ /\ hit = {}
             /\ Reply(r, "notfound")
             /\ UNCHANGED acked
          \/ /\ Reply(r, "failed")   \* committed, but the connection broke
             /\ UNCHANGED acked
       /\ UNCHANGED <<minted, dbNow, bulkAt, reported>>

\* The answer carries the row as read once more.
RevokeReread(r) ==
    LET k == req[r].key
        t == req[r].row.tenant
    IN /\ req[r].pc = "reread"
       /\ \/ /\ k \in Visible(t)
             /\ req' = [req EXCEPT ![r] = [NoRequest EXCEPT !.row = rows[k],
                                                          !.resp = "ok"]]
             /\ reported' = [reported EXCEPT ![k] = EffectiveStatus(rows[k])]
          \/ /\ k \notin Visible(t)
             /\ Reply(r, "failed")
             /\ UNCHANGED reported
       /\ UNCHANGED <<rows, minted, dbNow, acked, bulkAt>>

\* A statement of the request fails without effect: it answers 500, or 404
\* when the admin check is what failed.
RequestFails(r) ==
    /\ req[r].pc \in {"insert", "check", "update", "reread"}
    /\ Reply(r, "failed")
    /\ UNCHANGED <<rows, minted, dbNow, history>>

-----------------------------------------------------------------------------
(* Requests of a single statement                                          *)

Scopes == {[user |-> U, sub |-> S] : U \in {{u} : u \in Users} \cup {{}},
                                     S \in {{s} : s \in Subs} \cup {{}}}

\* POST /v1/api-keys/bulk-revoke.  A confirmed one is recorded for every key
\* in its scope that is stored and not yet retired.
BulkRevokeAPIKeys ==
    \E t \in Tenants, u \in Users, scope \in Scopes :
        /\ scope.user # {} \/ scope.sub # {}
        /\ scope.sub # {} \/ scope.user # {u} => u \in Admins
        /\ SetStatus(bulkRevokeWhere(t, scope), "revoked")
        /\ \/ bulkAt' = [k \in Keys |->
                  IF k \in ActiveIn(t) /\ InScope(rows[k], scope)
                  THEN dbNow ELSE bulkAt[k]]
           \/ UNCHANGED bulkAt     \* committed, but the connection broke
        /\ UNCHANGED <<minted, dbNow, req, acked, reported>>

\* DELETE /internal/v1/tenants/:tenant/api-keys: every active key of the
\* tenant, whatever its expiration.
RevokeTenantAPIKeys ==
    \E t \in Tenants :
        /\ SetStatus(ActiveIn(t), "revoked")
        /\ acked' \in {acked, acked \cup Visible(t)}
        /\ UNCHANGED <<minted, dbNow, req, bulkAt, reported>>

\* Mutant: no grace period.
DeleteExpiredEphemeralAtOnce ==
    \E t \in Tenants :
        /\ rows' = [k \in Keys |->
              IF k \in Visible(t) /\ rows[k].eph /\ Past(rows[k], dbNow)
              THEN NoRow ELSE rows[k]]
        /\ UNCHANGED <<minted, dbNow, req, history>>

\* POST /internal/v1/api-keys/cleanup
DeleteExpiredEphemeral ==
    \E t \in Tenants :
        /\ rows' = [k \in Keys |->
              IF k \in Visible(t) /\ rows[k].eph /\ rows[k].exp # NullTime
                 /\ rows[k].exp + Grace < dbNow
              THEN NoRow ELSE rows[k]]
        /\ UNCHANGED <<minted, dbNow, req, history>>

\* Time passes.
Tick ==
    /\ dbNow < MaxTime
    /\ dbNow' = dbNow + 1
    /\ UNCHANGED <<rows, minted, req, history>>

-----------------------------------------------------------------------------
Step(r) ==
    \/ CreateAPIKey(r) \/ CreateRejected(r) \/ AddKey(r)
    \/ GetByHash(r) \/ ValidateExpired(r) \/ ValidateRejected(r) \/ ValidateAccepted(r)
    \/ RevokeAPIKey(r) \/ Revoke(r) \/ RevokeReread(r)
    \/ RequestFails(r)

Next ==
    \/ \E r \in Requests : Step(r)
    \/ GetAPIKey \/ SearchAPIKeys \/ BulkRevokeAPIKeys \/ RevokeTenantAPIKeys
    \/ DeleteExpiredEphemeral \/ Tick

Spec == Init /\ [][Next]_vars

-----------------------------------------------------------------------------
(* Properties                                                              *)

\* A validation that reads a key after its revocation was confirmed, by a
\* revoke of the key or of its tenant, never answers that the key is valid,
\* whatever else ran in between (GetByHash, Revoke, InvalidateTenant).
RevokedNeverValidates ==
    \A r \in Requests : req[r].resp = "valid" => ~req[r].late

\* A bulk revocation skips the rows that NOW() says are expired while a
\* validation trusts time.Now(): a key in the scope of a confirmed bulk
\* revocation may validate after it only as long as the process's clock can
\* lag behind the database's (bulkRevokeWhereClause, GetByHash).
BulkRevokedWithinSkew ==
    \A r \in Requests : req[r].resp = "valid" /\ req[r].bulk # 0
                          => req[r].asOf <= req[r].bulk + MaxSkew

\* A revocation that answers 200 carries a row whose status is revoked, even
\* when a validation finds the key expired between the UPDATE and the second
\* read (handler.RevokeAPIKey).
RevokeAnswersRevoked ==
    \A r \in Requests : req[r].resp = "ok" => req[r].row.status = "revoked"

\* The cleanup removes only rows of ephemeral keys that no validation could
\* accept any more, whichever clock it reads (DeleteExpiredEphemeral).
CleanupHarmless ==
    [][\A k \in Keys : rows[k] # NoRow /\ rows'[k] = NoRow =>
           /\ rows[k].eph
           /\ \A now \in AppClock : Past(rows[k], now)]_vars

\* A caller who was told that a key is revoked or expired is never told
\* afterwards that it is active (Get, Search).
NeverReportedActiveAgain ==
    [][\A k \in Keys : reported[k] \in {"revoked", "expired"}
                         => reported'[k] # "active"]_vars

\* The tenants share one table, and every maas-api scopes its statements by
\* its own tenant: no statement changes rows of two tenants, however wide its
\* scope (bulkRevokeWhereClause, InvalidateTenant, DeleteExpiredEphemeral).
OneTenantPerStatement ==
    [][\A k, m \in Keys :
           /\ rows[k] # NoRow /\ rows'[k] # rows[k]
           /\ rows[m] # NoRow /\ rows'[m] # rows[m]
           => rows[k].tenant = rows[m].tenant]_vars

-----------------------------------------------------------------------------
(* The inductive invariant behind the properties                           *)

\* A request is about to store key k.
Pending(k) == \E r \in Requests : req[r].pc = "insert" /\ req[r].key = k

\* A key is stored, revoked or covered by a bulk revocation only once minted.
OnlyMinted ==
    \A k \in Keys : rows[k] # NoRow \/ k \in acked \/ bulkAt[k] # 0 => k \in minted

\* A row still to be inserted belongs to one request, is active, and is the
\* row of a key that nothing has happened to.
PendingFresh ==
    \A r \in Requests : req[r].pc = "insert" =>
        /\ req[r].key \in minted
        /\ req[r].row # NoRow /\ req[r].row.status = "active"
        /\ rows[req[r].key] = NoRow
        /\ req[r].key \notin acked
        /\ bulkAt[req[r].key] = 0
        /\ \A q \in Requests : req[q].pc = "insert" /\ req[q].key = req[r].key => q = r

\* A row that is active although a confirmed bulk revocation covered it had
\* already expired by the database's clock.
LeftOverBy(row, at) == row.status = "active" /\ at # 0
                       => row.exp # NullTime /\ row.exp <= at

\* Confirmed revocations are in the table.
ConfirmedInTable ==
    \A k \in Keys : rows[k] # NoRow =>
        /\ k \in acked => rows[k].status # "active"
        /\ LeftOverBy(rows[k], bulkAt[k])

\* What a request holds between two statements.
HeldByRequest ==
    \A r \in Requests :
        /\ req[r].pc \in {"check", "update", "reread"} =>
             /\ req[r].key \in minted /\ req[r].row # NoRow
             /\ ~Pending(req[r].key)
        /\ req[r].pc = "check" =>
             /\ req[r].late => req[r].row.status # "active"
             /\ LeftOverBy(req[r].row, req[r].bulk)
        /\ req[r].pc = "reread" /\ rows[req[r].key] # NoRow =>
             rows[req[r].key].status = "revoked"
        /\ req[r].resp = "ok" => req[r].row # NoRow

\* The safety of the key store, in the form that every statement preserves.
IndInv ==
    /\ TypeOK
    /\ OnlyMinted
    /\ PendingFresh
    /\ ConfirmedInTable
    /\ HeldByRequest
    /\ RevokedNeverValidates
    /\ BulkRevokedWithinSkew
    /\ RevokeAnswersRevoked

-----------------------------------------------------------------------------
(* What the table implements                                               *)

\* The stage of a key's life: its stored status, or whether it can still come.
Stage(k) == IF rows[k] # NoRow THEN rows[k].status
            ELSE IF k \in minted /\ ~Pending(k) THEN "gone" ELSE "unborn"

Lifecycle == INSTANCE KeyLifecycle WITH life <- [k \in Keys |-> Stage(k)]

\* "API keys follow a one-way state transition: active -> revoked/expired":
\* the table implements KeyLifecycle, although a validation turns active into
\* expired with a statement of its own, after reading the row.
ImplementsLifecycle == Lifecycle!Spec
=============================================================================
