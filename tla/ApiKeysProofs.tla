--------------------------- MODULE ApiKeysProofs ---------------------------
(***************************************************************************)
(* IndInv is an invariant of the key store, for any number of keys, users, *)
(* tenants and requests in flight.                                         *)
(***************************************************************************)
EXTENDS ApiKeys, TLAPS

USE ConstantsAssumption, NoRowAssumption DEF NullTime, Status

-----------------------------------------------------------------------------
(* The two ways a statement writes the table                               *)

\* An UPDATE of the status keeps every row and changes no other column.
LEMMA SetStatusRows ==
    ASSUME rows \in [Keys -> Row \cup {NoRow}],
           NEW S \in SUBSET Keys, \A k \in S : rows[k] # NoRow,
           NEW st \in Status, SetStatus(S, st)
    PROVE  /\ rows' \in [Keys -> Row \cup {NoRow}]
           /\ \A k \in Keys :
                /\ rows'[k] = NoRow <=> rows[k] = NoRow
                /\ k \notin S => rows'[k] = rows[k]
                /\ k \in S => /\ rows'[k].status = st
                              /\ rows'[k].exp = rows[k].exp
                              /\ rows'[k].eph = rows[k].eph
                              /\ rows'[k].tenant = rows[k].tenant
<1>1. \A k \in S : [rows[k] EXCEPT !.status = st] \in Row
  BY DEF Row
<1>2. \A k \in Keys : rows'[k] = IF k \in S THEN [rows[k] EXCEPT !.status = st]
                                            ELSE rows[k]
  BY DEF SetStatus
<1>3. rows' \in [Keys -> Row \cup {NoRow}]
  BY <1>1 DEF SetStatus
<1>4. ASSUME NEW k \in S
      PROVE  /\ rows'[k] # NoRow
             /\ rows'[k].status = st
             /\ rows'[k].exp = rows[k].exp
             /\ rows'[k].eph = rows[k].eph
             /\ rows'[k].tenant = rows[k].tenant
  <2>1. rows[k] \in Row /\ rows'[k] = [rows[k] EXCEPT !.status = st]
    BY <1>2
  <2>2. rows'[k] # NoRow
    BY <1>1, <2>1
  <2> QED BY <2>1, <2>2 DEF Row
<1> QED BY <1>2, <1>3, <1>4

\* A slot that begins or ends a request: its new record, and the others.
LEMMA SlotType ==
    NoRequest \in Request
BY DEF NoRequest, Request, Answers

-----------------------------------------------------------------------------
LEMMA InitInv == Init => IndInv
<1> SUFFICES ASSUME Init PROVE IndInv
  OBVIOUS
<1> USE DEF Init
<1>1. TypeOK
  <2>1. LegacyRow \subseteq Row
    <3> SUFFICES ASSUME NEW x \in LegacyRow PROVE x \in Row
      OBVIOUS
    <3>1. PICK u \in Users, s \in Subs \cup {NoSub} :
            x = [owner |-> u, tenant |-> DefaultTenant, sub |-> s,
                 status |-> "active", exp |-> 0, eph |-> FALSE]
      BY DEF LegacyRow
    <3> QED BY <3>1 DEF Row
  <2> QED BY <2>1, SlotType DEF TypeOK
<1>2. \A r \in Requests : req[r] = NoRequest
  OBVIOUS
<1>3. OnlyMinted /\ ConfirmedInTable
  BY DEF OnlyMinted, ConfirmedInTable, LeftOverBy
<1>4. PendingFresh /\ HeldByRequest
  BY <1>2 DEF PendingFresh, HeldByRequest, NoRequest
<1>5. RevokedNeverValidates /\ BulkRevokedWithinSkew /\ RevokeAnswersRevoked
  BY <1>2 DEF RevokedNeverValidates, BulkRevokedWithinSkew, RevokeAnswersRevoked, NoRequest
<1> QED BY <1>1, <1>3, <1>4, <1>5 DEF IndInv

-----------------------------------------------------------------------------
(* One lemma for all actions but those of a creation                       *)

\* What IndInv says of the record x of one slot that is not about to insert.
Sound(x) ==
    /\ x.pc \in {"check", "update", "reread"} =>
         /\ x.key \in minted /\ x.row # NoRow
         /\ ~Pending(x.key)
    /\ x.pc = "check" =>
         /\ x.late => x.row.status # "active"
         /\ LeftOverBy(x.row, x.bulk)
    /\ x.pc = "reread" /\ rows[x.key] # NoRow => rows[x.key].status = "revoked"
    /\ x.resp = "ok" => x.row # NoRow /\ x.row.status = "revoked"
    /\ x.resp = "valid" => ~x.late
    /\ x.resp = "valid" /\ x.bulk # 0 => x.asOf <= x.bulk + MaxSkew

LEMMA AllSound ==
    (/\ HeldByRequest
     /\ RevokedNeverValidates
     /\ BulkRevokedWithinSkew
     /\ RevokeAnswersRevoked) <=> \A r \in Requests : Sound(req[r])
BY DEF HeldByRequest, RevokedNeverValidates, BulkRevokedWithinSkew,
       RevokeAnswersRevoked, Sound

\* A step that stores no new row, un-revokes none, keeps the confirmed
\* revocations in the table, and leaves sound every slot it changes.
LEMMA SoundStep ==
    ASSUME IndInv, TypeOK', UNCHANGED minted,
           \A k \in Keys : rows[k] = NoRow => rows'[k] = NoRow,
           \A k \in Keys : rows[k] # NoRow /\ rows[k].status = "revoked"
                           => rows'[k] = NoRow \/ rows'[k].status = "revoked",
           \A k \in Keys : k \in acked' \ acked => rows[k] # NoRow,
           \A k \in Keys : bulkAt'[k] # bulkAt[k] => rows[k] # NoRow,
           ConfirmedInTable',
           \A q \in Requests : \/ req'[q] = req[q]
                               \/ req'[q].pc # "insert" /\ Sound(req[q])'
    PROVE  IndInv'
<1> USE DEF IndInv
<1>1. OnlyMinted'
  BY DEF OnlyMinted, TypeOK
<1>2. \A q \in Requests : req'[q].pc = "insert" => req'[q] = req[q]
  OBVIOUS
<1>3. PendingFresh'
  BY <1>2 DEF PendingFresh, TypeOK
<1>4. \A k \in Keys : ~Pending(k) => ~Pending(k)'
  BY <1>2 DEF Pending
<1>5. \A q \in Requests : Sound(req[q])
  BY AllSound
<1>6. ASSUME NEW q \in Requests, req'[q] = req[q] PROVE Sound(req[q])'
  BY <1>4, <1>5, <1>6 DEF Sound, LeftOverBy, TypeOK
<1>7. \A q \in Requests : Sound(req[q])'
  BY <1>6
<1>8. (HeldByRequest /\ RevokedNeverValidates /\ BulkRevokedWithinSkew
         /\ RevokeAnswersRevoked)'
  BY <1>7 DEF HeldByRequest, RevokedNeverValidates, BulkRevokedWithinSkew,
              RevokeAnswersRevoked, Sound
<1> QED BY <1>1, <1>3, <1>8

\* A request that ends without a verdict leaves a sound slot, and the type of
\* the slots with it.
LEMMA ReplySound ==
    ASSUME TypeOK, NEW r \in Requests, NEW a \in Answers \ {"valid", "ok"}, Reply(r, a)
    PROVE  /\ req' \in [Requests -> Request]
           /\ \A q \in Requests : \/ req'[q] = req[q]
                                  \/ req'[q].pc # "insert" /\ Sound(req[q])'
<1> DEFINE x == [NoRequest EXCEPT !.resp = a]
<1>1. x \in Request /\ x.pc = "idle" /\ x.resp = a
  BY DEF NoRequest, Request
<1>2. req' = [req EXCEPT ![r] = x]
  BY DEF Reply
<1>3. req' \in [Requests -> Request] /\ req'[r] = x
  BY <1>1, <1>2 DEF TypeOK
<1>4. \A q \in Requests \ {r} : req'[q] = req[q]
  BY <1>2 DEF TypeOK
<1>5. Sound(req[r])'
  BY <1>1, <1>3 DEF Sound
<1> QED BY <1>1, <1>3, <1>4, <1>5

-----------------------------------------------------------------------------
(* Actions that write no row                                               *)

\* The table and its history are as before.
LEMMA QuietStep ==
    ASSUME IndInv, NEW r \in Requests,
           req' \in [Requests -> Request],
           \A q \in Requests : \/ req'[q] = req[q]
                               \/ req'[q].pc # "insert" /\ Sound(req[q])',
           UNCHANGED <<rows, minted, dbNow, acked, bulkAt>>,
           reported' \in [Keys -> Status \cup {"none"}]
    PROVE  IndInv'
<1>1. TypeOK'
  BY DEF IndInv, TypeOK
<1>2. ConfirmedInTable'
  BY DEF IndInv, ConfirmedInTable, LeftOverBy
<1> QED BY <1>1, <1>2, SoundStep DEF IndInv

LEMMA RejectInv ==
    ASSUME IndInv, NEW r \in Requests,
           CreateRejected(r) \/ ValidateRejected(r) \/ RequestFails(r)
    PROVE  IndInv'
<1>1. PICK a \in Answers \ {"valid", "ok"} : Reply(r, a)
  BY DEF CreateRejected, ValidateRejected, RequestFails, Answers
<1>2. UNCHANGED <<rows, minted, dbNow, acked, bulkAt, reported>>
  BY DEF CreateRejected, ValidateRejected, RequestFails, history
<1> QED BY <1>1, <1>2, ReplySound, QuietStep DEF IndInv, TypeOK

LEMMA GetByHashInv ==
    ASSUME IndInv, NEW r \in Requests, GetByHash(r)
    PROVE  IndInv'
<1> USE DEF IndInv
<1>1. UNCHANGED <<rows, minted, dbNow, acked, bulkAt, reported>>
  BY DEF GetByHash, history
<1>2. PICK t \in Tenants, k \in minted :
        IF k \in Visible(t)
        THEN req' = [req EXCEPT ![r] = [NoRequest EXCEPT
               !.pc = "check", !.key = k, !.row = rows[k],
               !.late = (k \in acked), !.bulk = bulkAt[k]]]
        ELSE Reply(r, "invalid")
  BY DEF GetByHash
<1>3. CASE k \notin Visible(t)
  <2>1. Reply(r, "invalid")
    BY <1>2, <1>3
  <2> QED BY <1>1, <2>1, ReplySound, QuietStep DEF TypeOK, Answers
<1>4. CASE k \in Visible(t)
  <2> DEFINE b == k \in acked
             x == [NoRequest EXCEPT !.pc = "check", !.key = k, !.row = rows[k],
                                    !.late = b, !.bulk = bulkAt[k]]
  <2>1. req' = [req EXCEPT ![r] = x]
    BY <1>2, <1>4
  <2>2. k \in Keys /\ rows[k] # NoRow /\ rows[k] \in Row
    BY <1>4 DEF Visible, TypeOK
  <2>3. x \in Request /\ x.pc = "check" /\ x.key = k /\ x.row = rows[k]
        /\ x.resp = "none" /\ x.bulk = bulkAt[k] /\ (x.late <=> k \in acked)
    <3>1. b \in BOOLEAN /\ bulkAt[k] \in Nat
      BY <2>2 DEF TypeOK
    <3> HIDE DEF b
    <3>2. x \in Request /\ x.pc = "check" /\ x.key = k /\ x.row = rows[k]
          /\ x.resp = "none" /\ x.bulk = bulkAt[k] /\ x.late = b
      BY <2>2, <3>1 DEF NoRequest, Request, Answers, TypeOK
    <3> QED BY <3>2 DEF b
  <2>4. req' \in [Requests -> Request] /\ req'[r] = x
        /\ \A q \in Requests \ {r} : req'[q] = req[q]
    BY <2>1, <2>3 DEF TypeOK
  <2>5. ~Pending(k)
    BY <2>2 DEF Pending, PendingFresh
  <2>6. ~Pending(k)'
    BY <2>3, <2>4, <2>5 DEF Pending
  <2>7. Sound(req[r])'
    <3>1. k \in acked => rows[k].status # "active"
      BY <2>2 DEF ConfirmedInTable
    <3>2. LeftOverBy(rows[k], bulkAt[k])
      BY <2>2 DEF ConfirmedInTable
    <3> QED BY <1>1, <2>2, <2>3, <2>4, <2>6, <3>1, <3>2 DEF Sound, LeftOverBy
  <2> QED BY <1>1, <2>3, <2>4, <2>7, QuietStep DEF TypeOK
<1> QED BY <1>3, <1>4

LEMMA ValidateAcceptedInv ==
    ASSUME IndInv, NEW r \in Requests, ValidateAccepted(r)
    PROVE  IndInv'
<1> USE DEF IndInv
<1>1. UNCHANGED <<rows, minted, dbNow, acked, bulkAt, reported>>
  BY DEF ValidateAccepted, history
<1> DEFINE x == [req[r] EXCEPT !.pc = "idle", !.asOf = dbNow, !.resp = "valid"]
<1>2. req[r] \in Request /\ req[r].pc = "check" /\ req[r].row.status = "active"
      /\ req[r].row # NoRow /\ Sound(req[r])
  BY AllSound DEF ValidateAccepted, TypeOK, HeldByRequest
<1>3. x \in Request /\ x.pc = "idle" /\ x.resp = "valid" /\ x.asOf = dbNow
      /\ x.late = req[r].late /\ x.bulk = req[r].bulk
  BY <1>2 DEF Request, Answers, TypeOK
<1>4. req' = [req EXCEPT ![r] = x]
  BY DEF ValidateAccepted
<1>5. req' \in [Requests -> Request] /\ req'[r] = x
      /\ \A q \in Requests \ {r} : req'[q] = req[q]
  BY <1>3, <1>4 DEF TypeOK
<1>6. ~req[r].late
  BY <1>2 DEF Sound
<1>7. req[r].bulk # 0 => dbNow <= req[r].bulk + MaxSkew
  <2> SUFFICES ASSUME req[r].bulk # 0 PROVE dbNow <= req[r].bulk + MaxSkew
    OBVIOUS
  <2>1. req[r].row.exp \in Nat /\ req[r].bulk \in Nat /\ dbNow \in Nat
    BY <1>2 DEF Request, Row, TypeOK
  <2>2. req[r].row.exp # 0 /\ req[r].row.exp <= req[r].bulk
    BY <1>2 DEF Sound, LeftOverBy
  <2>3. PICK now \in AppClock : ~Past(req[r].row, now)
    BY DEF ValidateAccepted
  <2>4. now \in Nat /\ now + MaxSkew >= dbNow
    BY <2>1, <2>3 DEF AppClock
  <2>5. ~(req[r].row.exp < now)
    BY <2>2, <2>3 DEF Past
  <2> QED BY <2>1, <2>2, <2>4, <2>5
<1>8. Sound(req[r])'
  BY <1>3, <1>5, <1>6, <1>7 DEF Sound
<1> QED BY <1>1, <1>3, <1>5, <1>8, QuietStep DEF TypeOK

LEMMA RevokeAPIKeyInv ==
    ASSUME IndInv, NEW r \in Requests, RevokeAPIKey(r)
    PROVE  IndInv'
<1> USE DEF IndInv
<1>1. UNCHANGED <<rows, minted, dbNow, acked, bulkAt, reported>>
  BY DEF RevokeAPIKey, history
<1>2. CASE Reply(r, "notfound")
  BY <1>1, <1>2, ReplySound, QuietStep DEF TypeOK, Answers
<1>3. ASSUME NEW t \in Tenants, NEW k \in minted, k \in Visible(t),
             Begin(r, "update", k, rows[k])
      PROVE  IndInv'
  <2> DEFINE x == [NoRequest EXCEPT !.pc = "update", !.key = k, !.row = rows[k]]
  <2>1. k \in Keys /\ rows[k] # NoRow /\ rows[k] \in Row
    BY <1>3 DEF Visible, TypeOK
  <2>2. x \in Request /\ x.pc = "update" /\ x.key = k /\ x.row = rows[k]
        /\ x.resp = "none"
    BY <2>1 DEF NoRequest, Request, Answers
  <2>3. req' \in [Requests -> Request] /\ req'[r] = x
        /\ \A q \in Requests \ {r} : req'[q] = req[q]
    BY <1>3, <2>2 DEF TypeOK, Begin
  <2>4. ~Pending(k)'
    <3>1. ~Pending(k)
      BY <2>1 DEF Pending, PendingFresh
    <3> QED BY <2>2, <2>3, <3>1 DEF Pending
  <2>5. Sound(req[r])'
    BY <1>1, <2>1, <2>2, <2>3, <2>4 DEF Sound
  <2> QED BY <1>1, <2>2, <2>3, <2>5, QuietStep DEF TypeOK
<1> QED BY <1>2, <1>3 DEF RevokeAPIKey

LEMMA EffectiveStatusType ==
    ASSUME NEW row \in Row PROVE EffectiveStatus(row) \in Status
BY DEF EffectiveStatus, Row

LEMMA RevokeRereadInv ==
    ASSUME IndInv, NEW r \in Requests, RevokeReread(r)
    PROVE  IndInv'
<1> USE DEF IndInv
<1> DEFINE k == req[r].key
<1>1. UNCHANGED <<rows, minted, dbNow, acked, bulkAt>>
  BY DEF RevokeReread
<1>2. CASE Reply(r, "failed") /\ UNCHANGED reported
  BY <1>1, <1>2, ReplySound, QuietStep DEF TypeOK, Answers
<1>3. ASSUME k \in Keys, rows[k] # NoRow, rows[k].status = "revoked",
             req' = [req EXCEPT ![r] = [NoRequest EXCEPT !.row = rows[k], !.resp = "ok"]],
             reported' = [reported EXCEPT ![k] = EffectiveStatus(rows[k])]
      PROVE  IndInv'
  <2> DEFINE x == [NoRequest EXCEPT !.row = rows[k], !.resp = "ok"]
  <2>1. rows[k] \in Row
    BY <1>3 DEF TypeOK
  <2>2. x \in Request /\ x.pc = "idle" /\ x.row = rows[k] /\ x.resp = "ok"
    BY <2>1 DEF NoRequest, Request, Answers
  <2>3. req' \in [Requests -> Request] /\ req'[r] = x
        /\ \A q \in Requests \ {r} : req'[q] = req[q]
    BY <1>3, <2>2 DEF TypeOK
  <2>4. Sound(req[r])'
    BY <1>3, <2>2, <2>3 DEF Sound
  <2>5. reported' \in [Keys -> Status \cup {"none"}]
    BY <1>3, <2>1, EffectiveStatusType DEF TypeOK
  <2> QED BY <1>1, <2>2, <2>3, <2>4, <2>5, QuietStep
<1>4. k \in Keys
  BY DEF RevokeReread, HeldByRequest, TypeOK
<1>5. rows[k] # NoRow => rows[k].status = "revoked"
  BY DEF RevokeReread, HeldByRequest
<1> QED BY <1>2, <1>3, <1>4, <1>5 DEF RevokeReread, Visible

-----------------------------------------------------------------------------
(* Actions that change the status of stored rows or delete them            *)

\* Turning active rows into revoked or expired ones keeps the confirmed
\* revocations confirmed.
LEMMA RetireTable ==
    ASSUME IndInv, NEW S \in SUBSET Keys,
           \A k \in S : rows[k] # NoRow /\ rows[k].status = "active",
           NEW st \in {"revoked", "expired"}, SetStatus(S, st)
    PROVE  /\ rows' \in [Keys -> Row \cup {NoRow}]
           /\ \A k \in Keys : rows[k] = NoRow => rows'[k] = NoRow
           /\ \A k \in Keys : rows[k] # NoRow /\ rows[k].status = "revoked"
                              => rows'[k] = NoRow \/ rows'[k].status = "revoked"
           /\ \A k \in Keys : rows'[k] # NoRow /\ rows'[k].status = "active"
                              => k \notin S /\ rows'[k] = rows[k]
<1>1. /\ rows' \in [Keys -> Row \cup {NoRow}]
      /\ \A k \in Keys : /\ rows'[k] = NoRow <=> rows[k] = NoRow
                         /\ k \notin S => rows'[k] = rows[k]
                         /\ k \in S => rows'[k].status = st
  BY SetStatusRows DEF IndInv, TypeOK
<1>2. ASSUME NEW k \in Keys, rows[k] # NoRow, rows[k].status = "revoked"
      PROVE  rows'[k] = NoRow \/ rows'[k].status = "revoked"
  <2>1. k \notin S
    BY <1>2
  <2> QED BY <1>1, <1>2, <2>1
<1>3. ASSUME NEW k \in Keys, rows'[k] # NoRow, rows'[k].status = "active"
      PROVE  k \notin S /\ rows'[k] = rows[k]
  <2>1. k \notin S
    BY <1>1, <1>3
  <2> QED BY <1>1, <2>1
<1> QED BY <1>1, <1>2, <1>3

LEMMA ValidateExpiredInv ==
    ASSUME IndInv, NEW r \in Requests, ValidateExpired(r)
    PROVE  IndInv'
<1> USE DEF IndInv
<1>1. Reply(r, "invalid") /\ UNCHANGED <<minted, dbNow, acked, bulkAt, reported>>
  BY DEF ValidateExpired, history
<1>2. CASE UNCHANGED rows
  BY <1>1, <1>2, ReplySound, QuietStep DEF TypeOK, Answers
<1>3. CASE SetStatus({req[r].key} \cap ActiveIn(req[r].row.tenant), "expired")
  <2> DEFINE S == {req[r].key} \cap ActiveIn(req[r].row.tenant)
  <2>1. S \in SUBSET Keys /\ \A k \in S : rows[k] # NoRow /\ rows[k].status = "active"
    BY DEF ActiveIn, Visible
  <2> HIDE DEF S
  <2>2. /\ rows' \in [Keys -> Row \cup {NoRow}]
        /\ \A k \in Keys : rows[k] = NoRow => rows'[k] = NoRow
        /\ \A k \in Keys : rows[k] # NoRow /\ rows[k].status = "revoked"
                           => rows'[k] = NoRow \/ rows'[k].status = "revoked"
        /\ \A k \in Keys : rows'[k] # NoRow /\ rows'[k].status = "active"
                           => k \notin S /\ rows'[k] = rows[k]
    BY <1>3, <2>1, RetireTable DEF S
  <2>3. ConfirmedInTable'
    BY <1>1, <2>2 DEF ConfirmedInTable, LeftOverBy
  <2>4. TypeOK'
    BY <1>1, <2>2, ReplySound DEF TypeOK, Answers
  <2> QED BY <1>1, <2>2, <2>3, <2>4, ReplySound, SoundStep DEF Answers
<1> QED BY <1>2, <1>3 DEF ValidateExpired

LEMMA RevokeInv ==
    ASSUME IndInv, NEW r \in Requests, Revoke(r)
    PROVE  IndInv'
<1> USE DEF IndInv
<1> DEFINE k == req[r].key
           S == {k} \cap ActiveIn(req[r].row.tenant)
<1>1. req[r].pc = "update" /\ k \in Keys /\ req[r] \in Request /\ Sound(req[r])
  BY AllSound DEF Revoke, HeldByRequest, TypeOK
<1>2. S \in SUBSET Keys /\ \A m \in S : rows[m] # NoRow /\ rows[m].status = "active"
  BY DEF ActiveIn, Visible
<1>3. SetStatus(S, "revoked")
  BY DEF Revoke
<1>4. UNCHANGED <<minted, dbNow, bulkAt, reported>>
  BY DEF Revoke
<1>5. \/ S # {} /\ acked' = acked \cup {k} /\ req' = [req EXCEPT ![r].pc = "reread"]
      \/ UNCHANGED acked /\ \E a \in Answers \ {"valid", "ok"} : Reply(r, a)
  BY DEF Revoke, Answers
<1> HIDE DEF S
<1>6. /\ rows' \in [Keys -> Row \cup {NoRow}]
      /\ \A m \in Keys : rows[m] = NoRow => rows'[m] = NoRow
      /\ \A m \in Keys : rows[m] # NoRow /\ rows[m].status = "revoked"
                         => rows'[m] = NoRow \/ rows'[m].status = "revoked"
      /\ \A m \in Keys : rows'[m] # NoRow /\ rows'[m].status = "active"
                         => m \notin S /\ rows'[m] = rows[m]
  BY <1>2, <1>3, RetireTable
<1>7. CASE UNCHANGED acked /\ \E a \in Answers \ {"valid", "ok"} : Reply(r, a)
  <2>1. PICK a \in Answers \ {"valid", "ok"} : Reply(r, a)
    BY <1>7
  <2>2. ConfirmedInTable'
    BY <1>4, <1>6, <1>7 DEF ConfirmedInTable, LeftOverBy
  <2>3. TypeOK'
    BY <1>4, <1>6, <1>7, <2>1, ReplySound DEF TypeOK
  <2> QED BY <1>4, <1>6, <1>7, <2>1, <2>2, <2>3, ReplySound, SoundStep
<1>8. CASE S # {} /\ acked' = acked \cup {k} /\ req' = [req EXCEPT ![r].pc = "reread"]
  <2>1. S = {k} /\ rows[k] # NoRow
    BY <1>2, <1>8 DEF S
  <2>2. rows'[k] # NoRow /\ rows'[k].status = "revoked"
    BY <1>1, <1>2, <1>3, <2>1, SetStatusRows DEF TypeOK
  <2>3. ConfirmedInTable'
    BY <1>4, <1>6, <1>8, <2>1 DEF ConfirmedInTable, LeftOverBy
  <2> DEFINE x == [req[r] EXCEPT !.pc = "reread"]
  <2>4. x \in Request /\ x.pc = "reread" /\ x.key = k /\ x.row = req[r].row
        /\ x.resp = req[r].resp /\ x.late = req[r].late /\ x.bulk = req[r].bulk
        /\ x.asOf = req[r].asOf
    BY <1>1 DEF Request
  <2>5. req' \in [Requests -> Request] /\ req'[r] = x
        /\ \A q \in Requests \ {r} : req'[q] = req[q]
    BY <1>8, <2>4 DEF TypeOK
  <2>6. TypeOK'
    BY <1>1, <1>4, <1>6, <1>8, <2>5 DEF TypeOK
  <2>7. ~Pending(req[r].key)
    BY <1>1 DEF Sound
  <2>8. Sound(req[r])'
    <3> DEFINE y == req'[r]
    <3>1. y.pc = "reread" /\ y.key = k /\ y.row = req[r].row /\ y.resp = req[r].resp
          /\ y.late = req[r].late /\ y.bulk = req[r].bulk /\ y.asOf = req[r].asOf
      BY <2>4, <2>5
    <3>2. y.key \in minted' /\ y.row # NoRow
      BY <1>1, <1>4, <3>1 DEF Sound
    <3>3. ~Pending(k)'
      BY <2>4, <2>5, <2>7 DEF Pending
    <3>4. y.resp = "ok" => y.row.status = "revoked"
      BY <1>1, <3>1 DEF Sound
    <3>5. y.resp = "valid" => ~y.late
      BY <1>1, <3>1 DEF Sound
    <3>6. y.resp = "valid" /\ y.bulk # 0 => y.asOf <= y.bulk + MaxSkew
      BY <1>1, <3>1 DEF Sound
    <3> QED BY <2>2, <3>1, <3>2, <3>3, <3>4, <3>5, <3>6 DEF Sound
  <2>9. \A m \in Keys : m \in acked' \ acked => rows[m] # NoRow
    BY <1>8, <2>1
  <2> HIDE DEF x
  <2> QED BY <1>4, <1>6, <2>3, <2>4, <2>5, <2>6, <2>8, <2>9, SoundStep
<1> QED BY <1>5, <1>7, <1>8

\* The rows a bulk revocation leaves active in its scope are those expired by
\* the database's clock: that is why LeftOverBy is what IndInv keeps.
LEMMA BulkRevokeInv ==
    ASSUME IndInv, BulkRevokeAPIKeys
    PROVE  IndInv'
<1> USE DEF IndInv
<1>1. PICK t \in Tenants, u \in Users, scope \in Scopes :
        /\ SetStatus(bulkRevokeWhere(t, scope), "revoked")
        /\ \/ bulkAt' = [k \in Keys |->
                  IF k \in ActiveIn(t) /\ InScope(rows[k], scope)
                  THEN dbNow ELSE bulkAt[k]]
           \/ UNCHANGED bulkAt
  BY DEF BulkRevokeAPIKeys
<1>2. UNCHANGED <<minted, dbNow, req, acked, reported>>
  BY DEF BulkRevokeAPIKeys
<1> DEFINE S == bulkRevokeWhere(t, scope)
           C == {k \in ActiveIn(t) : InScope(rows[k], scope)}
<1>3. S \in SUBSET Keys /\ \A k \in S : rows[k] # NoRow /\ rows[k].status = "active"
  BY DEF bulkRevokeWhere, ActiveIn, Visible
<1>4. /\ rows' \in [Keys -> Row \cup {NoRow}]
      /\ \A k \in Keys : rows[k] = NoRow => rows'[k] = NoRow
      /\ \A k \in Keys : rows[k] # NoRow /\ rows[k].status = "revoked"
                         => rows'[k] = NoRow \/ rows'[k].status = "revoked"
      /\ \A k \in Keys : rows'[k] # NoRow /\ rows'[k].status = "active"
                         => k \notin S /\ rows'[k] = rows[k]
  BY <1>1, <1>3, RetireTable
<1>5. \A k \in C : k \in Keys /\ rows[k] # NoRow
  BY DEF ActiveIn, Visible
<1>6. \A k \in Keys : bulkAt'[k] = bulkAt[k] \/ (k \in C /\ bulkAt'[k] = dbNow)
  BY <1>1 DEF TypeOK
<1>7. \A k \in C \ S : rows[k].exp # 0 /\ rows[k].exp <= dbNow
  <2> SUFFICES ASSUME NEW k \in C, k \notin S
               PROVE  rows[k].exp # 0 /\ rows[k].exp <= dbNow
    OBVIOUS
  <2>1. rows[k] \in Row
    BY <1>5 DEF TypeOK
  <2>2. rows[k].exp \in Nat /\ dbNow \in Nat
    BY <2>1 DEF Row, TypeOK
  <2>3. ~(rows[k].exp = 0 \/ rows[k].exp > dbNow)
    BY DEF bulkRevokeWhere
  <2> QED BY <2>2, <2>3
<1>8. ConfirmedInTable'
  <2> SUFFICES ASSUME NEW k \in Keys, rows'[k] # NoRow
               PROVE  /\ k \in acked => rows'[k].status # "active"
                      /\ rows'[k].status = "active" /\ bulkAt'[k] # 0
                         => rows'[k].exp # 0 /\ rows'[k].exp <= bulkAt'[k]
    BY <1>2 DEF ConfirmedInTable, LeftOverBy
  <2> SUFFICES ASSUME rows'[k].status = "active"
               PROVE  /\ k \notin acked
                      /\ bulkAt'[k] # 0 => rows'[k].exp # 0 /\ rows'[k].exp <= bulkAt'[k]
    OBVIOUS
  <2>1. k \notin S /\ rows'[k] = rows[k] /\ rows[k] # NoRow
    BY <1>4
  <2> HIDE DEF S, C
  <2>2. CASE bulkAt'[k] = bulkAt[k]
    BY <2>1, <2>2 DEF ConfirmedInTable, LeftOverBy
  <2>3. CASE k \in C /\ bulkAt'[k] = dbNow
    BY <1>7, <2>1, <2>3 DEF ConfirmedInTable
  <2> QED BY <1>6, <2>2, <2>3
<1>9. bulkAt' \in [Keys -> Nat]
  BY <1>1 DEF TypeOK
<1>10. TypeOK'
  BY <1>2, <1>4, <1>9 DEF TypeOK
<1> HIDE DEF S, C
<1>11. \A k \in Keys : bulkAt'[k] # bulkAt[k] => rows[k] # NoRow
  BY <1>5, <1>6
<1> QED BY <1>2, <1>4, <1>8, <1>10, <1>11, SoundStep

LEMMA RevokeTenantInv ==
    ASSUME IndInv, RevokeTenantAPIKeys
    PROVE  IndInv'
<1> USE DEF IndInv
<1>1. PICK t \in Tenants : /\ SetStatus(ActiveIn(t), "revoked")
                           /\ acked' \in {acked, acked \cup Visible(t)}
  BY DEF RevokeTenantAPIKeys
<1>2. UNCHANGED <<minted, dbNow, req, bulkAt, reported>>
  BY DEF RevokeTenantAPIKeys
<1> DEFINE S == ActiveIn(t)
           V == Visible(t)
<1>3. /\ S \in SUBSET Keys /\ \A k \in S : rows[k] # NoRow /\ rows[k].status = "active"
      /\ V \in SUBSET Keys /\ \A k \in V : rows[k] # NoRow
      /\ \A k \in V \ S : rows[k].status # "active"
  BY DEF ActiveIn, Visible
<1>4. /\ rows' \in [Keys -> Row \cup {NoRow}]
      /\ \A k \in Keys : rows[k] = NoRow => rows'[k] = NoRow
      /\ \A k \in Keys : rows[k] # NoRow /\ rows[k].status = "revoked"
                         => rows'[k] = NoRow \/ rows'[k].status = "revoked"
      /\ \A k \in Keys : rows'[k] # NoRow /\ rows'[k].status = "active"
                         => k \notin S /\ rows'[k] = rows[k]
  BY <1>1, <1>3, RetireTable
<1>5. \A k \in acked' : k \in acked \/ k \in V
  BY <1>1
<1> HIDE DEF S, V
<1>6. ConfirmedInTable'
  BY <1>2, <1>3, <1>4, <1>5 DEF ConfirmedInTable, LeftOverBy
<1>7. acked' \in SUBSET Keys
  BY <1>3, <1>5 DEF TypeOK
<1>8. TypeOK'
  BY <1>2, <1>4, <1>7 DEF TypeOK
<1>9. \A k \in Keys : k \in acked' \ acked => rows[k] # NoRow
  BY <1>3, <1>5
<1> QED BY <1>2, <1>4, <1>6, <1>8, <1>9, SoundStep

LEMMA CleanupInv ==
    ASSUME IndInv, DeleteExpiredEphemeral
    PROVE  IndInv'
<1> USE DEF IndInv
<1>1. \A k \in Keys : rows'[k] = NoRow \/ rows'[k] = rows[k]
  BY DEF DeleteExpiredEphemeral
<1>2. rows' \in [Keys -> Row \cup {NoRow}]
  BY DEF DeleteExpiredEphemeral, TypeOK
<1>3. UNCHANGED <<minted, dbNow, req, acked, bulkAt, reported>>
  BY DEF DeleteExpiredEphemeral, history
<1>4. ConfirmedInTable'
  BY <1>1, <1>3 DEF ConfirmedInTable, LeftOverBy
<1>5. TypeOK'
  BY <1>2, <1>3 DEF TypeOK
<1> QED BY <1>1, <1>3, <1>4, <1>5, SoundStep

\* Reads and the clock touch nothing that IndInv relates.
LEMMA ReadInv ==
    ASSUME IndInv, GetAPIKey \/ SearchAPIKeys \/ Tick
    PROVE  IndInv'
<1> USE DEF IndInv
<1>1. UNCHANGED <<rows, minted, req, acked, bulkAt>>
  BY DEF GetAPIKey, SearchAPIKeys, Tick, history
<1>2. dbNow' \in Nat
  BY DEF GetAPIKey, SearchAPIKeys, Tick, TypeOK
<1>3. \A k \in Keys : rows[k] # NoRow => EffectiveStatus(rows[k]) \in Status
  BY EffectiveStatusType DEF TypeOK
<1>4. reported' \in [Keys -> Status \cup {"none"}]
  <2>1. CASE GetAPIKey
    BY <1>3, <2>1 DEF GetAPIKey, Visible, TypeOK
  <2>2. CASE SearchAPIKeys
    BY <1>3, <2>2 DEF SearchAPIKeys, Visible, TypeOK
  <2>3. CASE Tick
    BY <2>3 DEF Tick, history, TypeOK
  <2> QED BY <2>1, <2>2, <2>3
<1>5. TypeOK'
  BY <1>1, <1>2, <1>4 DEF TypeOK
<1>6. ConfirmedInTable'
  BY <1>1 DEF ConfirmedInTable, LeftOverBy
<1> QED BY <1>1, <1>5, <1>6, SoundStep

-----------------------------------------------------------------------------
(* The two halves of a creation                                            *)

LEMMA CreateAPIKeyInv ==
    ASSUME IndInv, NEW r \in Requests, CreateAPIKey(r)
    PROVE  IndInv'
<1> USE DEF IndInv
<1>0. PICK t \in Tenants, u \in Users, s \in Subs, eph \in BOOLEAN :
      \E ttl \in 1 .. MaxTTL(eph), now \in AppClock, k \in Keys \ minted :
        /\ minted' = minted \cup {k}
        /\ Begin(r, "insert", k, [owner |-> u, tenant |-> t, sub |-> s,
                                  status |-> "active", exp |-> now + ttl,
                                  eph |-> eph])
  BY DEF CreateAPIKey
<1>1. PICK ttl \in 1 .. MaxTTL(eph), now \in AppClock, k \in Keys \ minted :
        /\ minted' = minted \cup {k}
        /\ Begin(r, "insert", k, [owner |-> u, tenant |-> t, sub |-> s,
                                  status |-> "active", exp |-> now + ttl,
                                  eph |-> eph])
  BY <1>0
<1>2. UNCHANGED <<rows, dbNow, acked, bulkAt, reported>>
  BY DEF CreateAPIKey, history
<1> DEFINE row == [owner |-> u, tenant |-> t, sub |-> s, status |-> "active",
                   exp |-> now + ttl, eph |-> eph]
           x == [NoRequest EXCEPT !.pc = "insert", !.key = k, !.row = row]
<1>3. now + ttl \in Nat
  BY DEF AppClock, TypeOK, MaxTTL
<1>4. row \in Row /\ row.status = "active"
  BY <1>3 DEF Row
<1>5. req' = [req EXCEPT ![r] = x]
  BY <1>1 DEF Begin
<1> HIDE DEF row
<1>6. x \in Request /\ x.pc = "insert" /\ x.key = k /\ x.row = row /\ x.resp = "none"
  BY <1>4 DEF NoRequest, Request, Answers
<1>7. req' \in [Requests -> Request] /\ req'[r] = x
      /\ \A q \in Requests \ {r} : req'[q] = req[q]
  BY <1>5, <1>6 DEF TypeOK
<1> HIDE DEF x
<1>8. TypeOK'
  BY <1>1, <1>2, <1>7 DEF TypeOK
<1>9. OnlyMinted' /\ ConfirmedInTable'
  BY <1>1, <1>2 DEF OnlyMinted, ConfirmedInTable, LeftOverBy
<1>10. \A q \in Requests \ {r} : req[q].pc \in {"insert", "check", "update", "reread"}
                                  => req[q].key # k
  BY DEF PendingFresh, HeldByRequest
<1>11. rows[k] = NoRow /\ k \notin acked /\ bulkAt[k] = 0
  BY DEF OnlyMinted
<1>12. row # NoRow
  BY <1>4
<1>13. PendingFresh'
  <2>1. ASSUME NEW q \in Requests \ {r}, req'[q].pc = "insert"
        PROVE  /\ req'[q] = req[q] /\ req'[q].key # k
               /\ req[q].key \in minted /\ req[q].row # NoRow
               /\ req[q].row.status = "active" /\ rows[req[q].key] = NoRow
               /\ req[q].key \notin acked /\ bulkAt[req[q].key] = 0
    BY <1>7, <1>10, <2>1 DEF PendingFresh
  <2>2. \A p, q \in Requests \ {r} :
          req[p].pc = "insert" /\ req[q].pc = "insert" /\ req[p].key = req[q].key => p = q
    BY DEF PendingFresh
  <2> QED BY <1>1, <1>2, <1>4, <1>6, <1>7, <1>11, <1>12, <2>1, <2>2 DEF PendingFresh
<1>14. \A q \in Requests : Sound(req[q])'
  <2>1. Sound(req[r])'
    BY <1>6, <1>7 DEF Sound
  <2>2. ASSUME NEW q \in Requests \ {r} PROVE Sound(req[q])'
    <3>1. Sound(req[q])
      BY AllSound
    <3>2. ASSUME req[q].pc \in {"check", "update", "reread"}
          PROVE  ~Pending(req[q].key)'
      <4>1. ~Pending(req[q].key) /\ req[q].key # k
        BY <1>10, <3>1, <3>2 DEF Sound
      <4> QED BY <1>6, <1>7, <4>1 DEF Pending
    <3> QED BY <1>1, <1>2, <1>7, <3>1, <3>2 DEF Sound, LeftOverBy
  <2> QED BY <2>1, <2>2
<1>15. (HeldByRequest /\ RevokedNeverValidates /\ BulkRevokedWithinSkew
          /\ RevokeAnswersRevoked)'
  BY <1>14 DEF HeldByRequest, RevokedNeverValidates, BulkRevokedWithinSkew,
               RevokeAnswersRevoked, Sound
<1> QED BY <1>8, <1>9, <1>13, <1>15

LEMMA AddKeyInv ==
    ASSUME IndInv, NEW r \in Requests, AddKey(r)
    PROVE  IndInv'
<1> USE DEF IndInv
<1> DEFINE k == req[r].key
<1>1. UNCHANGED <<minted, dbNow, acked, bulkAt, reported>>
  BY DEF AddKey, history
<1>2. PICK a \in Answers \ {"valid", "ok"} : Reply(r, a)
  BY DEF AddKey, Answers
<1>3. /\ req[r].pc = "insert" /\ k \in Keys /\ k \in minted
      /\ req[r].row # NoRow /\ req[r].row \in Row /\ req[r].row.status = "active"
      /\ k \notin acked /\ bulkAt[k] = 0 /\ rows[k] = NoRow
  BY DEF AddKey, PendingFresh, TypeOK, Request
<1>4. /\ rows' \in [Keys -> Row \cup {NoRow}]
      /\ rows'[k] = req[r].row
      /\ \A m \in Keys \ {k} : rows'[m] = rows[m]
  BY <1>3 DEF AddKey, TypeOK
<1>5. \A q \in Requests : req'[q] = req[q] \/ (req'[q].pc # "insert" /\ Sound(req[q])')
  BY <1>2, ReplySound
<1>6. req' \in [Requests -> Request] /\ req'[r].pc = "idle"
      /\ \A q \in Requests \ {r} : req'[q] = req[q]
  BY <1>2, ReplySound DEF Reply, TypeOK, NoRequest
<1>7. TypeOK'
  BY <1>1, <1>4, <1>6 DEF TypeOK
<1>8. OnlyMinted'
  BY <1>1, <1>3, <1>4 DEF OnlyMinted
<1>9. ConfirmedInTable'
  BY <1>1, <1>3, <1>4 DEF ConfirmedInTable, LeftOverBy
<1>10. \A q \in Requests \ {r} : req[q].pc = "insert" => req[q].key # k
  BY <1>3 DEF PendingFresh
<1> HIDE DEF k
<1>11. PendingFresh'
  <2>1. ASSUME NEW q \in Requests, req'[q].pc = "insert"
        PROVE  /\ q # r /\ req'[q] = req[q] /\ req'[q].key # k
               /\ req[q].key \in Keys
    BY <1>6, <1>10, <2>1 DEF PendingFresh, TypeOK
  <2> QED BY <1>1, <1>4, <2>1 DEF PendingFresh
<1>12. ASSUME NEW q \in Requests, req'[q] = req[q] PROVE Sound(req[q])'
  <2>1. Sound(req[q])
    BY AllSound
  <2>2. ASSUME req[q].pc \in {"check", "update", "reread"}
        PROVE  req[q].key # k /\ ~Pending(req[q].key)' /\ req[q].key \in Keys
    <3>1. ~Pending(req[q].key)
      BY <2>1, <2>2 DEF Sound
    <3>2. req[q].key # k
      BY <1>3, <3>1 DEF Pending, k
    <3>3. req[q].key \in Keys
      BY <2>1, <2>2 DEF Sound, TypeOK
    <3> QED BY <1>6, <1>12, <3>1, <3>2, <3>3 DEF Pending
  <2> QED BY <1>1, <1>4, <1>12, <2>1, <2>2 DEF Sound, LeftOverBy
<1>13. \A q \in Requests : Sound(req[q])'
  BY <1>5, <1>12
<1>14. (HeldByRequest /\ RevokedNeverValidates /\ BulkRevokedWithinSkew
          /\ RevokeAnswersRevoked)'
  BY <1>13 DEF HeldByRequest, RevokedNeverValidates, BulkRevokedWithinSkew,
               RevokeAnswersRevoked, Sound
<1> QED BY <1>7, <1>8, <1>9, <1>11, <1>14

-----------------------------------------------------------------------------
(* The theorems                                                            *)

LEMMA NextInv == IndInv /\ [Next]_vars => IndInv'
<1> SUFFICES ASSUME IndInv, [Next]_vars PROVE IndInv'
  OBVIOUS
<1>1. ASSUME NEW r \in Requests, Step(r) PROVE IndInv'
  BY <1>1, CreateAPIKeyInv, AddKeyInv, RejectInv, GetByHashInv, ValidateExpiredInv,
     ValidateAcceptedInv, RevokeAPIKeyInv, RevokeInv, RevokeRereadInv DEF Step
<1>2. CASE UNCHANGED vars
  BY <1>2 DEF vars, IndInv, TypeOK, OnlyMinted, PendingFresh, ConfirmedInTable,
     HeldByRequest, Pending, LeftOverBy, RevokedNeverValidates,
     BulkRevokedWithinSkew, RevokeAnswersRevoked
<1> QED BY <1>1, <1>2, BulkRevokeInv, RevokeTenantInv, CleanupInv, ReadInv DEF Next

\* The inductive invariant holds in every state of every behaviour.
THEOREM Invariance == Spec => []IndInv
BY InitInv, NextInv, PTL DEF Spec

\* For any number of concurrent requests, a validation that reads a key after
\* the confirmation of its revocation does not accept it.
THEOREM RevocationIsFinal == Spec => []RevokedNeverValidates
<1>1. IndInv => RevokedNeverValidates
  BY DEF IndInv
<1> QED BY <1>1, Invariance, PTL

\* What a bulk revocation misses outlives it by no more than the clocks'
\* distance, whatever that distance is.
THEOREM BulkRevocationIsTimely == Spec => []BulkRevokedWithinSkew
<1>1. IndInv => BulkRevokedWithinSkew
  BY DEF IndInv
<1> QED BY <1>1, Invariance, PTL

\* A revocation that succeeds answers with a revoked row, whatever validations,
\* bulk revocations and cleanups run between its statements.
THEOREM RevokeAnswer == Spec => []RevokeAnswersRevoked
<1>1. IndInv => RevokeAnswersRevoked
  BY DEF IndInv
<1> QED BY <1>1, Invariance, PTL

\* Only the creation and the cleanup give or take rows away: an UPDATE keeps
\* them all.
LEMMA UpdateKeepsRows ==
    ASSUME IndInv, NEW S \in SUBSET Keys, \A k \in S : rows[k] # NoRow,
           NEW st \in Status, SetStatus(S, st), NEW k \in Keys, rows[k] # NoRow
    PROVE  rows'[k] # NoRow
BY SetStatusRows DEF IndInv, TypeOK

\* The cleanup takes no row from under a validation: as long as the clocks are
\* not further apart than the grace period (SkewAssumption), every reading of
\* the process's clock finds the deleted key expired.
THEOREM CleanupIsHarmless == Spec => CleanupHarmless
<1> DEFINE A == \A k \in Keys : rows[k] # NoRow /\ rows'[k] = NoRow =>
                  /\ rows[k].eph
                  /\ \A now \in AppClock : Past(rows[k], now)
<1>1. IndInv /\ [Next]_vars => [A]_vars
  <2> SUFFICES ASSUME IndInv, Next, NEW k \in Keys, rows[k] # NoRow, rows'[k] = NoRow
               PROVE  /\ rows[k].eph
                      /\ \A now \in AppClock : Past(rows[k], now)
    OBVIOUS
  <2>1. CASE DeleteExpiredEphemeral
    <3>1. rows[k].eph /\ rows[k].exp # 0 /\ rows[k].exp + Grace < dbNow
      BY <2>1 DEF DeleteExpiredEphemeral
    <3>2. rows[k] \in Row
      BY DEF IndInv, TypeOK
    <3>3. rows[k].exp \in Nat /\ dbNow \in Nat
      BY <3>2 DEF IndInv, TypeOK, Row
    <3>4. ASSUME NEW now \in AppClock PROVE rows[k].exp < now
      BY <3>1, <3>3, <3>4, SkewAssumption DEF AppClock
    <3> QED BY <3>1, <3>4 DEF Past
  <2>2. ASSUME NEW r \in Requests, Step(r) PROVE FALSE
    <3>1. CASE ValidateExpired(r)
      <4> DEFINE S == {req[r].key} \cap ActiveIn(req[r].row.tenant)
      <4>1. S \in SUBSET Keys /\ \A m \in S : rows[m] # NoRow
        BY DEF ActiveIn, Visible
      <4> QED BY <3>1, <4>1, UpdateKeepsRows DEF ValidateExpired
    <3>2. CASE Revoke(r)
      <4> DEFINE S == {req[r].key} \cap ActiveIn(req[r].row.tenant)
      <4>1. S \in SUBSET Keys /\ \A m \in S : rows[m] # NoRow
        BY DEF ActiveIn, Visible
      <4> QED BY <3>2, <4>1, UpdateKeepsRows DEF Revoke
    <3>3. CASE AddKey(r)
      BY <3>3 DEF AddKey, IndInv, TypeOK, PendingFresh
    <3> QED BY <2>2, <3>1, <3>2, <3>3 DEF Step, CreateAPIKey, CreateRejected, GetByHash,
            ValidateRejected, ValidateAccepted, RevokeAPIKey, RevokeReread, RequestFails
  <2>3. CASE BulkRevokeAPIKeys
    <3>1. PICK t \in Tenants, scope \in Scopes :
            SetStatus(bulkRevokeWhere(t, scope), "revoked")
      BY <2>3 DEF BulkRevokeAPIKeys
    <3>2. bulkRevokeWhere(t, scope) \in SUBSET Keys
          /\ \A m \in bulkRevokeWhere(t, scope) : rows[m] # NoRow
      BY DEF bulkRevokeWhere, ActiveIn, Visible
    <3> QED BY <3>1, <3>2, UpdateKeepsRows
  <2>4. CASE RevokeTenantAPIKeys
    <3>1. PICK t \in Tenants : SetStatus(ActiveIn(t), "revoked")
      BY <2>4 DEF RevokeTenantAPIKeys
    <3>2. ActiveIn(t) \in SUBSET Keys /\ \A m \in ActiveIn(t) : rows[m] # NoRow
      BY DEF ActiveIn, Visible
    <3> QED BY <3>1, <3>2, UpdateKeepsRows
  <2>5. CASE GetAPIKey \/ SearchAPIKeys \/ Tick
    BY <2>5 DEF GetAPIKey, SearchAPIKeys, Tick
  <2> QED BY <2>1, <2>2, <2>3, <2>4, <2>5 DEF Next
<1>2. Spec => [][A]_vars
  BY <1>1, Invariance, PTL DEF Spec
<1> QED BY <1>2 DEF CleanupHarmless

\* An UPDATE over some of tenant t's rows changes no row of another tenant.
LEMMA UpdateWithinTenant ==
    ASSUME IndInv, NEW t, NEW S \in SUBSET Visible(t), NEW st, SetStatus(S, st)
    PROVE  \A k \in Keys : rows[k] # NoRow /\ rows'[k] # rows[k] => rows[k].tenant = t
BY DEF SetStatus, Visible

\* All tenants share one table; for any number of them no statement changes
\* rows of two (bulkRevokeWhereClause, InvalidateTenant, Revoke, GetByHash,
\* DeleteExpiredEphemeral).
THEOREM TenantIsolation == Spec => OneTenantPerStatement
<1> DEFINE A == \A k, m \in Keys :
                  /\ rows[k] # NoRow /\ rows'[k] # rows[k]
                  /\ rows[m] # NoRow /\ rows'[m] # rows[m]
                  => rows[k].tenant = rows[m].tenant
           Within(t) == \A k \in Keys :
                  rows[k] # NoRow /\ rows'[k] # rows[k] => rows[k].tenant = t
<1>1. IndInv /\ [Next]_vars => [A]_vars
  <2> SUFFICES ASSUME IndInv, Next PROVE \E t : Within(t)
    OBVIOUS
  <2> HIDE DEF Within
  <2>1. CASE DeleteExpiredEphemeral
    BY <2>1 DEF DeleteExpiredEphemeral, Visible, Within
  <2>2. ASSUME NEW r \in Requests, Step(r) PROVE Within(req[r].row.tenant)
    <3> DEFINE t == req[r].row.tenant
               S == {req[r].key} \cap ActiveIn(t)
    <3>1. S \in SUBSET Visible(t)
      BY DEF ActiveIn
    <3>2. ASSUME SetStatus(S, "expired") \/ SetStatus(S, "revoked") PROVE Within(t)
      BY <3>1, <3>2, UpdateWithinTenant DEF Within
    <3>3. CASE ValidateExpired(r)
      BY <3>2, <3>3 DEF ValidateExpired, Within
    <3>4. CASE Revoke(r)
      BY <3>2, <3>4 DEF Revoke
    <3>5. CASE AddKey(r)
      BY <3>5 DEF AddKey, IndInv, TypeOK, PendingFresh, Within
    <3> QED BY <2>2, <3>3, <3>4, <3>5 DEF Step, CreateAPIKey, CreateRejected, GetByHash,
            ValidateRejected, ValidateAccepted, RevokeAPIKey, RevokeReread, RequestFails,
            Within
  <2>3. CASE BulkRevokeAPIKeys
    <3>1. PICK t \in Tenants, scope \in Scopes :
            SetStatus(bulkRevokeWhere(t, scope), "revoked")
      BY <2>3 DEF BulkRevokeAPIKeys
    <3>2. bulkRevokeWhere(t, scope) \in SUBSET Visible(t)
      BY DEF bulkRevokeWhere, ActiveIn
    <3> QED BY <3>1, <3>2, UpdateWithinTenant DEF Within
  <2>4. CASE RevokeTenantAPIKeys
    <3>1. PICK t \in Tenants : SetStatus(ActiveIn(t), "revoked")
      BY <2>4 DEF RevokeTenantAPIKeys
    <3>2. ActiveIn(t) \in SUBSET Visible(t)
      BY DEF ActiveIn
    <3> QED BY <3>1, <3>2, UpdateWithinTenant DEF Within
  <2>5. CASE GetAPIKey \/ SearchAPIKeys \/ Tick
    BY <2>5 DEF GetAPIKey, SearchAPIKeys, Tick, Within
  <2> QED BY <2>1, <2>2, <2>3, <2>4, <2>5 DEF Next
<1>2. Spec => [][A]_vars
  BY <1>1, Invariance, PTL DEF Spec
<1> QED BY <1>2 DEF OneTenantPerStatement

-----------------------------------------------------------------------------
(* The table implements KeyLifecycle                                       *)

\* A request that is not a creation, before and after a statement of its own
LEMMA PendingSame ==
    ASSUME TypeOK, NEW r \in Requests, req[r].pc # "insert", NEW x, x.pc # "insert",
           req' = [req EXCEPT ![r] = x]
    PROVE  \A k \in Keys : Pending(k)' <=> Pending(k)
BY DEF Pending, TypeOK

LEMMA PendingSameReply ==
    ASSUME TypeOK, NEW r \in Requests, req[r].pc # "insert", NEW a, Reply(r, a)
    PROVE  \A k \in Keys : Pending(k)' <=> Pending(k)
<1> DEFINE x == [NoRequest EXCEPT !.resp = a]
<1>1. x.pc # "insert" /\ req' = [req EXCEPT ![r] = x]
  BY DEF Reply, NoRequest
<1> HIDE DEF x
<1> QED BY <1>1, PendingSame

LEMMA PendingSameStep ==
    ASSUME IndInv, NEW r \in Requests, req[r].pc # "insert", Step(r), ~CreateAPIKey(r)
    PROVE  \A k \in Keys : Pending(k)' <=> Pending(k)
<1>0. TypeOK /\ req[r] \in Request
  BY DEF IndInv, TypeOK
<1>1. CASE \E a : Reply(r, a)
  BY <1>0, <1>1, PendingSameReply
<1>2. CASE GetByHash(r)
  <2>1. CASE \E t \in Tenants, k \in minted :
               req' = [req EXCEPT ![r] = [NoRequest EXCEPT
                 !.pc = "check", !.key = k, !.row = rows[k],
                 !.late = (k \in acked), !.bulk = bulkAt[k]]]
    <3>1. PICK k \in minted :
               req' = [req EXCEPT ![r] = [NoRequest EXCEPT
                 !.pc = "check", !.key = k, !.row = rows[k],
                 !.late = (k \in acked), !.bulk = bulkAt[k]]]
      BY <2>1
    <3> DEFINE l == k \in acked
               x == [NoRequest EXCEPT !.pc = "check", !.key = k, !.row = rows[k],
                                      !.late = l, !.bulk = bulkAt[k]]
    <3>2. req' = [req EXCEPT ![r] = x]
      BY <3>1
    <3> HIDE DEF l
    <3>3. x.pc # "insert"
      BY DEF NoRequest
    <3> HIDE DEF x
    <3> QED BY <1>0, <3>2, <3>3, PendingSame
  <2> QED BY <1>1, <1>2, <2>1 DEF GetByHash
<1>3. CASE ValidateAccepted(r)
  <2> DEFINE x == [req[r] EXCEPT !.pc = "idle", !.asOf = dbNow, !.resp = "valid"]
  <2>1. x.pc # "insert" /\ req' = [req EXCEPT ![r] = x]
    BY <1>0, <1>3 DEF ValidateAccepted, Request
  <2> HIDE DEF x
  <2> QED BY <1>0, <2>1, PendingSame
<1>4. CASE RevokeAPIKey(r)
  <2>1. CASE \E k \in minted : Begin(r, "update", k, rows[k])
    <3>1. PICK k \in minted : Begin(r, "update", k, rows[k])
      BY <2>1
    <3> DEFINE x == [NoRequest EXCEPT !.pc = "update", !.key = k, !.row = rows[k]]
    <3>2. x.pc # "insert" /\ req' = [req EXCEPT ![r] = x]
      BY <3>1 DEF Begin, NoRequest
    <3> HIDE DEF x
    <3> QED BY <1>0, <3>2, PendingSame
  <2> QED BY <1>1, <1>4, <2>1 DEF RevokeAPIKey
<1>5. CASE Revoke(r)
  <2>1. CASE req' = [req EXCEPT ![r].pc = "reread"]
    <3> DEFINE x == [req[r] EXCEPT !.pc = "reread"]
    <3>1. x.pc # "insert" /\ req' = [req EXCEPT ![r] = x]
      BY <1>0, <2>1 DEF Request
    <3> HIDE DEF x
    <3> QED BY <1>0, <3>1, PendingSame
  <2> QED BY <1>1, <1>5, <2>1 DEF Revoke
<1>6. CASE RevokeReread(r)
  <2> DEFINE x == [NoRequest EXCEPT !.row = rows[req[r].key], !.resp = "ok"]
  <2>1. CASE req' = [req EXCEPT ![r] = x]
    <3>1. x.pc # "insert"
      BY DEF NoRequest
    <3> HIDE DEF x
    <3> QED BY <1>0, <2>1, <3>1, PendingSame
  <2> QED BY <1>1, <1>6, <2>1 DEF RevokeReread
<1>7. CASE CreateRejected(r) \/ ValidateExpired(r) \/ ValidateRejected(r) \/ RequestFails(r)
  BY <1>1, <1>7 DEF CreateRejected, ValidateExpired, ValidateRejected, RequestFails
<1> QED BY <1>2, <1>3, <1>4, <1>5, <1>6, <1>7 DEF Step, AddKey

\* Active rows are revoked, or one of them expires.
Retires ==
    \E S \in SUBSET Keys, st \in {"revoked", "expired"} :
      /\ \A k \in S : rows[k] # NoRow /\ rows[k].status = "active"
      /\ st = "expired" => \E k \in Keys : S = {k}
      /\ SetStatus(S, st)

LEMMA Statements ==
    ASSUME IndInv, Next
    PROVE  \/ \E r \in Requests : \/ CreateAPIKey(r) \/ AddKey(r)
                                  \/ req[r].pc = "insert" /\ RequestFails(r)
           \/ DeleteExpiredEphemeral
           \/ /\ minted' = minted /\ \A k \in Keys : Pending(k)' <=> Pending(k)
              /\ rows' = rows \/ Retires
<1>1. ASSUME NEW r \in Requests, Step(r), ~CreateAPIKey(r), ~AddKey(r), req[r].pc # "insert"
      PROVE  /\ minted' = minted /\ \A k \in Keys : Pending(k)' <=> Pending(k)
             /\ rows' = rows \/ Retires
  <2>1. \A k \in Keys : Pending(k)' <=> Pending(k)
    BY <1>1, PendingSameStep
  <2>2. minted' = minted
    BY <1>1 DEF Step, CreateRejected, GetByHash, ValidateExpired, ValidateRejected,
                ValidateAccepted, RevokeAPIKey, Revoke, RevokeReread, RequestFails
  <2>3. rows' = rows \/ Retires
    <3> DEFINE S == {req[r].key} \cap ActiveIn(req[r].row.tenant)
    <3>1. /\ S \in SUBSET Keys /\ \A k \in S : rows[k] # NoRow /\ rows[k].status = "active"
          /\ S = {} \/ \E k \in Keys : S = {k}
      BY DEF ActiveIn, Visible
    <3>2. \/ rows' = rows \/ SetStatus(S, "expired") \/ SetStatus(S, "revoked")
      BY <1>1 DEF Step, CreateRejected, GetByHash, ValidateExpired, ValidateRejected,
                  ValidateAccepted, RevokeAPIKey, Revoke, RevokeReread, RequestFails
    <3> HIDE DEF S
    <3>3. CASE S = {} /\ SetStatus(S, "expired")
      <4>1. rows' = [k \in Keys |-> rows[k]]
        BY <3>3 DEF SetStatus
      <4> QED BY <4>1 DEF IndInv, TypeOK
    <3>4. CASE S # {} /\ SetStatus(S, "expired")
      BY <3>1, <3>4 DEF Retires
    <3>5. CASE SetStatus(S, "revoked")
      BY <3>1, <3>5 DEF Retires
    <3> QED BY <3>2, <3>3, <3>4, <3>5
  <2> QED BY <2>1, <2>2, <2>3
<1>2. ASSUME NEW r \in Requests, Step(r), req[r].pc = "insert"
      PROVE  AddKey(r) \/ RequestFails(r)
  BY <1>2 DEF Step, CreateAPIKey, CreateRejected, GetByHash, ValidateExpired, ValidateRejected,
              ValidateAccepted, RevokeAPIKey, Revoke, RevokeReread, Idle
<1>3. CASE BulkRevokeAPIKeys
  <2>1. minted' = minted /\ req' = req
    BY <1>3 DEF BulkRevokeAPIKeys
  <2>2. PICK t \in Tenants, scope \in Scopes : SetStatus(bulkRevokeWhere(t, scope), "revoked")
    BY <1>3 DEF BulkRevokeAPIKeys
  <2> DEFINE S == bulkRevokeWhere(t, scope)
  <2>3. S \in SUBSET Keys /\ \A k \in S : rows[k] # NoRow /\ rows[k].status = "active"
    BY DEF bulkRevokeWhere, ActiveIn, Visible
  <2> HIDE DEF S
  <2>4. Retires
    BY <2>2, <2>3 DEF Retires, S
  <2> QED BY <2>1, <2>4 DEF Pending
<1>4. CASE RevokeTenantAPIKeys
  <2>1. minted' = minted /\ req' = req
    BY <1>4 DEF RevokeTenantAPIKeys
  <2>2. PICK t \in Tenants : SetStatus(ActiveIn(t), "revoked")
    BY <1>4 DEF RevokeTenantAPIKeys
  <2> DEFINE S == ActiveIn(t)
  <2>3. S \in SUBSET Keys /\ \A k \in S : rows[k] # NoRow /\ rows[k].status = "active"
    BY DEF ActiveIn, Visible
  <2> HIDE DEF S
  <2>4. Retires
    BY <2>2, <2>3 DEF Retires, S
  <2> QED BY <2>1, <2>4 DEF Pending
<1>5. CASE GetAPIKey \/ SearchAPIKeys \/ Tick
  BY <1>5 DEF GetAPIKey, SearchAPIKeys, Tick, Pending
<1> QED BY <1>1, <1>2, <1>3, <1>4, <1>5 DEF Next

LEMMA StageMoves ==
    ASSUME NEW S \in SUBSET Keys, NEW from, NEW to,
           \A k \in S : Stage(k) \in from /\ Stage(k)' = to,
           \A k \in Keys \ S : Stage(k)' = Stage(k)
    PROVE  Lifecycle!Move(S, from, to)
<1> DEFINE life == [k \in Keys |-> Stage(k)]
<1>1. \A k \in Keys : life[k] = Stage(k)
  OBVIOUS
<1>2. [k \in Keys |-> Stage(k)'] = [k \in Keys |-> IF k \in S THEN to ELSE life[k]]
  BY <1>1
<1> HIDE DEF life
<1>3. \A k \in S : life[k] \in from
  BY <1>1
<1> QED BY <1>2, <1>3 DEF Lifecycle!Move, life

\* A creation that has only begun, or that fails
LEMMA CreationMoves ==
    ASSUME IndInv, NEW r \in Requests,
           CreateAPIKey(r) \/ AddKey(r) \/ (req[r].pc = "insert" /\ RequestFails(r))
    PROVE  (\A k \in Keys : Stage(k)' = Stage(k)) \/ Lifecycle!Next
<1>0. TypeOK /\ OnlyMinted /\ PendingFresh
  BY DEF IndInv
<1>1. CASE CreateAPIKey(r)
  <2>0. PICK k \in Keys \ minted : /\ minted' = minted \cup {k}
                                  /\ \E row : Begin(r, "insert", k, row)
    BY <1>1 DEF CreateAPIKey
  <2>1. PICK row : Begin(r, "insert", k, row)
    BY <2>0
  <2>2. rows' = rows /\ req[r].pc = "idle"
    BY <1>1 DEF CreateAPIKey, Idle
  <2> DEFINE x == [NoRequest EXCEPT !.pc = "insert", !.key = k, !.row = row]
  <2>3. x.pc = "insert" /\ x.key = k /\ req' = [req EXCEPT ![r] = x]
    BY <2>1 DEF Begin, NoRequest
  <2> HIDE DEF x
  <2>4. Pending(k)' /\ \A n \in Keys \ {k} : Pending(n)' <=> Pending(n)
    BY <1>0, <2>2, <2>3 DEF Pending, TypeOK
  <2>5. rows[k] = NoRow
    BY <1>0 DEF OnlyMinted
  <2> QED BY <2>0, <2>2, <2>4, <2>5 DEF Stage
<1>2. CASE req[r].pc = "insert" /\ (AddKey(r) \/ RequestFails(r))
  <2>1. PICK k \in Keys : k = req[r].key
    BY <1>0, <1>2 DEF PendingFresh, TypeOK
  <2>2. minted' = minted
    BY <1>2 DEF AddKey, RequestFails
  <2>3. PICK a : Reply(r, a)
    BY <1>2 DEF AddKey, RequestFails
  <2> DEFINE x == [NoRequest EXCEPT !.resp = a]
  <2>4. x.pc # "insert" /\ req' = [req EXCEPT ![r] = x]
    BY <2>3 DEF Reply, NoRequest
  <2> HIDE DEF x
  <2>5. ~Pending(k)' /\ \A n \in Keys \ {k} : Pending(n)' <=> Pending(n)
    BY <1>0, <1>2, <2>1, <2>4 DEF Pending, PendingFresh, TypeOK
  <2>6. k \in minted /\ rows[k] = NoRow /\ Pending(k)
    BY <1>0, <1>2, <2>1 DEF PendingFresh, Pending
  <2>7. Stage(k) = "unborn"
    BY <2>6 DEF Stage
  <2>8. CASE AddKey(r)
    <3>1. rows' = [rows EXCEPT ![k] = req[r].row] /\ req[r].row # NoRow
          /\ req[r].row.status = "active"
      BY <1>0, <1>2, <2>1, <2>8 DEF AddKey, PendingFresh
    <3>2. Stage(k)' = "active"
      BY <1>0, <3>1 DEF Stage, TypeOK
    <3>3. \A n \in Keys \ {k} : Stage(n)' = Stage(n)
      BY <1>0, <2>2, <2>5, <3>1 DEF Stage, TypeOK
    <3>4. Lifecycle!Move({k}, {"unborn"}, "active")
      BY <2>7, <3>2, <3>3, StageMoves
    <3> QED BY <3>4 DEF Lifecycle!Next, Lifecycle!Store
  <2>9. CASE RequestFails(r)
    <3>1. rows' = rows
      BY <2>9 DEF RequestFails
    <3>2. Stage(k)' = "gone"
      BY <2>2, <2>5, <2>6, <3>1 DEF Stage
    <3>3. \A n \in Keys \ {k} : Stage(n)' = Stage(n)
      BY <2>2, <2>5, <3>1 DEF Stage
    <3>4. Stage(k) \in Lifecycle!Stages \ {"gone"}
      BY <2>7 DEF Lifecycle!Stages
    <3>5. Lifecycle!Move({k}, Lifecycle!Stages \ {"gone"}, "gone")
      BY <3>2, <3>3, <3>4, StageMoves
    <3> QED BY <3>5 DEF Lifecycle!Next, Lifecycle!Purge
  <2> QED BY <1>2, <2>8, <2>9
<1> QED BY <1>1, <1>2 DEF AddKey

LEMMA CleanupMoves == ASSUME IndInv, DeleteExpiredEphemeral PROVE Lifecycle!Next
<1>0. TypeOK /\ OnlyMinted /\ PendingFresh
  BY DEF IndInv
<1>1. minted' = minted /\ req' = req /\ \A k \in Keys : rows'[k] = NoRow \/ rows'[k] = rows[k]
  BY DEF DeleteExpiredEphemeral
<1>2. \A k \in Keys : Pending(k)' <=> Pending(k)
  BY <1>1 DEF Pending
<1> DEFINE S == {k \in Keys : rows[k] # NoRow /\ rows'[k] = NoRow}
<1>3. ASSUME NEW k \in S PROVE Stage(k) \in Lifecycle!Stages \ {"gone"} /\ Stage(k)' = "gone"
  <2>1. rows[k] \in Row /\ k \in minted /\ ~Pending(k)
    BY <1>0 DEF TypeOK, OnlyMinted, PendingFresh, Pending
  <2>2. rows[k].status \in Status
    BY <2>1 DEF Row
  <2> QED BY <1>1, <1>2, <2>1, <2>2 DEF Stage, Lifecycle!Stages
<1>4. \A k \in Keys \ S : Stage(k)' = Stage(k)
  BY <1>1, <1>2 DEF Stage
<1>5. S \in SUBSET Keys
  OBVIOUS
<1> HIDE DEF S
<1>6. Lifecycle!Move(S, Lifecycle!Stages \ {"gone"}, "gone")
  BY <1>3, <1>4, <1>5, StageMoves
<1> QED BY <1>5, <1>6 DEF Lifecycle!Next, Lifecycle!Purge

LEMMA RetirementMoves ==
    ASSUME IndInv, Retires, minted' = minted, \A k \in Keys : Pending(k)' <=> Pending(k)
    PROVE  Lifecycle!Next
<1>1. PICK S \in SUBSET Keys, st \in {"revoked", "expired"} :
        /\ \A k \in S : rows[k] # NoRow /\ rows[k].status = "active"
        /\ st = "expired" => \E k \in Keys : S = {k}
        /\ SetStatus(S, st)
  BY DEF Retires
<1>2. \A k \in Keys : /\ rows'[k] = NoRow <=> rows[k] = NoRow
                      /\ k \notin S => rows'[k] = rows[k]
                      /\ k \in S => rows'[k].status = st
  BY <1>1, SetStatusRows DEF IndInv, TypeOK
<1>3. \A k \in S : Stage(k) \in {"active"} /\ Stage(k)' = st
  BY <1>1, <1>2 DEF Stage
<1>4. \A k \in Keys \ S : Stage(k)' = Stage(k)
  BY <1>2 DEF Stage
<1>5. Lifecycle!Move(S, {"active"}, st)
  BY <1>3, <1>4, StageMoves
<1> QED BY <1>1, <1>5 DEF Lifecycle!Next, Lifecycle!Revoke, Lifecycle!Expire

\* Every statement of every request is a step in the life of the keys it concerns, or
\* none: "API keys follow a one-way state transition".
THEOREM KeysLiveOnce == Spec => ImplementsLifecycle
<1> DEFINE life == [k \in Keys |-> Stage(k)]
<1>1. Init => Lifecycle!Init
  <2> SUFFICES ASSUME Init PROVE life \in [Keys -> {"unborn", "active"}]
    BY DEF Lifecycle!Init
  <2>1. ASSUME NEW k \in Keys PROVE Stage(k) \in {"unborn", "active"}
    <3>1. rows[k] # NoRow => rows[k].status = "active"
      BY DEF Init, LegacyRow
    <3>2. rows[k] = NoRow => k \notin minted
      BY DEF Init
    <3> QED BY <3>1, <3>2 DEF Stage
  <2> QED BY <2>1
<1>2. IndInv /\ [Next]_vars => [Lifecycle!Next]_life
  <2> SUFFICES ASSUME IndInv, [Next]_vars PROVE Lifecycle!Next \/ life' = life
    OBVIOUS
  <2>1. (\A k \in Keys : Stage(k)' = Stage(k)) => life' = life
    OBVIOUS
  <2>2. CASE UNCHANGED vars
    <3>1. \A k \in Keys : Pending(k)' <=> Pending(k)
      BY <2>2 DEF vars, Pending
    <3> QED BY <2>1, <2>2, <3>1 DEF vars, Stage
  <2>3. CASE minted' = minted /\ (\A k \in Keys : Pending(k)' <=> Pending(k)) /\ rows' = rows
    BY <2>1, <2>3 DEF Stage
  <2>4. CASE Next
    BY <2>1, <2>3, <2>4, Statements, CreationMoves, CleanupMoves, RetirementMoves
  <2> QED BY <2>2, <2>4
<1> QED BY <1>1, <1>2, Invariance, PTL DEF Spec, ImplementsLifecycle, Lifecycle!Spec

-----------------------------------------------------------------------------
(* What a caller was told stays true                                       *)

\* No request can make k active again, and no clock that goes on can either.
Retired(k) ==
    /\ k \in minted /\ ~Pending(k)
    /\ rows[k] # NoRow => rows[k].status # "active" \/ Past(rows[k], dbNow)

Told == \A k \in Keys : reported[k] \in {"revoked", "expired"} => Retired(k)

LEMMA Effective ==
    ASSUME NEW row \in Row
    PROVE  EffectiveStatus(row) # "active" <=> row.status # "active" \/ Past(row, dbNow)
BY DEF EffectiveStatus, Row

\* A creation concerns a key that has no row and is not retired, and no other.
LEMMA CreationConcerns ==
    ASSUME IndInv, NEW r \in Requests,
           CreateAPIKey(r) \/ AddKey(r) \/ (req[r].pc = "insert" /\ RequestFails(r))
    PROVE  \E k \in Keys :
             /\ ~Retired(k) /\ minted \subseteq minted' /\ dbNow' = dbNow
             /\ \A n \in Keys \ {k} : rows'[n] = rows[n] /\ (Pending(n)' <=> Pending(n))
<1>0. TypeOK /\ OnlyMinted /\ PendingFresh
  BY DEF IndInv
<1>1. CASE CreateAPIKey(r)
  <2>0. PICK k \in Keys \ minted : /\ minted' = minted \cup {k}
                                  /\ \E row : Begin(r, "insert", k, row)
    BY <1>1 DEF CreateAPIKey
  <2>1. PICK row : Begin(r, "insert", k, row)
    BY <2>0
  <2>2. rows' = rows /\ dbNow' = dbNow /\ req[r].pc = "idle"
    BY <1>1 DEF CreateAPIKey, Idle
  <2> DEFINE x == [NoRequest EXCEPT !.pc = "insert", !.key = k, !.row = row]
  <2>3. x.pc = "insert" /\ x.key = k /\ req' = [req EXCEPT ![r] = x]
    BY <2>1 DEF Begin, NoRequest
  <2> HIDE DEF x
  <2>4. \A n \in Keys \ {k} : Pending(n)' <=> Pending(n)
    BY <1>0, <2>2, <2>3 DEF Pending, TypeOK
  <2> QED BY <2>0, <2>2, <2>4 DEF Retired
<1>2. CASE req[r].pc = "insert" /\ (AddKey(r) \/ RequestFails(r))
  <2>1. PICK k \in Keys : k = req[r].key
    BY <1>0, <1>2 DEF PendingFresh, TypeOK
  <2>2. minted' = minted /\ dbNow' = dbNow
    BY <1>2 DEF AddKey, RequestFails
  <2>3. PICK a : Reply(r, a)
    BY <1>2 DEF AddKey, RequestFails
  <2> DEFINE x == [NoRequest EXCEPT !.resp = a]
  <2>4. x.pc # "insert" /\ req' = [req EXCEPT ![r] = x]
    BY <2>3 DEF Reply, NoRequest
  <2> HIDE DEF x
  <2>5. \A n \in Keys \ {k} : Pending(n)' <=> Pending(n)
    BY <1>0, <1>2, <2>1, <2>4 DEF Pending, PendingFresh, TypeOK
  <2>6. Pending(k)
    BY <1>2, <2>1 DEF Pending
  <2>7. \A n \in Keys \ {k} : rows'[n] = rows[n]
    BY <1>0, <1>2, <2>1 DEF AddKey, RequestFails, TypeOK
  <2> QED BY <2>2, <2>5, <2>6, <2>7 DEF Retired
<1> QED BY <1>1, <1>2 DEF AddKey

LEMMA RetiredKept ==
    ASSUME IndInv, [Next]_vars, NEW k \in Keys, Retired(k)
    PROVE  Retired(k)'
<1>0. TypeOK
  BY DEF IndInv
<1>1. dbNow \in Nat /\ (dbNow' = dbNow \/ dbNow' = dbNow + 1)
  <2>1. CASE \E r \in Requests : Step(r)
    BY <1>0, <2>1 DEF Step, CreateAPIKey, CreateRejected, AddKey, GetByHash, ValidateExpired,
       ValidateRejected, ValidateAccepted, RevokeAPIKey, Revoke, RevokeReread, RequestFails,
       TypeOK
  <2> QED BY <1>0, <2>1 DEF Next, GetAPIKey, SearchAPIKeys, BulkRevokeAPIKeys,
       RevokeTenantAPIKeys, DeleteExpiredEphemeral, Tick, vars, TypeOK
<1>2. rows[k] # NoRow => rows[k] \in Row /\ rows[k].exp \in Nat
  BY <1>0 DEF TypeOK, Row
<1>3. ASSUME rows'[k] = rows[k], k \in minted', ~Pending(k)' PROVE Retired(k)'
  BY <1>1, <1>2, <1>3 DEF Retired, Past
<1>4. CASE \E r \in Requests : \/ CreateAPIKey(r) \/ AddKey(r)
                               \/ req[r].pc = "insert" /\ RequestFails(r)
  <2>1. PICK n \in Keys :
          /\ ~Retired(n) /\ minted \subseteq minted'
          /\ \A p \in Keys \ {n} : rows'[p] = rows[p] /\ (Pending(p)' <=> Pending(p))
    BY <1>4, CreationConcerns
  <2>2. k # n
    BY <2>1
  <2>3. k \in minted /\ ~Pending(k)
    BY DEF Retired
  <2> QED BY <1>3, <2>1, <2>2, <2>3
<1>5. CASE DeleteExpiredEphemeral
  <2>1. minted' = minted /\ req' = req /\ (rows'[k] = NoRow \/ rows'[k] = rows[k])
    BY <1>5 DEF DeleteExpiredEphemeral
  <2> QED BY <1>3, <2>1 DEF Retired, Pending
<1>6. CASE /\ minted' = minted /\ \A n \in Keys : Pending(n)' <=> Pending(n)
           /\ rows' = rows \/ Retires
  <2>1. CASE rows' = rows
    BY <1>3, <1>6, <2>1 DEF Retired
  <2>2. CASE Retires
    <3>1. PICK S \in SUBSET Keys, st \in {"revoked", "expired"} :
            (\A n \in S : rows[n] # NoRow) /\ SetStatus(S, st)
      BY <2>2 DEF Retires
    <3>2. k \notin S => rows'[k] = rows[k]
      BY <1>0, <3>1, SetStatusRows DEF TypeOK
    <3>3. k \in S => rows'[k].status = st
      BY <1>0, <3>1, SetStatusRows DEF TypeOK
    <3> QED BY <1>3, <1>6, <3>2, <3>3 DEF Retired
  <2> QED BY <1>6, <2>1, <2>2
<1>7. CASE UNCHANGED vars
  BY <1>7 DEF vars, Retired, Pending, Past
<1> QED BY <1>4, <1>5, <1>6, <1>7, Statements

\* What a caller is told is the effective status of a row.
LEMMA Tells ==
    ASSUME IndInv, [Next]_vars, NEW k \in Keys
    PROVE  \/ reported'[k] = reported[k]
           \/ rows[k] # NoRow /\ reported'[k] = EffectiveStatus(rows[k])
<1>0. TypeOK
  BY DEF IndInv
<1>1. CASE GetAPIKey
  BY <1>0, <1>1 DEF GetAPIKey, Visible, TypeOK
<1>2. CASE SearchAPIKeys
  BY <1>0, <1>2 DEF SearchAPIKeys, Visible, TypeOK
<1>3. ASSUME NEW r \in Requests, RevokeReread(r)
      PROVE  \/ reported'[k] = reported[k]
             \/ rows[k] # NoRow /\ reported'[k] = EffectiveStatus(rows[k])
  BY <1>0, <1>3 DEF RevokeReread, Visible, TypeOK
<1>4. CASE reported' = reported
  BY <1>4
<1>5. ASSUME NEW r \in Requests, Step(r), ~RevokeReread(r) PROVE reported' = reported
  BY <1>5 DEF Step, CreateAPIKey, CreateRejected, AddKey, GetByHash, ValidateExpired,
     ValidateRejected, ValidateAccepted, RevokeAPIKey, Revoke, RequestFails, history
<1>6. CASE BulkRevokeAPIKeys \/ RevokeTenantAPIKeys \/ DeleteExpiredEphemeral \/ Tick
           \/ UNCHANGED vars
  BY <1>6 DEF BulkRevokeAPIKeys, RevokeTenantAPIKeys, DeleteExpiredEphemeral, Tick, vars,
     history
<1> QED BY <1>1, <1>2, <1>3, <1>4, <1>5, <1>6 DEF Next

\* For any number of callers, requests and keys, nobody is told that a key is active who
\* was told that it is not: what retired it, a statement or the clock, is not undone.
THEOREM ToldForGood == Spec => NeverReportedActiveAgain
<1> DEFINE A == \A k \in Keys : reported[k] \in {"revoked", "expired"} => reported'[k] # "active"
<1>1. Init => Told
  BY DEF Init, Told
<1>2. ASSUME IndInv, NEW k \in Keys, rows[k] # NoRow
      PROVE  /\ EffectiveStatus(rows[k]) # "active" <=>
                  rows[k].status # "active" \/ Past(rows[k], dbNow)
             /\ k \in minted /\ ~Pending(k)
  <2>1. rows[k] \in Row
    BY <1>2 DEF IndInv, TypeOK
  <2>2. k \in minted /\ ~Pending(k)
    BY <1>2 DEF IndInv, OnlyMinted, PendingFresh, Pending
  <2> QED BY <2>1, <2>2, Effective
<1>3. IndInv /\ Told /\ [Next]_vars => Told' /\ [A]_vars
  <2> SUFFICES ASSUME IndInv, Told, [Next]_vars, NEW k \in Keys
               PROVE  /\ reported'[k] \in {"revoked", "expired"} => Retired(k)'
                      /\ reported[k] \in {"revoked", "expired"} => reported'[k] # "active"
    BY DEF Told, Retired, Pending, Past
  <2>1. reported[k] \in {"revoked", "expired"} => Retired(k)
    BY DEF Told
  <2>2. CASE reported'[k] = reported[k]
    BY <2>1, <2>2, RetiredKept
  <2>3. CASE rows[k] # NoRow /\ reported'[k] = EffectiveStatus(rows[k])
    <3>1. EffectiveStatus(rows[k]) # "active" <=> Retired(k)
      BY <1>2, <2>3 DEF Retired
    <3> QED BY <2>1, <2>3, <3>1, RetiredKept
  <2> QED BY <2>2, <2>3, Tells
<1>4. Spec => [][A]_vars
  BY <1>1, <1>3, Invariance, PTL DEF Spec
<1> QED BY <1>4 DEF NeverReportedActiveAgain
=============================================================================
