--------------------------- MODULE MaasApiProofs ---------------------------
(***************************************************************************)
(* What maas-api decides on the way of a request, for every value of the   *)
(* constants: whether the caller is an administrator (the theorems of      *)
(* AdminCache), whether the last use of the key is written (LastUsed) and  *)
(* which subscription pays (Selection).  The three have no state in common *)
(* and no theorem is about two of them.                                    *)
(***************************************************************************)
EXTENDS AdminCache, LastUsed, Selection, FiniteSetTheorems, TLAPS

-----------------------------------------------------------------------------
(* The administrator check.                                                *)

USE AdminCacheConstants DEF Time

\* Nothing is dated in the future.
InThePast ==
    /\ \A u \in Users : changedAt[u] <= now
    /\ answer.begun <= now
    /\ \A c \in Calls : call[c].begun <= now

\* A verdict under way is not older than MaxLatency, and true unless the bindings
\* changed since the review.
Heard(x) ==
    /\ x.pc # "idle" => x.user \in Users
    /\ x.pc = "store" => /\ x.begun <= x.heard /\ x.heard <= now
                         /\ now <= x.heard + MaxLatency
                         /\ x.verdict = admin[x.user] \/ x.heard <= changedAt[x.user]

\* A cached verdict that is no longer true expires in time.
Aged(u, e) ==
    e # NoEntry =>
      /\ e.expiresAt <= now + Lifetime(e.isAdmin)
      /\ \/ e.isAdmin = admin[u]
         \/ e.expiresAt <= changedAt[u] + Lifetime(e.isAdmin) + MaxLatency

Cached(entries) == {u \in Users : entries[u] # NoEntry}

IndInv ==
    /\ TypeOK
    /\ InThePast
    /\ \A c \in Calls : Heard(call[c])
    /\ \A u \in Users : Aged(u, cache[u])
    /\ VerdictLag
    /\ IsFiniteSet(Cached(cache)) /\ CacheBounded

-----------------------------------------------------------------------------

LEMMA LifetimeType == \A b \in BOOLEAN : Lifetime(b) \in Nat
BY DEF Lifetime

LEMMA IdleType ==
    /\ Idle \in [pc : {"idle", "lookup", "review", "store"}, user : Users \cup {NoUser},
                 begun : Time, verdict : BOOLEAN, heard : Time]
    /\ Idle.pc = "idle" /\ Idle.begun = 0
BY DEF Idle

LEMMA InitInv == Init => IndInv
<1> SUFFICES ASSUME Init PROVE IndInv
  OBVIOUS
<1>1. TypeOK
  BY IdleType DEF Init, TypeOK
<1>2. InThePast /\ \A c \in Calls : Heard(call[c])
  BY IdleType DEF Init, InThePast, Heard
<1>3. (\A u \in Users : Aged(u, cache[u])) /\ VerdictLag
  BY DEF Init, Aged, VerdictLag
<1>4. Cached(cache) = {}
  BY DEF Init, Cached
<1>5. IsFiniteSet(Cached(cache)) /\ CacheBounded
  BY <1>4, FS_EmptySet DEF CacheBounded, Size, Cached
<1> QED BY <1>1, <1>2, <1>3, <1>5 DEF IndInv

\* A step of one call that leaves clock, bindings, cache and answer alone.
LEMMA CallStep ==
    ASSUME IndInv, NEW c \in Calls,
           NEW x \in [pc : {"idle", "lookup", "review", "store"},
                      user : Users \cup {NoUser}, begun : Time, verdict : BOOLEAN,
                      heard : Time],
           call' = [call EXCEPT ![c] = x], x.begun <= now, Heard(x),
           UNCHANGED <<now, admin, changedAt, cache>>,
           answer' = answer \/ (answer' \in [user : Users \cup {NoUser}, isAdmin : BOOLEAN,
                                             begun : Time]
                                /\ answer'.begun <= now /\ VerdictLag')
    PROVE  IndInv'
<1> USE DEF IndInv
<1>1. TypeOK'
  BY DEF TypeOK
<1>2. InThePast'
  BY DEF InThePast, TypeOK
<1>3. \A d \in Calls : Heard(call[d])'
  BY DEF Heard, TypeOK
<1>4. \A u \in Users : Aged(u, cache[u])'
  BY DEF Aged
<1>5. VerdictLag'
  BY DEF VerdictLag
<1>6. IsFiniteSet(Cached(cache))' /\ CacheBounded'
  BY DEF Cached, CacheBounded, Size
<1> QED BY <1>1, <1>2, <1>3, <1>4, <1>5, <1>6

LEMMA BeginInv ==
    ASSUME IndInv, NEW c \in Calls, NEW u \in Users, Begin(c, u) PROVE IndInv'
<1> DEFINE x == [Idle EXCEPT !.pc = "lookup", !.user = u, !.begun = now]
<1>1. /\ x \in [pc : {"idle", "lookup", "review", "store"}, user : Users \cup {NoUser},
                begun : Time, verdict : BOOLEAN, heard : Time]
      /\ x.pc = "lookup" /\ x.user = u /\ x.begun = now
  <2>1. now \in Time
    BY DEF IndInv, TypeOK
  <2> QED BY <2>1, IdleType
<1>2. Heard(x) /\ x.begun <= now
  BY <1>1 DEF Heard, IndInv, TypeOK
<1>3. call' = [call EXCEPT ![c] = x] /\ UNCHANGED <<now, admin, changedAt, cache, answer>>
  BY DEF Begin
<1> HIDE DEF x
<1> QED BY <1>1, <1>2, <1>3, CallStep

LEMMA LookupInv ==
    ASSUME IndInv, NEW c \in Calls, Lookup(c) PROVE IndInv'
<1> USE DEF IndInv
<1> DEFINE u == call[c].user
           e == cache[u]
<1>1. /\ call[c] \in [pc : {"idle", "lookup", "review", "store"},
                      user : Users \cup {NoUser}, begun : Time, verdict : BOOLEAN,
                      heard : Time]
      /\ call[c].pc = "lookup" /\ u \in Users /\ call[c].begun <= now
  BY DEF Lookup, TypeOK, Heard, InThePast
<1>2. CASE Live(e, call[c].begun) /\ Return(c, e.isAdmin)
  <2>1. e # NoEntry /\ e.isAdmin \in BOOLEAN /\ e.expiresAt \in Nat
        /\ call[c].begun < e.expiresAt
    BY <1>1, <1>2 DEF Live, TypeOK
  <2>2. /\ answer' = [user |-> u, isAdmin |-> e.isAdmin, begun |-> call[c].begun]
        /\ call' = [call EXCEPT ![c] = Idle]
    BY <1>2 DEF Return
  <2>3. VerdictLag'
    BY <1>1, <2>1, <2>2 DEF VerdictLag, Lookup, Aged, Lifetime, TypeOK
  <2>4. Heard(Idle) /\ Idle.begun <= now
    BY IdleType DEF Heard, TypeOK
  <2> QED BY <1>1, <2>1, <2>2, <2>3, <2>4, IdleType, CallStep DEF Lookup
<1>3. CASE call' = [call EXCEPT ![c].pc = "review"] /\ UNCHANGED answer
  <2> DEFINE x == [call[c] EXCEPT !.pc = "review"]
  <2>1. /\ x \in [pc : {"idle", "lookup", "review", "store"}, user : Users \cup {NoUser},
                  begun : Time, verdict : BOOLEAN, heard : Time]
        /\ x.pc = "review" /\ x.user = u /\ x.begun = call[c].begun
    BY <1>1
  <2>2. Heard(x)
    BY <1>1, <2>1 DEF Heard
  <2> QED BY <1>1, <1>3, <2>1, <2>2, CallStep DEF Lookup
<1> QED BY <1>2, <1>3 DEF Lookup

LEMMA ReviewInv ==
    ASSUME IndInv, NEW c \in Calls, Review(c) PROVE IndInv'
<1> USE DEF IndInv
<1> DEFINE x == [call[c] EXCEPT !.pc = "store", !.heard = now,
                                !.verdict = admin[call[c].user]]
<1>1. /\ call[c] \in [pc : {"idle", "lookup", "review", "store"},
                      user : Users \cup {NoUser}, begun : Time, verdict : BOOLEAN,
                      heard : Time]
      /\ call[c].pc = "review" /\ call[c].user \in Users /\ call[c].begun <= now
  BY DEF Review, TypeOK, Heard, InThePast
<1>2. /\ x \in [pc : {"idle", "lookup", "review", "store"}, user : Users \cup {NoUser},
                begun : Time, verdict : BOOLEAN, heard : Time]
      /\ x.user = call[c].user /\ x.begun = call[c].begun /\ x.heard = now
      /\ x.verdict = admin[x.user]
  BY <1>1 DEF TypeOK
<1>3. Heard(x)
  BY <1>1, <1>2 DEF Heard, TypeOK
<1>4. call' = [call EXCEPT ![c] = x] /\ UNCHANGED <<now, admin, changedAt, cache, answer>>
  BY DEF Review, TypeOK
<1> HIDE DEF x
<1> QED BY <1>1, <1>2, <1>3, <1>4, CallStep

LEMMA FailInv ==
    ASSUME IndInv, NEW c \in Calls, Fail(c) PROVE IndInv'
<1>1. Heard(Idle) /\ Idle.begun <= now
  BY IdleType DEF Heard, IndInv, TypeOK
<1> QED BY <1>1, IdleType, CallStep DEF Fail

\* What storing makes of the cache: every entry is an old one or the new one, and
\* there are at most MaxSize.
LEMMA StoreCache ==
    ASSUME IndInv, NEW c \in Calls, Store(c)
    PROVE  /\ \A v \in Users :
                \/ cache'[v] \in {NoEntry, cache[v]}
                \/ /\ v = call[c].user
                   /\ cache'[v] = [isAdmin |-> call[c].verdict,
                                   expiresAt |-> now + Lifetime(call[c].verdict)]
           /\ cache' \in [Users -> [isAdmin : BOOLEAN, expiresAt : Nat] \cup {NoEntry}]
           /\ IsFiniteSet(Cached(cache)') /\ CacheBounded'
<1> USE DEF IndInv
<1> DEFINE u == call[c].user
           kept == evictExpiredLocked(cache)
           entry == [isAdmin |-> call[c].verdict,
                     expiresAt |-> now + Lifetime(call[c].verdict)]
<1>1. u \in Users /\ call[c].verdict \in BOOLEAN /\ now \in Nat
  BY DEF Store, TypeOK, Heard
<1>2. entry \in [isAdmin : BOOLEAN, expiresAt : Nat]
  BY <1>1, LifetimeType
<1>3. /\ kept \in [Users -> [isAdmin : BOOLEAN, expiresAt : Nat] \cup {NoEntry}]
      /\ \A v \in Users : kept[v] \in {NoEntry, cache[v]}
  BY DEF evictExpiredLocked, TypeOK
<1>4. IsFiniteSet(Cached(kept)) /\ Cardinality(Cached(kept)) <= Cardinality(Cached(cache))
  <2>1. Cached(kept) \in SUBSET Cached(cache)
    BY <1>3 DEF Cached
  <2> QED BY <2>1, FS_Subset
<1>5. Cardinality(Cached(cache)) <= MaxSize
  BY DEF CacheBounded, Size, Cached
<1>6. cache' = IF HasRoom(kept) THEN [kept EXCEPT ![u] = entry] ELSE kept
  BY DEF Store
<1>7. Cardinality(Cached(kept)) \in Nat /\ Cardinality(Cached(cache)) \in Nat
  BY <1>4, FS_CardinalityType
<1> HIDE DEF kept, entry, u
<1>8. CASE HasRoom(kept)
  <2>1. cache' = [kept EXCEPT ![u] = entry]
    BY <1>6, <1>8
  <2>2. Cardinality(Cached(kept)) < MaxSize
    BY <1>8 DEF HasRoom, Size, Cached
  <2>3. Cached(cache)' \in SUBSET (Cached(kept) \cup {u})
    BY <1>3, <2>1 DEF Cached
  <2>4. /\ IsFiniteSet(Cached(kept) \cup {u})
        /\ Cardinality(Cached(kept) \cup {u}) <= Cardinality(Cached(kept)) + 1
    <3> DEFINE K == Cached(kept)
    <3>1. IsFiniteSet(K) /\ Cardinality(K) \in Nat
      BY <1>4, <1>7
    <3> HIDE DEF K
    <3>2. /\ IsFiniteSet(K \cup {u})
          /\ Cardinality(K \cup {u}) = IF u \in K THEN Cardinality(K) ELSE Cardinality(K) + 1
      BY <3>1, FS_AddElement
    <3>3. Cardinality(K \cup {u}) <= Cardinality(K) + 1
      BY <3>1, <3>2
    <3> QED BY <3>2, <3>3 DEF K
  <2>5. /\ IsFiniteSet(Cached(cache)')
        /\ Cardinality(Cached(cache)') <= Cardinality(Cached(kept) \cup {u})
    BY <2>3, <2>4, FS_Subset
  <2>6. Cardinality(Cached(cache)') <= MaxSize
    <3>1. /\ Cardinality(Cached(cache)') \in Nat
          /\ Cardinality(Cached(kept) \cup {u}) \in Nat
      BY <2>4, <2>5, FS_CardinalityType
    <3> QED BY <1>7, <2>2, <2>4, <2>5, <3>1
  <2>7. CacheBounded'
    BY <2>6 DEF CacheBounded, Size, Cached
  <2>8. \A v \in Users : cache'[v] \in {NoEntry, cache[v]} \/ (v = u /\ cache'[v] = entry)
    BY <1>3, <2>1
  <2>9. cache' \in [Users -> [isAdmin : BOOLEAN, expiresAt : Nat] \cup {NoEntry}]
    BY <1>1, <1>2, <1>3, <2>1
  <2> QED BY <2>5, <2>7, <2>8, <2>9 DEF u, entry
<1>9. CASE ~HasRoom(kept)
  <2>1. cache' = kept /\ Cached(cache)' = Cached(kept)
    BY <1>6, <1>9 DEF Cached
  <2>2. IsFiniteSet(Cached(cache)') /\ Cardinality(Cached(cache)') <= MaxSize
    BY <1>4, <1>5, <1>7, <2>1
  <2>3. CacheBounded'
    BY <2>2 DEF CacheBounded, Size, Cached
  <2> QED BY <1>3, <2>1, <2>2, <2>3
<1> QED BY <1>8, <1>9

LEMMA StoreInv ==
    ASSUME IndInv, NEW c \in Calls, Store(c) PROVE IndInv'
<1> USE DEF IndInv
<1> DEFINE x == call[c]
<1>1. /\ UNCHANGED <<now, admin, changedAt>>
      /\ answer' = [user |-> x.user, isAdmin |-> x.verdict, begun |-> x.begun]
      /\ call' = [call EXCEPT ![c] = Idle]
  BY DEF Store, Return
<1>2. /\ x.user \in Users /\ x.verdict \in BOOLEAN /\ x.begun \in Time /\ x.heard \in Time
      /\ x.begun <= x.heard /\ x.heard <= now /\ now <= x.heard + MaxLatency
      /\ x.verdict = admin[x.user] \/ x.heard <= changedAt[x.user]
  BY DEF Store, TypeOK, Heard
<1>3. TypeOK'
  BY <1>1, <1>2, IdleType, StoreCache DEF TypeOK
<1>4. InThePast'
  BY <1>1, <1>2, IdleType DEF InThePast, TypeOK
<1>5. \A d \in Calls : Heard(call[d])'
  BY <1>1, IdleType DEF Heard, TypeOK
<1>6. ASSUME NEW u \in Users PROVE Aged(u, cache[u])'
  <2>1. CASE cache'[u] \in {NoEntry, cache[u]}
    BY <1>1, <2>1 DEF Aged
  <2>2. CASE /\ u = x.user
             /\ cache'[u] = [isAdmin |-> x.verdict, expiresAt |-> now + Lifetime(x.verdict)]
    <3> DEFINE L == Lifetime(x.verdict)
    <3>1. L \in Nat /\ changedAt[u] \in Nat /\ now \in Nat
      BY <1>2, LifetimeType DEF TypeOK
    <3>2. cache'[u].isAdmin = x.verdict /\ cache'[u].expiresAt = now + L
      BY <2>2
    <3> HIDE DEF L
    <3>3. now + L <= now + L /\ (x.verdict = admin[u]
                                 \/ now + L <= changedAt[u] + L + MaxLatency)
      BY <1>2, <2>2, <3>1
    <3> QED BY <1>1, <3>2, <3>3 DEF Aged, L
  <2> QED BY <2>1, <2>2, StoreCache
<1>7. VerdictLag'
  BY <1>1, <1>2 DEF VerdictLag, TypeOK
<1> QED BY <1>3, <1>4, <1>5, <1>6, <1>7, StoreCache

\* The bindings change: what was true is dated now, and what was false becomes true.
LEMMA RebindInv ==
    ASSUME IndInv, NEW u \in Users, Rebind(u) PROVE IndInv'
<1> USE DEF IndInv
<1>1. /\ admin' = [admin EXCEPT ![u] = ~@] /\ changedAt' = [changedAt EXCEPT ![u] = now]
      /\ UNCHANGED <<now, cache, call, answer>>
  BY DEF Rebind
<1>2. TypeOK'
  BY <1>1 DEF TypeOK
<1>3. InThePast'
  BY <1>1 DEF InThePast, TypeOK
<1>4. \A c \in Calls : Heard(call[c])'
  BY <1>1 DEF Heard, TypeOK
<1>5. ASSUME NEW v \in Users, cache[v] # NoEntry PROVE Aged(v, cache[v])'
  <2>1. cache[v].isAdmin \in BOOLEAN /\ cache[v].expiresAt \in Nat /\ now \in Nat
        /\ Lifetime(cache[v].isAdmin) \in Nat
    BY <1>5, LifetimeType DEF TypeOK
  <2>2. CASE v = u
    <3>1. cache[v].expiresAt <= now + Lifetime(cache[v].isAdmin)
      BY <1>5 DEF Aged
    <3>2. changedAt'[v] = now
      BY <1>1, <2>2 DEF TypeOK
    <3> QED BY <1>1, <2>1, <3>1, <3>2 DEF Aged
  <2>3. CASE v # u
    BY <1>1, <1>5, <2>3 DEF Aged, TypeOK
  <2> QED BY <2>2, <2>3
<1>6. \A v \in Users : Aged(v, cache[v])'
  BY <1>1, <1>5 DEF Aged
<1>7. VerdictLag'
  BY <1>1 DEF VerdictLag, InThePast, TypeOK
<1>8. IsFiniteSet(Cached(cache))' /\ CacheBounded'
  BY <1>1 DEF Cached, CacheBounded, Size
<1> QED BY <1>2, <1>3, <1>4, <1>6, <1>7, <1>8

LEMMA TickInv ==
    ASSUME IndInv, Tick PROVE IndInv'
<1> USE DEF IndInv
<1>1. now' = now + 1 /\ now < MaxTime /\ UNCHANGED <<admin, changedAt, cache, call, answer>>
  BY DEF Tick
<1>2. TypeOK'
  BY <1>1 DEF TypeOK
<1>3. InThePast'
  BY <1>1 DEF InThePast, TypeOK
<1>4. ASSUME NEW c \in Calls PROVE Heard(call[c])'
  BY <1>1 DEF Heard, TypeOK, Tick
<1>5. ASSUME NEW u \in Users PROVE Aged(u, cache[u])'
  <2>1. cache[u] # NoEntry => cache[u].expiresAt \in Nat /\ Lifetime(cache[u].isAdmin) \in Nat
    BY LifetimeType DEF TypeOK
  <2> QED BY <1>1, <2>1 DEF Aged, TypeOK
<1>6. VerdictLag'
  BY <1>1 DEF VerdictLag
<1>7. IsFiniteSet(Cached(cache))' /\ CacheBounded'
  BY <1>1 DEF Cached, CacheBounded, Size
<1> QED BY <1>2, <1>3, <1>4, <1>5, <1>6, <1>7

LEMMA NextInv == IndInv /\ [Next]_vars => IndInv'
<1> SUFFICES ASSUME IndInv, [Next]_vars PROVE IndInv'
  OBVIOUS
<1>1. CASE UNCHANGED vars
  BY <1>1 DEF vars, IndInv, TypeOK, InThePast, Heard, Aged, VerdictLag, Cached,
              CacheBounded, Size
<1>2. CASE Next
  BY <1>2, BeginInv, LookupInv, ReviewInv, FailInv, StoreInv, RebindInv, TickInv DEF Next
<1> QED BY <1>1, <1>2

\* IndInv is an invariant of CachedAdminChecker.
THEOREM AdminCacheInvariance == Spec => []IndInv
BY InitInv, NextInv, PTL DEF Spec

\* IsAdmin gives a verdict that is no longer true for at most the lifetime of such a
\* verdict in the cache and the latency of a review after the bindings changed,
\* although reviews answered in one order are stored in another.
THEOREM VerdictsAge == Spec => []VerdictLag
<1>1. IndInv => VerdictLag
  BY DEF IndInv
<1> QED BY AdminCacheInvariance, <1>1, PTL

\* The cache keeps to sarCacheMaxSize, however many calls store at the same time.
THEOREM CacheKeepsLimit == Spec => []CacheBounded
<1>1. IndInv => CacheBounded
  BY DEF IndInv
<1> QED BY AdminCacheInvariance, <1>1, PTL

-----------------------------------------------------------------------------
(* last_used_at.                                                           *)

HIDE AdminCacheConstants DEF Time
USE LastUsedConstants

\* The entry is the reservation of a validation that was told to write and has
\* not withdrawn it; with debouncing off there is no entry.
Backed ==
    /\ slot # NoSlot => /\ pc[slot.by] \in {"write", "written", "clear", "panicked"}
                        /\ slot.at = at[slot.by]
    /\ ttl = 0 => slot = NoSlot /\ \A v \in Validations : pc[v] \notin {"load", "swap"}

\* A validation about to swap found an entry as old as the TTL.
SeenExpired ==
    \A v \in Validations :
      pc[v] = "swap" => seen[v] # NoSlot /\ at[v] - seen[v].at >= ttl

\* The entry is the last reservation that has not failed, unless the sweep has
\* deleted it unseen.
HolderInSlot == holder = slot \/ (slot = NoSlot /\ robbed)

LastUsedInv == DebounceTypeOK /\ Backed /\ SeenExpired /\ HolderInSlot

-----------------------------------------------------------------------------

LEMMA MineType ==
    ASSUME DebounceTypeOK, NEW v \in Validations
    PROVE  Mine(v) \in Slots /\ Mine(v).by = v /\ Mine(v).at = at[v]
BY DEF DebounceTypeOK, Mine, Slots

LEMMA DebounceInitInv == DebounceInit => LastUsedInv
<1> SUFFICES ASSUME DebounceInit PROVE LastUsedInv
  OBVIOUS
<1>1. DebounceTypeOK
  <2>1. /\ ttl \in TTLs /\ robbed \in BOOLEAN
        /\ slot = NoSlot /\ sweep = NoSlot /\ holder = NoSlot
    BY DEF DebounceInit
  <2>2. clock \in 0..MaxClock /\ at \in [Validations -> 0..MaxClock]
    BY DEF DebounceInit
  <2>3. /\ pc \in [Validations -> {"start", "load", "swap", "write", "clear",
                                  "skipped", "written", "failed", "panicked"}]
        /\ seen \in [Validations -> Slots \cup {NoSlot}]
    BY DEF DebounceInit
  <2> QED BY <2>1, <2>2, <2>3 DEF DebounceTypeOK
<1>2. Backed /\ SeenExpired
  BY DEF DebounceInit, Backed, SeenExpired
<1>3. HolderInSlot
  BY DEF DebounceInit, HolderInSlot
<1> QED BY <1>1, <1>2, <1>3 DEF LastUsedInv

\* A reservation: the entry is the validation's own, which is about to write.
LEMMA ReserveInv ==
    ASSUME LastUsedInv, NEW v \in Validations, pc[v] \in {"load", "swap"}, Reserve(v),
           UNCHANGED <<ttl, clock, at, seen, sweep>>
    PROVE  LastUsedInv'
<1> USE DEF LastUsedInv
<1>1. /\ slot' = Mine(v) /\ holder' = Mine(v) /\ robbed' = FALSE
      /\ pc' = [pc EXCEPT ![v] = "write"]
      /\ Mine(v) \in Slots /\ Mine(v).by = v /\ Mine(v).at = at[v]
  BY MineType DEF Reserve, Goto
<1>2. DebounceTypeOK'
  BY <1>1 DEF DebounceTypeOK
<1>3. Backed'
  BY <1>1 DEF Backed, DebounceTypeOK
<1>4. SeenExpired'
  BY <1>1 DEF SeenExpired, DebounceTypeOK
<1>5. HolderInSlot'
  BY <1>1 DEF HolderInSlot
<1> QED BY <1>2, <1>3, <1>4, <1>5

LEMMA ReadClockInv ==
    ASSUME LastUsedInv, NEW v \in Validations, ReadClock(v) PROVE LastUsedInv'
<1> USE DEF LastUsedInv, ReadClock, Goto
<1>1. DebounceTypeOK'
  BY DEF DebounceTypeOK
<1>2. Backed'
  BY DEF Backed, DebounceTypeOK, Slots
<1>3. SeenExpired' /\ HolderInSlot'
  BY DEF SeenExpired, HolderInSlot, DebounceTypeOK
<1> QED BY <1>1, <1>2, <1>3

LEMMA LoadOrStoreInv ==
    ASSUME LastUsedInv, NEW v \in Validations, LoadOrStore(v) PROVE LastUsedInv'
<1>1. CASE slot = NoSlot /\ Reserve(v) /\ UNCHANGED seen
  BY <1>1, ReserveInv DEF LoadOrStore
<1>2. CASE slot # NoSlot
  <2> USE <1>2 DEF LastUsedInv, LoadOrStore, Goto
  <2>1. DebounceTypeOK'
    BY DEF DebounceTypeOK
  <2>2. Backed'
    BY DEF Backed, DebounceTypeOK, Slots
  <2>3. SeenExpired' /\ HolderInSlot'
    BY DEF SeenExpired, HolderInSlot, DebounceTypeOK
  <2> QED BY <2>1, <2>2, <2>3
<1> QED BY <1>1, <1>2 DEF LoadOrStore

LEMMA CompareAndSwapInv ==
    ASSUME LastUsedInv, NEW v \in Validations, CompareAndSwap(v) PROVE LastUsedInv'
<1>1. CASE slot = seen[v] /\ Reserve(v)
  BY <1>1, ReserveInv DEF CompareAndSwap
<1>2. CASE slot # seen[v]
  <2> USE <1>2 DEF LastUsedInv, CompareAndSwap, Goto
  <2>1. DebounceTypeOK'
    BY DEF DebounceTypeOK
  <2>2. Backed'
    BY DEF Backed, DebounceTypeOK, Slots
  <2>3. SeenExpired' /\ HolderInSlot'
    BY DEF SeenExpired, HolderInSlot, DebounceTypeOK
  <2> QED BY <2>1, <2>2, <2>3
<1> QED BY <1>1, <1>2 DEF CompareAndSwap

LEMMA UpdateLastUsedInv ==
    ASSUME LastUsedInv, NEW v \in Validations, UpdateLastUsed(v) PROVE LastUsedInv'
<1> USE DEF LastUsedInv, UpdateLastUsed, Goto
<1>1. DebounceTypeOK'
  BY DEF DebounceTypeOK
<1>2. Backed'
  BY DEF Backed, DebounceTypeOK, Slots
<1>3. SeenExpired' /\ HolderInSlot'
  BY DEF SeenExpired, HolderInSlot, DebounceTypeOK
<1> QED BY <1>1, <1>2, <1>3

\* Withdrawing compares the whole entry: where it is another's, it stays.
LEMMA clearDebounceSlotInv ==
    ASSUME LastUsedInv, NEW v \in Validations, clearDebounceSlot(v) PROVE LastUsedInv'
<1> USE DEF LastUsedInv, clearDebounceSlot, Goto
<1>1. Mine(v) \in Slots /\ Mine(v) = [at |-> at[v], by |-> v]
  BY MineType DEF Mine
<1>2. DebounceTypeOK'
  BY DEF DebounceTypeOK
<1>3. Backed'
  <2>1. slot' # NoSlot => slot' = slot /\ slot.by # v
    BY <1>1 DEF Backed, DebounceTypeOK, Slots
  <2> QED BY <2>1 DEF Backed, DebounceTypeOK, Slots
<1>4. SeenExpired'
  BY DEF SeenExpired, DebounceTypeOK
<1>5. HolderInSlot'
  BY DEF HolderInSlot, Backed
<1> QED BY <1>2, <1>3, <1>4, <1>5

LEMMA SweepInv ==
    ASSUME LastUsedInv, SweepLoad \/ SweepDelete \/ ClockTicks PROVE LastUsedInv'
<1> USE DEF LastUsedInv
<1>1. CASE SweepLoad
  BY <1>1 DEF SweepLoad, DebounceTypeOK, Backed, SeenExpired, HolderInSlot
<1>2. CASE SweepDelete
  BY <1>2 DEF SweepDelete, DebounceTypeOK, Backed, SeenExpired, HolderInSlot
<1>3. CASE ClockTicks
  BY <1>3 DEF ClockTicks, DebounceTypeOK, Backed, SeenExpired, HolderInSlot
<1> QED BY <1>1, <1>2, <1>3

LEMMA DebounceNextInv == LastUsedInv /\ [DebounceNext]_debounceVars => LastUsedInv'
<1> SUFFICES ASSUME LastUsedInv, [DebounceNext]_debounceVars PROVE LastUsedInv'
  OBVIOUS
<1>1. CASE UNCHANGED debounceVars
  BY <1>1 DEF debounceVars, LastUsedInv, DebounceTypeOK, Backed, SeenExpired, HolderInSlot
<1>2. ASSUME NEW v \in Validations,
             \/ ReadClock(v) \/ LoadOrStore(v) \/ CompareAndSwap(v)
             \/ UpdateLastUsed(v) \/ clearDebounceSlot(v)
      PROVE  LastUsedInv'
  BY <1>2, ReadClockInv, LoadOrStoreInv, CompareAndSwapInv, UpdateLastUsedInv,
     clearDebounceSlotInv
<1> QED BY <1>1, <1>2, SweepInv DEF DebounceNext

\* LastUsedInv is an invariant of lastUsedDebounce.
THEOREM LastUsedInvariance == DebounceSpec => []LastUsedInv
BY DebounceInitInv, DebounceNextInv, PTL DEF DebounceSpec

-----------------------------------------------------------------------------

\* A write that failed with an error keeps no later validation from recording the
\* use, however many validations race and wherever the sweep comes in between.
THEOREM ErrorsWithdraw == DebounceSpec => []SlotBacked
<1>1. LastUsedInv => SlotBacked
  BY DEF LastUsedInv, Backed, SlotBacked
<1> QED BY LastUsedInvariance, <1>1, PTL

\* shouldUpdateLastUsed lets one validation write per TTL: a validation is told to
\* write only when the last reservation that has not failed is as old as that, or
\* was deleted by the sweep, which had looked at the one before it.
THEOREM DebouncedByTTL == DebounceSpec => Debounced
<1>1. ASSUME LastUsedInv, [DebounceNext]_debounceVars, NEW v \in Validations,
             ToldToWrite(v), ~robbed
      PROVE  Paced(v)
  <2> USE DEF ToldToWrite, Paced
  <2>1. holder = slot
    BY <1>1 DEF LastUsedInv, HolderInSlot
  <2>2. LoadOrStore(v) \/ CompareAndSwap(v)
    <3>1. ASSUME NEW w \in Validations,
                 ReadClock(w) \/ UpdateLastUsed(w) \/ clearDebounceSlot(w)
          PROVE  FALSE
      BY <1>1, <3>1 DEF ReadClock, UpdateLastUsed, clearDebounceSlot, Goto,
                              LastUsedInv, DebounceTypeOK
    <3>2. ASSUME NEW w \in Validations, LoadOrStore(w) \/ CompareAndSwap(w)
          PROVE  w = v
      BY <1>1, <3>2 DEF LoadOrStore, CompareAndSwap, Reserve, Goto,
                              LastUsedInv, DebounceTypeOK
    <3>3. ~(SweepLoad \/ SweepDelete \/ ClockTicks \/ UNCHANGED debounceVars)
      BY <1>1 DEF SweepLoad, SweepDelete, ClockTicks, debounceVars
    <3> QED BY <1>1, <3>1, <3>2, <3>3 DEF DebounceNext
  <2>3. CASE LoadOrStore(v)
    BY <1>1, <2>1, <2>3 DEF LoadOrStore, Goto, LastUsedInv, DebounceTypeOK
  <2>4. CASE CompareAndSwap(v)
    BY <1>1, <2>1, <2>4 DEF CompareAndSwap, Goto, LastUsedInv, DebounceTypeOK, SeenExpired
  <2> QED BY <2>2, <2>3, <2>4
<1>2. LastUsedInv /\ [DebounceNext]_debounceVars => [\A v \in Validations : ToldToWrite(v) => Paced(v) \/ robbed]_debounceVars
  BY <1>1
<1> QED BY <1>2, LastUsedInvariance, PTL DEF DebounceSpec, Debounced

-----------------------------------------------------------------------------
(* The subscription that pays.                                             *)

HIDE LastUsedConstants
USE SelectionConstants

-----------------------------------------------------------------------------
(* Lists of model references.                                              *)

LEMMA ListType ==
    ASSUME NEW l \in RefLists
    PROVE  /\ DOMAIN l = 1..1 \/ DOMAIN l = 1..2
           /\ \A i \in DOMAIN l : l[i] \in Models
BY DEF RefLists

\* The first index of some that there are.
LEMMA FirstIndex ==
    ASSUME NEW l \in RefLists, NEW hits \in SUBSET DOMAIN l, hits # {}
    PROVE  (CHOOSE i \in hits : \A j \in hits : i <= j) \in hits
<1>1. \E i \in hits : \A j \in hits : i <= j
  <2>1. CASE 1 \in hits
    BY <2>1, ListType
  <2>2. CASE 1 \notin hits
    BY <2>2, ListType
  <2> QED BY <2>1, <2>2
<1> QED BY <1>1

LEMMA ElementsType ==
    ASSUME NEW o \in subscription PROVE Elements(o) \subseteq Models
BY ListType DEF subscription, Elements

\* A subscription's entry for an id is one of its models.
LEMMA FoundIsListed ==
    ASSUME NEW o \in subscription, NEW id, findModelRef(o, id) # None
    PROVE  findModelRef(o, id) \in Elements(o)
<1> DEFINE hits == {i \in DOMAIN o.modelRefs : \/ AliasOf(o.modelRefs[i]) = id
                                               \/ NameOf[o.modelRefs[i]] = id}
           first == CHOOSE i \in hits : \A j \in hits : i <= j
<1>1. findModelRef(o, id) = IF id \in Elements(o) THEN id
                            ELSE IF hits = {} THEN None ELSE o.modelRefs[first]
  BY DEF findModelRef
<1>2. o.modelRefs \in RefLists /\ hits \subseteq DOMAIN o.modelRefs
  BY DEF subscription
<1>3. hits # {} => first \in hits
  BY <1>2, FirstIndex
<1> HIDE DEF first
<1> QED BY <1>1, <1>2, <1>3 DEF Elements

\* The status entry found by a model's bare name is the model's own where no
\* other model of the list has that name.
LEMMA StatusIsOwn ==
    ASSUME NEW o \in subscription, NEW m \in Elements(o),
           \A n \in Elements(o) : NameOf[n] = NameOf[m] => n = m
    PROVE  StatusFor(o, m) = m
<1> DEFINE hits == {i \in DOMAIN o.modelRefs : NameOf[o.modelRefs[i]] = NameOf[m]}
           first == CHOOSE i \in hits : \A j \in hits : i <= j
<1>1. o.modelRefs \in RefLists /\ hits \subseteq DOMAIN o.modelRefs
  BY DEF subscription
<1>2. hits # {}
  BY DEF Elements
<1>3. first \in hits
  BY <1>1, <1>2, FirstIndex
<1>4. StatusFor(o, m) = o.modelRefs[first]
  BY DEF StatusFor
<1> HIDE DEF first
<1> QED BY <1>3, <1>4 DEF Elements

-----------------------------------------------------------------------------
(* Types.                                                                  *)

LEMMA SelectionInitType == SelectionInit => SelectionTypeOK
<1> SUFFICES ASSUME SelectionInit PROVE SelectionTypeOK
  OBVIOUS
<1>1. subs \in [Subs -> subscription \cup {None}]
  BY DEF SelectionInit, subscription, Phases
<1>2. refs \in [Models -> MaaSModelRef \cup {None}]
  BY DEF SelectionInit, MaaSModelRef
<1> QED BY <1>1, <1>2 DEF SelectionInit, SelectionTypeOK

LEMMA SubscriptionChangesType ==
    ASSUME SelectionTypeOK, NEW s \in Subs, SubscriptionChanges(s)
    PROVE  SelectionTypeOK'
<1>1. edits' \in 0..MaxEdits
  BY DEF SubscriptionChanges, Edit, SelectionTypeOK
<1>2. \E o \in subscription \cup {None} : subs' = [subs EXCEPT ![s] = o]
  <2>1. CASE \E l \in RefLists : subs' = [subs EXCEPT ![s] =
               [modelRefs |-> l, phase |-> None, deleting |-> FALSE, priority |-> 0,
                enforced |-> {}]]
    <3>1. PICK l \in RefLists : subs' = [subs EXCEPT ![s] =
               [modelRefs |-> l, phase |-> None, deleting |-> FALSE, priority |-> 0,
                enforced |-> {}]]
      BY <2>1
    <3> DEFINE new == [modelRefs |-> l, phase |-> None, deleting |-> FALSE, priority |-> 0,
                       enforced |-> {}]
    <3>2. new \in subscription
      BY DEF subscription, Phases
    <3> HIDE DEF new
    <3>3. subs' = [subs EXCEPT ![s] = new]
      BY <3>1 DEF new
    <3> QED BY <3>2, <3>3
  <2>2. ASSUME subs[s] # None,
               NEW p \in Phases \ {None}, NEW e \in SUBSET Elements(subs[s]),
               subs' = [subs EXCEPT ![s].phase = p, ![s].enforced = e]
        PROVE  \E o \in subscription : subs' = [subs EXCEPT ![s] = o]
    <3>1. subs[s] \in subscription /\ e \subseteq Models
      BY <2>2, ElementsType DEF SelectionTypeOK
    <3>2. [subs[s] EXCEPT !.phase = p, !.enforced = e] \in subscription
      BY <3>1 DEF subscription
    <3>3. subs' = [subs EXCEPT ![s] = [subs[s] EXCEPT !.phase = p, !.enforced = e]]
      BY <2>2 DEF SelectionTypeOK
    <3> QED BY <3>2, <3>3
  <2>3. ASSUME subs[s] # None, NEW l \in RefLists,
               subs' = [subs EXCEPT ![s].modelRefs = l]
        PROVE  \E o \in subscription : subs' = [subs EXCEPT ![s] = o]
    BY <2>3 DEF SelectionTypeOK, subscription
  <2>4. ASSUME subs[s] # None, subs' = [subs EXCEPT ![s].priority = 1 - @]
        PROVE  \E o \in subscription : subs' = [subs EXCEPT ![s] = o]
    <3> DEFINE new == [subs[s] EXCEPT !.priority = 1 - @]
    <3>1. subs[s] \in subscription /\ subs[s].priority \in 0..1
      BY <2>4 DEF SelectionTypeOK, subscription
    <3>2. new \in subscription
      BY <3>1 DEF subscription
    <3>3. subs' = [subs EXCEPT ![s] = new]
      BY <2>4 DEF SelectionTypeOK
    <3> HIDE DEF new
    <3> QED BY <3>2, <3>3
  <2>5. ASSUME subs[s] # None,
               subs' = [subs EXCEPT ![s] = IF @.deleting THEN None
                                           ELSE [@ EXCEPT !.deleting = TRUE]]
        PROVE  \E o \in subscription \cup {None} : subs' = [subs EXCEPT ![s] = o]
    <3> DEFINE new == [subs[s] EXCEPT !.deleting = TRUE]
    <3>1. subs[s] \in subscription
      BY <2>5 DEF SelectionTypeOK
    <3>2. new \in subscription
      BY <3>1 DEF subscription
    <3>3. \/ subs' = [subs EXCEPT ![s] = None]
          \/ subs' = [subs EXCEPT ![s] = new]
      <4>1. subs' = [subs EXCEPT ![s] = IF subs[s].deleting THEN None ELSE new]
        BY <2>5 DEF SelectionTypeOK
      <4> HIDE DEF new
      <4> QED BY <4>1
    <3> HIDE DEF new
    <3> QED BY <3>2, <3>3
  <2> QED BY <2>1, <2>2, <2>3, <2>4, <2>5 DEF SubscriptionChanges
<1>3. UNCHANGED <<refs, mine, authorized, key>>
  BY DEF SubscriptionChanges
<1> QED BY <1>1, <1>2, <1>3 DEF SelectionTypeOK

LEMMA ModelChangesType ==
    ASSUME SelectionTypeOK, NEW m \in Models, ModelChanges(m)
    PROVE  SelectionTypeOK'
<1>1. \E r \in MaaSModelRef \cup {None} : refs' = [refs EXCEPT ![m] = r]
  <2>1. CASE refs[m] = None
    <3>1. PICK t \in Aliases :
            refs' = [refs EXCEPT ![m] = [target |-> t, alias |-> None, ready |-> FALSE]]
      BY <2>1 DEF ModelChanges
    <3>2. [target |-> t, alias |-> None, ready |-> FALSE] \in MaaSModelRef
      BY DEF MaaSModelRef
    <3> QED BY <3>1, <3>2
  <2>2. CASE refs[m] # None
    <3>1. refs[m] \in MaaSModelRef /\ refs \in [Models -> MaaSModelRef \cup {None}]
      BY <2>2 DEF SelectionTypeOK
    <3>2. ASSUME NEW t \in Aliases, refs' = [refs EXCEPT ![m].target = t]
          PROVE  refs' = [refs EXCEPT ![m] = [refs[m] EXCEPT !.target = t]]
                 /\ [refs[m] EXCEPT !.target = t] \in MaaSModelRef
      BY <3>1, <3>2 DEF MaaSModelRef
    <3>3. ASSUME refs' = [refs EXCEPT ![m].ready = FALSE]
          PROVE  refs' = [refs EXCEPT ![m] = [refs[m] EXCEPT !.ready = FALSE]]
                 /\ [refs[m] EXCEPT !.ready = FALSE] \in MaaSModelRef
      BY <3>1, <3>3 DEF MaaSModelRef
    <3>4. ASSUME NEW b \in BOOLEAN, NEW a \in Aliases \cup {None},
                 refs' = [refs EXCEPT ![m].alias = a, ![m].ready = b]
          PROVE  refs' = [refs EXCEPT ![m] = [refs[m] EXCEPT !.alias = a, !.ready = b]]
                 /\ [refs[m] EXCEPT !.alias = a, !.ready = b] \in MaaSModelRef
      BY <3>1, <3>4 DEF MaaSModelRef
    <3>5. refs[m].target \in Aliases /\ refs[m].alias \in Aliases \cup {None}
      BY <3>1 DEF MaaSModelRef
    <3>6. \/ \E t \in Aliases : refs' = [refs EXCEPT ![m].target = t]
          \/ refs' = [refs EXCEPT ![m].ready = FALSE]
          \/ \E b \in BOOLEAN, a \in Aliases \cup {None} :
               refs' = [refs EXCEPT ![m].alias = a, ![m].ready = b]
          \/ refs' = [refs EXCEPT ![m] = None]
      BY <2>2, <3>5 DEF ModelChanges
    <3> QED BY <3>2, <3>3, <3>4, <3>6
  <2> QED BY <2>1, <2>2
<1>2. edits' \in 0..MaxEdits /\ UNCHANGED <<subs, mine, authorized, key>>
  BY DEF ModelChanges, Edit, SelectionTypeOK
<1> QED BY <1>1, <1>2 DEF SelectionTypeOK

LEMMA SelectionNextType ==
    SelectionTypeOK /\ [SelectionNext]_selectionVars => SelectionTypeOK'
<1> SUFFICES ASSUME SelectionTypeOK, [SelectionNext]_selectionVars PROVE SelectionTypeOK'
  OBVIOUS
<1>1. CASE UNCHANGED selectionVars
  BY <1>1 DEF selectionVars, SelectionTypeOK
<1>2. ASSUME NEW s \in Subs, OwnershipChanges(s) PROVE SelectionTypeOK'
  BY <1>2 DEF OwnershipChanges, Edit, SelectionTypeOK
<1>3. ASSUME NEW m \in Models, ModelChanges(m) PROVE SelectionTypeOK'
  BY <1>3, ModelChangesType
<1>4. ASSUME NEW m \in Models, AuthorizationChanges(m) PROVE SelectionTypeOK'
  BY <1>4 DEF AuthorizationChanges, Edit, SelectionTypeOK
<1>5. CASE MintKey
  BY <1>5 DEF MintKey, SelectHighestPriority, SelectionTypeOK
<1> QED BY <1>1, <1>2, <1>3, <1>4, <1>5, SubscriptionChangesType DEF SelectionNext

\* The copies that maas-api reads keep their shape.
THEOREM SelectionTypes == SelectionSpec => []SelectionTypeOK
<1>1. SelectionInit => SelectionTypeOK
  BY SelectionInitType
<1>2. SelectionTypeOK /\ [SelectionNext]_selectionVars => SelectionTypeOK'
  BY SelectionNextType
<1> QED BY <1>1, <1>2, PTL DEF SelectionSpec

-----------------------------------------------------------------------------
(* What an answer of Select says.                                          *)

\* An id is looked for as itself or as a model, never as nothing.
LEMMA ResolvedType ==
    ASSUME NEW id \in Ids, NEW r \in resolveModelAlias(id)
    PROVE  r # None
BY DEF resolveModelAlias, Ids

LEMMA Served ==
    ASSUME NEW s, s # None, NEW id \in Ids,
           NEW a \in Select(s, id), a.sub # None
    PROVE  /\ a.sub = s /\ a.model # None /\ userHasAccess(s)
           /\ findModelRef(subs[s], a.model) # None
           /\ checkModelHealth(subs[s], a.model)
<1>1. PICK r \in resolveModelAlias(id) : a = Answer(s, r)
  BY DEF Select
<1>2. r # None
  BY ResolvedType
<1>3. /\ userHasAccess(s) /\ subscriptionIncludesModel(subs[s], r)
      /\ checkModelHealth(subs[s], r)
      /\ a.sub = s /\ a.model = r
  BY <1>1 DEF Answer, Refused
<1> QED BY <1>2, <1>3 DEF subscriptionIncludesModel

\* A key is served by the subscription it was minted for or not at all: not by
\* another of the caller's when its own is gone, replaced or without the model.
THEOREM KeyKeepsSubscription == SelectionSpec => []KeySticks
<1>1. SelectionTypeOK => KeySticks
  <2> SUFFICES ASSUME SelectionTypeOK, key # None, NEW id \in Ids, NEW a \in Select(key, id),
                      a.sub # None
               PROVE  /\ a.sub = key /\ key \in mine
                      /\ findModelRef(subs[key], a.model) # None
    BY DEF KeySticks
  <2> QED BY Served DEF userHasAccess
<1>2. SelectionSpec => []SelectionTypeOK
  BY SelectionTypes
<1> QED BY <1>1, <1>2, PTL

-----------------------------------------------------------------------------
(* What is listed is served.                                               *)

\* The id a model is shown under leads back to it, where it is the alias of that
\* model alone.
LEMMA ShownIdLeadsBack ==
    ASSUME NEW m \in Models, refs[m] # None, ModelID(m) # None,
           AliasOf(m) = ModelID(m), OwnID(m)
    PROVE  resolveModelAlias(ModelID(m)) = {m}
<1>1. {n \in Models : refs[n] # None /\ refs[n].alias = ModelID(m)} = {m}
  BY DEF OwnID, AliasOf
<1> QED BY <1>1 DEF resolveModelAlias

\* Nothing is shown without an id.
LEMMA ShownIdType ==
    ASSUME SelectionTypeOK, NEW m \in Models, refs[m] # None
    PROVE  ModelID(m) \in Ids /\ ModelID(m) # None
<1>1. refs[m].target \in Aliases /\ AliasOf(m) \in Aliases \cup {None}
  BY DEF SelectionTypeOK, MaaSModelRef, AliasOf
<1>2. ModelID(m) \in Aliases \cup {NameOf[m]}
  BY <1>1 DEF ModelID
<1> QED BY <1>2 DEF Ids

\* A subscription that a listing shows can be charged.
LEMMA ShownIsUsable ==
    ASSUME SelectionTypeOK, NEW s \in Subs, NEW withKey \in BOOLEAN,
           s \in SubscriptionsToUse(withKey),
           withKey => subs[s].phase # "Pending"
    PROVE  userHasAccess(s) /\ subs[s].phase \in {"Active", "Degraded"}
<1>1. CASE ~withKey
  BY <1>1 DEF SubscriptionsToUse, GetAllAccessible
<1>2. CASE withKey
  <2>1. s = key /\ key # None /\ Refused \notin Select(key, None)
    BY <1>2 DEF SubscriptionsToUse
  <2>2. Select(key, None) = {Answer(key, None)}
    BY <2>1 DEF Select, resolveModelAlias
  <2>3. Answer(s, None) # Refused
    BY <2>1, <2>2
  <2>4. userHasAccess(s) /\ checkModelHealth(subs[s], None)
    BY <2>3 DEF Answer
  <2>5. subs[s] \in subscription
    BY <2>4 DEF userHasAccess, SelectionTypeOK
  <2> QED BY <1>2, <2>4, <2>5 DEF checkModelHealth, subscription, Phases
<1> QED BY <1>1, <1>2

\* What GET /v1/models shows through a subscription is served under the id shown
\* and charged to that subscription and that model, once the status of the model
\* has the id for an alias.
THEOREM ListedCanBeUsed == SelectionSpec => []ListedIsServed
<1>1. SelectionTypeOK => ListedIsServed
  <2> SUFFICES ASSUME SelectionTypeOK, NEW m \in Models, NEW s \in Subs, NEW withKey \in BOOLEAN,
                      <<m, s>> \in ListLLMs(withKey), AliasOf(m) = ModelID(m), OwnID(m),
                      subs[s].phase = "Degraded" =>
                        m \in subs[s].enforced /\ OwnName(NameOf[m], m, s),
                      withKey => subs[s].phase # "Pending"
               PROVE  Select(s, ModelID(m)) =
                        {[sub |-> s, model |-> m, access |-> ~withKey \/ m \in authorized]}
    BY DEF ListedIsServed
  <2>1. /\ s \in SubscriptionsToUse(withKey)
        /\ m \in ModelRefs(s, withKey) /\ refs[m] # None
    BY DEF ListLLMs, FilterModelsByAccess
  <2>2. userHasAccess(s) /\ subs[s].phase \in {"Active", "Degraded"}
    BY <2>1, ShownIsUsable
  <2>3. subs[s] \in subscription
    BY <2>2 DEF userHasAccess, SelectionTypeOK
  <2>4. m \in Elements(subs[s]) /\ (~withKey => m \in authorized)
    BY <2>1 DEF ModelRefs, AuthorizedModels
  <2>5. Select(s, ModelID(m)) = {Answer(s, m)}
    <3>1. resolveModelAlias(ModelID(m)) = {m}
      BY <2>1, ShownIdLeadsBack, ShownIdType
    <3> QED BY <3>1 DEF Select
  <2>6. findModelRef(subs[s], m) = m
    BY <2>4 DEF findModelRef
  <2>7. subscriptionIncludesModel(subs[s], m)
    BY <2>6 DEF subscriptionIncludesModel
  <2>8. checkModelHealth(subs[s], m)
    <3>1. CASE subs[s].phase = "Active"
      BY <3>1 DEF checkModelHealth
    <3>2. CASE subs[s].phase = "Degraded"
      <4>1. \A n \in Elements(subs[s]) : NameOf[n] = NameOf[m] => n = m
        BY <3>2 DEF OwnName
      <4>2. StatusFor(subs[s], m) = m
        BY <2>3, <2>4, <4>1, StatusIsOwn
      <4> QED BY <2>6, <3>2, <4>2 DEF checkModelHealth
    <3> QED BY <2>2, <3>1, <3>2
  <2>9. isModelAccessAllowed(subs[s], m) <=> ~withKey \/ m \in authorized
    BY <2>4, <2>6 DEF isModelAccessAllowed, AuthorizedModels
  <2>10. Answer(s, m) =
           [sub |-> s, model |-> m, access |-> isModelAccessAllowed(subs[s], m)]
    BY <2>2, <2>7, <2>8 DEF Answer
  <2>11. isModelAccessAllowed(subs[s], m) \in BOOLEAN
    BY DEF isModelAccessAllowed
  <2> DEFINE b == isModelAccessAllowed(subs[s], m)
             c == ~withKey \/ m \in authorized
  <2>12. b = c
    BY <2>9, <2>11
  <2> QED BY <2>5, <2>10, <2>12
<1>2. SelectionSpec => []SelectionTypeOK
  BY SelectionTypes
<1> QED BY <1>1, <1>2, PTL

\* The entry that an id finds is the model's own, where no other entry has the id for
\* an alias or a name.
LEMMA OwnEntry ==
    ASSUME NEW o \in subscription, NEW m \in Models, NEW id, findModelRef(o, id) # None,
           id # None, id \notin Elements(o) \ {m},
           \A n \in Elements(o) \ {m} : AliasOf(n) # id /\ NameOf[n] # id
    PROVE  findModelRef(o, id) = m
<1> DEFINE hits == {i \in DOMAIN o.modelRefs : \/ AliasOf(o.modelRefs[i]) = id
                                               \/ NameOf[o.modelRefs[i]] = id}
           first == CHOOSE i \in hits : \A j \in hits : i <= j
<1>1. findModelRef(o, id) = IF id \in Elements(o) THEN id
                            ELSE IF hits = {} THEN None ELSE o.modelRefs[first]
  BY DEF findModelRef
<1>2. o.modelRefs \in RefLists /\ hits \subseteq DOMAIN o.modelRefs
  BY DEF subscription
<1>3. hits # {} => first \in hits
  BY <1>2, FirstIndex
<1> HIDE DEF first
<1>4. hits # {} => o.modelRefs[first] = m
  BY <1>3 DEF Elements
<1> QED BY <1>1, <1>4

\* A request under an id that is shown is served as a request for the model shown or
\* not at all, although the id comes from the spec of an ExternalModel and requests
\* are matched with the status.
THEOREM ListedIsNotMistaken == SelectionSpec => []ServedAsListed
<1>1. SelectionTypeOK => ServedAsListed
  <2> SUFFICES ASSUME SelectionTypeOK, NEW m \in Models, NEW s \in Subs, NEW withKey \in BOOLEAN,
                      <<m, s>> \in ListLLMs(withKey), OwnID(m), OwnName(ModelID(m), m, s),
                      NEW a \in Select(s, ModelID(m)), a.sub # None
               PROVE  a.sub = s /\ findModelRef(subs[s], a.model) = m
    BY DEF ServedAsListed
  <2> DEFINE id == ModelID(m)
  <2>1. refs[m] # None /\ id \in Ids /\ id # None /\ s # None
    BY ShownIdType DEF ListLLMs, FilterModelsByAccess
  <2>2. /\ a.sub = s /\ a.model # None /\ userHasAccess(s)
        /\ findModelRef(subs[s], a.model) # None
    BY <2>1, Served
  <2>3. subs[s] \in subscription
    BY <2>2 DEF userHasAccess, SelectionTypeOK
  <2>4. a.model \in resolveModelAlias(id)
    <3>1. PICK r \in resolveModelAlias(id) : a = Answer(s, r)
      BY <2>1 DEF Select
    <3> QED BY <3>1 DEF Answer, Refused
  <2>5. a.model = m \/ a.model = id
    <3>1. {n \in Models : refs[n] # None /\ refs[n].alias = id} \subseteq {m}
      BY DEF OwnID, AliasOf
    <3> QED BY <2>4, <3>1 DEF resolveModelAlias
  <2>6. id \notin Models
    <3>1. refs[m].target \in Aliases /\ AliasOf(m) \in Aliases \cup {None}
      BY <2>1 DEF SelectionTypeOK, MaaSModelRef, AliasOf
    <3>2. id \in Aliases \cup {NameOf[m]}
      BY <3>1 DEF ModelID
    <3> QED BY <3>2
  <2>7. ASSUME NEW n \in Elements(subs[s]) \ {m}
        PROVE  /\ n \in Models /\ AliasOf(n) # id /\ NameOf[n] # id
    BY <2>3, ElementsType DEF OwnID, OwnName
  <2> HIDE DEF id
  <2>8. CASE a.model = id
    BY <2>1, <2>2, <2>3, <2>6, <2>7, <2>8, OwnEntry
  <2>9. CASE a.model = m
    <3>1. CASE m \in Elements(subs[s])
      <4>1. findModelRef(subs[s], m) = m
        BY <3>1 DEF findModelRef
      <4> QED BY <2>2, <2>9, <4>1
    <3>2. CASE m \notin Elements(subs[s])
      BY <3>2 DEF ListLLMs, FilterModelsByAccess, ModelRefs, AuthorizedModels
    <3> QED BY <3>1, <3>2
  <2> QED BY <2>2, <2>5, <2>8, <2>9
<1>2. SelectionSpec => []SelectionTypeOK
  BY SelectionTypes
<1> QED BY <1>1, <1>2, PTL
=============================================================================
