------------------------------ MODULE LastUsed ------------------------------
(***************************************************************************)
(* How maas-api records that an API key was used: every validation of a    *)
(* valid key asks shouldUpdateLastUsed whether to write last_used_at; the  *)
(* write itself runs in a goroutine of its own.  lastUsedDebounce, a       *)
(* sync.Map, remembers when each key was last written.                     *)
(*                                                                         *)
(* Entries of different keys never meet, so this is the entry of one key.  *)
(* Each call of the map is atomic and nothing longer is; a call reads the  *)
(* clock before it looks at the map, and an hourly sweep looks at an entry *)
(* before it deletes it.                                                   *)
(***************************************************************************)
EXTENDS Integers

CONSTANTS
    Validations,    \* validations of the key
    NoSlot,         \* the map has no entry for the key
    TTLs,           \* values of LAST_USED_DEBOUNCE_SECS; 0 turns debouncing off
    MaxClock        \* bound on the clock

ASSUME LastUsedConstants ==
    TTLs \subseteq Nat /\ MaxClock \in Nat

VARIABLES
    ttl,            \* lastUsedDebounceTTL
    clock,
    slot,           \* the entry: the instant stored and who stored it
    pc,             \* what each validation does next
    at,             \* the clock as each validation read it
    seen,           \* the entry a validation found
    sweep,          \* the entry the sweep found and will delete, if any
    holder,         \* history: the last reservation that has not failed
    robbed          \* history: the sweep has deleted a reservation it had not
                    \* looked at, and there was none since

debounceVars == <<ttl, clock, slot, pc, at, seen, sweep, holder, robbed>>

\* time.Time values taken by different goroutines differ.
Slots == [at : 0..MaxClock, by : Validations]

DebounceTypeOK ==
    /\ ttl \in TTLs
    /\ clock \in 0..MaxClock
    /\ slot \in Slots \cup {NoSlot}
    /\ pc \in [Validations -> {"start", "load", "swap", "write", "clear",
                               "skipped", "written", "failed", "panicked"}]
    /\ at \in [Validations -> 0..MaxClock]
    /\ seen \in [Validations -> Slots \cup {NoSlot}]
    /\ sweep \in Slots \cup {NoSlot}
    /\ holder \in Slots \cup {NoSlot}
    /\ robbed \in BOOLEAN

DebounceInit ==
    /\ ttl \in TTLs
    /\ clock = 0
    /\ slot = NoSlot
    /\ pc = [v \in Validations |-> "start"]
    /\ at = [v \in Validations |-> 0]
    /\ seen = [v \in Validations |-> NoSlot]
    /\ sweep = NoSlot
    /\ holder = NoSlot
    /\ robbed = FALSE

Mine(v) == [at |-> at[v], by |-> v]
Goto(v, label) == pc' = [pc EXCEPT ![v] = label]

\* The validation is told to write, and the entry is its reservation.
Reserve(v) ==
    /\ slot' = Mine(v)
    /\ holder' = Mine(v)
    /\ robbed' = FALSE
    /\ Goto(v, "write")

---------------------------------------------------------------------------
(* shouldUpdateLastUsed.                                                   *)

ReadClock(v) ==
    /\ pc[v] = "start"
    /\ at' = [at EXCEPT ![v] = clock]
    /\ Goto(v, IF ttl = 0 THEN "write" ELSE "load")
    /\ UNCHANGED <<ttl, clock, slot, seen, sweep, holder, robbed>>

LoadOrStore(v) ==
    /\ pc[v] = "load"
    /\ \/ slot = NoSlot /\ Reserve(v) /\ UNCHANGED seen
       \/ /\ slot # NoSlot
          /\ seen' = [seen EXCEPT ![v] = slot]
          /\ Goto(v, IF at[v] - slot.at >= ttl THEN "swap" ELSE "skipped")
          /\ UNCHANGED <<slot, holder, robbed>>
    /\ UNCHANGED <<ttl, clock, at, sweep>>

StoreAnyway(v) ==
    /\ pc[v] = "swap"
    /\ Reserve(v)
    /\ UNCHANGED <<ttl, clock, at, seen, sweep>>

CompareAndSwap(v) ==
    /\ pc[v] = "swap"
    /\ \/ slot = seen[v] /\ Reserve(v)
       \/ slot # seen[v] /\ Goto(v, "skipped") /\ UNCHANGED <<slot, holder, robbed>>
    /\ UNCHANGED <<ttl, clock, at, seen, sweep>>

---------------------------------------------------------------------------
(* The goroutine that writes.                                              *)

\* The write is made, fails with an error, or panics: recover lets the goroutine
\* end there, past the call that withdraws the reservation.
UpdateLastUsed(v) ==
    /\ pc[v] = "write"
    /\ \/ Goto(v, "written")
       \/ Goto(v, "clear")
       \/ Goto(v, "panicked")
    /\ UNCHANGED <<ttl, clock, slot, at, seen, sweep, holder, robbed>>

ForgetToClear(v) ==
    /\ pc[v] = "clear"
    /\ holder' = IF holder = Mine(v) THEN NoSlot ELSE holder
    /\ Goto(v, "failed")
    /\ UNCHANGED <<ttl, clock, slot, at, seen, sweep, robbed>>

\* The reservation of a write that failed is withdrawn, unless another has
\* taken its place.
clearDebounceSlot(v) ==
    /\ pc[v] = "clear"
    /\ slot' = IF ttl # 0 /\ slot = Mine(v) THEN NoSlot ELSE slot
    /\ holder' = IF holder = Mine(v) THEN NoSlot ELSE holder
    /\ Goto(v, "failed")
    /\ UNCHANGED <<ttl, clock, at, seen, sweep, robbed>>

---------------------------------------------------------------------------
(* StartDebounceCleanup: Range shows the sweep an entry, Delete removes    *)
(* whatever is there by then.                                              *)

SweepLoad ==
    /\ ttl # 0 /\ sweep = NoSlot
    /\ slot # NoSlot /\ slot.at < clock - ttl
    /\ sweep' = slot
    /\ UNCHANGED <<ttl, clock, slot, pc, at, seen, holder, robbed>>

\* The entry that was found expired is no longer a reservation.
SweepDelete ==
    /\ sweep # NoSlot
    /\ slot' = NoSlot
    /\ holder' = IF holder = sweep THEN NoSlot ELSE holder
    /\ robbed' = (robbed \/ slot \notin {NoSlot, sweep})
    /\ sweep' = NoSlot
    /\ UNCHANGED <<ttl, clock, pc, at, seen>>

ClockTicks ==
    /\ clock < MaxClock
    /\ clock' = clock + 1
    /\ UNCHANGED <<ttl, slot, pc, at, seen, sweep, holder, robbed>>

DebounceNext ==
    \/ \E v \in Validations :
          \/ ReadClock(v) \/ LoadOrStore(v) \/ CompareAndSwap(v)
          \/ UpdateLastUsed(v) \/ clearDebounceSlot(v)
    \/ SweepLoad \/ SweepDelete
    \/ ClockTicks

DebounceSpec == DebounceInit /\ [][DebounceNext]_debounceVars

---------------------------------------------------------------------------

ToldToWrite(v) == pc[v] \in {"load", "swap"} /\ pc'[v] = "write"
Paced(v) == holder = NoSlot \/ at[v] - holder.at >= ttl

\* While debouncing is on, a validation is told to write only when the last
\* reservation that has not failed is at least the TTL older, however many
\* validations race at the boundary and however late a failed write withdraws
\* its own reservation.  The sweep costs no more than one write too many each
\* time it deletes a reservation made since it looked.
Debounced ==
    [][\A v \in Validations : ToldToWrite(v) => Paced(v) \/ robbed]_debounceVars

\* A write that failed with an error keeps no later validation from recording
\* the use, wherever other reservations and the sweep come in between: a key is
\* debounced on account of a write that is under way, was made, or panicked (the
\* goroutine's recover leaves that reservation to the TTL).
SlotBacked ==
    slot # NoSlot => pc[slot.by] \in {"write", "written", "clear", "panicked"}
=============================================================================
