----------------------------- MODULE ShardBook -----------------------------
(***************************************************************************)
(* What one shard of the page cache charges for its map and its ring       *)
(* (crates/drydb/src/cache.rs, hash_table_bytes and                        *)
(* hash_table_peak_bytes of budget.rs), in bytes and with the code's own   *)
(* constants.  Pages are counted, not named: the ring holds the Ready      *)
(* pages and a pending push stands for every marker, which module          *)
(* PageCache shows.  Whether the shared budget has room for a growth       *)
(* depends on everybody else who holds some of it, and is a choice.        *)
(***************************************************************************)
EXTENDS Naturals, FiniteSets

CONSTANTS Threads,
          MaxPages,         \* bound: entries the map is given
          SlotBytes,        \* SLOT_BYTES
          LoadingSlotBytes, \* LOADING_SLOT_BYTES
          GroupWidth        \* control bytes the hash table probes at a time

HASH_GROUP == 16
RING_MIN_CAPACITY == 4

ASSUME ShardBookAssumption ==
    /\ IsFiniteSet(Threads)
    /\ MaxPages \in Nat \ {0}
    /\ SlotBytes \in Nat /\ SlotBytes >= 24  \* two u64, a pointer and a flag
    /\ LoadingSlotBytes \in Nat
    /\ GroupWidth \in Nat \ {0}

VARIABLES shard,    \* the shard's counters, below
          pc,       \* where each thread is in get_or_load
          charge    \* charge[t]: bytes of slot_charge

vars == <<shard, pc, charge>>

\* Of a shard.  slots, left: what the map's buckets hold, and how many entries it takes
\* before it rehashes; ready, loading: its entries; ringCap: VecDeque::capacity;
\* mapSlots, book: the fields of ShardInner; covered: every allocation so far was
\* charged when it was made; moved: a page's replacing its marker made one that was not.

Larger(a, b) == IF a >= b THEN a ELSE b
Minus(a, b) == IF a >= b THEN a - b ELSE 0
CeilDiv(n, d) == (n + d - 1) \div d
next_power_of_two[n \in Nat] == IF n <= 1 THEN 1 ELSE 2 * next_power_of_two[CeilDiv(n, 2)]

-----------------------------------------------------------------------------
\* Buckets of the smallest table for n entries, and the entries b buckets take.
Buckets(n) == next_power_of_two[Larger(CeilDiv(8 * n, 7), 4)]
SlotsFor(n) ==
    LET b == Buckets(n)
    IN  IF n = 0 THEN 0 ELSE IF b < 8 THEN b - 1 ELSE (b \div 8) * 7

hash_table_bytes(entries) ==
    IF entries = 0 THEN 0
    ELSE CeilDiv(Buckets(entries) * (SlotBytes + 1) + HASH_GROUP, HASH_GROUP) * HASH_GROUP

hash_table_peak_bytes(slots, capacity, len) ==
    IF capacity > len THEN hash_table_bytes(slots)
    ELSE hash_table_bytes(slots) + hash_table_bytes(IF slots = 0 THEN 1 ELSE 2 * slots)

ring_bytes(capacity) == 8 * capacity

\* What the ring grows to in one push when it is full.
RingGrown(capacity) == Larger(2 * capacity, RING_MIN_CAPACITY)

\* The loop that grows a ring until it holds the entries.
RingTarget(capacity, entries) ==
    LET grown[c \in Nat] == IF c < entries THEN grown[RingGrown(c)] ELSE c
    IN  grown[capacity]

ring_target_bytes(capacity, entries) ==
    LET grown == RingTarget(capacity, entries)
    IN  IF entries <= capacity THEN ring_bytes(capacity)
        ELSE ring_bytes(grown) + ring_bytes(grown \div 2)

Len(sh) == sh.ready + sh.loading
MapCapacity(sh) == Len(sh) + sh.left
Tombstones(sh) == sh.slots - Len(sh) - sh.left
Allocated(sh) == hash_table_bytes(sh.slots) + ring_bytes(sh.ringCap)

bookkeeping_footprint(sh) ==
    hash_table_bytes(sh.mapSlots) + ring_target_bytes(sh.ringCap, sh.ready + sh.loading)

growth_for_one_more(sh) ==
    Minus(hash_table_peak_bytes(sh.mapSlots, MapCapacity(sh), Len(sh))
            + ring_target_bytes(sh.ringCap, sh.ready + sh.loading + 1), sh.book)

-----------------------------------------------------------------------------
\* HashMap and VecDeque, as far as the code relies on them.  Each operator is the set
\* of shards the call can leave.

\* An allocation of `more` bytes is made while `extra` is reserved beside the book.
Allocate(sh, more, extra) ==
    [sh EXCEPT !.covered = @ /\ Allocated(sh) + more <= sh.book + extra]

\* map.insert makes room first when the map will take no more: it rehashes in place
\* when half its slots are free, and moves to a larger table otherwise.  The entry may
\* land where a removed one was.
MapReserve(sh, field, extra) ==
    LET larger == SlotsFor(Larger(Len(sh) + 1, sh.slots + 1))
        more == hash_table_bytes(larger)
        grown == IF field = "loading" THEN Allocate(sh, more, extra)
                 ELSE [sh EXCEPT !.moved = @ \/ Allocated(sh) + more > sh.book]
    IN  IF sh.left > 0 THEN sh
        ELSE IF Len(sh) + 1 <= sh.slots \div 2 THEN [sh EXCEPT !.left = sh.slots - Len(sh)]
        ELSE [grown EXCEPT !.slots = larger, !.left = larger - Len(sh)]

Entered(sh, field) ==
    IF field = "loading" THEN [sh EXCEPT !.loading = @ + 1] ELSE [sh EXCEPT !.ready = @ + 1]

MapInsert(sh, field, extra) ==
    LET room == MapReserve(sh, field, extra)
    IN  {[Entered(room, field) EXCEPT !.left = l] :
            l \in {room.left - 1} \cup (IF Tombstones(room) > 0 THEN {room.left} ELSE {})}

\* map.remove: the slot can be handed out again, unless it lies in a run of full
\* slots as long as a probe.
Removed(sh, field) ==
    IF field = "loading" THEN [sh EXCEPT !.loading = @ - 1] ELSE [sh EXCEPT !.ready = @ - 1]

MapRemove(sh, field) ==
    {[Removed(sh, field) EXCEPT !.left = l] :
        l \in {sh.left + 1}
              \cup (IF Len(sh) + Tombstones(sh) >= GroupWidth THEN {sh.left} ELSE {})}

\* map.shrink_to_fit rebuilds when fewer buckets will do.
MapShrink(sh) ==
    LET fit == SlotsFor(Len(sh))
    IN  IF fit < sh.slots
          THEN [Allocate(sh, hash_table_bytes(fit), 0) EXCEPT !.slots = fit, !.left = fit - Len(sh)]
          ELSE sh

\* clock.push_back with the ring holding one entry less than sh.ready says.
RingPush(sh) ==
    LET grown == IF sh.moved THEN sh ELSE Allocate(sh, ring_bytes(RingGrown(sh.ringCap)), 0)
    IN  IF sh.ready > sh.ringCap THEN [grown EXCEPT !.ringCap = RingGrown(@)] ELSE sh

-----------------------------------------------------------------------------
note_table(sh) == [sh EXCEPT !.mapSlots = Larger(@, MapCapacity(sh))]

\* Bookkeeping::settle: growing may fail, shrinking may not.
Settle(sh, want) ==
    {<<TRUE, [sh EXCEPT !.book = want]>>}
        \cup (IF want > sh.book THEN {<<FALSE, sh>>} ELSE {})

settle_bookkeeping(sh) == Settle(sh, bookkeeping_footprint(sh))

\* The first half of release_bookkeeping: the map, once half of it is idle.
ReleaseMap(sh) ==
    LET during == bookkeeping_footprint(sh) + hash_table_bytes(Len(sh))
        shrunk(x) ==
            LET y == MapShrink(x)
            IN  IF MapCapacity(y) # MapCapacity(x)
                  THEN [y EXCEPT !.mapSlots = MapCapacity(y)] ELSE y
    IN  IF sh.mapSlots > 2 * Len(sh)
          THEN {IF r[1] THEN shrunk(r[2]) ELSE r[2] : r \in Settle(sh, during)}
          ELSE {sh}

\* Mutation: the ring is shrunk to what it holds.
ReleaseRingToFit(sh) ==
    LET keep == sh.ready
        after == ring_bytes(next_power_of_two[Larger(keep, 4)])
    IN  IF sh.ringCap > 2 * keep
          THEN {IF r[1] THEN [Allocate(r[2], ring_bytes(keep), 0) EXCEPT !.ringCap = keep]
                        ELSE r[2] : r \in Settle(sh, bookkeeping_footprint(sh) + after)}
          ELSE {sh}

\* The second half: the ring, down to what it holds and what has been promised.
ReleaseRing(sh) ==
    LET keep == sh.ready + sh.loading
        after == ring_bytes(next_power_of_two[Larger(keep, 4)])
    IN  IF sh.ringCap > 2 * keep
          THEN {IF r[1] THEN [Allocate(r[2], ring_bytes(keep), 0) EXCEPT !.ringCap = keep]
                        ELSE r[2] : r \in Settle(sh, bookkeeping_footprint(sh) + after)}
          ELSE {sh}

release_bookkeeping(sh) ==
    UNION {UNION {{r[2] : r \in settle_bookkeeping(y)} : y \in ReleaseRing(x)} : x \in ReleaseMap(sh)}

\* evict_one on a shard that has a page to give.
evict_one(sh) == UNION {release_bookkeeping(x) : x \in MapRemove(sh, "ready")}

-----------------------------------------------------------------------------
Init ==
    /\ shard = [slots |-> 0, left |-> 0, mapSlots |-> 0, ringCap |-> 0,
                ready |-> 0, loading |-> 0, book |-> 0, covered |-> TRUE, moved |-> FALSE]
    /\ pc = [t \in Threads |-> "idle"]
    /\ charge = [t \in Threads |-> 0]

Unlocked == \A t \in Threads : pc[t] \notin {"capacity", "settle", "resettle"}

Goto(t, label) == pc' = [pc EXCEPT ![t] = label]

\* A miss: what is asked for is worked out under the lock and reserved without it.
Ask(t) ==
    /\ pc[t] = "idle"
    /\ Unlocked
    /\ charge' = [charge EXCEPT ![t] = LoadingSlotBytes + growth_for_one_more(shard)]
    /\ Goto(t, "reserved")
    /\ UNCHANGED shard

\* The reservation no longer covers the entry, or the page has turned up: it is dropped.
GiveUp(t) ==
    /\ pc[t] = "reserved"
    /\ Unlocked
    /\ charge' = [charge EXCEPT ![t] = 0]
    /\ Goto(t, "idle")
    /\ UNCHANGED shard

\* Mutation: the reservation is not looked at again.
InsertUnchecked(t) ==
    /\ pc[t] = "reserved"
    /\ Unlocked
    /\ Len(shard) < MaxPages
    /\ \E x \in MapInsert(shard, "loading", charge[t]) :
         \E r \in settle_bookkeeping([note_table(x) EXCEPT !.book = @ + charge[t]]) :
            shard' = r[2]
    /\ charge' = [charge EXCEPT ![t] = 0]
    /\ Goto(t, "load")

\* The marker goes in: map.insert, note_table, absorb, settle_bookkeeping.
Insert(t) ==
    /\ pc[t] = "reserved"
    /\ Unlocked
    /\ Len(shard) < MaxPages
    /\ charge[t] >= growth_for_one_more(shard)
    /\ \E x \in MapInsert(shard, "loading", charge[t]) :
         \E r \in settle_bookkeeping([note_table(x) EXCEPT !.book = @ + charge[t]]) :
            shard' = r[2]
    /\ charge' = [charge EXCEPT ![t] = 0]
    /\ Goto(t, "load")

\* Mutation: the room the marker took is kept.
AbandonKeepingRoom(t) ==
    /\ pc[t] = "load"
    /\ Unlocked
    /\ shard' \in MapRemove(shard, "loading")
    /\ Goto(t, "idle")
    /\ UNCHANGED charge

\* The load failed or unwound.
Abandon(t) ==
    /\ pc[t] = "load"
    /\ Unlocked
    /\ \E x \in MapRemove(shard, "loading") : shard' \in release_bookkeeping(x)
    /\ Goto(t, "idle")
    /\ UNCHANGED charge

\* The page replaces its marker: map.remove, map.insert, clock.push_back, note_table.
Publish(t) ==
    /\ pc[t] = "load"
    /\ Unlocked
    /\ \E x \in MapRemove(shard, "loading") :
         \E y \in MapInsert(x, "ready", 0) : shard' = note_table(RingPush(y))
    /\ Goto(t, "capacity")
    /\ UNCHANGED charge

\* evict_down_to_capacity: as many evictions as the capacity asks for.
CapacityEvict(t) ==
    /\ pc[t] = "capacity"
    /\ shard.ready > 0
    /\ shard' \in evict_one(shard)
    /\ UNCHANGED <<pc, charge>>

CapacityDone(t) ==
    /\ pc[t] = "capacity"
    /\ Goto(t, "settle")
    /\ UNCHANGED <<shard, charge>>

\* The loop that gives up pages until the table can be paid for.
PublishSettle(t) ==
    /\ pc[t] = "settle"
    /\ \E r \in settle_bookkeeping(shard) :
         CASE r[1] -> shard' = r[2] /\ Goto(t, "idle")
           [] ~r[1] /\ shard.ready > 0 -> shard' \in evict_one(shard) /\ UNCHANGED pc
           [] ~r[1] /\ shard.ready = 0 -> Goto(t, "resettle") /\ UNCHANGED shard
    /\ UNCHANGED charge

\* Nothing is left to give up.
PublishResettle(t) ==
    /\ pc[t] = "resettle"
    /\ \E r \in settle_bookkeeping(shard) :
         IF r[1] THEN shard' = r[2] ELSE shard' \in release_bookkeeping(shard)
    /\ Goto(t, "idle")
    /\ UNCHANGED charge

\* evict_bytes takes a page from the shard.
Reclaim ==
    /\ Unlocked
    /\ shard.ready > 0
    /\ shard' \in evict_one(shard)
    /\ UNCHANGED <<pc, charge>>

Next ==
    \/ \E t \in Threads :
        \/ Ask(t) \/ GiveUp(t) \/ Insert(t) \/ Abandon(t) \/ Publish(t)
        \/ CapacityEvict(t) \/ CapacityDone(t) \/ PublishSettle(t) \/ PublishResettle(t)
    \/ Reclaim

Spec == Init /\ [][Next]_vars

-----------------------------------------------------------------------------
\* Memory is reserved before it is allocated: whenever a marker going in moves the map to
\* a new allocation, or the ring grows, or either is shrunk, the old one and the new one
\* together are within what is charged for the shard at that moment, whatever other
\* threads inserted, published, evicted or shrank since the reservation was worked out.
\* Only the ring's growth relies on no page's having moved the map before.
ReservedBeforeAllocated == shard.covered

\* The same of every allocation, those of a page replacing its marker included.
AllocationsCovered == shard.covered /\ ~shard.moved

\* Between critical sections the shard is charged for what its map and its ring have
\* allocated and for the pushes still to come: settling never has to grow the charge,
\* in particular not after a marker has gone in, unless a page replacing its marker
\* has moved the map.  map_slots, which the charge is worked out from, never understates
\* the buckets, although the capacity the map reports falls as entries go.
BookCoversFootprint ==
    Unlocked =>
        /\ shard.slots <= shard.mapSlots
        /\ ~shard.moved => shard.book >= bookkeeping_footprint(shard)

\* An empty shard keeps nothing: with no page and no load the map is given back, and with
\* it the ring and the charge.  The exception is a map that removed entries had used up:
\* its capacity reads zero before it is rebuilt and after, so map_slots stays behind.  A
\* page's replacing its marker may also have moved the map to one not charged for yet.
EmptyShardGivesAllBack ==
    Unlocked /\ Len(shard) = 0 /\ ~shard.moved =>
        shard.slots = 0 /\ (shard.mapSlots = 0 => Allocated(shard) = 0 /\ shard.book = 0)
=============================================================================
