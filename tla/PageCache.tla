----------------------------- MODULE PageCache -----------------------------
(***************************************************************************)
(* The sharded page cache of crates/drydb/src/cache.rs: a miss leaves an   *)
(* in-flight marker in its shard, loads with the shard unlocked, and       *)
(* publishes; callers that meet the marker sleep on the shard's condition  *)
(* variable; a CLOCK ring chooses what to evict.                           *)
(*                                                                         *)
(* A step is one critical section of a shard lock, except that a lock kept *)
(* across an eviction loop is held explicitly and every pass of evict_one  *)
(* over one ring entry is a step of its own: other threads, and the other  *)
(* shards, move in between.  What the shard's tables cost is not here (the *)
(* counters of module ShardBook have it): whether the reservation covers   *)
(* the entry, and whether the bookkeeping can be settled, is a choice.     *)
(***************************************************************************)
EXTENDS Naturals, Sequences, FiniteSets

CONSTANTS Threads,
          Pages,            \* page ordinals
          ShardCount,       \* a power of two in the code
          ShardOf,          \* ShardOf[p]: PageCache::shard_of, any placement
          PageBytes,        \* PageBytes[p]: what the cache counts page p as
          CapacityPerShard,
          ReserveAttempts,  \* RESERVE_ATTEMPTS
          Nobody            \* the holder of a free lock

Shards == 0..(ShardCount - 1)

ASSUME PageCacheAssumption ==
    /\ IsFiniteSet(Pages)
    /\ ShardCount \in Nat \ {0}
    /\ ShardOf \in [Pages -> Shards]
    /\ PageBytes \in [Pages -> Nat]
    /\ CapacityPerShard \in Nat \ {0}
    /\ ReserveAttempts \in Nat
    /\ Nobody \notin Threads

VARIABLES slot,         \* slot[p]: the entry of p in its shard's map
          referenced,   \* the Ready pages whose CLOCK bit is set
          clock,        \* clock[s]: the ring of shard s
          resident,     \* resident[s]: bytes of the pages the shard retains
          pending,      \* pending[s]: ShardInner::pending_pushes
          lock,         \* lock[s]: the thread inside a multi-step critical section
          pc, page,     \* where each thread is, and the page it was called for
          charged,      \* charged[t]: slot_charge.is_some()
          attempts,     \* attempts[t]: retries after the shard grew underneath
          at,           \* at[t]: the shard whose ring t is sweeping
          steps,        \* steps[t]: evict_one's step budget
          why,          \* why[t]: which loop evict_one returns to
          idle,         \* idle[t]: evict_bytes's run of shards with nothing to give
          back          \* back[t]: what t was doing when it called evict_bytes

shardVars == <<slot, referenced, clock, resident, pending>>
sweepVars == <<at, steps, why, idle, back>>
vars == <<shardVars, lock, pc, page, charged, attempts, sweepVars>>

PCs == {"idle", "look", "wait", "reserve", "load", "publish", "abandon",
        "capacity", "settle", "sweep", "resettle", "notify", "evict"}

\* Threads that hold the lock of shard at[t] between steps.
Holding == {"capacity", "settle", "sweep", "resettle"}

\* Threads that own an in-flight marker for page[t].
InFlight(t) ==
    \/ pc[t] \in {"load", "publish", "abandon"}
    \/ pc[t] \in {"evict", "sweep"} /\ back[t] = "load"

TypeOK ==
    /\ slot \in [Pages -> {"None", "Loading", "Ready"}]
    /\ referenced \in SUBSET Pages
    /\ clock \in [Shards -> Seq(Pages)]
    /\ resident \in [Shards -> Nat]
    /\ pending \in [Shards -> Nat]
    /\ lock \in [Shards -> Threads \cup {Nobody}]
    /\ pc \in [Threads -> PCs]
    /\ page \in [Threads -> Pages]
    /\ charged \in [Threads -> BOOLEAN]
    /\ attempts \in [Threads -> 0..ReserveAttempts]
    /\ at \in [Threads -> Shards]
    /\ steps \in [Threads -> Nat]
    /\ why \in [Threads -> {"capacity", "settle", "reclaim"}]
    /\ idle \in [Threads -> 0..ShardCount]
    /\ back \in [Threads -> {"idle", "reserve", "load"}]

Init ==
    /\ slot = [p \in Pages |-> "None"]
    /\ referenced = {}
    /\ clock = [s \in Shards |-> <<>>]
    /\ resident = [s \in Shards |-> 0]
    /\ pending = [s \in Shards |-> 0]
    /\ lock = [s \in Shards |-> Nobody]
    /\ pc = [t \in Threads |-> "idle"]
    /\ page \in [Threads -> Pages]
    /\ charged = [t \in Threads |-> FALSE]
    /\ attempts = [t \in Threads |-> 0]
    /\ at = [t \in Threads |-> 0]
    /\ steps = [t \in Threads |-> 0]
    /\ why = [t \in Threads |-> "reclaim"]
    /\ idle = [t \in Threads |-> 0]
    /\ back = [t \in Threads |-> "idle"]

-----------------------------------------------------------------------------
Goto(t, label) == pc' = [pc EXCEPT ![t] = label]

\* get_or_load returns and its locals go out of scope, slot_charge with them.
Leave(t) ==
    /\ Goto(t, "idle")
    /\ charged' = [charged EXCEPT ![t] = FALSE]
    /\ attempts' = [attempts EXCEPT ![t] = 0]

Shard(t) == ShardOf[page[t]]

Unlocked(s) == lock[s] = Nobody

\* get_or_load is called.
Call(t, p) ==
    /\ pc[t] = "idle"
    /\ Goto(t, "look")
    /\ page' = [page EXCEPT ![t] = p]
    /\ UNCHANGED <<shardVars, lock, charged, attempts, sweepVars>>

\* get: the cache-only lookup.  A miss changes nothing.
Get(t, p) ==
    /\ pc[t] = "idle"
    /\ Unlocked(ShardOf[p])
    /\ slot[p] = "Ready"
    /\ referenced' = referenced \cup {p}
    /\ UNCHANGED <<slot, clock, resident, pending, lock, pc, page, charged,
                   attempts, sweepVars>>

\* One turn of get_or_load's loop, with the shard locked.
Look(t) == pc[t] = "look" /\ Unlocked(Shard(t))

Hit(t) ==
    /\ Look(t)
    /\ slot[page[t]] = "Ready"
    /\ referenced' = referenced \cup {page[t]}
    /\ Leave(t)
    /\ UNCHANGED <<slot, clock, resident, pending, lock, page, sweepVars>>

\* The page is in flight: sleep on the condition variable.
Wait(t) ==
    /\ Look(t)
    /\ slot[page[t]] = "Loading"
    /\ Goto(t, "wait")
    /\ UNCHANGED <<shardVars, lock, page, charged, attempts, sweepVars>>

\* A miss with nothing reserved: unlock and go and reserve.
Ask(t) ==
    /\ Look(t)
    /\ slot[page[t]] = "None"
    /\ ~charged[t]
    /\ Goto(t, "reserve")
    /\ UNCHANGED <<shardVars, lock, page, charged, attempts, sweepVars>>

\* Mutation: attempts is never counted.
ShortForever(t) ==
    /\ Look(t)
    /\ slot[page[t]] = "None"
    /\ charged[t]
    /\ Goto(t, "reserve")
    /\ charged' = [charged EXCEPT ![t] = FALSE]
    /\ UNCHANGED <<shardVars, lock, page, attempts, sweepVars>>

\* The shard grew under another thread and the reservation no longer covers the
\* entry: give it back and, within the bound, reserve again.
Short(t) ==
    /\ Look(t)
    /\ slot[page[t]] = "None"
    /\ charged[t]
    /\ IF attempts[t] + 1 > ReserveAttempts
         THEN Leave(t)
         ELSE /\ Goto(t, "reserve")
              /\ charged' = [charged EXCEPT ![t] = FALSE]
              /\ attempts' = [attempts EXCEPT ![t] = @ + 1]
    /\ UNCHANGED <<shardVars, lock, page, sweepVars>>

\* The marker goes in.
Claim(t) ==
    /\ Look(t)
    /\ slot[page[t]] = "None"
    /\ charged[t]
    /\ slot' = [slot EXCEPT ![page[t]] = "Loading"]
    /\ pending' = [pending EXCEPT ![Shard(t)] = @ + 1]
    /\ charged' = [charged EXCEPT ![t] = FALSE]
    /\ attempts' = [attempts EXCEPT ![t] = 0]
    /\ Goto(t, "load")
    /\ UNCHANGED <<referenced, clock, resident, lock, page, sweepVars>>

\* The caller's reserve succeeds or fails.
Reserved(t) ==
    /\ pc[t] = "reserve"
    /\ charged' = [charged EXCEPT ![t] = TRUE]
    /\ Goto(t, "look")
    /\ UNCHANGED <<shardVars, lock, page, attempts, sweepVars>>

ReserveFailed(t) ==
    /\ pc[t] = "reserve"
    /\ Leave(t)
    /\ UNCHANGED <<shardVars, lock, page, sweepVars>>

\* load() returns a page, or returns an error or unwinds.
Loaded(t) ==
    /\ pc[t] = "load"
    /\ Goto(t, "publish")
    /\ UNCHANGED <<shardVars, lock, page, charged, attempts, sweepVars>>

\* Mutation: nothing releases the marker when load unwinds.
LoadUnwinds(t) ==
    /\ pc[t] = "load"
    /\ Leave(t)
    /\ UNCHANGED <<shardVars, lock, page, sweepVars>>

LoadFailed(t) ==
    /\ pc[t] = "load"
    /\ Goto(t, "abandon")
    /\ UNCHANGED <<shardVars, lock, page, charged, attempts, sweepVars>>
-----------------------------------------------------------------------------
\* saturating_sub(1)
Less(n) == IF n > 0 THEN n - 1 ELSE 0

\* The loaded page replaces its marker and joins the ring; the lock is kept for
\* the evictions that follow.
Publish(t) ==
    /\ pc[t] = "publish"
    /\ Unlocked(Shard(t))
    /\ LET p == page[t]
           s == Shard(t)
       IN  /\ slot' = [slot EXCEPT ![p] = "Ready"]
           /\ referenced' = referenced \cup {p}
           /\ clock' = [clock EXCEPT ![s] = Append(@, p)]
           /\ resident' = [resident EXCEPT ![s] = @ + PageBytes[p]]
           /\ pending' = [pending EXCEPT ![s] = Less(@)]
           /\ lock' = [lock EXCEPT ![s] = t]
           /\ at' = [at EXCEPT ![t] = s]
    /\ Goto(t, "capacity")
    /\ UNCHANGED <<page, charged, attempts, steps, why, idle, back>>

\* Mutation: the push that will not come is still counted.
AbandonStillPending(t) ==
    /\ pc[t] = "abandon"
    /\ Unlocked(Shard(t))
    /\ slot' = [slot EXCEPT ![page[t]] = "None"]
    /\ Goto(t, "notify")
    /\ UNCHANGED <<referenced, clock, resident, pending, lock, page, charged,
                   attempts, sweepVars>>

\* Mutation: a failed load wakes nobody.
AbandonSilently(t) ==
    /\ pc[t] = "abandon"
    /\ Unlocked(Shard(t))
    /\ slot' = [slot EXCEPT ![page[t]] = "None"]
    /\ pending' = [pending EXCEPT ![Shard(t)] = Less(@)]
    /\ Goto(t, "idle")
    /\ UNCHANGED <<referenced, clock, resident, lock, page, charged, attempts,
                   sweepVars>>

\* The error arm of get_or_load, and InFlight's Drop when load unwinds.
Abandon(t) ==
    /\ pc[t] = "abandon"
    /\ Unlocked(Shard(t))
    /\ slot' = [slot EXCEPT ![page[t]] = "None"]
    /\ pending' = [pending EXCEPT ![Shard(t)] = Less(@)]
    /\ Goto(t, "notify")
    /\ UNCHANGED <<referenced, clock, resident, lock, page, charged, attempts,
                   sweepVars>>

\* Mutation: one step for each entry of the ring.
SweepOnce(t, s, loop) ==
    /\ steps' = [steps EXCEPT ![t] = Len(clock[s])]
    /\ why' = [why EXCEPT ![t] = loop]
    /\ Goto(t, "sweep")

\* A call of evict_one on shard s from the loop `loop`.
Sweep(t, s, loop) ==
    /\ steps' = [steps EXCEPT ![t] = 2 * Len(clock[s]) + 1]
    /\ why' = [why EXCEPT ![t] = loop]
    /\ Goto(t, "sweep")

\* evict_down_to_capacity's loop head.
Capacity(t) ==
    /\ pc[t] = "capacity"
    /\ IF resident[at[t]] > CapacityPerShard
         THEN Sweep(t, at[t], "capacity")
         ELSE Goto(t, "settle") /\ UNCHANGED <<steps, why>>
    /\ UNCHANGED <<shardVars, lock, page, charged, attempts, at, idle, back>>

Unlock(t) ==
    /\ lock' = [lock EXCEPT ![at[t]] = Nobody]
    /\ at' = [at EXCEPT ![t] = 0]

\* The bookkeeping is settled: publish is done.
Settled(t) ==
    /\ pc[t] \in {"settle", "resettle"}
    /\ Unlock(t)
    /\ Goto(t, "notify")
    /\ UNCHANGED <<shardVars, page, charged, attempts, steps, why, idle, back>>

\* It cannot be paid for: give up a page.
Unsettled(t) ==
    /\ pc[t] = "settle"
    /\ Sweep(t, at[t], "settle")
    /\ UNCHANGED <<shardVars, lock, page, charged, attempts, at, idle, back>>

\* It cannot be paid for with every page given up: give up this one too.
Unpaid(t) ==
    /\ pc[t] = "resettle"
    /\ LET p == page[t]
       IN  IF slot[p] = "Ready"
             THEN /\ slot' = [slot EXCEPT ![p] = "None"]
                  /\ referenced' = referenced \ {p}
                  /\ resident' = [resident EXCEPT ![at[t]] =
                                    IF PageBytes[p] <= @ THEN @ - PageBytes[p] ELSE 0]
             ELSE UNCHANGED <<slot, referenced, resident>>
    /\ Unlock(t)
    /\ Goto(t, "notify")
    /\ UNCHANGED <<clock, pending, page, charged, attempts, steps, why, idle, back>>

\* Mutation: notify_one.
NotifyOne(t) ==
    /\ pc[t] = "notify"
    /\ LET asleep == {u \in Threads : pc[u] = "wait" /\ Shard(u) = Shard(t)}
       IN  IF asleep = {} THEN Goto(t, "idle")
           ELSE \E u \in asleep : pc' = [pc EXCEPT ![t] = "idle", ![u] = "look"]
    /\ UNCHANGED <<shardVars, lock, page, charged, attempts, sweepVars>>

\* notify_all, after the lock is down.
Notify(t) ==
    /\ pc[t] = "notify"
    /\ pc' = [u \in Threads |->
                CASE u = t -> "idle"
                  [] u # t /\ pc[u] = "wait" /\ Shard(u) = Shard(t) -> "look"
                  [] OTHER -> pc[u]]
    /\ UNCHANGED <<shardVars, lock, page, charged, attempts, sweepVars>>

\* A condition variable may wake its waiters unasked.
SpuriousWake(t) ==
    /\ pc[t] = "wait"
    /\ Goto(t, "look")
    /\ UNCHANGED <<shardVars, lock, page, charged, attempts, sweepVars>>

-----------------------------------------------------------------------------
\* evict_bytes is called, by a query's reservation or from inside the reserve or
\* load of a miss; next_victim_shard says where it starts.
EvictBytes(t, s) ==
    /\ pc[t] \in {"idle", "reserve", "load"}
    /\ back' = [back EXCEPT ![t] = pc[t]]
    /\ at' = [at EXCEPT ![t] = s]
    /\ idle' = [idle EXCEPT ![t] = 0]
    /\ Goto(t, "evict")
    /\ UNCHANGED <<shardVars, lock, page, charged, attempts, steps, why>>

\* It locks the next shard and calls evict_one on it.
EvictShard(t) ==
    /\ pc[t] = "evict"
    /\ idle[t] < ShardCount
    /\ Unlocked(at[t])
    /\ lock' = [lock EXCEPT ![at[t]] = t]
    /\ Sweep(t, at[t], "reclaim")
    /\ UNCHANGED <<shardVars, page, charged, attempts, at, idle, back>>

\* It returns: every shard in turn had nothing to give, or the page it has just
\* evicted was enough (a choice: how much was asked for is not modelled).
EvictDone(t) ==
    /\ pc[t] = "evict"
    /\ idle[t] \in {0, ShardCount}
    /\ Goto(t, back[t])
    /\ at' = [at EXCEPT ![t] = 0]
    /\ idle' = [idle EXCEPT ![t] = 0]
    /\ back' = [back EXCEPT ![t] = "idle"]
    /\ UNCHANGED <<shardVars, lock, page, charged, attempts, steps, why>>

\* Mutation: publish's settle loop goes on when there was nothing to evict.
ReturnWithoutBreak(t, found) ==
    /\ steps' = [steps EXCEPT ![t] = 0]
    /\ why' = [why EXCEPT ![t] = "reclaim"]
    /\ IF why[t] \in {"capacity", "settle"}
         THEN Goto(t, why[t]) /\ UNCHANGED <<lock, at, idle>>
         ELSE /\ Goto(t, "evict")
              /\ lock' = [lock EXCEPT ![at[t]] = Nobody]
              /\ at' = [at EXCEPT ![t] = (@ + 1) % ShardCount]
              /\ idle' = [idle EXCEPT ![t] = IF found THEN 0 ELSE @ + 1]

\* evict_one returns to the loop that called it.  `found` says whether a page was
\* evicted.
Return(t, found) ==
    /\ steps' = [steps EXCEPT ![t] = 0]
    /\ why' = [why EXCEPT ![t] = "reclaim"]
    /\ CASE why[t] = "capacity" ->
              /\ Goto(t, IF found THEN "capacity" ELSE "settle")
              /\ UNCHANGED <<lock, at, idle>>
         [] why[t] = "settle" ->
              /\ Goto(t, IF found THEN "settle" ELSE "resettle")
              /\ UNCHANGED <<lock, at, idle>>
         [] OTHER ->
              /\ Goto(t, "evict")
              /\ lock' = [lock EXCEPT ![at[t]] = Nobody]
              /\ at' = [at EXCEPT ![t] = (@ + 1) % ShardCount]
              /\ idle' = [idle EXCEPT ![t] = IF found THEN 0 ELSE @ + 1]

Sweeping(t) == pc[t] = "sweep" /\ steps[t] > 0 /\ clock[at[t]] # <<>>

\* No step is left, or the ring is empty: None.
SweepEnds(t) ==
    /\ pc[t] = "sweep"
    /\ steps[t] = 0 \/ clock[at[t]] = <<>>
    /\ Return(t, FALSE)
    /\ UNCHANGED <<shardVars, page, charged, attempts, back>>

\* Mutation: a referenced page is not put back.
PassWithoutPush(t) ==
    /\ Sweeping(t)
    /\ LET s == at[t]
           p == Head(clock[s])
       IN  /\ slot[p] = "Ready" => p \in referenced
           /\ referenced' = referenced \ {p}
           /\ clock' = [clock EXCEPT ![s] = Tail(@)]
    /\ steps' = [steps EXCEPT ![t] = @ - 1]
    /\ UNCHANGED <<slot, resident, pending, lock, pc, page, charged, attempts,
                   at, why, idle, back>>

\* A referenced page gets its second chance; a stale entry is dropped.
Pass(t) ==
    /\ Sweeping(t)
    /\ LET s == at[t]
           p == Head(clock[s])
       IN  /\ slot[p] = "Ready" => p \in referenced
           /\ referenced' = referenced \ {p}
           /\ clock' = [clock EXCEPT ![s] =
                          IF slot[p] = "Ready" THEN Append(Tail(@), p) ELSE Tail(@)]
    /\ steps' = [steps EXCEPT ![t] = @ - 1]
    /\ UNCHANGED <<slot, resident, pending, lock, pc, page, charged, attempts,
                   at, why, idle, back>>

\* The first unreferenced page goes.
Evict(t) ==
    /\ Sweeping(t)
    /\ LET s == at[t]
           p == Head(clock[s])
       IN  /\ slot[p] = "Ready"
           /\ p \notin referenced
           /\ slot' = [slot EXCEPT ![p] = "None"]
           /\ clock' = [clock EXCEPT ![s] = Tail(@)]
           /\ resident' = [resident EXCEPT ![s] =
                             IF PageBytes[p] <= @ THEN @ - PageBytes[p] ELSE 0]
    /\ Return(t, TRUE)
    /\ UNCHANGED <<referenced, pending, page, charged, attempts, back>>

-----------------------------------------------------------------------------
Step(t) ==
    \/ Hit(t) \/ Wait(t) \/ Ask(t) \/ Short(t) \/ Claim(t)
    \/ Reserved(t) \/ ReserveFailed(t) \/ Loaded(t) \/ LoadFailed(t)
    \/ Publish(t) \/ Abandon(t) \/ Capacity(t)
    \/ Settled(t) \/ Unsettled(t) \/ Unpaid(t) \/ Notify(t)
    \/ EvictShard(t) \/ EvictDone(t)
    \/ SweepEnds(t) \/ Pass(t) \/ Evict(t)

Next ==
    \/ \E t \in Threads, p \in Pages : Call(t, p) \/ Get(t, p)
    \/ \E t \in Threads, s \in Shards : EvictBytes(t, s)
    \/ \E t \in Threads : Step(t) \/ SpuriousWake(t)

Spec == Init /\ [][Next]_vars

\* A thread inside a call keeps being scheduled; reserve and load return, however often
\* they reclaim in between; and a thread with a marker to take out is not kept off its
\* shard's lock for ever by others taking it again and again.
Fairness ==
    \A t \in Threads :
        /\ WF_vars(Step(t))
        /\ SF_vars(Reserved(t) \/ ReserveFailed(t))
        /\ SF_vars(Loaded(t) \/ LoadFailed(t))
        /\ SF_vars(Publish(t) \/ Abandon(t))

FairSpec == Spec /\ Fairness

-----------------------------------------------------------------------------
Ready(s) == {p \in Pages : ShardOf[p] = s /\ slot[p] = "Ready"}
Loading(s) == {p \in Pages : ShardOf[p] = s /\ slot[p] = "Loading"}

\* A page has an in-flight marker exactly while one thread, and only one, is loading
\* it: concurrent misses collapse into one load, no marker outlives its load,
\* whether the load succeeds, fails or unwinds, and no two loads of one page overlap
\* even when the page is evicted and missed again.
SingleFlight ==
    /\ \A p \in Pages : slot[p] = "Loading" <=> \E t \in Threads : InFlight(t) /\ page[t] = p
    /\ \A t, u \in Threads : InFlight(t) /\ InFlight(u) /\ page[t] = page[u] => t = u

\* The ring pushes a shard has promised room for are its markers, so the room
\* release_bookkeeping keeps for them is neither short nor kept for nobody.
PendingIsLoading == \A s \in Shards : pending[s] = Cardinality(Loading(s))

\* One element for every byte of the pages a shard retains.
Retained(s) == UNION {{p} \X (1..PageBytes[p]) : p \in Ready(s)}

\* The ring of a shard lists each of its Ready pages once and nothing else, and resident
\* is their bytes: every cached page can be evicted, and the stale entries evict_one is
\* ready to skip do not arise, not even from the fallback of publish.  Once a publish has
\* let go of its shard they are within its capacity, even when one page alone is larger.
RingIsReady ==
    \A s \in Shards :
        /\ \A p \in Pages : p \in Ready(s) <=> \E i \in DOMAIN clock[s] : clock[s][i] = p
        /\ \A i, j \in DOMAIN clock[s] : clock[s][i] = clock[s][j] => i = j
        /\ resident[s] = Cardinality(Retained(s))
        /\ Unlocked(s) => resident[s] <= CapacityPerShard

\* Threads between taking their marker out and notify_all.
Publishing(t) ==
    \/ pc[t] \in {"capacity", "settle", "resettle", "notify"}
    \/ pc[t] = "sweep" /\ why[t] # "reclaim"

\* No wakeup is lost: a thread asleep on a shard's condition variable waits for a
\* marker that is still there, or somebody who took a marker out of that shard is
\* still to call notify_all.
NoLostWakeup ==
    \A t \in Threads :
        pc[t] = "wait" =>
            \/ slot[page[t]] = "Loading"
            \/ \E u \in Threads : Publishing(u) /\ Shard(u) = Shard(t)

\* evict_one's step bound never cuts a sweep short of a page it could evict, and the
\* last resort of publish finds that its own page has gone with the others.
SweepIsComplete ==
    \A t \in Threads :
        /\ pc[t] = "sweep" /\ steps[t] = 0 => clock[at[t]] = <<>>
        /\ pc[t] = "resettle" => slot[page[t]] # "Ready"

\* Waiters never hang: whoever sleeps on the condition variable is woken, whether the
\* load it waits for succeeds, fails or unwinds.
WaitersWake == \A t \in Threads : pc[t] = "wait" ~> pc[t] # "wait"

\* Every lock that is taken is let go: the eviction loops of publish and evict_bytes
\* end, although other threads keep missing and other shards keep filling.
LocksAreReleased == \A s \in Shards : lock[s] # Nobody ~> lock[s] = Nobody

\* Once no new call starts, every call that is under way returns: retries after a
\* failed load, a spurious wakeup or a shard that grew do not chase each other.
CallsReturn ==
    <>[][\A t \in Threads : pc[t] = "idle" => pc'[t] = "idle"]_vars
        => <>[](\A t \in Threads : pc[t] = "idle")
=============================================================================
