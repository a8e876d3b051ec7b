-------------------------- MODULE PageCacheProofs --------------------------
(***************************************************************************)
(* Proofs about the page cache, for any number of threads, pages and       *)
(* shards, any placement of the pages and any capacity.                    *)
(*                                                                         *)
(* The first part is about markers and waiters and needs nothing of the    *)
(* rings: most steps neither put in nor take out a marker, and are shown   *)
(* once to be quiet.                                                       *)
(***************************************************************************)
EXTENDS PageCache, FiniteSetTheorems, TLAPS

\* Where a thread's locals mean something: `back` while evict_bytes runs, and evict_bytes
\* sweeps a shard only while it has shards left to try.
Tidy ==
    \A t \in Threads :
        /\ back[t] # "idle" => pc[t] = "evict" \/ (pc[t] = "sweep" /\ why[t] = "reclaim")
        /\ pc[t] = "sweep" /\ why[t] = "reclaim" => idle[t] < ShardCount

Markers == SingleFlight /\ NoLostWakeup /\ PendingIsLoading

\* A step that neither adds nor removes a marker, and puts nobody to sleep.
Quiet ==
    /\ \A p \in Pages : slot'[p] = "Loading" <=> slot[p] = "Loading"
    /\ pending' = pending
    /\ \A t \in Threads :
        /\ InFlight(t)' <=> InFlight(t)
        /\ pc'[t] = "wait" => pc[t] = "wait"
        /\ Publishing(t) => Publishing(t)'
        /\ page'[t] = page[t] \/ (~InFlight(t) /\ pc'[t] # "wait" /\ ~Publishing(t))

\* The shard after s is a shard.
LEMMA NextShard == \A s \in Shards : (s + 1) % ShardCount \in Shards
BY PageCacheAssumption DEF Shards


\* Changing a function at one argument keeps its type.
LEMMA Update ==
    ASSUME NEW S, NEW T, NEW f \in [S -> T], NEW x \in S, NEW v \in T
    PROVE  [f EXCEPT ![x] = v] \in [S -> T]
BY ZenonT(60)

\* What the types say of one thread and the shards it uses.
LEMMA Locals ==
    ASSUME TypeOK, NEW t \in Threads
    PROVE  /\ page[t] \in Pages
           /\ PageBytes[page[t]] \in Nat
           /\ Shard(t) \in Shards
           /\ pending[Shard(t)] \in Nat /\ Less(pending[Shard(t)]) \in Nat
           /\ resident[Shard(t)] \in Nat
           /\ at[t] \in Shards
           /\ resident[at[t]] \in Nat
           /\ clock[at[t]] \in Seq(Pages) /\ clock[Shard(t)] \in Seq(Pages)
           /\ steps[t] \in Nat
           /\ idle[t] \in 0..ShardCount /\ 0 \in 0..ShardCount
           /\ attempts[t] \in 0..ReserveAttempts /\ 0 \in 0..ReserveAttempts
           /\ 0 \in Shards
<1>1. page[t] \in Pages /\ Shard(t) \in Shards /\ at[t] \in Shards
  BY ZenonT(60), PageCacheAssumption DEF TypeOK, Shard
<1>2. pending[Shard(t)] \in Nat
  BY ZenonT(60), <1>1 DEF TypeOK
<1>3. Less(pending[Shard(t)]) \in Nat
  BY <1>2 DEF Less
<1>4. /\ resident[Shard(t)] \in Nat /\ resident[at[t]] \in Nat
      /\ clock[at[t]] \in Seq(Pages) /\ clock[Shard(t)] \in Seq(Pages)
  BY ZenonT(60), <1>1 DEF TypeOK
<1>5. steps[t] \in Nat /\ idle[t] \in 0..ShardCount /\ attempts[t] \in 0..ReserveAttempts
  BY ZenonT(60) DEF TypeOK
<1>6. 0 \in 0..ShardCount /\ 0 \in 0..ReserveAttempts /\ 0 \in Shards
  BY PageCacheAssumption DEF Shards
<1>7. PageBytes[page[t]] \in Nat
  BY ZenonT(60), <1>1, PageCacheAssumption
<1> QED
  BY ZenonT(60), <1>1, <1>2, <1>3, <1>4, <1>5, <1>6, <1>7

-----------------------------------------------------------------------------
\* A step that only moves threads along keeps the types.
LEMMA MoveTyped ==
    ASSUME TypeOK, pc' \in [Threads -> PCs],
           UNCHANGED <<shardVars, lock, page, charged, attempts, sweepVars>>
    PROVE  TypeOK'
BY ZenonT(60) DEF TypeOK, shardVars, sweepVars

\* Leaving get_or_load does.
LEMMA LeaveTyped ==
    ASSUME TypeOK, NEW t \in Threads, Leave(t)
    PROVE  /\ pc' \in [Threads -> PCs]
           /\ charged' \in [Threads -> BOOLEAN]
           /\ attempts' \in [Threads -> 0..ReserveAttempts]
<1>1. attempts' \in [Threads -> 0..ReserveAttempts]
  BY ZenonT(60), Locals, Update DEF Leave, TypeOK
<1> QED
  BY ZenonT(60), <1>1 DEF Leave, Goto, TypeOK, PCs

\* Calling evict_one does.
LEMMA SweepTyped ==
    ASSUME TypeOK, NEW t \in Threads, Sweep(t, at[t], "capacity")
                                        \/ Sweep(t, at[t], "settle")
                                        \/ Sweep(t, at[t], "reclaim")
    PROVE  /\ pc' \in [Threads -> PCs]
           /\ steps' \in [Threads -> Nat]
           /\ why' \in [Threads -> {"capacity", "settle", "reclaim"}]
<1>1. 2 * Len(clock[at[t]]) + 1 \in Nat
  BY Locals
<1>2. steps' \in [Threads -> Nat]
  BY ZenonT(60), <1>1, Update DEF Sweep, TypeOK
<1> QED
  BY ZenonT(60), <1>2 DEF Sweep, Goto, TypeOK, PCs

\* Returning from it does.
LEMMA ReturnTyped ==
    ASSUME TypeOK, Tidy, NEW t \in Threads, NEW found \in BOOLEAN, pc[t] = "sweep",
           Return(t, found)
    PROVE  /\ lock' \in [Shards -> Threads \cup {Nobody}]
           /\ pc' \in [Threads -> PCs]
           /\ at' \in [Threads -> Shards]
           /\ steps' \in [Threads -> Nat]
           /\ why' \in [Threads -> {"capacity", "settle", "reclaim"}]
           /\ idle' \in [Threads -> 0..ShardCount]
<1>1. steps' \in [Threads -> Nat] /\ why' \in [Threads -> {"capacity", "settle", "reclaim"}]
  BY ZenonT(60) DEF Return, TypeOK
<1>2. CASE why[t] = "reclaim"
  <2>1. idle[t] + 1 \in 0..ShardCount
    BY <1>2, Locals, PageCacheAssumption DEF Tidy
  <2>2. (IF found THEN 0 ELSE idle[t] + 1) \in 0..ShardCount
    BY ZenonT(60), <2>1, Locals
  <2>3. /\ pc' = [pc EXCEPT ![t] = "evict"]
        /\ lock' = [lock EXCEPT ![at[t]] = Nobody]
        /\ at' = [at EXCEPT ![t] = (@ + 1) % ShardCount]
        /\ idle' = [idle EXCEPT ![t] = IF found THEN 0 ELSE @ + 1]
    BY ZenonT(60), <1>2 DEF Return, Goto
  <2>4. idle' \in [Threads -> 0..ShardCount]
    BY ZenonT(60), <2>2, <2>3, Update DEF TypeOK
  <2>5. (at[t] + 1) % ShardCount \in Shards
    BY ZenonT(60), Locals, NextShard
  <2>6. at' \in [Threads -> Shards]
    BY ZenonT(60), <2>3, <2>5, Update DEF TypeOK
  <2> QED
    BY ZenonT(60), <1>1, <2>3, <2>4, <2>6 DEF TypeOK, PCs
<1>3. CASE why[t] # "reclaim"
  <2>1. why[t] \in {"capacity", "settle"}
    BY ZenonT(60), <1>3 DEF TypeOK
  <2>2. /\ UNCHANGED <<lock, at, idle>>
        /\ \E l \in PCs : pc' = [pc EXCEPT ![t] = l]
    BY ZenonT(60), <2>1 DEF Return, Goto, PCs
  <2> QED
    BY ZenonT(60), <1>1, <2>2 DEF TypeOK
<1> QED
  BY ZenonT(60), <1>2, <1>3

\* Every step keeps the variables in their types.
LEMMA TypeStep == TypeOK /\ Tidy /\ [Next]_vars => TypeOK'
<1> SUFFICES ASSUME TypeOK, Tidy, [Next]_vars PROVE TypeOK'
  BY ZenonT(60)
<1>1. ASSUME NEW t \in Threads, NEW p \in Pages, Call(t, p) PROVE TypeOK'
  BY ZenonT(60), <1>1 DEF Call, Goto, TypeOK, PCs, shardVars, sweepVars
<1>2. ASSUME NEW t \in Threads, NEW p \in Pages, Get(t, p) PROVE TypeOK'
  BY ZenonT(60), <1>2 DEF Get, TypeOK, sweepVars
<1>3. ASSUME NEW t \in Threads, NEW s \in Shards, EvictBytes(t, s) PROVE TypeOK'
  <2>1. pc' \in [Threads -> PCs] /\ back' \in [Threads -> {"idle", "reserve", "load"}]
    BY ZenonT(60), <1>3 DEF EvictBytes, Goto, TypeOK, PCs
  <2>2. at' \in [Threads -> Shards] /\ idle' \in [Threads -> 0..ShardCount]
    BY ZenonT(60), <1>3, Locals, Update DEF EvictBytes, TypeOK
  <2> QED
    BY ZenonT(60), <1>3, <2>1, <2>2 DEF EvictBytes, TypeOK, shardVars
<1>4. ASSUME NEW t \in Threads, Hit(t) PROVE TypeOK'
  <2>1. page[t] \in Pages
    BY ZenonT(60), Locals
  <2> QED
    BY ZenonT(60), <1>4, <2>1, LeaveTyped DEF Hit, TypeOK, sweepVars
<1>5. ASSUME NEW t \in Threads, Wait(t) PROVE TypeOK'
  BY ZenonT(60), <1>5, MoveTyped DEF Wait, Goto, TypeOK, PCs
<1>6. ASSUME NEW t \in Threads, Ask(t) PROVE TypeOK'
  BY ZenonT(60), <1>6, MoveTyped DEF Ask, Goto, TypeOK, PCs
<1>7. ASSUME NEW t \in Threads, Short(t) PROVE TypeOK'
  <2>1. CASE attempts[t] + 1 > ReserveAttempts
    BY ZenonT(60), <1>7, <2>1, LeaveTyped DEF Short, TypeOK, shardVars, sweepVars
  <2>2. CASE ~(attempts[t] + 1 > ReserveAttempts)
    <3>1. attempts[t] + 1 \in 0..ReserveAttempts
      BY <2>2, Locals, PageCacheAssumption
    <3>2. attempts' \in [Threads -> 0..ReserveAttempts]
      BY ZenonT(60), <1>7, <2>2, <3>1, Update DEF Short, TypeOK
    <3>3. pc' \in [Threads -> PCs] /\ charged' \in [Threads -> BOOLEAN]
      BY ZenonT(60), <1>7, <2>2 DEF Short, Goto, TypeOK, PCs
    <3> QED
      BY ZenonT(60), <1>7, <3>2, <3>3 DEF Short, TypeOK, shardVars, sweepVars
  <2> QED
    BY ZenonT(60), <2>1, <2>2
<1>8. ASSUME NEW t \in Threads, Claim(t) PROVE TypeOK'
  <2>1. /\ pc' \in [Threads -> PCs]
        /\ charged' \in [Threads -> BOOLEAN]
        /\ slot' \in [Pages -> {"None", "Loading", "Ready"}]
    BY ZenonT(60), <1>8 DEF Claim, Goto, TypeOK, PCs
  <2>2. attempts' \in [Threads -> 0..ReserveAttempts]
    BY ZenonT(60), <1>8, Locals, Update DEF Claim, TypeOK
  <2>3. pending' \in [Shards -> Nat]
    <3>1. pending[Shard(t)] + 1 \in Nat
      BY Locals
    <3> QED
      BY ZenonT(60), <1>8, <3>1, Locals, Update DEF Claim, TypeOK
  <2> QED
    BY ZenonT(60), <1>8, <2>1, <2>2, <2>3 DEF Claim, TypeOK, sweepVars
<1>9. ASSUME NEW t \in Threads, Reserved(t) PROVE TypeOK'
  BY ZenonT(60), <1>9 DEF Reserved, Goto, TypeOK, PCs, shardVars, sweepVars
<1>10. ASSUME NEW t \in Threads, ReserveFailed(t) PROVE TypeOK'
  BY ZenonT(60), <1>10, LeaveTyped DEF ReserveFailed, TypeOK, shardVars, sweepVars
<1>11. ASSUME NEW t \in Threads, Loaded(t) PROVE TypeOK'
  BY ZenonT(60), <1>11, MoveTyped DEF Loaded, Goto, TypeOK, PCs
<1>12. ASSUME NEW t \in Threads, LoadFailed(t) PROVE TypeOK'
  BY ZenonT(60), <1>12, MoveTyped DEF LoadFailed, Goto, TypeOK, PCs
<1>13. ASSUME NEW t \in Threads, Publish(t) PROVE TypeOK'
  <2>1. pc' \in [Threads -> PCs] /\ slot' \in [Pages -> {"None", "Loading", "Ready"}]
    BY ZenonT(60), <1>13 DEF Publish, Goto, TypeOK, PCs
  <2>2. pending' \in [Shards -> Nat] /\ referenced' \in SUBSET Pages
    BY ZenonT(60), <1>13, Locals DEF Publish, TypeOK
  <2>3. resident' \in [Shards -> Nat]
    <3>1. resident[Shard(t)] + PageBytes[page[t]] \in Nat
      BY Locals
    <3> QED
      BY ZenonT(60), <1>13, <3>1, Locals, Update DEF Publish, TypeOK
  <2>4. Append(clock[Shard(t)], page[t]) \in Seq(Pages)
    BY Locals
  <2>5. clock' \in [Shards -> Seq(Pages)]
    BY ZenonT(60), <1>13, <2>4, Locals, Update DEF Publish, TypeOK
  <2>6. lock' \in [Shards -> Threads \cup {Nobody}] /\ at' \in [Threads -> Shards]
    BY ZenonT(60), <1>13, Locals DEF Publish, TypeOK
  <2> QED
    BY ZenonT(60), <1>13, <2>1, <2>2, <2>3, <2>5, <2>6 DEF Publish, TypeOK
<1>14. ASSUME NEW t \in Threads, Abandon(t) PROVE TypeOK'
  <2>1. pc' \in [Threads -> PCs] /\ slot' \in [Pages -> {"None", "Loading", "Ready"}]
    BY ZenonT(60), <1>14 DEF Abandon, Goto, TypeOK, PCs
  <2>2. pending' \in [Shards -> Nat]
    BY ZenonT(60), <1>14, Locals DEF Abandon, TypeOK
  <2> QED
    BY ZenonT(60), <1>14, <2>1, <2>2 DEF Abandon, TypeOK, sweepVars
<1>15. ASSUME NEW t \in Threads, Capacity(t) PROVE TypeOK'
  <2>1. CASE resident[at[t]] > CapacityPerShard
    BY ZenonT(60), <1>15, <2>1, SweepTyped DEF Capacity, TypeOK, shardVars
  <2>2. CASE ~(resident[at[t]] > CapacityPerShard)
    BY ZenonT(60), <1>15, <2>2 DEF Capacity, Goto, TypeOK, PCs, shardVars
  <2> QED
    BY ZenonT(60), <2>1, <2>2
<1>16. ASSUME NEW t \in Threads, Unlock(t)
       PROVE  lock' \in [Shards -> Threads \cup {Nobody}] /\ at' \in [Threads -> Shards]
  BY ZenonT(60), <1>16, Locals DEF Unlock, TypeOK
<1>17. ASSUME NEW t \in Threads, Settled(t) PROVE TypeOK'
  <2>1. pc' \in [Threads -> PCs]
    BY ZenonT(60), <1>17 DEF Settled, Goto, TypeOK, PCs
  <2> QED
    BY ZenonT(60), <1>16, <1>17, <2>1 DEF Settled, TypeOK, shardVars
<1>18. ASSUME NEW t \in Threads, Unsettled(t) PROVE TypeOK'
  BY ZenonT(60), <1>18, SweepTyped DEF Unsettled, TypeOK, shardVars
<1>19. ASSUME NEW t \in Threads, Unpaid(t) PROVE TypeOK'
  <2>1. /\ pc' \in [Threads -> PCs]
        /\ slot' \in [Pages -> {"None", "Loading", "Ready"}]
        /\ referenced' \in SUBSET Pages
    BY ZenonT(60), <1>19 DEF Unpaid, Goto, TypeOK, PCs
  <2> DEFINE rest == IF PageBytes[page[t]] <= resident[at[t]]
                       THEN resident[at[t]] - PageBytes[page[t]] ELSE 0
  <2>2. rest \in Nat
    BY Locals
  <2>3. resident' = resident \/ resident' = [resident EXCEPT ![at[t]] = rest]
    BY ZenonT(60), <1>19 DEF Unpaid
  <2> HIDE DEF rest
  <2>4. resident' \in [Shards -> Nat]
    BY SMTT(40), <2>2, <2>3, Locals, Update DEF TypeOK
  <2> QED
    BY ZenonT(60), <1>16, <1>19, <2>1, <2>4 DEF Unpaid, TypeOK
<1>20. ASSUME NEW t \in Threads, Notify(t) PROVE TypeOK'
  <2>1. pc' \in [Threads -> PCs]
    BY ZenonT(60), <1>20 DEF Notify, TypeOK, PCs
  <2> QED
    BY ZenonT(60), <1>20, <2>1, MoveTyped DEF Notify
<1>21. ASSUME NEW t \in Threads, SpuriousWake(t) PROVE TypeOK'
  BY ZenonT(60), <1>21, MoveTyped DEF SpuriousWake, Goto, TypeOK, PCs
<1>22. ASSUME NEW t \in Threads, EvictShard(t) PROVE TypeOK'
  BY ZenonT(60), <1>22, SweepTyped, Locals DEF EvictShard, TypeOK, shardVars
<1>23. ASSUME NEW t \in Threads, EvictDone(t) PROVE TypeOK'
  <2>1. pc' \in [Threads -> PCs] /\ back' \in [Threads -> {"idle", "reserve", "load"}]
    BY ZenonT(60), <1>23 DEF EvictDone, Goto, TypeOK, PCs
  <2>2. at' \in [Threads -> Shards] /\ idle' \in [Threads -> 0..ShardCount]
    BY ZenonT(60), <1>23, Locals, Update DEF EvictDone, TypeOK
  <2> QED
    BY ZenonT(60), <1>23, <2>1, <2>2 DEF EvictDone, TypeOK, shardVars
<1>24. ASSUME NEW t \in Threads, SweepEnds(t) PROVE TypeOK'
  BY ZenonT(60), <1>24, ReturnTyped DEF SweepEnds, TypeOK, shardVars
<1>25. ASSUME NEW t \in Threads, Pass(t) PROVE TypeOK'
  <2>1. referenced' \in SUBSET Pages
    BY ZenonT(60), <1>25 DEF Pass, TypeOK
  <2>2. clock' \in [Shards -> Seq(Pages)]
    BY <1>25 DEF Pass, Sweeping, TypeOK
  <2>3. steps' \in [Threads -> Nat]
    BY SMTT(40), <1>25 DEF Pass, Sweeping, TypeOK
  <2> QED
    BY ZenonT(60), <1>25, <2>1, <2>2, <2>3 DEF Pass, TypeOK
<1>26. ASSUME NEW t \in Threads, Evict(t) PROVE TypeOK'
  <2> DEFINE p == Head(clock[at[t]])
             rest == IF PageBytes[p] <= resident[at[t]]
                       THEN resident[at[t]] - PageBytes[p] ELSE 0
  <2>1. p \in Pages /\ Tail(clock[at[t]]) \in Seq(Pages)
    BY <1>26, Locals DEF Evict, Sweeping
  <2>2. rest \in Nat
    BY SMTT(40), <2>1, Locals, PageCacheAssumption
  <2>3. slot' = [slot EXCEPT ![p] = "None"] /\ resident' = [resident EXCEPT ![at[t]] = rest]
    BY ZenonT(60), <1>26 DEF Evict
  <2> HIDE DEF p, rest
  <2>4. /\ slot' \in [Pages -> {"None", "Loading", "Ready"}]
        /\ resident' \in [Shards -> Nat]
    BY ZenonT(60), <2>1, <2>2, <2>3, Locals, Update DEF TypeOK
  <2>5. clock' \in [Shards -> Seq(Pages)]
    BY ZenonT(60), <1>26, <2>1, Locals, Update DEF Evict, TypeOK
  <2> QED
    BY ZenonT(60), <1>26, <2>4, <2>5, ReturnTyped DEF Evict, Sweeping, TypeOK
<1>27. CASE UNCHANGED vars
  BY ZenonT(60), <1>27 DEF TypeOK, vars, shardVars, sweepVars
<1> QED
  BY ZenonT(60), <1>1, <1>2, <1>3, <1>4, <1>5, <1>6, <1>7, <1>8, <1>9, <1>10, <1>11, <1>12, <1>13,
     <1>14, <1>15, <1>17, <1>18, <1>19, <1>20, <1>21, <1>22, <1>23, <1>24, <1>25, <1>26,
     <1>27 DEF Next, Step

-----------------------------------------------------------------------------
\* Only EvictBytes, EvictShard, EvictDone, the sweeps and their callers touch what Tidy
\* is about.
LEMMA TidyStep == TypeOK /\ Tidy /\ [Next]_vars => Tidy'
<1> SUFFICES ASSUME TypeOK, Tidy, [Next]_vars PROVE Tidy'
  BY ZenonT(60)
<1>1. ASSUME NEW t \in Threads, NEW l \in PCs \ {"sweep", "evict"},
             pc' = [pc EXCEPT ![t] = l], back[t] = "idle",
             UNCHANGED <<why, idle, back>>
      PROVE  Tidy'
  BY ZenonT(60), <1>1 DEF Tidy, TypeOK
<1>2. ASSUME NEW t \in Threads, pc[t] \notin {"sweep", "evict"} PROVE back[t] = "idle"
  BY ZenonT(60), <1>2 DEF Tidy, TypeOK
<1>3. ASSUME NEW t \in Threads, NEW p \in Pages, Call(t, p) \/ Get(t, p) PROVE Tidy'
  BY <1>1, <1>2, <1>3 DEF Call, Get, Goto, PCs, sweepVars, Tidy
<1>4. ASSUME NEW t \in Threads, NEW s \in Shards, EvictBytes(t, s) PROVE Tidy'
  BY ZenonT(60), <1>4 DEF EvictBytes, Goto, Tidy, TypeOK
<1>5. ASSUME NEW t \in Threads, Hit(t) \/ Wait(t) \/ Ask(t) \/ Claim(t) PROVE Tidy'
  BY ZenonT(60), <1>1, <1>2, <1>5 DEF Hit, Wait, Ask, Claim, Look, Leave, Goto, PCs, sweepVars
<1>6. ASSUME NEW t \in Threads, Short(t) PROVE Tidy'
  BY ZenonT(60), <1>1, <1>2, <1>6 DEF Short, Look, Leave, Goto, PCs, sweepVars
<1>7. ASSUME NEW t \in Threads, Reserved(t) \/ ReserveFailed(t) \/ Loaded(t) \/ LoadFailed(t)
      PROVE Tidy'
  BY ZenonT(60), <1>1, <1>2, <1>7
     DEF Reserved, ReserveFailed, Loaded, LoadFailed, Leave, Goto, PCs, sweepVars
<1>8. ASSUME NEW t \in Threads, Publish(t) \/ Abandon(t) PROVE Tidy'
  BY ZenonT(60), <1>1, <1>2, <1>8 DEF Publish, Abandon, Goto, PCs, sweepVars
<1>9. ASSUME NEW t \in Threads, NEW loop \in {"capacity", "settle"},
             Sweep(t, at[t], loop), back[t] = "idle", UNCHANGED <<idle, back>>
      PROVE  Tidy'
  BY ZenonT(60), <1>9 DEF Sweep, Goto, Tidy, TypeOK
<1>10. ASSUME NEW t \in Threads, Capacity(t) PROVE Tidy'
  BY ZenonT(60), <1>1, <1>2, <1>9, <1>10 DEF Capacity, Goto, PCs
<1>11. ASSUME NEW t \in Threads, Settled(t) \/ Unsettled(t) \/ Unpaid(t) PROVE Tidy'
  BY ZenonT(60), <1>1, <1>2, <1>9, <1>11 DEF Settled, Unsettled, Unpaid, Goto, PCs
<1>12. ASSUME NEW t \in Threads, Notify(t) PROVE Tidy'
  BY ZenonT(60), <1>12 DEF Notify, Tidy, TypeOK, sweepVars
<1>13. ASSUME NEW t \in Threads, SpuriousWake(t) PROVE Tidy'
  BY ZenonT(60), <1>1, <1>2, <1>13 DEF SpuriousWake, Goto, PCs, sweepVars
<1>14. ASSUME NEW t \in Threads, EvictShard(t) PROVE Tidy'
  BY ZenonT(60), <1>14 DEF EvictShard, Sweep, Goto, Tidy, TypeOK
<1>15. ASSUME NEW t \in Threads, EvictDone(t) PROVE Tidy'
  BY ZenonT(60), <1>15 DEF EvictDone, Goto, Tidy, TypeOK
<1>16. ASSUME NEW t \in Threads, NEW found \in BOOLEAN, pc[t] = "sweep", Return(t, found),
              UNCHANGED back
       PROVE  Tidy'
  <2>1. CASE why[t] = "reclaim"
    BY <1>16, <2>1 DEF Return, Goto, Tidy, TypeOK
  <2>2. CASE why[t] = "capacity"
    BY <1>16, <2>2 DEF Return, Goto, Tidy, TypeOK
  <2>3. CASE why[t] = "settle"
    BY SMTT(40), <1>16, <2>3 DEF Return, Goto, Tidy, TypeOK
  <2> QED
    BY ZenonT(60), <2>1, <2>2, <2>3 DEF TypeOK
<1>17. ASSUME NEW t \in Threads, SweepEnds(t) \/ Evict(t) PROVE Tidy'
  BY ZenonT(60), <1>16, <1>17 DEF SweepEnds, Evict, Sweeping
<1>18. ASSUME NEW t \in Threads, Pass(t) PROVE Tidy'
  BY ZenonT(60), <1>18 DEF Pass, Tidy
<1>19. CASE UNCHANGED vars
  BY ZenonT(60), <1>19 DEF Tidy, vars, sweepVars
<1> QED
  BY ZenonT(60), <1>3, <1>4, <1>5, <1>6, <1>7, <1>8, <1>10, <1>11, <1>12, <1>13, <1>14, <1>15, <1>17,
     <1>18, <1>19 DEF Next, Step

-----------------------------------------------------------------------------
\* A quiet step leaves the markers and the sleepers as they were.
LEMMA QuietMarkers == TypeOK /\ Markers /\ Quiet => Markers'
<1> SUFFICES ASSUME TypeOK, Markers, Quiet PROVE Markers'
  BY ZenonT(60)
<1>1. SingleFlight'
  BY DEF Markers, SingleFlight, Quiet
<1>2. NoLostWakeup'
  <2> SUFFICES ASSUME NEW t \in Threads, pc'[t] = "wait"
               PROVE  \/ slot'[page'[t]] = "Loading"
                      \/ \E u \in Threads : Publishing(u)' /\ Shard(u)' = Shard(t)'
    BY ZenonT(60) DEF NoLostWakeup
  <2>1. pc[t] = "wait" /\ page'[t] = page[t] /\ page[t] \in Pages
    BY ZenonT(60) DEF Quiet, TypeOK
  <2>2. CASE slot[page[t]] = "Loading"
    BY ZenonT(60), <2>1, <2>2 DEF Quiet
  <2>3. ASSUME NEW u \in Threads, Publishing(u), Shard(u) = Shard(t)
        PROVE  Publishing(u)' /\ Shard(u)' = Shard(t)'
    BY ZenonT(60), <2>1, <2>3 DEF Quiet, Shard
  <2> QED
    BY ZenonT(60), <2>1, <2>2, <2>3 DEF Markers, NoLostWakeup
<1>3. PendingIsLoading'
  <2>1. ASSUME NEW s \in Shards PROVE Loading(s)' = Loading(s)
    BY ZenonT(60) DEF Loading, Quiet
  <2> QED
    BY ZenonT(60), <2>1 DEF Markers, PendingIsLoading, Quiet
<1> QED
  BY ZenonT(60), <1>1, <1>2, <1>3 DEF Markers

\* Nearly every step is quiet.
LEMMA QuietSteps ==
    ASSUME TypeOK, Tidy, NEW t \in Threads,
           \/ \E p \in Pages : Call(t, p) \/ Get(t, p)
           \/ \E s \in Shards : EvictBytes(t, s)
           \/ Hit(t) \/ Ask(t) \/ Short(t) \/ Reserved(t) \/ ReserveFailed(t)
           \/ Loaded(t) \/ LoadFailed(t) \/ Capacity(t) \/ Settled(t) \/ Unsettled(t)
           \/ Unpaid(t) \/ SpuriousWake(t) \/ EvictShard(t) \/ EvictDone(t)
           \/ SweepEnds(t) \/ Pass(t) \/ Evict(t)
    PROVE  Quiet
<1> USE DEF InFlight, Publishing, Goto
\* Markers, promised pushes and pages stay; t moves between two places that own a
\* marker, or two that do not, and only away from publishing nothing.
<1>1. ASSUME NEW l, pc' = [pc EXCEPT ![t] = l], l # "wait", UNCHANGED <<pending, page>>,
             \A p \in Pages : slot'[p] = "Loading" <=> slot[p] = "Loading",
             InFlight(t)' <=> InFlight(t), Publishing(t) => Publishing(t)',
             \A u \in Threads \ {t} : why'[u] = why[u] /\ back'[u] = back[u]
      PROVE  Quiet
  BY ZenonT(60), <1>1 DEF Quiet, TypeOK
<1>2. ASSUME NEW p \in Pages, Call(t, p) PROVE Quiet
  BY ZenonT(60), <1>2 DEF Call, Quiet, TypeOK, shardVars, sweepVars
<1>3. ASSUME NEW p \in Pages, Get(t, p) PROVE Quiet
  BY ZenonT(60), <1>3 DEF Get, Quiet, TypeOK, sweepVars
<1>4. ASSUME NEW s \in Shards, EvictBytes(t, s) PROVE Quiet
  BY ZenonT(60), <1>1, <1>4 DEF EvictBytes, TypeOK, shardVars
<1>5. ASSUME Hit(t) \/ Ask(t) PROVE Quiet
  BY ZenonT(60), <1>1, <1>5 DEF Hit, Ask, Look, Leave, TypeOK, shardVars, sweepVars
<1>6. ASSUME Short(t) PROVE Quiet
  BY SMTT(40), <1>1, <1>6 DEF Short, Look, Leave, TypeOK, shardVars, sweepVars
<1>7. ASSUME Reserved(t) \/ ReserveFailed(t) \/ Loaded(t) \/ LoadFailed(t) PROVE Quiet
  BY SMTT(40), <1>1, <1>7
     DEF Reserved, ReserveFailed, Loaded, LoadFailed, Leave, TypeOK, shardVars, sweepVars
<1>8. ASSUME Capacity(t) PROVE Quiet
  BY ZenonT(60), <1>1, <1>8 DEF Capacity, Sweep, Tidy, TypeOK, shardVars
<1>9. ASSUME Settled(t) \/ Unsettled(t) PROVE Quiet
  BY <1>1, <1>9 DEF Settled, Unsettled, Sweep, Tidy, TypeOK, shardVars
<1>10. ASSUME Unpaid(t) PROVE Quiet
  BY ZenonT(60), <1>1, <1>10 DEF Unpaid, Tidy, TypeOK
<1>11. ASSUME SpuriousWake(t) PROVE Quiet
  BY ZenonT(60), <1>1, <1>11 DEF SpuriousWake, TypeOK, shardVars, sweepVars
<1>12. ASSUME EvictShard(t) PROVE Quiet
  BY ZenonT(60), <1>1, <1>12 DEF EvictShard, Sweep, Tidy, TypeOK, shardVars
<1>13. ASSUME EvictDone(t) PROVE Quiet
  BY ZenonT(60), <1>1, <1>13 DEF EvictDone, Tidy, TypeOK, shardVars
<1>14. ASSUME NEW found \in BOOLEAN, pc[t] = "sweep", Return(t, found),
              UNCHANGED <<pending, page, back>>,
              \A p \in Pages : slot'[p] = "Loading" <=> slot[p] = "Loading"
       PROVE  Quiet
  <2>1. CASE why[t] = "reclaim"
    BY <1>1, <1>14, <2>1 DEF Return, Tidy, TypeOK
  <2>2. CASE why[t] = "capacity"
    BY ZenonT(60), <1>1, <1>14, <2>2 DEF Return, Tidy, TypeOK
  <2>3. CASE why[t] = "settle"
    BY ZenonT(60), <1>1, <1>14, <2>3 DEF Return, Tidy, TypeOK
  <2> QED
    BY ZenonT(60), <2>1, <2>2, <2>3 DEF TypeOK
<1>15. ASSUME SweepEnds(t) PROVE Quiet
  BY ZenonT(60), <1>14, <1>15 DEF SweepEnds, shardVars
<1>16. ASSUME Pass(t) PROVE Quiet
  BY ZenonT(60), <1>16 DEF Pass, Quiet, TypeOK
<1>17. ASSUME Evict(t) PROVE Quiet
  BY ZenonT(60), <1>14, <1>17 DEF Evict, Sweeping, TypeOK
<1> QED
  BY ZenonT(60), <1>2, <1>3, <1>4, <1>5, <1>6, <1>7, <1>8, <1>9, <1>10, <1>11, <1>12, <1>13, <1>15,
     <1>16, <1>17

\* The markers of a shard can be counted.
LEMMA LoadingIsFinite == \A s \in Shards : IsFiniteSet(Loading(s))
<1> SUFFICES ASSUME NEW s \in Shards PROVE IsFiniteSet(Loading(s))
  BY ZenonT(60)
<1>1. Loading(s) \subseteq Pages
  BY ZenonT(60) DEF Loading
<1> QED
  BY ZenonT(60), <1>1, FS_Subset, PageCacheAssumption

\* The marker that goes in is the first for its page, and one more push is promised.
LEMMA ClaimMarkers == ASSUME TypeOK, Markers, NEW t \in Threads, Claim(t) PROVE Markers'
<1> DEFINE p == page[t]
           s == ShardOf[p]
<1>1. /\ p \in Pages /\ s \in Shards
      /\ slot[p] = "None"
      /\ slot' = [slot EXCEPT ![p] = "Loading"]
      /\ pc[t] = "look" /\ pc' = [pc EXCEPT ![t] = "load"]
      /\ pending' = [pending EXCEPT ![s] = @ + 1]
      /\ UNCHANGED <<page, why, back>>
  BY ZenonT(60), Locals DEF Claim, Look, Shard, Goto, sweepVars
<1>2. InFlight(t)' /\ \A u \in Threads \ {t} : InFlight(u)' <=> InFlight(u)
  BY ZenonT(60), <1>1 DEF InFlight, TypeOK
<1>3. \A u \in Threads : InFlight(u) => page[u] # p
  BY ZenonT(60), <1>1 DEF Markers, SingleFlight
<1>4. SingleFlight'
  BY ZenonT(60), <1>1, <1>2, <1>3 DEF Markers, SingleFlight, TypeOK
<1>5. NoLostWakeup'
  BY ZenonT(60), <1>1 DEF Markers, NoLostWakeup, Publishing, Shard, TypeOK
<1>6. Loading(s)' = Loading(s) \cup {p} /\ p \notin Loading(s)
  BY ZenonT(60), <1>1 DEF Loading, TypeOK
<1>7. \A x \in Shards \ {s} : Loading(x)' = Loading(x)
  BY ZenonT(60), <1>1 DEF Loading, TypeOK
<1>8. Cardinality(Loading(s)') = Cardinality(Loading(s)) + 1
  BY ZenonT(60), <1>1, <1>6, LoadingIsFinite, FS_AddElement
<1>9. PendingIsLoading'
  BY SMTT(40), <1>1, <1>7, <1>8 DEF Markers, PendingIsLoading, TypeOK
<1> QED
  BY ZenonT(60), <1>4, <1>5, <1>9 DEF Markers

\* The marker that is taken out was its page's only one, and whoever takes it out has
\* still to notify.
LEMMA UnclaimMarkers ==
    ASSUME TypeOK, Markers, NEW t \in Threads, InFlight(t), pc[t] \notin {"evict", "sweep"},
           NEW v \in {"None", "Ready"}, slot' = [slot EXCEPT ![page[t]] = v],
           pending' = [pending EXCEPT ![Shard(t)] = Less(@)],
           NEW l \in {"capacity", "notify"}, pc' = [pc EXCEPT ![t] = l],
           UNCHANGED <<page, why, back>>
    PROVE  Markers'
<1> DEFINE p == page[t]
           s == ShardOf[p]
<1>1. p \in Pages /\ s \in Shards /\ slot[p] = "Loading"
  BY ZenonT(60), Locals DEF Shard, Markers, SingleFlight
<1>2. ~InFlight(t)' /\ \A u \in Threads \ {t} : InFlight(u)' <=> InFlight(u)
  BY ZenonT(60) DEF InFlight, TypeOK
<1>3. \A u \in Threads \ {t} : InFlight(u) => page[u] # p
  BY ZenonT(60) DEF Markers, SingleFlight
<1>4. SingleFlight'
  <2>1. \A q \in Pages \ {p} : slot'[q] = slot[q]
    BY ZenonT(60) DEF TypeOK
  <2>2. slot'[p] # "Loading"
    BY ZenonT(60), <1>1 DEF TypeOK
  <2> QED
    BY <1>2, <1>3, <2>1, <2>2 DEF Markers, SingleFlight
<1>5. Publishing(t)' /\ \A u \in Threads : Publishing(u) => Publishing(u)'
  BY ZenonT(60) DEF InFlight, Publishing, TypeOK
<1>6. NoLostWakeup'
  BY ZenonT(60), <1>5 DEF Markers, NoLostWakeup, Shard, TypeOK
<1>7. Loading(s)' = Loading(s) \ {p} /\ p \in Loading(s)
  BY ZenonT(60), <1>1 DEF Loading, TypeOK
<1>8. \A x \in Shards \ {s} : Loading(x)' = Loading(x)
  BY SMTT(40), <1>1 DEF Loading, TypeOK
<1>9. /\ Cardinality(Loading(s)') = Cardinality(Loading(s)) - 1
      /\ Cardinality(Loading(s)) \in Nat
  <2>1. IsFiniteSet(Loading(s))
    BY ZenonT(60), <1>1, LoadingIsFinite
  <2>2. Cardinality(Loading(s) \ {p}) = Cardinality(Loading(s)) - 1
    BY ZenonT(60), <1>7, <2>1, FS_RemoveElement
  <2>3. Cardinality(Loading(s)) \in Nat
    BY ZenonT(60), <2>1, FS_CardinalityType
  <2> QED
    BY ZenonT(60), <1>7, <2>2, <2>3
<1>10. Cardinality(Loading(s)) > 0
  BY <1>1, <1>7, <1>9, LoadingIsFinite, FS_EmptySet
<1>11. pending'[s] = Cardinality(Loading(s)')
  <2>1. pending[s] = Cardinality(Loading(s))
    BY ZenonT(60), <1>1 DEF Markers, PendingIsLoading
  <2>2. pending'[s] = Less(pending[s])
    BY ZenonT(60), <1>1 DEF TypeOK, Shard
  <2> QED
    BY ZenonT(60), <1>9, <1>10, <2>1, <2>2 DEF Less
<1>12. PendingIsLoading'
  BY ZenonT(60), <1>8, <1>11 DEF Markers, PendingIsLoading, TypeOK, Shard
<1> QED
  BY ZenonT(60), <1>4, <1>6, <1>12 DEF Markers

\* Going to sleep and notify_all.
LEMMA SleepMarkers ==
    ASSUME TypeOK, Markers, NEW t \in Threads, Wait(t) \/ Notify(t)
    PROVE  Markers'
<1>1. UNCHANGED <<slot, page, pending, why, back>>
  BY ZenonT(60) DEF Wait, Notify, shardVars, sweepVars
<1>2. SingleFlight'
  <2>1. \A u \in Threads : InFlight(u)' <=> InFlight(u)
    BY ZenonT(60), <1>1 DEF InFlight, TypeOK, Wait, Look, Goto, Notify
  <2> QED
    BY ZenonT(60), <1>1, <2>1 DEF Markers, SingleFlight
<1>3. NoLostWakeup'
  <2>1. CASE Wait(t)
    <3>1. /\ slot[page[t]] = "Loading"
          /\ \A u \in Threads : pc'[u] = "wait" => u = t \/ pc[u] = "wait"
          /\ \A u \in Threads : Publishing(u) => Publishing(u)'
      BY ZenonT(60), <1>1, <2>1 DEF Publishing, TypeOK, Wait, Look, Goto
    <3> QED
      BY ZenonT(60), <1>1, <3>1 DEF Markers, NoLostWakeup, Shard
  <2>2. CASE Notify(t)
    <3> SUFFICES ASSUME NEW u \in Threads, pc'[u] = "wait"
                 PROVE  \/ slot'[page'[u]] = "Loading"
                        \/ \E w \in Threads : Publishing(w)' /\ Shard(w)' = Shard(u)'
      BY ZenonT(60) DEF NoLostWakeup
    <3>1. pc[u] = "wait" /\ Shard(u) # Shard(t)
      BY ZenonT(60), <2>2 DEF Notify
    <3>2. ASSUME NEW w \in Threads \ {t}, Publishing(w) PROVE Publishing(w)'
      BY ZenonT(60), <1>1, <2>2, <3>2 DEF Publishing, Notify
    <3> QED
      BY ZenonT(60), <1>1, <3>1, <3>2 DEF Markers, NoLostWakeup, Shard
  <2> QED
    BY ZenonT(60), <2>1, <2>2
<1>4. PendingIsLoading'
  BY ZenonT(60), <1>1 DEF Markers, PendingIsLoading, Loading
<1> QED
  BY ZenonT(60), <1>2, <1>3, <1>4 DEF Markers

-----------------------------------------------------------------------------
IInv == TypeOK /\ Tidy /\ Markers

\* The cache starts empty, with nobody in a call.
LEMMA InductiveInit == Init => IInv
<1> SUFFICES ASSUME Init PROVE IInv
  BY ZenonT(60)
<1>1. TypeOK
  <2>1. 0 \in Shards /\ 0 \in 0..ReserveAttempts /\ 0 \in 0..ShardCount
    BY PageCacheAssumption DEF Shards
  <2> QED
    BY <2>1 DEF Init, TypeOK, PCs
<1>2. Tidy
  BY ZenonT(60) DEF Init, Tidy
<1>3. SingleFlight /\ NoLostWakeup
  BY ZenonT(60) DEF Init, SingleFlight, NoLostWakeup, InFlight
<1>4. PendingIsLoading
  <2>1. ASSUME NEW s \in Shards PROVE Loading(s) = {}
    BY ZenonT(60) DEF Init, Loading
  <2> QED
    BY ZenonT(60), <2>1, FS_EmptySet DEF Init, PendingIsLoading
<1> QED
  BY ZenonT(60), <1>1, <1>2, <1>3, <1>4 DEF IInv, Markers

\* Every step keeps it.
LEMMA InductiveStep == IInv /\ [Next]_vars => IInv'
<1> SUFFICES ASSUME IInv, [Next]_vars PROVE IInv'
  BY ZenonT(60)
<1>1. TypeOK' /\ Tidy'
  BY ZenonT(60), TypeStep, TidyStep DEF IInv
<1>2. ASSUME NEW t \in Threads, Claim(t) PROVE Markers'
  BY ZenonT(60), <1>2, ClaimMarkers DEF IInv
<1>3. ASSUME NEW t \in Threads, Publish(t) PROVE Markers'
  BY ZenonT(60), <1>3, UnclaimMarkers DEF IInv, Publish, InFlight, Goto
<1>4. ASSUME NEW t \in Threads, Abandon(t) PROVE Markers'
  BY ZenonT(60), <1>4, UnclaimMarkers DEF IInv, Abandon, InFlight, Goto, sweepVars
<1>5. ASSUME NEW t \in Threads, Wait(t) \/ Notify(t) PROVE Markers'
  BY ZenonT(60), <1>5, SleepMarkers DEF IInv
<1>6. CASE UNCHANGED vars
  <2>1. Quiet
    BY ZenonT(60), <1>6 DEF Quiet, vars, shardVars, sweepVars, InFlight, Publishing
  <2> QED
    BY ZenonT(60), <1>1, <2>1, QuietMarkers DEF IInv
<1>7. CASE Next
  BY ZenonT(60), <1>1, <1>2, <1>3, <1>4, <1>5, <1>7, QuietSteps, QuietMarkers DEF IInv, Next, Step
<1> QED
  BY ZenonT(60), <1>6, <1>7

\* The inductive invariant holds in every reachable state.
THEOREM Inductive == Spec => []IInv
BY InductiveInit, InductiveStep, PTL DEF Spec

\* Every variable keeps its type: in particular a miss asks again at most
\* RESERVE_ATTEMPTS times, and evict_bytes never counts past the shards there are.
THEOREM TypeCorrect == Spec => []TypeOK
BY Inductive, PTL DEF IInv

\* Concurrent misses of get_or_load collapse into one load, and no marker outlives it.
THEOREM SingleFlightAlways == Spec => []SingleFlight
BY Inductive, PTL DEF IInv, Markers

\* Nobody sleeps on a shard's condition variable with no notify_all still to come.
THEOREM NoLostWakeupAlways == Spec => []NoLostWakeup
BY Inductive, PTL DEF IInv, Markers

\* pending_pushes counts the loads in flight.
THEOREM PendingIsLoadingAlways == Spec => []PendingIsLoading
BY Inductive, PTL DEF IInv, Markers

-----------------------------------------------------------------------------
(***************************************************************************)
(* The rings.  A sweep is never cut short, because nobody can set a bit of *)
(* the shard it has locked: behind the entries it has still to see lie the *)
(* ones it has passed, all unreferenced, and its budget counts them down.  *)
(***************************************************************************)

\* A sweep with n steps left: what it has passed is at the end of the ring.
Swept(ring, n) ==
    /\ n \in (Len(ring) + 1)..(2 * Len(ring) + 1)
    /\ \A i \in DOMAIN ring : i + Len(ring) + 1 > n => ring[i] \notin referenced

\* What a thread inside a critical section can rely on.
Held(t) ==
    /\ pc[t] \in Holding => lock[at[t]] = t
    /\ Publishing(t) /\ pc[t] # "notify" => at[t] = Shard(t)
    /\ pc[t] \in {"settle", "resettle"} \/ (pc[t] = "sweep" /\ why[t] # "capacity") =>
          resident[at[t]] <= CapacityPerShard
    /\ pc[t] = "sweep" => Swept(clock[at[t]], steps[t])
    /\ pc[t] = "resettle" => clock[at[t]] = <<>>

\* RingIsReady of one shard.
RingOf(s) ==
    /\ \A p \in Pages : p \in Ready(s) <=> \E i \in DOMAIN clock[s] : clock[s][i] = p
    /\ \A i, j \in DOMAIN clock[s] : clock[s][i] = clock[s][j] => i = j
    /\ IsFiniteSet(Retained(s)) /\ resident[s] = Cardinality(Retained(s))
    /\ Unlocked(s) => resident[s] <= CapacityPerShard

Rings == (\A t \in Threads : Held(t)) /\ (\A s \in Shards : RingOf(s))

\* One element for every byte of the pages in S.
Bytes(S) == UNION {{p} \X (1..PageBytes[p]) : p \in S}

\* A page more is its bytes more.
LEMMA BytesAdd ==
    ASSUME NEW S \in SUBSET Pages, NEW p \in Pages \ S, IsFiniteSet(Bytes(S))
    PROVE  /\ IsFiniteSet(Bytes(S \cup {p}))
           /\ Cardinality(Bytes(S \cup {p})) = Cardinality(Bytes(S)) + PageBytes[p]
<1> DEFINE own == {p} \X (1..PageBytes[p])
<1>0. PageBytes[p] \in Nat BY ZenonT(60), PageCacheAssumption
<1>1. Bytes(S \cup {p}) = Bytes(S) \cup own BY ZenonT(60) DEF Bytes
<1>2. Bytes(S) \cap own = {} BY DEF Bytes
<1>3. IsFiniteSet({p}) /\ Cardinality({p}) = 1 BY ZenonT(60), FS_Singleton
<1>4. IsFiniteSet(1..PageBytes[p]) /\ Cardinality(1..PageBytes[p]) = PageBytes[p]
  BY SMTT(60), <1>0, FS_Interval
<1>5. IsFiniteSet(own) /\ Cardinality(own) = Cardinality({p}) * Cardinality(1..PageBytes[p])
  BY ZenonT(60), <1>3, <1>4, FS_Product
<1>6. Cardinality(own) = PageBytes[p] BY <1>0, <1>3, <1>4, <1>5
<1> HIDE DEF own
<1>7. /\ IsFiniteSet(Bytes(S) \cup own)
      /\ Cardinality(Bytes(S) \cup own)
           = Cardinality(Bytes(S)) + Cardinality(own) - Cardinality(Bytes(S) \cap own)
  BY ZenonT(60), <1>5, FS_Union
<1>8. Cardinality(Bytes(S) \cap own) = 0 BY ZenonT(60), <1>2, FS_EmptySet
<1>9. Cardinality(Bytes(S)) \in Nat BY ZenonT(60), FS_CardinalityType
<1>10. Cardinality(Bytes(S) \cup own) = Cardinality(Bytes(S)) + PageBytes[p]
  BY <1>0, <1>6, <1>7, <1>8, <1>9
<1> QED BY ZenonT(60), <1>1, <1>7, <1>10

\* A page less is its bytes less.
LEMMA BytesRemove ==
    ASSUME NEW S \in SUBSET Pages, NEW p \in S, IsFiniteSet(Bytes(S))
    PROVE  /\ IsFiniteSet(Bytes(S \ {p}))
           /\ Cardinality(Bytes(S)) = Cardinality(Bytes(S \ {p})) + PageBytes[p]
           /\ Cardinality(Bytes(S \ {p})) \in Nat
<1>1. Bytes(S \ {p}) \subseteq Bytes(S) BY ZenonT(60) DEF Bytes
<1>2. IsFiniteSet(Bytes(S \ {p})) BY ZenonT(60), <1>1, FS_Subset
<1>3. S \ {p} \in SUBSET Pages /\ p \in Pages \ (S \ {p}) /\ (S \ {p}) \cup {p} = S BY ZenonT(60)
<1>4. Cardinality(Bytes((S \ {p}) \cup {p})) = Cardinality(Bytes(S \ {p})) + PageBytes[p]
  BY ZenonT(60), <1>2, <1>3, BytesAdd
<1> QED BY ZenonT(60), <1>2, <1>3, <1>4, FS_CardinalityType

\* The head of a ring, and the ring without it.
LEMMA Popped ==
    ASSUME NEW r \in Seq(Pages), r # <<>>
    PROVE  /\ Len(r) \in Nat /\ Len(r) > 0 /\ DOMAIN r = 1..Len(r)
           /\ Head(r) = r[1] /\ Head(r) \in Pages
           /\ Tail(r) \in Seq(Pages) /\ Len(Tail(r)) = Len(r) - 1
           /\ DOMAIN Tail(r) = 1..(Len(r) - 1)
           /\ \A i \in 1..(Len(r) - 1) : Tail(r)[i] = r[i + 1]
<1>1. /\ Len(r) \in Nat /\ Len(r) > 0 /\ DOMAIN r = 1..Len(r) /\ Head(r) = r[1] /\ Head(r) \in Pages
  OBVIOUS
<1>2. Tail(r) \in Seq(Pages) /\ Len(Tail(r)) = Len(r) - 1 OBVIOUS
<1>3. DOMAIN Tail(r) = 1..(Len(r) - 1) BY <1>1, <1>2
<1>4. \A i \in 1..(Len(r) - 1) : Tail(r)[i] = r[i + 1] BY <1>1, <1>2
<1> QED BY ZenonT(60), <1>1, <1>2, <1>3, <1>4

\* The ring with its head put back at the end.
LEMMA Turned ==
    ASSUME NEW r \in Seq(Pages), r # <<>>
    PROVE  /\ Append(Tail(r), Head(r)) \in Seq(Pages)
           /\ Len(Append(Tail(r), Head(r))) = Len(r)
           /\ DOMAIN Append(Tail(r), Head(r)) = 1..Len(r)
           /\ \A i \in 1..(Len(r) - 1) : Append(Tail(r), Head(r))[i] = r[i + 1]
           /\ Append(Tail(r), Head(r))[Len(r)] = r[1]
<1>1. /\ Len(r) \in Nat /\ Len(r) > 0 /\ DOMAIN r = 1..Len(r)
      /\ Head(r) = r[1] /\ Head(r) \in Pages
      /\ Tail(r) \in Seq(Pages) /\ Len(Tail(r)) = Len(r) - 1
      /\ \A i \in 1..(Len(r) - 1) : Tail(r)[i] = r[i + 1]
  BY ZenonT(60), Popped
<1> DEFINE q == Tail(r)
           h == Head(r)
<1> HIDE DEF q, h
<1>2. q \in Seq(Pages) /\ h \in Pages /\ Len(q) = Len(r) - 1 BY ZenonT(60), <1>1 DEF q, h
<1>3. Append(q, h) \in Seq(Pages) /\ Len(Append(q, h)) = Len(q) + 1 BY <1>2
<1>4. \A i \in 1..Len(q) : Append(q, h)[i] = q[i] BY <1>2
<1>5. Append(q, h)[Len(q) + 1] = h BY <1>2
<1>6. DOMAIN Append(q, h) = 1..(Len(q) + 1) BY <1>3
<1> QED BY <1>1, <1>2, <1>3, <1>4, <1>5, <1>6 DEF q, h

\* A ring with a page at the end.
LEMMA Joined ==
    ASSUME NEW r \in Seq(Pages), NEW p \in Pages
    PROVE  /\ Append(r, p) \in Seq(Pages)
           /\ Len(r) \in Nat /\ DOMAIN r = 1..Len(r) /\ DOMAIN Append(r, p) = 1..(Len(r) + 1)
           /\ \A i \in 1..Len(r) : Append(r, p)[i] = r[i]
           /\ Append(r, p)[Len(r) + 1] = p
<1>1. Append(r, p) \in Seq(Pages) /\ Len(Append(r, p)) = Len(r) + 1 /\ Len(r) \in Nat OBVIOUS
<1> QED BY <1>1

\* What another thread has locked stays as it is.
Respects(t) ==
    /\ \A u \in Threads \ {t} :
        /\ at'[u] = at[u] /\ why'[u] = why[u] /\ steps'[u] = steps[u] /\ page'[u] = page[u]
        /\ pc'[u] = pc[u] \/ (pc[u] = "wait" /\ pc'[u] = "look")
    /\ \A s \in Shards : lock[s] \notin {Nobody, t} =>
        /\ clock'[s] = clock[s] /\ resident'[s] = resident[s] /\ lock'[s] = lock[s]
        /\ \A p \in Pages : ShardOf[p] = s /\ p \in referenced' => p \in referenced

\* So another thread can go on relying on it.
LEMMA OthersHeld ==
    ASSUME TypeOK, Rings, NEW t \in Threads, Respects(t), NEW u \in Threads \ {t}
    PROVE  Held(u)'
<1>1. /\ at'[u] = at[u] /\ why'[u] = why[u] /\ steps'[u] = steps[u] /\ page'[u] = page[u]
      /\ pc'[u] = pc[u] \/ (pc[u] = "wait" /\ pc'[u] = "look")
  BY ZenonT(60) DEF Respects
<1>2. CASE pc'[u] \notin Holding
  BY ZenonT(60), <1>2 DEF Held, Publishing, Holding
<1>3. CASE pc'[u] \in Holding
  <2>1. pc'[u] = pc[u] /\ pc[u] \in Holding /\ Held(u) BY ZenonT(60), <1>1, <1>3 DEF Holding, Rings
  <2>2. lock[at[u]] = u /\ at[u] \in Shards BY ZenonT(60), <2>1 DEF Held, TypeOK
  <2>3. u \notin {Nobody, t} BY ZenonT(60), PageCacheAssumption
  <2>4. /\ clock'[at[u]] = clock[at[u]] /\ resident'[at[u]] = resident[at[u]]
        /\ lock'[at[u]] = lock[at[u]]
        /\ \A p \in Pages : ShardOf[p] = at[u] /\ p \in referenced' => p \in referenced
    BY ZenonT(60), <2>2, <2>3 DEF Respects
  <2>5. RingOf(at[u]) /\ clock[at[u]] \in Seq(Pages) BY ZenonT(60), <2>2 DEF Rings, TypeOK
  <2>6. \A i \in DOMAIN clock[at[u]] : clock[at[u]][i] \in Pages /\ ShardOf[clock[at[u]][i]] = at[u]
    BY <2>5 DEF RingOf, Ready
  <2>7. pc[u] = "sweep" => Swept(clock[at[u]], steps[u])'
    <3>1. \A i \in DOMAIN clock[at[u]] :
             clock[at[u]][i] \notin referenced => clock[at[u]][i] \notin referenced'
      BY ZenonT(60), <2>4, <2>6
    <3> QED BY ZenonT(60), <1>1, <2>1, <2>4, <3>1 DEF Held, Swept
  <2>8. Publishing(u)' = Publishing(u) /\ Shard(u)' = Shard(u) BY ZenonT(60), <1>1, <2>1 DEF Publishing, Shard
  <2> QED BY ZenonT(60), <1>1, <2>1, <2>4, <2>7, <2>8 DEF Held
<1> QED BY ZenonT(60), <1>2, <1>3

\* A shard whose pages and ring stay as they are.
LEMMA SameRing ==
    ASSUME NEW s \in Shards, RingOf(s), clock'[s] = clock[s], resident'[s] = resident[s],
           \A p \in Pages : ShardOf[p] = s => (slot'[p] = "Ready" <=> slot[p] = "Ready"),
           lock'[s] = Nobody => lock[s] = Nobody \/ resident[s] <= CapacityPerShard
    PROVE  RingOf(s)'
<1>1. Ready(s)' = Ready(s) BY ZenonT(60) DEF Ready
<1>2. Retained(s)' = Retained(s) BY ZenonT(60), <1>1 DEF Retained
<1> QED BY <1>1, <1>2 DEF RingOf, Unlocked

\* A step outside the critical sections: no ring, no bit and no lock changes.
LEMMA OutsideRings ==
    ASSUME TypeOK, Rings, NEW t \in Threads, pc'[t] \notin Holding,
           UNCHANGED <<referenced, clock, resident, lock>>,
           \A p \in Pages : slot'[p] = "Ready" <=> slot[p] = "Ready",
           \A u \in Threads \ {t} :
             /\ at'[u] = at[u] /\ why'[u] = why[u] /\ steps'[u] = steps[u] /\ page'[u] = page[u]
             /\ pc'[u] = pc[u] \/ (pc[u] = "wait" /\ pc'[u] = "look")
    PROVE  Rings'
<1>1. Respects(t) BY ZenonT(60) DEF Respects
<1>2. Held(t)' BY ZenonT(60) DEF Held, Publishing, Holding
<1>3. \A s \in Shards : RingOf(s)' BY ZenonT(60), SameRing DEF Rings
<1> QED BY ZenonT(60), <1>1, <1>2, <1>3, OthersHeld DEF Rings

\* Those steps.
LEMMA OutsideSteps ==
    ASSUME TypeOK, Tidy, Markers, Rings, NEW t \in Threads,
           \/ \E p \in Pages : Call(t, p)
           \/ \E s \in Shards : EvictBytes(t, s)
           \/ Wait(t) \/ Ask(t) \/ Short(t) \/ Claim(t) \/ Reserved(t) \/ ReserveFailed(t)
           \/ Loaded(t) \/ LoadFailed(t) \/ Abandon(t) \/ Notify(t) \/ SpuriousWake(t)
           \/ EvictDone(t)
    PROVE  Rings'
<1> DEFINE Out == /\ pc'[t] \notin Holding
                  /\ UNCHANGED <<referenced, clock, resident, lock>>
                  /\ \A p \in Pages : slot'[p] = "Ready" <=> slot[p] = "Ready"
                  /\ \A u \in Threads \ {t} :
                       /\ at'[u] = at[u] /\ why'[u] = why[u] /\ steps'[u] = steps[u]
                       /\ page'[u] = page[u]
                       /\ pc'[u] = pc[u] \/ (pc[u] = "wait" /\ pc'[u] = "look")
<1> SUFFICES Out BY ZenonT(60), OutsideRings
<1>0. t \in DOMAIN pc BY ZenonT(60) DEF TypeOK
<1>1. CASE \E p \in Pages : Call(t, p)
  BY ZenonT(60), <1>0, <1>1 DEF Call, Goto, Holding, shardVars, sweepVars, TypeOK
<1>2. CASE \E s \in Shards : EvictBytes(t, s)
  BY SMTT(60), <1>0, <1>2 DEF EvictBytes, Goto, Holding, shardVars, TypeOK
<1>3. CASE Wait(t) \/ Ask(t)
  BY SMTT(60), <1>0, <1>3 DEF Wait, Ask, Goto, Holding, shardVars, sweepVars, TypeOK
<1>4. CASE Short(t)
  BY SMTT(60), <1>0, <1>4 DEF Short, Leave, Goto, Holding, shardVars, sweepVars, TypeOK
<1>5. CASE Claim(t)
  <2>1. /\ slot' = [slot EXCEPT ![page[t]] = "Loading"] /\ slot[page[t]] = "None"
        /\ slot \in [Pages -> {"None", "Loading", "Ready"}]
    BY ZenonT(60), <1>5 DEF Claim, TypeOK
  <2>2. \A p \in Pages : slot'[p] = "Ready" <=> slot[p] = "Ready" BY ZenonT(60), <2>1
  <2> QED BY <1>0, <1>5, <2>2 DEF Claim, Goto, Holding, sweepVars, TypeOK
<1>6. CASE Reserved(t) \/ ReserveFailed(t)
  BY ZenonT(60), <1>0, <1>6 DEF Reserved, ReserveFailed, Leave, Goto, Holding, shardVars, sweepVars, TypeOK
<1>7. CASE Loaded(t) \/ LoadFailed(t) \/ SpuriousWake(t)
  BY SMTT(60), <1>0, <1>7 DEF Loaded, LoadFailed, SpuriousWake, Goto, Holding, shardVars, sweepVars, TypeOK
<1>8. CASE Abandon(t)
  <2>a. slot[page[t]] = "Loading"
    BY ZenonT(60), <1>8, Locals DEF Abandon, InFlight, Markers, SingleFlight
  <2>1. /\ slot' = [slot EXCEPT ![page[t]] = "None"]
        /\ slot \in [Pages -> {"None", "Loading", "Ready"}]
    BY ZenonT(60), <1>8 DEF Abandon, TypeOK
  <2>2. \A p \in Pages : slot'[p] = "Ready" <=> slot[p] = "Ready" BY ZenonT(60), <2>a, <2>1
  <2> QED BY ZenonT(60), <1>0, <1>8, <2>2 DEF Abandon, Goto, Holding, sweepVars, TypeOK
<1>9. CASE Notify(t)
  BY ZenonT(60), <1>0, <1>9 DEF Notify, Holding, shardVars, sweepVars, TypeOK
<1>10. CASE EvictDone(t)
  BY ZenonT(60), <1>0, <1>10 DEF EvictDone, Goto, Holding, shardVars, TypeOK
<1> QED BY ZenonT(60), <1>1, <1>2, <1>3, <1>4, <1>5, <1>6, <1>7, <1>8, <1>9, <1>10

\* A hit sets a bit in a shard nobody has locked.
LEMMA HitRings ==
    ASSUME TypeOK, Rings, NEW t \in Threads, Hit(t) \/ \E p \in Pages : Get(t, p)
    PROVE  Rings'
<1>1. PICK p \in Pages :
        /\ referenced' = referenced \cup {p} /\ Unlocked(ShardOf[p])
        /\ UNCHANGED <<slot, clock, resident, lock, page, at, why, steps>>
        /\ pc'[t] \notin Holding /\ \A u \in Threads \ {t} : pc'[u] = pc[u]
  <2>1. CASE Hit(t)
    BY ZenonT(60), <2>1, Locals DEF Hit, Look, Shard, Leave, Goto, sweepVars, Holding, TypeOK
  <2>2. CASE \E p \in Pages : Get(t, p)
    BY ZenonT(60), <2>2 DEF Get, sweepVars, Holding, TypeOK
  <2> QED BY ZenonT(60), <2>1, <2>2
<1>2. Respects(t) BY ZenonT(60), <1>1 DEF Respects, Unlocked
<1>3. Held(t)' BY ZenonT(60), <1>1 DEF Held, Publishing, Holding
<1>4. \A s \in Shards : RingOf(s)' BY ZenonT(60), <1>1, SameRing DEF Rings
<1> QED BY ZenonT(60), <1>2, <1>3, <1>4, OthersHeld DEF Rings

\* Nobody else has the lock a thread holds.
LEMMA OwnLock ==
    ASSUME TypeOK, Rings, NEW t \in Threads, pc[t] \in Holding
    PROVE  at[t] \in Shards /\ lock[at[t]] = t /\ t # Nobody
BY ZenonT(60), PageCacheAssumption DEF TypeOK, Rings, Held

\* A sweep starts with steps for two turns of the ring.
LEMMA SweepFresh ==
    ASSUME TypeOK, NEW s \in Shards
    PROVE  Swept(clock[s], 2 * Len(clock[s]) + 1)
<1>1. clock[s] \in Seq(Pages) BY ZenonT(60) DEF TypeOK
<1>2. Len(clock[s]) \in Nat /\ DOMAIN clock[s] = 1..Len(clock[s]) BY <1>1
<1> DEFINE n == Len(clock[s])
<1> HIDE DEF n
<1>3. 2 * n + 1 \in (n + 1)..(2 * n + 1) /\ \A i \in 1..n : ~(i + n + 1 > 2 * n + 1)
  BY <1>2 DEF n
<1> QED BY ZenonT(60), <1>2, <1>3 DEF Swept, n

\* The steps of the loops around evict_one: they change no ring.
LEMMA LoopSteps ==
    ASSUME TypeOK, Tidy, Rings, NEW t \in Threads,
           Capacity(t) \/ Settled(t) \/ Unsettled(t) \/ EvictShard(t)
    PROVE  Rings'
<1>0. at[t] \in Shards /\ resident[at[t]] \in Nat /\ CapacityPerShard \in Nat /\ Held(t)
  BY ZenonT(60), Locals, PageCacheAssumption DEF Rings
<1>1. /\ UNCHANGED <<slot, referenced, clock, resident, page>>
      /\ \A u \in Threads \ {t} :
           /\ at'[u] = at[u] /\ why'[u] = why[u] /\ steps'[u] = steps[u] /\ pc'[u] = pc[u]
      /\ \A s \in Shards \ {at[t]} : lock'[s] = lock[s]
      /\ lock[at[t]] \in {Nobody, t}
  <2>1. CASE Capacity(t)
    <3>1. lock[at[t]] = t /\ UNCHANGED <<slot, referenced, clock, resident, page, lock, at>>
      BY ZenonT(60), <2>1, OwnLock DEF Capacity, shardVars, Holding
    <3>2. \A u \in Threads \ {t} : why'[u] = why[u] /\ steps'[u] = steps[u] /\ pc'[u] = pc[u]
      BY <2>1 DEF Capacity, Sweep, Goto, TypeOK
    <3> QED BY ZenonT(60), <3>1, <3>2
  <2>2. CASE Settled(t)
    BY SMTT(40), <1>0, <2>2, OwnLock DEF Settled, Unlock, Goto, shardVars, TypeOK, Holding
  <2>3. CASE Unsettled(t)
    BY ZenonT(60), <1>0, <2>3, OwnLock DEF Unsettled, Sweep, Goto, shardVars, TypeOK, Holding
  <2>4. CASE EvictShard(t)
    BY ZenonT(60), <1>0, <2>4 DEF EvictShard, Sweep, Goto, Unlocked, shardVars, TypeOK
  <2> QED BY ZenonT(60), <2>1, <2>2, <2>3, <2>4
<1>2. Respects(t) BY ZenonT(60), <1>1 DEF Respects
<1>3. lock'[at[t]] = Nobody => lock[at[t]] = Nobody \/ resident[at[t]] <= CapacityPerShard
  <2>1. CASE Settled(t) BY ZenonT(60), <1>0, <2>1 DEF Settled, Held
  <2>2. CASE Capacity(t) \/ Unsettled(t) BY ZenonT(60), <2>2 DEF Capacity, Unsettled
  <2>3. CASE EvictShard(t) BY ZenonT(60), <2>3 DEF EvictShard, Unlocked
  <2> QED BY ZenonT(60), <2>1, <2>2, <2>3
<1>4. \A s \in Shards : RingOf(s)'
  <2> TAKE s \in Shards
  <2>1. lock'[s] = Nobody => lock[s] = Nobody \/ resident[s] <= CapacityPerShard
    BY ZenonT(60), <1>1, <1>3
  <2>2. RingOf(s) BY ZenonT(60) DEF Rings
  <2> QED BY ZenonT(60), <1>1, <2>1, <2>2, SameRing
<1>5. Held(t)'
  <2>1. CASE Settled(t)
    <3>1. pc'[t] = "notify" BY ZenonT(60), <2>1 DEF Settled, Goto, TypeOK
    <3> QED BY ZenonT(60), <3>1 DEF Held, Publishing, Holding
  <2>2. CASE Capacity(t) /\ ~(resident[at[t]] > CapacityPerShard)
    <3>1. pc[t] = "capacity" /\ pc'[t] = "settle" /\ UNCHANGED <<at, lock, resident, page>>
      BY ZenonT(60), <2>2 DEF Capacity, Goto, shardVars, TypeOK
    <3>2. lock[at[t]] = t /\ at[t] = Shard(t) BY ZenonT(60), <1>0, <3>1 DEF Held, Publishing, Holding
    <3> QED BY <1>0, <2>2, <3>1, <3>2 DEF Held, Publishing, Shard
  <2>3. ASSUME NEW loop \in {"capacity", "settle", "reclaim"}, Sweep(t, at[t], loop),
               UNCHANGED <<at, clock, resident, referenced, page>>, lock'[at[t]] = t,
               loop # "reclaim" => at[t] = Shard(t),
               loop # "capacity" => resident[at[t]] <= CapacityPerShard
        PROVE  Held(t)'
    <3>1. /\ pc'[t] = "sweep" /\ why'[t] = loop /\ steps'[t] = 2 * Len(clock[at[t]]) + 1
      BY ZenonT(60), <2>3 DEF Sweep, Goto, TypeOK
    <3>2. Swept(clock[at[t]], steps[t])' BY ZenonT(60), <1>0, <2>3, <3>1, SweepFresh DEF Swept
    <3> QED BY ZenonT(60), <2>3, <3>1, <3>2 DEF Held, Publishing, Shard
  <2>4. CASE Capacity(t) /\ resident[at[t]] > CapacityPerShard
    <3>1. pc[t] = "capacity" /\ Sweep(t, at[t], "capacity") /\ UNCHANGED <<at, lock>>
      BY ZenonT(60), <2>4 DEF Capacity
    <3>2. lock[at[t]] = t /\ at[t] = Shard(t) BY ZenonT(60), <1>0, <3>1 DEF Held, Publishing, Holding
    <3> QED BY ZenonT(60), <1>1, <2>3, <3>1, <3>2
  <2>5. CASE Unsettled(t)
    <3>1. pc[t] = "settle" /\ Sweep(t, at[t], "settle") /\ UNCHANGED <<at, lock>>
      BY ZenonT(60), <2>5 DEF Unsettled
    <3>2. lock[at[t]] = t /\ at[t] = Shard(t) /\ resident[at[t]] <= CapacityPerShard
      BY ZenonT(60), <1>0, <3>1 DEF Held, Publishing, Holding
    <3> QED BY ZenonT(60), <1>1, <2>3, <3>1, <3>2
  <2>6. CASE EvictShard(t)
    <3>1. Unlocked(at[t]) /\ Sweep(t, at[t], "reclaim") /\ UNCHANGED at /\ lock'[at[t]] = t
      BY ZenonT(60), <1>0, <2>6 DEF EvictShard, TypeOK
    <3>2. resident[at[t]] <= CapacityPerShard BY ZenonT(60), <1>0, <3>1 DEF Rings, RingOf
    <3> QED BY ZenonT(60), <1>1, <2>3, <3>1, <3>2
  <2> QED BY ZenonT(60), <2>1, <2>2, <2>4, <2>5, <2>6
<1> QED BY ZenonT(60), <1>2, <1>4, <1>5, OthersHeld DEF Rings

\* The last resort of publish: the ring is empty, so the page has gone with the others.
LEMMA UnpaidRings ==
    ASSUME TypeOK, Rings, NEW t \in Threads, Unpaid(t)
    PROVE  Rings'
<1>0. /\ pc[t] = "resettle" /\ at[t] \in Shards /\ lock[at[t]] = t /\ at[t] = Shard(t)
      /\ clock[at[t]] = <<>> /\ resident[at[t]] <= CapacityPerShard /\ page[t] \in Pages
  BY ZenonT(60), OwnLock, Locals DEF Unpaid, Rings, Held, Publishing, Holding
<1>1. slot[page[t]] # "Ready"
  <2>1. page[t] \notin Ready(at[t]) BY <1>0 DEF Rings, RingOf
  <2> QED BY ZenonT(60), <1>0, <2>1 DEF Ready, Shard
<1>2. /\ UNCHANGED <<slot, referenced, clock, resident, page, why, steps>>
      /\ \A u \in Threads \ {t} : at'[u] = at[u] /\ pc'[u] = pc[u]
      /\ \A s \in Shards \ {at[t]} : lock'[s] = lock[s]
      /\ pc'[t] = "notify"
  BY ZenonT(60), <1>0, <1>1 DEF Unpaid, Unlock, Goto, TypeOK
<1>3. Respects(t) BY ZenonT(60), <1>0, <1>2 DEF Respects
<1>4. Held(t)' BY ZenonT(60), <1>2 DEF Held, Publishing, Holding
<1>5. \A s \in Shards : RingOf(s)'
  <2> TAKE s \in Shards
  <2>1. lock'[s] = Nobody => lock[s] = Nobody \/ resident[s] <= CapacityPerShard
    BY ZenonT(60), <1>0, <1>2
  <2>2. RingOf(s) BY ZenonT(60) DEF Rings
  <2> QED BY ZenonT(60), <1>2, <2>1, <2>2, SameRing
<1> QED BY ZenonT(60), <1>3, <1>4, <1>5, OthersHeld DEF Rings

\* The page joins its ring, with its bytes.
LEMMA PublishRings ==
    ASSUME TypeOK, Markers, Rings, NEW t \in Threads, Publish(t)
    PROVE  Rings'
<1>a. PICK p \in Pages : p = page[t] BY ZenonT(60), Locals
<1>b. PICK s \in Shards : s = Shard(t) BY ZenonT(60), Locals
<1>c. PICK r \in Seq(Pages) : r = clock[s] BY ZenonT(60), <1>b, Locals
<1>0. /\ p \in Pages /\ s \in Shards /\ ShardOf[p] = s /\ PageBytes[p] \in Nat
      /\ r \in Seq(Pages) /\ resident[s] \in Nat /\ lock[s] = Nobody /\ t # Nobody
  BY ZenonT(60), <1>a, <1>b, <1>c, Locals, PageCacheAssumption DEF Shard, Publish, Unlocked
<1>1. slot[p] = "Loading"
  BY ZenonT(60), <1>a, Locals DEF Publish, InFlight, Markers, SingleFlight
<1>2. /\ slot' = [slot EXCEPT ![p] = "Ready"] /\ referenced' = referenced \cup {p}
      /\ clock' = [clock EXCEPT ![s] = Append(r, p)]
      /\ resident' = [resident EXCEPT ![s] = resident[s] + PageBytes[p]]
      /\ lock' = [lock EXCEPT ![s] = t] /\ at' = [at EXCEPT ![t] = s]
      /\ pc' = [pc EXCEPT ![t] = "capacity"] /\ UNCHANGED <<page, why, steps>>
  BY ZenonT(60), <1>a, <1>b, <1>c DEF Publish, Goto
<1>3. /\ clock'[s] = Append(r, p) /\ resident'[s] = resident[s] + PageBytes[p]
      /\ lock'[s] = t /\ at'[t] = s /\ pc'[t] = "capacity"
      /\ \A x \in Shards \ {s} : clock'[x] = clock[x] /\ resident'[x] = resident[x] /\ lock'[x] = lock[x]
      /\ \A u \in Threads \ {t} : at'[u] = at[u] /\ pc'[u] = pc[u]
      /\ slot'[p] = "Ready" /\ \A q \in Pages \ {p} : slot'[q] = slot[q]
  BY ZenonT(60), <1>0, <1>2 DEF TypeOK
<1>4. Respects(t) BY SMTT(40), <1>0, <1>2, <1>3 DEF Respects
<1>5. Held(t)' BY ZenonT(60), <1>b, <1>2, <1>3 DEF Held, Publishing, Shard
<1>6. RingOf(s)'
  <2>1. RingOf(s) BY ZenonT(60), <1>0 DEF Rings
  <2>2. Ready(s)' = Ready(s) \cup {p} /\ p \notin Ready(s) /\ Ready(s) \in SUBSET Pages
    BY SMTT(60), <1>0, <1>1, <1>3 DEF Ready
  <2>3. \A i \in DOMAIN r : r[i] # p /\ r[i] \in Pages BY <1>c, <1>0, <2>1, <2>2 DEF RingOf
  <2>4. /\ Len(r) \in Nat /\ DOMAIN r = 1..Len(r) /\ DOMAIN Append(r, p) = 1..(Len(r) + 1)
        /\ \A i \in 1..Len(r) : Append(r, p)[i] = r[i]
        /\ Append(r, p)[Len(r) + 1] = p
    BY ZenonT(60), <1>0, Joined
  <2>5. \A q \in Pages : q \in Ready(s)' <=> \E i \in DOMAIN Append(r, p) : Append(r, p)[i] = q
    <3>1. \A q \in Pages : q \in Ready(s) <=> \E i \in DOMAIN r : r[i] = q BY ZenonT(60), <1>c, <2>1 DEF RingOf
    <3>2. ASSUME NEW q \in Pages
          PROVE  (\E i \in 1..(Len(r) + 1) : Append(r, p)[i] = q) <=> (\E i \in 1..Len(r) : r[i] = q) \/ q = p
      <4>1. \A i \in 1..(Len(r) + 1) : i \in 1..Len(r) \/ i = Len(r) + 1 BY <2>4
      <4>2. \A i \in 1..Len(r) : i \in 1..(Len(r) + 1) BY <2>4
      <4>3. Len(r) + 1 \in 1..(Len(r) + 1) BY <2>4
      <4> QED BY ZenonT(60), <2>4, <4>1, <4>2, <4>3
    <3> QED BY ZenonT(60), <2>2, <2>4, <3>1, <3>2
  <2>6. \A i, j \in DOMAIN Append(r, p) : Append(r, p)[i] = Append(r, p)[j] => i = j
    <3>1. \A i, j \in DOMAIN r : r[i] = r[j] => i = j BY ZenonT(60), <1>c, <2>1 DEF RingOf
    <3>2. \A i \in 1..(Len(r) + 1) : i \in 1..Len(r) \/ i = Len(r) + 1 BY SMTT(40), <2>4
    <3> QED BY ZenonT(60), <2>3, <2>4, <3>1, <3>2
  <2>7. IsFiniteSet(Retained(s)') /\ resident'[s] = Cardinality(Retained(s)')
    <3>1. Retained(s) = Bytes(Ready(s)) /\ Retained(s)' = Bytes(Ready(s) \cup {p})
      BY ZenonT(60), <2>2 DEF Retained, Bytes
    <3>2. IsFiniteSet(Bytes(Ready(s))) /\ resident[s] = Cardinality(Bytes(Ready(s)))
      BY ZenonT(60), <2>1, <3>1 DEF RingOf
    <3>3. /\ IsFiniteSet(Bytes(Ready(s) \cup {p}))
          /\ Cardinality(Bytes(Ready(s) \cup {p})) = Cardinality(Bytes(Ready(s))) + PageBytes[p]
      BY ZenonT(60), <1>0, <2>2, <3>2, BytesAdd
    <3> QED BY ZenonT(60), <1>3, <3>1, <3>2, <3>3
  <2>8. clock'[s] = Append(r, p) /\ lock'[s] # Nobody BY ZenonT(60), <1>0, <1>3
  <2> QED BY ZenonT(60), <2>5, <2>6, <2>7, <2>8 DEF RingOf, Unlocked
<1>7. \A x \in Shards \ {s} : RingOf(x)'
  <2> TAKE x \in Shards \ {s}
  <2>1. \A q \in Pages : ShardOf[q] = x => (slot'[q] = "Ready" <=> slot[q] = "Ready")
    BY ZenonT(60), <1>0, <1>3
  <2>2. RingOf(x) BY ZenonT(60) DEF Rings
  <2> QED BY ZenonT(60), <1>3, <2>1, <2>2, SameRing
<1> QED BY ZenonT(60), <1>4, <1>5, <1>6, <1>7, OthersHeld DEF Rings

\* Where evict_one goes back to.
LEMMA ReturnIs ==
    ASSUME TypeOK, NEW t \in Threads, NEW found \in BOOLEAN, Return(t, found)
    PROVE  /\ \A u \in Threads \ {t} :
                at'[u] = at[u] /\ why'[u] = why[u] /\ steps'[u] = steps[u] /\ pc'[u] = pc[u]
           /\ \A s \in Shards \ {at[t]} : lock'[s] = lock[s]
           /\ \/ /\ why[t] = "capacity" /\ lock' = lock /\ at' = at
                 /\ pc'[t] = IF found THEN "capacity" ELSE "settle"
              \/ /\ why[t] = "settle" /\ lock' = lock /\ at' = at
                 /\ pc'[t] = IF found THEN "settle" ELSE "resettle"
              \/ why[t] = "reclaim" /\ lock'[at[t]] = Nobody /\ pc'[t] = "evict"
<1>0. at[t] \in Shards /\ why[t] \in {"capacity", "settle", "reclaim"} BY ZenonT(60), Locals DEF TypeOK
<1>1. CASE why[t] = "capacity"
  BY ZenonT(60), <1>0, <1>1 DEF Return, Goto, TypeOK
<1>2. CASE why[t] = "settle"
  BY ZenonT(60), <1>0, <1>2 DEF Return, Goto, TypeOK
<1>3. CASE why[t] = "reclaim"
  <2>1. /\ pc' = [pc EXCEPT ![t] = "evict"] /\ lock' = [lock EXCEPT ![at[t]] = Nobody]
        /\ at' = [at EXCEPT ![t] = (@ + 1) % ShardCount]
        /\ steps' = [steps EXCEPT ![t] = 0] /\ why' = [why EXCEPT ![t] = "reclaim"]
    BY ZenonT(60), <1>3 DEF Return, Goto
  <2> QED BY ZenonT(60), <1>0, <1>3, <2>1 DEF TypeOK
<1> QED BY ZenonT(60), <1>0, <1>1, <1>2, <1>3

\* A ring with nothing in it retains nothing.
LEMMA EmptyRing ==
    ASSUME NEW s \in Shards, RingOf(s), clock[s] = <<>>
    PROVE  resident[s] = 0
<1>1. Ready(s) = {} BY DEF RingOf, Ready
<1>2. Retained(s) = {} BY ZenonT(60), <1>1 DEF Retained
<1> QED BY ZenonT(60), <1>2, FS_EmptySet DEF RingOf

\* A sweep ends with nothing only where there is nothing.
LEMMA SweepEndsRings ==
    ASSUME TypeOK, Rings, NEW t \in Threads, SweepEnds(t)
    PROVE  Rings' /\ clock[at[t]] = <<>>
<1>0. /\ pc[t] = "sweep" /\ at[t] \in Shards /\ lock[at[t]] = t /\ Held(t) /\ RingOf(at[t])
      /\ clock[at[t]] \in Seq(Pages) /\ steps[t] \in Nat /\ CapacityPerShard \in Nat
  BY ZenonT(60), OwnLock, Locals, PageCacheAssumption DEF SweepEnds, Rings, Holding
<1>1. clock[at[t]] = <<>>
  <2>1. Len(clock[at[t]]) \in Nat BY <1>0
  <2>2. steps[t] >= Len(clock[at[t]]) + 1 BY <1>0, <2>1 DEF Held, Swept
  <2> QED BY <2>1, <2>2 DEF SweepEnds
<1>2. resident[at[t]] <= CapacityPerShard BY SMTT(40), <1>0, <1>1, EmptyRing
<1>3. UNCHANGED <<slot, referenced, clock, resident, page>> BY ZenonT(60) DEF SweepEnds, shardVars
<1>4. /\ \A u \in Threads \ {t} :
           at'[u] = at[u] /\ why'[u] = why[u] /\ steps'[u] = steps[u] /\ pc'[u] = pc[u]
      /\ \A s \in Shards \ {at[t]} : lock'[s] = lock[s]
      /\ \/ why[t] = "capacity" /\ lock' = lock /\ at' = at /\ pc'[t] = "settle"
         \/ why[t] = "settle" /\ lock' = lock /\ at' = at /\ pc'[t] = "resettle"
         \/ why[t] = "reclaim" /\ lock'[at[t]] = Nobody /\ pc'[t] = "evict"
  BY ZenonT(60), ReturnIs DEF SweepEnds
<1>5. Respects(t) BY ZenonT(60), <1>0, <1>3, <1>4 DEF Respects
<1>6. Held(t)'
  <2>1. CASE why[t] = "reclaim" /\ pc'[t] = "evict" BY ZenonT(60), <2>1 DEF Held, Publishing, Holding
  <2>2. CASE why[t] # "reclaim" /\ lock' = lock /\ at' = at /\ pc'[t] \in {"settle", "resettle"}
    <3>1. at[t] = Shard(t) BY ZenonT(60), <1>0, <2>2 DEF Held, Publishing
    <3>2. lock'[at'[t]] = t /\ at'[t] = Shard(t)' /\ clock'[at'[t]] = <<>>
          /\ resident'[at'[t]] <= CapacityPerShard
      BY ZenonT(60), <1>0, <1>1, <1>2, <1>3, <2>2, <3>1 DEF Shard
    <3> QED BY ZenonT(60), <2>2, <3>2 DEF Held
  <2> QED BY ZenonT(60), <1>4, <2>1, <2>2
<1>7. \A s \in Shards : RingOf(s)'
  <2> TAKE s \in Shards
  <2>1. lock'[s] = Nobody => lock[s] = Nobody \/ resident[s] <= CapacityPerShard
    BY ZenonT(60), <1>2, <1>4
  <2>2. RingOf(s) BY DEF Rings
  <2> QED BY ZenonT(60), <1>3, <2>1, <2>2, SameRing
<1> QED BY ZenonT(60), <1>1, <1>5, <1>6, <1>7, OthersHeld DEF Rings

\* Places in a ring of n entries that turns by one.
LEMMA Places ==
    ASSUME NEW n \in Nat \ {0}, NEW i \in 1..n
    PROVE  /\ 1 \in 1..n /\ n \in 1..n
           /\ i # n => i \in 1..(n - 1) /\ i + 1 \in 1..n
           /\ i # 1 => i - 1 \in 1..(n - 1) /\ i - 1 \in 1..n /\ (i - 1) + 1 = i
OBVIOUS

\* The place an entry came from.
From(n, i) == IF i = n THEN 1 ELSE i + 1

\* No two came from one place.
LEMMA FromOnce ==
    ASSUME NEW n \in Nat \ {0}, NEW i \in 1..n, NEW j \in 1..n, From(n, i) = From(n, j)
    PROVE  i = j
BY DEF From

\* The head of a ring that is being swept.
LEMMA SweptHead ==
    ASSUME TypeOK, Rings, NEW t \in Threads, Sweeping(t),
           NEW s \in Shards, s = at[t], NEW r \in Seq(Pages), r = clock[s]
    PROVE  /\ lock[s] = t /\ t # Nobody /\ r # <<>> /\ pc[t] = "sweep"
           /\ Head(r) \in Pages /\ Head(r) = r[1] /\ slot[Head(r)] = "Ready" /\ ShardOf[Head(r)] = s
           /\ Len(r) \in Nat \ {0} /\ DOMAIN r = 1..Len(r)
           /\ steps[t] \in Nat /\ steps[t] \in (Len(r) + 1)..(2 * Len(r) + 1)
           /\ \A i \in 1..Len(r) : i + Len(r) + 1 > steps[t] => r[i] \notin referenced
<1>1. pc[t] = "sweep" /\ r # <<>> /\ lock[s] = t /\ t # Nobody /\ steps[t] \in Nat
  BY ZenonT(60), OwnLock, Locals DEF Sweeping, Holding
<1>2. Len(r) \in Nat \ {0} /\ DOMAIN r = 1..Len(r) /\ Head(r) = r[1] /\ Head(r) \in Pages
  BY SMTT(40), <1>1, Popped
<1>3. RingOf(s) /\ Held(t) BY ZenonT(60) DEF Rings
<1>4. Head(r) \in Ready(s) BY SMTT(40), <1>2, <1>3 DEF RingOf
<1>5. Swept(r, steps[t]) BY ZenonT(60), <1>1, <1>3 DEF Held
<1> QED BY ZenonT(60), <1>1, <1>2, <1>4, <1>5 DEF Ready, Swept

\* A second chance: the entry goes behind the others with its bit clear.
LEMMA PassRings ==
    ASSUME TypeOK, Rings, NEW t \in Threads, Pass(t)
    PROVE  Rings'
<1>a. PICK s \in Shards : s = at[t] BY ZenonT(60), Locals
<1>b. PICK r \in Seq(Pages) : r = clock[s] BY ZenonT(60), <1>a, Locals
<1>0. Sweeping(t) BY ZenonT(60) DEF Pass
<1>1. /\ lock[s] = t /\ t # Nobody /\ r # <<>> /\ pc[t] = "sweep"
      /\ Head(r) \in Pages /\ Head(r) = r[1] /\ slot[Head(r)] = "Ready" /\ ShardOf[Head(r)] = s
      /\ Len(r) \in Nat \ {0} /\ DOMAIN r = 1..Len(r)
      /\ steps[t] \in Nat /\ steps[t] \in (Len(r) + 1)..(2 * Len(r) + 1)
      /\ \A i \in 1..Len(r) : i + Len(r) + 1 > steps[t] => r[i] \notin referenced
  BY <1>0, <1>a, <1>b, SweptHead
<1>n. Len(r) \in Nat \ {0} BY ZenonT(60), <1>1
<1>m. steps[t] \in Nat /\ steps[t] \in (Len(r) + 1)..(2 * Len(r) + 1) BY ZenonT(60), <1>1
<1>2. PICK h \in Pages : h = Head(r) BY ZenonT(60), <1>1
<1>3. PICK q \in Seq(Pages) : q = Append(Tail(r), Head(r)) BY ZenonT(60), <1>1, Turned
<1>4. /\ Len(q) = Len(r) /\ DOMAIN q = 1..Len(r)
      /\ \A i \in 1..(Len(r) - 1) : q[i] = r[i + 1]
      /\ q[Len(r)] = r[1]
  BY ZenonT(60), <1>1, <1>3, Turned
<1>5. /\ h \in referenced /\ referenced' = referenced \ {h}
      /\ clock' = [clock EXCEPT ![s] = q]
      /\ steps' = [steps EXCEPT ![t] = steps[t] - 1]
      /\ UNCHANGED <<slot, resident, lock, pc, page, at, why>>
  BY ZenonT(60), <1>a, <1>b, <1>1, <1>2, <1>3 DEF Pass
<1>6. /\ clock'[s] = q /\ \A x \in Shards \ {s} : clock'[x] = clock[x]
      /\ steps'[t] = steps[t] - 1 /\ \A u \in Threads \ {t} : steps'[u] = steps[u]
  BY ZenonT(60), <1>5 DEF TypeOK
<1>7. Respects(t) BY ZenonT(60), <1>1, <1>5, <1>6 DEF Respects
<1>8. Held(t)'
  <2>1. ~(1 + Len(r) + 1 > steps[t])
    <3>1. 1 \in 1..Len(r) BY SMTT(40), <1>n
    <3>2. r[1] \in referenced BY ZenonT(60), <1>1, <1>2, <1>5
    <3> QED BY ZenonT(60), <1>1, <3>1, <3>2
  <2>2. steps'[t] \in (Len(q) + 1)..(2 * Len(q) + 1)
    <3>1. Len(q) = Len(r) /\ steps'[t] = steps[t] - 1 BY ZenonT(60), <1>4, <1>6
    <3> QED BY SMTT(40), <1>n, <1>m, <2>1, <3>1
  <2>3. ASSUME NEW i \in 1..Len(r), i + Len(r) + 1 > steps'[t] PROVE q[i] \notin referenced'
    <3>1. CASE i = Len(r) BY ZenonT(60), <1>1, <1>2, <1>4, <1>5, <3>1
    <3>2. CASE i # Len(r)
      <4>1. i \in 1..(Len(r) - 1) /\ i + 1 \in 1..Len(r) BY ZenonT(60), <1>n, <3>2, Places
      <4>2. (i + 1) + Len(r) + 1 > steps[t] BY <1>1, <1>6, <2>3
      <4>3. q[i] = r[i + 1] BY ZenonT(60), <1>4, <4>1
      <4>4. r[i + 1] \notin referenced BY ZenonT(60), <1>1, <4>1, <4>2
      <4> QED BY ZenonT(60), <1>5, <4>3, <4>4
    <3> QED BY ZenonT(60), <3>1, <3>2
  <2>4. Swept(clock[at[t]], steps[t])' BY ZenonT(60), <1>a, <1>4, <1>5, <1>6, <2>2, <2>3 DEF Swept
  <2>5. Held(t) BY ZenonT(60) DEF Rings
  <2>6. Publishing(t)' = Publishing(t) /\ Shard(t)' = Shard(t) BY ZenonT(60), <1>5 DEF Publishing, Shard
  <2> QED BY ZenonT(60), <1>1, <1>5, <2>4, <2>5, <2>6 DEF Held
<1>9. RingOf(s)'
  <2>1. RingOf(s) BY ZenonT(60) DEF Rings
  <2>2. Ready(s)' = Ready(s) BY ZenonT(60), <1>5 DEF Ready
  <2>3. Retained(s)' = Retained(s) BY ZenonT(60), <2>2 DEF Retained
  <2>4. ASSUME NEW x \in Pages
        PROVE  (\E i \in 1..Len(r) : q[i] = x) <=> (\E i \in 1..Len(r) : r[i] = x)
    <3>1. ASSUME NEW i \in 1..Len(r), q[i] = x PROVE \E j \in 1..Len(r) : r[j] = x
      <4>1. CASE i = Len(r) BY SMTT(60), <1>1, <1>4, <3>1, <4>1
      <4>2. CASE i # Len(r)
        <5>1. i \in 1..(Len(r) - 1) /\ i + 1 \in 1..Len(r) BY ZenonT(60), <1>n, <4>2, Places
        <5> QED BY ZenonT(60), <1>4, <3>1, <5>1
      <4> QED BY ZenonT(60), <4>1, <4>2
    <3>2. ASSUME NEW i \in 1..Len(r), r[i] = x PROVE \E j \in 1..Len(r) : q[j] = x
      <4>1. CASE i = 1
        <5>1. Len(r) \in 1..Len(r) BY <1>1
        <5> QED BY ZenonT(60), <1>4, <3>2, <4>1, <5>1
      <4>2. CASE i # 1
        <5>1. i - 1 \in 1..(Len(r) - 1) /\ i - 1 \in 1..Len(r) /\ (i - 1) + 1 = i BY ZenonT(60), <1>n, <4>2, Places
        <5>2. q[i - 1] = r[i] BY ZenonT(60), <1>4, <5>1
        <5> QED BY ZenonT(60), <3>2, <5>1, <5>2
      <4> QED BY ZenonT(60), <4>1, <4>2
    <3> QED BY ZenonT(60), <3>1, <3>2
  <2>5. ASSUME NEW i \in 1..Len(r), NEW j \in 1..Len(r), q[i] = q[j] PROVE i = j
    <3>1. \A k \in 1..Len(r) : From(Len(r), k) \in 1..Len(r) /\ q[k] = r[From(Len(r), k)]
      <4> TAKE k \in 1..Len(r)
      <4>1. CASE k = Len(r) BY ZenonT(60), <1>n, <1>4, <4>1, Places DEF From
      <4>2. CASE k # Len(r)
        <5>1. k \in 1..(Len(r) - 1) /\ k + 1 \in 1..Len(r) BY ZenonT(60), <1>n, <4>2, Places
        <5> QED BY ZenonT(60), <1>4, <4>2, <5>1 DEF From
      <4> QED BY ZenonT(60), <4>1, <4>2
    <3>2. From(Len(r), i) = From(Len(r), j) => i = j BY ZenonT(60), <1>n, FromOnce
    <3>3. \A k, l \in 1..Len(r) : r[k] = r[l] => k = l BY ZenonT(60), <1>b, <1>1, <2>1 DEF RingOf
    <3> QED BY ZenonT(60), <2>5, <3>1, <3>2, <3>3
  <2>6. \A x \in Pages : x \in Ready(s) <=> \E i \in 1..Len(r) : r[i] = x
    BY ZenonT(60), <1>b, <1>1, <2>1 DEF RingOf
  <2>7. \A x \in Pages : x \in Ready(s)' <=> \E i \in DOMAIN clock'[s] : clock'[s][i] = x
    BY ZenonT(60), <1>4, <1>6, <2>2, <2>4, <2>6
  <2>8. \A i, j \in DOMAIN clock'[s] : clock'[s][i] = clock'[s][j] => i = j
    BY ZenonT(60), <1>4, <1>6, <2>5
  <2>9. IsFiniteSet(Retained(s)') /\ resident'[s] = Cardinality(Retained(s)') /\ lock'[s] # Nobody
    BY ZenonT(60), <1>1, <1>5, <2>1, <2>3 DEF RingOf
  <2> QED BY ZenonT(60), <2>7, <2>8, <2>9 DEF RingOf, Unlocked
<1>10. \A x \in Shards \ {s} : RingOf(x)'
  <2> TAKE x \in Shards \ {s}
  <2>1. RingOf(x) BY ZenonT(60) DEF Rings
  <2> QED BY ZenonT(60), <1>5, <1>6, <2>1, SameRing
<1> QED BY ZenonT(60), <1>7, <1>8, <1>9, <1>10, OthersHeld DEF Rings

\* The first unreferenced page goes, with its bytes.
LEMMA EvictRings ==
    ASSUME TypeOK, Rings, NEW t \in Threads, Evict(t)
    PROVE  Rings'
<1>a. PICK s \in Shards : s = at[t] BY Locals
<1>b. PICK r \in Seq(Pages) : r = clock[s] BY <1>a, Locals
<1>0. Sweeping(t) BY ZenonT(60) DEF Evict
<1>1. /\ lock[s] = t /\ t # Nobody /\ r # <<>> /\ pc[t] = "sweep"
      /\ Head(r) \in Pages /\ Head(r) = r[1] /\ slot[Head(r)] = "Ready" /\ ShardOf[Head(r)] = s
      /\ Len(r) \in Nat \ {0} /\ DOMAIN r = 1..Len(r)
  BY <1>0, <1>a, <1>b, SweptHead
<1>n. Len(r) \in Nat \ {0} BY ZenonT(60), <1>1
<1>2. PICK p \in Pages : p = Head(r) BY ZenonT(60), <1>1
<1>3. PICK q \in Seq(Pages) : q = Tail(r) BY ZenonT(60), <1>1, Popped
<1>4. DOMAIN q = 1..(Len(r) - 1) /\ \A i \in 1..(Len(r) - 1) : q[i] = r[i + 1]
  BY ZenonT(60), <1>1, <1>3, Popped
<1>5. /\ slot' = [slot EXCEPT ![p] = "None"] /\ clock' = [clock EXCEPT ![s] = q]
      /\ resident' = [resident EXCEPT ![s] =
                        IF PageBytes[p] <= resident[s] THEN resident[s] - PageBytes[p] ELSE 0]
      /\ Return(t, TRUE) /\ UNCHANGED <<referenced, page>>
  BY ZenonT(60), <1>a, <1>b, <1>2, <1>3 DEF Evict
<1>6. /\ clock'[s] = q
      /\ resident'[s] = IF PageBytes[p] <= resident[s] THEN resident[s] - PageBytes[p] ELSE 0
      /\ \A x \in Shards \ {s} : clock'[x] = clock[x] /\ resident'[x] = resident[x]
      /\ slot'[p] = "None" /\ \A x \in Pages \ {p} : slot'[x] = slot[x]
  BY ZenonT(60), <1>5 DEF TypeOK
<1>7. /\ \A u \in Threads \ {t} :
           at'[u] = at[u] /\ why'[u] = why[u] /\ steps'[u] = steps[u] /\ pc'[u] = pc[u]
      /\ \A x \in Shards \ {s} : lock'[x] = lock[x]
      /\ \/ why[t] = "capacity" /\ lock' = lock /\ at' = at /\ pc'[t] = "capacity"
         \/ why[t] = "settle" /\ lock' = lock /\ at' = at /\ pc'[t] = "settle"
         \/ why[t] = "reclaim" /\ lock'[s] = Nobody /\ pc'[t] = "evict"
  BY ZenonT(60), <1>a, <1>5, ReturnIs
<1>8. Respects(t) BY <1>1, <1>5, <1>6, <1>7 DEF Respects
<1>9. RingOf(s) /\ Held(t) BY ZenonT(60) DEF Rings
<1>10. /\ \A x \in Pages : x \in Ready(s) <=> \E i \in 1..Len(r) : r[i] = x
       /\ \A i, j \in 1..Len(r) : r[i] = r[j] => i = j
  BY ZenonT(60), <1>b, <1>1, <1>9 DEF RingOf
<1>11. Ready(s)' = Ready(s) \ {p} /\ p \in Ready(s) /\ Ready(s) \in SUBSET Pages
  BY SMTT(40), <1>1, <1>2, <1>6 DEF Ready
<1>12. /\ IsFiniteSet(Retained(s)') /\ resident'[s] = Cardinality(Retained(s)')
       /\ resident'[s] <= resident[s] /\ resident[s] \in Nat /\ resident'[s] \in Nat
  <2>1. Retained(s) = Bytes(Ready(s)) /\ Retained(s)' = Bytes(Ready(s) \ {p})
    BY ZenonT(60), <1>11 DEF Retained, Bytes
  <2>2. IsFiniteSet(Bytes(Ready(s))) /\ resident[s] = Cardinality(Bytes(Ready(s)))
    BY ZenonT(60), <1>9, <2>1 DEF RingOf
  <2>3. /\ IsFiniteSet(Bytes(Ready(s) \ {p})) /\ Cardinality(Bytes(Ready(s) \ {p})) \in Nat
        /\ Cardinality(Bytes(Ready(s))) = Cardinality(Bytes(Ready(s) \ {p})) + PageBytes[p]
    BY ZenonT(60), <1>11, <2>2, BytesRemove
  <2>4. PageBytes[p] \in Nat BY ZenonT(60), PageCacheAssumption
  <2>5. /\ resident'[s] = Cardinality(Bytes(Ready(s) \ {p}))
        /\ resident'[s] <= resident[s] /\ resident[s] \in Nat /\ resident'[s] \in Nat
    <3>1. resident'[s] = IF PageBytes[p] <= resident[s] THEN resident[s] - PageBytes[p] ELSE 0
      BY ZenonT(60), <1>6
    <3> QED BY SMTT(40), <2>2, <2>3, <2>4, <3>1
  <2> QED BY ZenonT(60), <2>1, <2>3, <2>5
<1>13. \A x \in Pages : x \in Ready(s)' <=> \E i \in DOMAIN q : q[i] = x
  <2> TAKE x \in Pages
  <2>1. ASSUME NEW i \in 1..(Len(r) - 1), q[i] = x PROVE x \in Ready(s) \ {p}
    <3>1. i + 1 \in 1..Len(r) /\ 1 \in 1..Len(r) /\ i + 1 # 1 BY <1>n
    <3>2. r[i + 1] = x BY ZenonT(60), <1>4, <2>1
    <3> QED BY SMTT(60), <1>1, <1>2, <1>10, <3>1, <3>2
  <2>2. ASSUME x \in Ready(s) \ {p} PROVE \E i \in 1..(Len(r) - 1) : q[i] = x
    <3>1. PICK i \in 1..Len(r) : r[i] = x BY ZenonT(60), <1>10, <2>2
    <3>2. i # 1 BY ZenonT(60), <1>1, <1>2, <2>2, <3>1
    <3>3. i - 1 \in 1..(Len(r) - 1) /\ (i - 1) + 1 = i BY ZenonT(60), <1>n, <3>2, Places
    <3>4. q[i - 1] = r[i] BY ZenonT(60), <1>4, <3>3
    <3> QED BY ZenonT(60), <3>1, <3>3, <3>4
  <2> QED BY ZenonT(60), <1>4, <1>11, <2>1, <2>2
<1>14. \A i, j \in DOMAIN q : q[i] = q[j] => i = j
  <2> SUFFICES ASSUME NEW i \in 1..(Len(r) - 1), NEW j \in 1..(Len(r) - 1), q[i] = q[j] PROVE i = j
    BY ZenonT(60), <1>4
  <2>1. i + 1 \in 1..Len(r) /\ j + 1 \in 1..Len(r) BY <1>n
  <2>2. r[i + 1] = r[j + 1] BY ZenonT(60), <1>4
  <2>3. i + 1 = j + 1 BY ZenonT(60), <1>10, <2>1, <2>2
  <2> QED BY <1>n, <2>3
<1>15. lock'[s] = Nobody => resident'[s] <= CapacityPerShard
  <2> SUFFICES ASSUME lock'[s] = Nobody PROVE resident'[s] <= CapacityPerShard BY ZenonT(60)
  <2>1. why[t] = "reclaim" BY ZenonT(60), <1>1, <1>7
  <2>2. resident[s] <= CapacityPerShard BY ZenonT(60), <1>a, <1>1, <1>9, <2>1 DEF Held
  <2> QED BY <1>12, <2>2, PageCacheAssumption
<1>16. RingOf(s)' BY ZenonT(60), <1>6, <1>12, <1>13, <1>14, <1>15 DEF RingOf, Unlocked
<1>17. Held(t)'
  <2>1. CASE why[t] = "reclaim" /\ pc'[t] = "evict" BY ZenonT(60), <2>1 DEF Held, Publishing, Holding
  <2>2. CASE why[t] = "capacity" /\ lock' = lock /\ at' = at /\ pc'[t] = "capacity"
    <3>1. at[t] = Shard(t) BY ZenonT(60), <1>1, <1>9, <2>2 DEF Held, Publishing
    <3> QED BY ZenonT(60), <1>a, <1>1, <1>5, <2>2, <3>1 DEF Held, Publishing, Shard
  <2>3. CASE why[t] = "settle" /\ lock' = lock /\ at' = at /\ pc'[t] = "settle"
    <3>1. at[t] = Shard(t) /\ resident[s] <= CapacityPerShard
      BY ZenonT(60), <1>a, <1>1, <1>9, <2>3 DEF Held, Publishing
    <3>2. resident'[s] <= CapacityPerShard BY SMTT(40), <1>12, <3>1, PageCacheAssumption
    <3> QED BY ZenonT(60), <1>a, <1>1, <1>5, <2>3, <3>1, <3>2 DEF Held, Publishing, Shard
  <2> QED BY ZenonT(60), <1>7, <2>1, <2>2, <2>3
<1>18. \A x \in Shards \ {s} : RingOf(x)'
  <2> TAKE x \in Shards \ {s}
  <2>1. \A y \in Pages : ShardOf[y] = x => (slot'[y] = "Ready" <=> slot[y] = "Ready")
    BY ZenonT(60), <1>1, <1>2, <1>6
  <2>2. RingOf(x) BY DEF Rings
  <2> QED BY ZenonT(60), <1>6, <1>7, <2>1, <2>2, SameRing
<1> QED BY ZenonT(60), <1>8, <1>16, <1>17, <1>18, OthersHeld DEF Rings

\* The rings start empty.
LEMMA RingsInit == Init => Rings
<1> SUFFICES ASSUME Init PROVE Rings OBVIOUS
<1>1. \A t \in Threads : Held(t) BY ZenonT(60) DEF Init, Held, Publishing, Holding
<1>2. ASSUME NEW s \in Shards PROVE RingOf(s)
  <2>1. Ready(s) = {} /\ clock[s] = <<>> /\ resident[s] = 0 BY ZenonT(60) DEF Init, Ready
  <2>2. Retained(s) = {} BY ZenonT(60), <2>1 DEF Retained
  <2>3. IsFiniteSet({}) /\ Cardinality({}) = 0 BY ZenonT(60), FS_EmptySet
  <2> QED BY <2>1, <2>2, <2>3, PageCacheAssumption DEF RingOf
<1> QED BY ZenonT(60), <1>1, <1>2 DEF Rings

\* Every step keeps the rings.
LEMMA RingsStep == IInv /\ Rings /\ [Next]_vars => Rings'
<1> SUFFICES ASSUME IInv, Rings, [Next]_vars PROVE Rings' BY ZenonT(60)
<1>0. TypeOK /\ Tidy /\ Markers BY ZenonT(60) DEF IInv
<1>1. CASE UNCHANGED vars
  <2>1. UNCHANGED <<slot, referenced, clock, resident, lock, pc, page, at, why, steps>>
    BY ZenonT(60), <1>1 DEF vars, shardVars, sweepVars
  <2>2. \A t \in Threads : Held(t)'
    BY ZenonT(60), <2>1 DEF Rings, Held, Publishing, Shard, Swept
  <2>3. \A s \in Shards : RingOf(s)' BY ZenonT(60), <2>1, SameRing DEF Rings
  <2> QED BY ZenonT(60), <2>2, <2>3 DEF Rings
<1>2. ASSUME NEW t \in Threads, Step(t) \/ SpuriousWake(t) PROVE Rings'
  <2>1. CASE Hit(t) BY ZenonT(60), <1>0, <2>1, HitRings
  <2>2. CASE \/ Wait(t) \/ Ask(t) \/ Short(t) \/ Claim(t) \/ Reserved(t) \/ ReserveFailed(t)
             \/ Loaded(t) \/ LoadFailed(t) \/ Abandon(t) \/ Notify(t) \/ SpuriousWake(t)
             \/ EvictDone(t)
    BY ZenonT(60), <1>0, <2>2, OutsideSteps
  <2>3. CASE Capacity(t) \/ Settled(t) \/ Unsettled(t) \/ EvictShard(t)
    BY ZenonT(60), <1>0, <2>3, LoopSteps
  <2>4. CASE Unpaid(t) BY ZenonT(60), <1>0, <2>4, UnpaidRings
  <2>5. CASE Publish(t) BY ZenonT(60), <1>0, <2>5, PublishRings
  <2>6. CASE SweepEnds(t) BY ZenonT(60), <1>0, <2>6, SweepEndsRings
  <2>7. CASE Pass(t) BY <1>0, <2>7, PassRings
  <2>8. CASE Evict(t) BY <1>0, <2>8, EvictRings
  <2> QED BY ZenonT(60), <1>2, <2>1, <2>2, <2>3, <2>4, <2>5, <2>6, <2>7, <2>8 DEF Step
<1>3. ASSUME NEW t \in Threads, NEW p \in Pages, Call(t, p) \/ Get(t, p) PROVE Rings'
  BY ZenonT(60), <1>0, <1>3, OutsideSteps, HitRings
<1>4. ASSUME NEW t \in Threads, NEW s \in Shards, EvictBytes(t, s) PROVE Rings'
  BY ZenonT(60), <1>0, <1>4, OutsideSteps
<1> QED BY ZenonT(60), <1>1, <1>2, <1>3, <1>4 DEF Next

\* The rings hold throughout.
LEMMA RingsAlways == Spec => []Rings
BY InductiveInit, InductiveStep, RingsInit, RingsStep, PTL DEF Spec

\* PageCache's RingIsReady for any threads, pages, placement and capacity: the CLOCK ring
\* of a shard lists each of its Ready pages once and nothing else, resident is their
\* bytes, and what publish leaves behind is within the shard's capacity.
THEOREM RingIsReadyAlways == Spec => []RingIsReady
<1>1. Rings => RingIsReady BY ZenonT(60) DEF Rings, RingOf, RingIsReady
<1> QED BY <1>1, RingsAlways, PTL

\* PageCache's SweepIsComplete: the step budget of evict_one never runs out with a page
\* left in the ring, and publish's last resort never finds its own page there.
THEOREM SweepIsCompleteAlways == Spec => []SweepIsComplete
<1>1. TypeOK /\ Rings => SweepIsComplete
  <2> SUFFICES ASSUME TypeOK, Rings, NEW t \in Threads
               PROVE  /\ pc[t] = "sweep" /\ steps[t] = 0 => clock[at[t]] = <<>>
                      /\ pc[t] = "resettle" => slot[page[t]] # "Ready"
    BY ZenonT(60) DEF SweepIsComplete
  <2>0. at[t] \in Shards /\ page[t] \in Pages /\ Held(t) /\ clock[at[t]] \in Seq(Pages)
    BY ZenonT(60), Locals DEF Rings
  <2>1. ~(pc[t] = "sweep" /\ steps[t] = 0)
    <3>1. Len(clock[at[t]]) \in Nat BY SMTT(40), <2>0
    <3> QED BY <2>0, <3>1 DEF Held, Swept
  <2>2. ASSUME pc[t] = "resettle" PROVE slot[page[t]] # "Ready"
    <3>1. clock[at[t]] = <<>> /\ at[t] = Shard(t) BY ZenonT(60), <2>0, <2>2 DEF Held, Publishing
    <3>2. page[t] \notin Ready(at[t])
      <4>1. RingOf(at[t]) BY ZenonT(60), <2>0 DEF Rings
      <4> QED BY SMTT(40), <2>0, <3>1, <4>1 DEF RingOf
    <3> QED BY ZenonT(60), <2>0, <3>1, <3>2 DEF Ready, Shard
  <2> QED BY ZenonT(60), <2>1, <2>2
<1> QED BY <1>1, Inductive, RingsAlways, PTL DEF IInv
=============================================================================
