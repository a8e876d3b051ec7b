-------------------------- MODULE PageStoreProofs --------------------------
(***************************************************************************)
(* For any number of threads, any file, any sizes, any budget and any      *)
(* bound on guards and buffers: what the page store has in memory has been *)
(* reserved and what is reserved fits the limit, the directory keeps each  *)
(* chunk once and no more of them than it may, and a reclaim on its own    *)
(* gives up everything it can before it refuses, roots last.               *)
(*                                                                         *)
(* First the last of the steps that keep the books, a new buffer's and     *)
(* those of roots; then the order of the directory's chunks, and the steps *)
(* that change it; then the theorems about both; then reclaims.            *)
(***************************************************************************)
EXTENDS PageStoreLedger

\* The owner of a marker finds a buffer for what it has loaded.
LEMMA NewBufferIs ==
    ASSUME Typed, NEW p \in Pages, \E g \in 1..Generations : <<p, g>> \notin Live
    PROVE  NewBuffer(p) \in Buffers /\ NewBuffer(p)[1] = p /\ NewBuffer(p) \notin Live
<1> DEFINE Free == {g \in 1..Generations : <<p, g>> \notin Live}
<1>1. Generations \in Nat
  BY ZenonT(60), PageStoreAssumption DEF Typed, Generations
<1>2. Free \in SUBSET Nat /\ Free # {}
  BY <1>1
<1>3. PICK g \in Free : \A h \in Free : g <= h
  BY ZenonT(60), <1>2, Least
<1>4. \A h \in 1..(g - 1) : <<p, h>> \in Live
  BY SMTT(60), <1>1, <1>2, <1>3
<1>5. PICK g2 \in 1..Generations : NewBuffer(p) = <<p, g2>> /\ <<p, g2>> \notin Live
  BY ZenonT(60), <1>3, <1>4 DEF NewBuffer
<1> QED  BY <1>5 DEF Buffers

\* The reservation of a load goes into the new buffer.
LEMMA ValidateStep ==
    ASSUME IInv, NEW t \in Threads, db' = db, Validate(t)
    PROVE  IInv'
<1> DEFINE b == NewBuffer(th[t].page)
           y == [th[t] EXCEPT !.pc = "publish", !.pin = b,
                              !.chg = @ \ {"stored", "exact"}, !.mem = @ \ {"stored", "exact"}]
           k == IF db.filtered THEN "exact" ELSE "stored"
           p == th[t].page
<1>0. Typed /\ Ledger /\ th[t] \in Thread /\ Shape(th[t]) /\ None \notin Buffers /\ db \in Databases
  BY ZenonT(60), Before DEF Typed
<1>1. /\ th' = [th EXCEPT ![t] = y]
      /\ UNCHANGED <<cache, inflight, recency, roots, table, alive, guards>>
  BY ZenonT(60), <1>0 DEF Validate, Typed, Thread
<1>2. /\ th[t].pc = "validate" /\ p \in Pages /\ th[t].owns /\ k \in th[t].chg
      /\ p \in inflight /\ \E g \in 1..Generations : <<p, g>> \notin Live
  <2>1. th[t].pc = "validate" /\ p \in Pages /\ th[t].owns /\ k \in th[t].chg
    BY ZenonT(60), <1>0 DEF Validate, Shape, Needs, Reclaiming, Loading, Filtered
  <2> QED  BY ZenonT(60), <1>0, <2>1 DEF Ledger, Owned
<1>3. b \in Buffers /\ b[1] = p
  BY ZenonT(60), <1>0, <1>2, NewBufferIs
<1> HIDE DEF b
<1>4. y \in Thread
  BY ZenonT(60), <1>0, <1>3 DEF Thread, Labels, Loading
<1>5. Shape(y)
  BY SMTT(60), <1>0, <1>2, <1>3 DEF Shape, Needs, Thread, Reclaiming, Loading, Resolving
<1>6. /\ y.pin = b /\ y.chg = th[t].chg \ {"stored", "exact"} /\ y.page = p /\ y.pc = "publish"
  BY ZenonT(60), <1>0 DEF Thread
<1>7. th'[t] = y /\ \A u \in Threads : u # t => th'[u] = th[u]
  BY ZenonT(60), <1>0, <1>1 DEF Typed
<1> HIDE DEF y, p
<1>8. Live' \subseteq Live \cup {b}
  <2>1. \A u \in Threads : th'[u].pin \in Live \cup {b} \cup {None}
    BY ZenonT(60), <1>0, <1>6, <1>7, LiveNow
  <2> QED  BY ZenonT(60), <1>0, <1>1, <2>1, LiveNow, LiveStep
<1>9. Ledger'
  <2>1. \A c \in Live' : c \in Live \/ (th[t].owns /\ c[1] = th[t].page)
    BY ZenonT(60), <1>2, <1>3, <1>8 DEF p
  <2> QED  BY ZenonT(60), <1>0, <1>1, <1>2, <1>4, <1>5, <1>6, <2>1, ThreadStep DEF Typed, p
<1>10. Resident' = Resident /\ Cached' = Cached /\ inflight' = inflight
  BY ZenonT(60), <1>1 DEF Resident, Chunks, Cached, Pages, StoredBytes
<1>11. Numbers /\ table'.book = table.book /\ p \in DOMAIN db.stored /\ BytesIn(db, p) \in Nat
         /\ BytesIn(db, p) = SizeIn(db, p, k)
  <2>1. p \in DOMAIN db.stored
    BY ZenonT(60), <1>2 DEF Pages, StoredBytes
  <2> QED  BY ZenonT(60), <1>0, <1>1, <2>1, InUseNat, Sizes
<1> HIDE DEF k
<1>12. /\ LiveSum(db, Live') <= LiveSum(db, Live) + BytesIn(db, p)
       /\ ChunkSum(Resident') <= ChunkSum(Resident) + 0
       /\ SlotSum(Cached' \cup inflight') <= SlotSum(Cached \cup inflight) + 0
  <2>1. IsFiniteSet(Live) /\ (\A c \in Live : c[1] \in DOMAIN db.stored)
    BY ZenonT(60), <1>0, FiniteSets, LiveNow
  <2>2. LiveSum(db, Live') <= LiveSum(db, Live) + BytesIn(db, b[1])
    BY ZenonT(60), <1>0, <1>3, <1>8, <1>11, <2>1, LiveChanged
  <2> QED  BY SMTT(40), <1>3, <1>10, <1>11, <2>2 DEF Numbers
<1>13. HeldIn(db, th'[t].page, th'[t].chg) + BytesIn(db, p) + 0 + 0 + table'.book
         <= HeldIn(db, th[t].page, th[t].chg) + table.book + 0
  <2>1. Fits(db, p, th[t].chg) /\ Fits(db, p, th[t].chg \ {k})
    BY ZenonT(60), <1>0, ThreadFits DEF Fits, p
  <2>2. HeldIn(db, p, th[t].chg) = SizeIn(db, p, k) + HeldIn(db, p, th[t].chg \ {k})
    BY SMTT(40), <1>0, <1>2, <2>1, HeldOneLess
  <2>3. HeldIn(db, p, y.chg) <= HeldIn(db, p, th[t].chg \ {k})
    <3>1. y.chg \in SUBSET (th[t].chg \ {k})
      BY ZenonT(60), <1>6 DEF k
    <3> QED  BY ZenonT(60), <1>0, <2>1, <3>1, HeldFewer
  <2>4. HeldIn(db, p, th[t].chg \ {k}) \in Nat /\ HeldIn(db, p, y.chg) \in Nat
    <3>1. Fits(db, p, y.chg)
      BY ZenonT(60), <1>6, <2>1 DEF Fits
    <3> QED  BY ZenonT(60), <1>0, <2>1, <3>1, HeldNat
  <2>5. HeldIn(db, th'[t].page, th'[t].chg) = HeldIn(db, p, y.chg)
          /\ HeldIn(db, th[t].page, th[t].chg) = HeldIn(db, p, th[t].chg)
    BY ZenonT(60), <1>6, <1>7 DEF p
  <2> QED  BY SMTT(40), <1>11, <2>2, <2>3, <2>4, <2>5 DEF Numbers
<1>14. InUse + 0 <= Limit
  BY <1>11 DEF IInv, Numbers
<1> QED  BY ZenonT(60), <1>7, <1>9, <1>11, <1>12, <1>13, <1>14, Balance

\* The retained roots can be counted.
LEMMA RetainedIs ==
    ASSUME Typed
    PROVE  /\ IsFiniteSet(Retained) /\ Cardinality(Retained) \in Nat
           /\ \A r : IsFiniteSet(Retained \ {r}) /\ Cardinality(Retained \ {r}) \in Nat
<1>1. IsFiniteSet(Trees)
  BY ZenonT(60), PageStoreAssumption DEF Trees
<1>2. \A S \in SUBSET Trees : IsFiniteSet(S) /\ Cardinality(S) \in Nat
  BY ZenonT(60), <1>1, FS_Subset, FS_CardinalityType
<1> QED  BY ZenonT(60), <1>2 DEF Retained

\* The retained roots go, all of them or those of a tree that is dropped.
LEMMA RootSteps ==
    ASSUME IInv, NEW t \in Threads, db' = db,
           ReleaseRoots(t) \/ \E r \in Trees : DropTree(r)
    PROVE  IInv'
<1>0. Typed /\ Ledger /\ th[t] \in Thread /\ Shape(th[t]) /\ th[t].pin \in Live \cup {None}
       /\ RootBytes \in Nat /\ table.slots \in Nat /\ table.book = RootBytes * table.slots
       /\ RootBytes * 0 = 0
  BY SMTT(40), Before, PageStoreAssumption DEF Typed
<1>1. ASSUME NEW y \in Thread, Shape(y), th' = [th EXCEPT ![t] = y],
             y.pin = th[t].pin, y.owns = th[t].owns, y.chg = th[t].chg, y.page = th[t].page,
             y.pc # "publish" => th[t].pc # "publish",
             \A r \in Trees : roots'[r] \in {None, roots[r]}, roots' \in [Trees -> Buffers \cup {None}],
             NEW n \in Nat, n <= table.slots, table' = [slots |-> n, book |-> RootBytes * n],
             alive' \in SUBSET Trees, UNCHANGED <<cache, inflight, recency, guards>>
      PROVE  IInv'
  <2>1. th'[t] = y /\ \A u \in Threads : u # t => th'[u] = th[u]
    BY ZenonT(60), <1>0, <1>1 DEF Typed
  <2>2. Live' \subseteq Live
    <3>1. \A u \in Threads : th'[u].pin \in Live \cup {None}
      BY ZenonT(60), <1>0, <1>1, <2>1, LiveNow
    <3>2. \A r \in Trees : roots'[r] \in Live \cup {None}
      BY ZenonT(60), <1>0, <1>1, LiveNow
    <3> QED  BY ZenonT(60), <1>0, <1>1, <3>1, <3>2, LiveNow, LiveKept
  <2>3. table' \in [slots : Nat, book : Nat] /\ table'.book = RootBytes * table'.slots
          /\ table'.book <= table.book
    <3>1. RootBytes * n \in Nat /\ RootBytes * n <= RootBytes * table.slots
      BY SMTT(40), <1>0, <1>1
    <3> QED  BY ZenonT(60), <1>0, <1>1, <3>1
  <2>4. Ledger'
    <3>1. th[t].owns => th[t].page \in inflight
                         /\ (th[t].pc # "publish" => \E g \in 1..Generations : <<th[t].page, g>> \notin Live')
      BY ZenonT(60), <1>0, <2>2 DEF Ledger, Owned
    <3> QED  BY ZenonT(60), <1>0, <1>1, <2>2, <2>3, <3>1, ThreadStep DEF Typed
  <2>5. Resident' = Resident /\ Cached' = Cached /\ inflight' = inflight
    BY ZenonT(60), <1>1 DEF Resident, Chunks, Cached, Pages, StoredBytes
  <2> QED  BY ZenonT(60), <1>1, <2>1, <2>2, <2>3, <2>4, <2>5, Shrinks
<1>2. ASSUME ReleaseRoots(t) PROVE IInv'
  <2> DEFINE y == [th[t] EXCEPT !.freed = IF Retained = {} THEN 0 ELSE 1,
                                !.pc = IF th[t].by = "chunk" /\ Retained = {} THEN "refused"
                                       ELSE IF th[t].by = "chunk" THEN "chunktry" ELSE "again"]
  <2>1. th' = [th EXCEPT ![t] = y]
    BY ZenonT(60), <1>0, <1>2 DEF ReleaseRoots, Retry, Typed, Thread
  <2>2. y \in Thread
    <3> DEFINE freed == IF Retained = {} THEN 0 ELSE 1
               pc == IF th[t].by = "chunk" /\ Retained = {} THEN "refused"
                     ELSE IF th[t].by = "chunk" THEN "chunktry" ELSE "again"
    <3>1. freed \in Nat /\ pc \in Labels /\ y = [th[t] EXCEPT !.freed = freed, !.pc = pc]
      BY ZenonT(60) DEF Labels, Reclaiming, Loading, Resolving
    <3> HIDE DEF freed, pc, y
    <3> QED  BY ZenonT(60), <1>0, <3>1 DEF Thread
  <2>3. Shape(y)
    BY <1>0, <1>2 DEF ReleaseRoots, Shape, Needs, Thread, Reclaiming, Loading, Resolving
  <2>4. /\ y.pin = th[t].pin /\ y.owns = th[t].owns /\ y.chg = th[t].chg /\ y.page = th[t].page
        /\ th[t].pc # "publish"
    BY ZenonT(60), <1>0, <1>2 DEF ReleaseRoots, Thread
  <2>5. /\ \A r \in Trees : roots'[r] \in {None, roots[r]}
        /\ roots' \in [Trees -> Buffers \cup {None}]
        /\ table' = [slots |-> 0, book |-> RootBytes * 0] /\ 0 <= table.slots
        /\ alive' \in SUBSET Trees /\ UNCHANGED <<cache, inflight, recency, guards>>
    BY SMTT(40), <1>0, <1>2 DEF ReleaseRoots, Typed
  <2> HIDE DEF y
  <2> QED  BY ZenonT(60), <1>1, <2>1, <2>2, <2>3, <2>4, <2>5
<1>3. ASSUME NEW r \in Trees, DropTree(r) PROVE IInv'
  <2> DEFINE len == Cardinality(Retained \ {r})
             slots == IF table.slots > 2 * len /\ Settles(RootBytes * (table.slots + len))
                        THEN len ELSE table.slots
  <2>1. len \in Nat
    BY ZenonT(60), <1>0, RetainedIs
  <2>2. slots \in Nat /\ slots <= table.slots
    BY SMTT(60), <1>0, <2>1
  <2>3. table' = [slots |-> slots, book |-> RootBytes * slots]
    BY ZenonT(60), <1>3 DEF DropTree
  <2>4. /\ th' = [th EXCEPT ![t] = th[t]]
        /\ \A q \in Trees : roots'[q] \in {None, roots[q]}
        /\ roots' \in [Trees -> Buffers \cup {None}]
        /\ alive' \in SUBSET Trees /\ UNCHANGED <<cache, inflight, recency, guards>>
    BY ZenonT(60), <1>0, <1>3 DEF DropTree, Typed
  <2> HIDE DEF slots
  <2> QED  BY ZenonT(60), <1>0, <1>1, <2>2, <2>3, <2>4
<1> QED  BY ZenonT(60), <1>2, <1>3

\* A root is retained: the table's room is settled first.
LEMMA RetainStep ==
    ASSUME IInv, NEW t \in Threads, db' = db, Retain(t)
    PROVE  IInv'
<1>0. Typed /\ Ledger /\ th[t] \in Thread /\ Shape(th[t]) /\ th[t].pin \in Live \cup {None} /\ None \notin Buffers
       /\ RootBytes \in Nat /\ table.slots \in Nat /\ table.book = RootBytes * table.slots
       /\ table.book \in Nat /\ db \in Databases
  BY ZenonT(60), Before, PageStoreAssumption DEF Typed
<1>1. th[t].pc = "retain" /\ th[t].pin \in Buffers /\ th[t].pin \in Live /\ th[t].tree[1] \in Trees
  BY SMTT(40), <1>0 DEF Retain, Shape, Thread, None
<1>2. Numbers
  BY ZenonT(60), <1>0, InUseNat
<1>3. /\ th' = [th EXCEPT ![t] = Returned(t)]
      /\ guards' = [guards EXCEPT ![t] = @ \cup {th[t].pin}]
      /\ UNCHANGED <<cache, inflight, recency, alive>>
  BY ZenonT(60), <1>0 DEF Retain, Return, Returned
<1>4. guards' \in [Threads -> SUBSET Buffers] /\ \A u \in Threads : guards'[u] \subseteq guards[u] \cup {th[t].pin}
  BY ZenonT(60), <1>0, <1>1, <1>3 DEF Typed
<1>5. th'[t] = Returned(t) /\ \A u \in Threads : u # t => th'[u] = th[u]
  BY ZenonT(60), <1>0, <1>3 DEF Typed
<1>6. /\ roots' \in [Trees -> Buffers \cup {None}]
      /\ \A r \in Trees : roots'[r] \in {roots[r], th[t].pin}
  <2>1. roots' = roots \/ roots' = [roots EXCEPT ![th[t].tree[1]] = th[t].pin]
    BY ZenonT(60) DEF Retain
  <2>2. roots \in [Trees -> Buffers \cup {None}]
    BY ZenonT(60), <1>0 DEF Typed
  <2> QED  BY ZenonT(60), <1>1, <2>1, <2>2
<1>7. /\ table' \in [slots : Nat, book : Nat] /\ table'.book = RootBytes * table'.slots
      /\ \E n \in Nat : InUse + n <= Limit /\ table'.book <= table.book + n
  <2> DEFINE full == table.slots = Cardinality(Retained)
             grown == IF table.slots = 0 THEN 1 ELSE 2 * table.slots
             more == IF full THEN table.slots + grown ELSE table.slots
             slots == IF full THEN grown ELSE table.slots
  <2>1. slots \in Nat /\ more \in Nat /\ slots <= more /\ table.slots <= more
    <3>1. grown \in Nat
      BY <1>0
    <3> HIDE DEF grown
    <3> QED  BY SMTT(60), <1>0, <3>1
  <2>2. CASE Settles(RootBytes * more)
    <3>1. table' = [slots |-> slots, book |-> RootBytes * slots]
      BY ZenonT(60), <2>2 DEF Retain
    <3> HIDE DEF slots, more
    <3>2. RootBytes * slots \in Nat /\ RootBytes * more \in Nat /\ RootBytes * slots <= RootBytes * more
            /\ table.book <= RootBytes * more
      BY SMTT(60), <1>0, <2>1
    <3>3. CASE RootBytes * more <= table.book
      <4>1. InUse + 0 <= Limit /\ table'.book <= table.book + 0
        BY SMTT(40), <1>0, <1>2, <3>1, <3>2, <3>3 DEF IInv, Numbers
      <4> QED  BY ZenonT(60), <3>1, <3>2, <2>1, <4>1
    <3>4. CASE TryReserve(RootBytes * more - table.book)
      <4>1. RootBytes * more - table.book \in Nat
        BY <1>0, <3>2
      <4>2. InUse + (RootBytes * more - table.book) <= Limit
        BY ZenonT(60), <3>4 DEF TryReserve
      <4>3. table'.book <= table.book + (RootBytes * more - table.book)
        BY SMTT(40), <1>0, <3>1, <3>2
      <4> QED  BY ZenonT(60), <3>1, <3>2, <2>1, <4>1, <4>2, <4>3
    <3> QED  BY ZenonT(60), <2>2, <3>3, <3>4 DEF Settles
  <2>3. CASE ~Settles(RootBytes * more)
    <3>1. table' = table
      BY ZenonT(60), <2>3 DEF Retain
    <3>2. InUse + 0 <= Limit /\ table'.book <= table.book + 0
      BY SMTT(40), <1>0, <1>2, <3>1 DEF IInv, Numbers
    <3> QED  BY ZenonT(60), <1>0, <3>1, <3>2 DEF Typed
  <2> QED  BY ZenonT(60), <2>2, <2>3
<1>8. Live' \subseteq Live
  <2>1. \A u \in Threads : th'[u].pin \in Live \cup {None}
    BY SMTT(40), <1>0, <1>5, ReturnedIs, LiveNow
  <2>2. \A u \in Threads : guards'[u] \subseteq Live
    BY ZenonT(60), <1>0, <1>1, <1>4, LiveNow
  <2>3. \A r \in Trees : roots'[r] \in Live \cup {None}
    BY ZenonT(60), <1>0, <1>1, <1>6, LiveNow
  <2> QED  BY ZenonT(60), <1>0, <1>3, <2>1, <2>2, <2>3, LiveNow, LiveKept
<1>9. Ledger'
  BY ZenonT(60), <1>0, <1>3, <1>4, <1>6, <1>7, <1>8, ReturnedIs, ThreadStep DEF Typed
<1>10. Resident' = Resident /\ Cached' = Cached /\ inflight' = inflight
  BY ZenonT(60), <1>3 DEF Resident, Chunks, Cached, Pages, StoredBytes
<1>11. PICK n \in Nat : InUse + n <= Limit /\ table'.book <= table.book + n
  BY ZenonT(60), <1>7
<1>12. /\ LiveSum(db, Live') <= LiveSum(db, Live) + 0
       /\ ChunkSum(Resident') <= ChunkSum(Resident) + 0
       /\ SlotSum(Cached' \cup inflight') <= SlotSum(Cached \cup inflight) + 0
  <2>1. IsFiniteSet(Live) /\ (\A c \in Live : c[1] \in DOMAIN db.stored)
    BY ZenonT(60), <1>0, FiniteSets, LiveNow
  <2>2. LiveSum(db, Live') <= LiveSum(db, Live)
    BY ZenonT(60), <1>0, <1>8, <2>1, LiveChanged
  <2> QED  BY SMTT(40), <1>2, <1>10, <2>2 DEF Numbers
<1>13. HeldIn(db, th'[t].page, th'[t].chg) + 0 + 0 + 0 + table'.book
         <= HeldIn(db, th[t].page, th[t].chg) + table.book + n
  <2>1. Fits(db, th[t].page, th[t].chg) /\ Fits(db, Returned(t).page, Returned(t).chg)
    BY ZenonT(60), <1>0, ThreadFits, ReturnedIs
  <2>2. HeldIn(db, Returned(t).page, Returned(t).chg) <= HeldIn(db, th[t].page, th[t].chg)
    BY ZenonT(60), <1>0, <2>1, ReturnedIs, HeldFewer
  <2>3. /\ HeldIn(db, Returned(t).page, Returned(t).chg) \in Nat
        /\ HeldIn(db, th[t].page, th[t].chg) \in Nat /\ table'.book \in Nat
    BY ZenonT(60), <1>0, <1>7, <2>1, HeldNat
  <2> QED  BY <1>0, <1>5, <1>11, <2>2, <2>3
<1> QED  BY ZenonT(60), <1>5, <1>9, <1>11, <1>12, <1>13, Balance

-----------------------------------------------------------------------------
\* The resident chunks and the threads that have read one, each once.
Order ==
    /\ Distinct(recency)
    /\ \A t \in Threads : t \in Range(recency) <=> th[t].pc = "insert"
    /\ Cardinality(Resident) <= MaxChunks

\* The oldest chunk is a resident one.
LEMMA OldestIs ==
    ASSUME Typed, Resident # {}
    PROVE  Oldest \in Resident /\ Oldest \in Range(recency) /\ Oldest \in Chunks
<1> DEFINE S == {At(c) : c \in Resident}
<1>1. \A c \in Resident : At(c) \in Nat
  <2> TAKE c \in Resident
  <2>1. c \in Range(recency)
    BY ZenonT(60) DEF Resident
  <2> QED  BY <2>1, WithoutIs
<1>2. PICK m \in S : \A n \in S : m <= n
  BY ZenonT(60), <1>1, Least
<1>3. \E c \in Resident : \A d \in Resident : At(c) <= At(d)
  BY ZenonT(60), <1>2
<1> QED  BY ZenonT(60), <1>3 DEF Oldest, Resident

\* No thread is the name of a chunk.
LEMMA ChunkNames ==
    ASSUME Typed
    PROVE  Chunks \subseteq Nat /\ Chunks \cap Threads = {}
<1>1. Pages \subseteq Nat /\ EntriesPerChunk \in Nat \ {0} /\ Threads \cap Nat = {}
  BY ZenonT(60), PageStoreAssumption DEF Typed, Pages, StoredBytes
<1>2. \A p \in Pages : p \div EntriesPerChunk \in Nat
  BY <1>1
<1> QED  BY ZenonT(60), <1>1, <1>2 DEF Chunks

\* A chunk that is read again moves to the end of the order and nothing else changes.
LEMMA HitRecency ==
    ASSUME Typed, NEW c \in Resident, recency' = Append(Without(c), c)
    PROVE  /\ recency' \in Seq(Chunks \cup Threads)
           /\ \A x : x \in Range(recency') <=> x \in Range(recency)
           /\ Distinct(recency) => Distinct(recency')
<1>1. c \in Range(recency) /\ c \in Chunks \cup Threads /\ recency \in Seq(Chunks \cup Threads)
  BY ZenonT(60) DEF Resident, Typed
<1>2. At(c) \in 1..Len(recency) /\ recency[At(c)] = c /\ Without(c) \in Seq(Chunks \cup Threads)
       /\ Without(c) = Less(recency, At(c))
  BY ZenonT(60), <1>1, WithoutIs
<1>3. /\ \A x : x \in Range(Without(c)) => x \in Range(recency)
      /\ \A x : x \in Range(recency) /\ x # c => x \in Range(Without(c))
      /\ Distinct(recency) => Distinct(Without(c)) /\ c \notin Range(Without(c))
  BY SMTT(60), <1>1, <1>2, LessKeeps
<1>4. /\ recency' \in Seq(Chunks \cup Threads)
      /\ \A x : x \in Range(recency') <=> x \in Range(Without(c)) \/ x = c
      /\ Distinct(Without(c)) /\ c \notin Range(Without(c)) => Distinct(recency')
  BY <1>1, <1>2, AppendKeeps
<1> QED  BY ZenonT(60), <1>1, <1>3, <1>4

\* A chunk that is dropped leaves the order, and the others keep theirs.
LEMMA GoneRecency ==
    ASSUME Typed, NEW c, c \in Range(recency)
    PROVE  /\ Without(c) \in Seq(Chunks \cup Threads)
           /\ \A x : x \in Range(Without(c)) => x \in Range(recency)
           /\ \A x : x \in Range(recency) /\ x # c => x \in Range(Without(c))
           /\ Distinct(recency) => Distinct(Without(c)) /\ c \notin Range(Without(c))
<1>1. recency \in Seq(Chunks \cup Threads)
  BY ZenonT(60) DEF Typed
<1>2. At(c) \in 1..Len(recency) /\ recency[At(c)] = c /\ Without(c) \in Seq(Chunks \cup Threads)
       /\ Without(c) = Less(recency, At(c))
  BY ZenonT(60), WithoutIs
<1> QED  BY SMTT(60), <1>1, <1>2, LessKeeps

\* What insert does: who is resident, and which threads still have a tick.
LEMMA InsertRecency ==
    ASSUME IInv, Order, NEW t \in Threads, Insert(t)
    PROVE  /\ recency' \in Seq(Chunks \cup Threads)
           /\ Distinct(recency')
           /\ ChunkOf(t) \in Chunks
           /\ \A u \in Threads : u \in Range(recency') <=> u \in Range(recency) /\ u # t
           /\ \A x \in Chunks : x \in Range(recency') => x \in Range(recency) \/ x = ChunkOf(t)
           /\ ChunkOf(t) \notin Resident /\ Cardinality(Resident) >= MaxChunks /\ Resident # {} =>
                Oldest \notin Range(recency')
<1> DEFINE c == ChunkOf(t)
           put(seq) == [i \in DOMAIN seq |-> IF seq[i] = t THEN c ELSE seq[i]]
<1>0. Typed /\ th[t] \in Thread /\ Shape(th[t]) /\ recency \in Seq(Chunks \cup Threads)
  BY ZenonT(60), Before DEF Typed
<1>1. c \in Chunks
  BY ZenonT(60), <1>0 DEF Insert, ChunkOf, Chunks, Shape, Resolving, Loading
<1>2. t \in Range(recency) /\ Distinct(recency)
  BY ZenonT(60) DEF Insert, Order
<1>3. \A x \in Chunks : x \notin Threads
  BY ZenonT(60), <1>0, ChunkNames
<1>4. recency' = CASE c \in Resident -> Without(t)
                   [] c \notin Resident /\ Cardinality(Resident) >= MaxChunks -> put(Without(Oldest))
                   [] OTHER -> put(recency)
  BY ZenonT(60) DEF Insert
<1>5. \A x \in Chunks : x \in Resident <=> x \in Range(recency)
  BY ZenonT(60) DEF Resident
<1> HIDE DEF c
<1>6. CASE c \in Resident
  <2>1. recency' = Without(t)
    BY ZenonT(60), <1>4, <1>6
  <2>2. /\ recency' \in Seq(Chunks \cup Threads) /\ Distinct(recency') /\ t \notin Range(recency')
        /\ \A x : x \in Range(recency') => x \in Range(recency)
        /\ \A x : x \in Range(recency) /\ x # t => x \in Range(recency')
    BY ZenonT(60), <1>0, <1>2, <2>1, GoneRecency
  <2> QED  BY SMTT(60), <1>1, <1>6, <2>2 DEF c
<1>7. ASSUME NEW s \in Seq(Chunks \cup Threads), Distinct(s), recency' = put(s), c \notin Resident,
             \A x : x \in Range(s) => x \in Range(recency),
             \A x \in Threads : x \in Range(recency) => x \in Range(s)
      PROVE  /\ recency' \in Seq(Chunks \cup Threads)
             /\ Distinct(recency')
             /\ \A u \in Threads : u \in Range(recency') <=> u \in Range(recency) /\ u # t
             /\ \A x \in Chunks : x \in Range(recency') => x \in Range(s) \/ x = c
  <2>1. c \notin Range(s) /\ c \in Chunks \cup Threads
    BY ZenonT(60), <1>1, <1>5, <1>7
  <2>2. /\ recency' \in Seq(Chunks \cup Threads)
        /\ \A x : x \in Range(recency') => x = c \/ (x \in Range(s) /\ x # t)
        /\ \A x : x \in Range(s) /\ x # t => x \in Range(recency')
        /\ Distinct(s) /\ c \notin Range(s) => Distinct(recency')
    <3>1. recency' = Put(s, t, c)
      BY ZenonT(60), <1>7 DEF Put
    <3>2. s \in Seq(Chunks \cup Threads)
      BY ZenonT(60), <1>7
    <3> QED  BY ZenonT(60), <2>1, <3>1, <3>2, PutKeeps
  <2> QED  BY ZenonT(60), <1>1, <1>3, <1>7, <2>1, <2>2
<1>8. CASE c \notin Resident /\ Cardinality(Resident) >= MaxChunks
  <2>1. Resident # {}
    <3>1. MaxChunks \in Nat \ {0}
      BY ZenonT(60), PageStoreAssumption
    <3> QED  BY SMTT(60), <1>8, <3>1, FS_EmptySet
  <2>2. Oldest \in Chunks /\ Oldest \in Range(recency)
    BY ZenonT(60), <1>0, <2>1, OldestIs
  <2> DEFINE s == Without(Oldest)
  <2>3. /\ s \in Seq(Chunks \cup Threads) /\ Distinct(s) /\ Oldest \notin Range(s)
        /\ \A x : x \in Range(s) => x \in Range(recency)
        /\ \A x : x \in Range(recency) /\ x # Oldest => x \in Range(s)
    BY ZenonT(60), <1>0, <1>2, <2>2, GoneRecency
  <2>4. recency' = put(s)
    BY ZenonT(60), <1>4, <1>8
  <2>5. \A x \in Threads : x # Oldest
    BY ZenonT(60), <1>3, <2>2
  <2> HIDE DEF s, put
  <2>6. /\ recency' \in Seq(Chunks \cup Threads)
        /\ Distinct(recency')
        /\ \A u \in Threads : u \in Range(recency') <=> u \in Range(recency) /\ u # t
        /\ \A x \in Chunks : x \in Range(recency') => x \in Range(s) \/ x = c
    BY ZenonT(60), <1>7, <1>8, <2>3, <2>4, <2>5
  <2>7. Oldest # c
    BY ZenonT(60), <1>8, <1>5, <2>2
  <2> QED  BY ZenonT(60), <1>1, <2>2, <2>3, <2>6, <2>7 DEF c
<1>9. CASE c \notin Resident /\ ~(Cardinality(Resident) >= MaxChunks)
  <2>1. recency' = put(recency)
    BY ZenonT(60), <1>4, <1>9
  <2> HIDE DEF put
  <2>2. /\ recency' \in Seq(Chunks \cup Threads)
        /\ Distinct(recency')
        /\ \A u \in Threads : u \in Range(recency') <=> u \in Range(recency) /\ u # t
        /\ \A x \in Chunks : x \in Range(recency') => x \in Range(recency) \/ x = c
    BY ZenonT(60), <1>0, <1>2, <1>7, <1>9, <2>1
  <2> QED  BY ZenonT(60), <1>1, <1>9, <2>2 DEF c
<1> QED  BY ZenonT(60), <1>6, <1>8, <1>9

\* A step of a call that changes recency and no more than its own state.
LEMMA RecencyStep ==
    ASSUME IInv, NEW t \in Threads, NEW y \in Thread, Shape(y), db' = db,
           th' = [th EXCEPT ![t] = y],
           y.pin = th[t].pin, y.owns = th[t].owns, y.page = th[t].page,
           y.pc # "publish" => th[t].pc # "publish",
           recency' \in Seq(Chunks \cup Threads),
           UNCHANGED <<cache, inflight, roots, table, alive, guards>>
    PROVE  /\ Ledger'
           /\ y.chg \subseteq th[t].chg /\ Resident' \subseteq Resident => IInv'
           /\ "chunk" \in th[t].chg /\ y.chg = th[t].chg \ {"chunk"}
                /\ (\E c : Resident' \subseteq Resident \cup {c}) => IInv'
<1>0. Typed /\ Ledger /\ th[t] \in Thread /\ Shape(th[t]) /\ th[t].pin \in Live \cup {None} /\ db \in Databases
  BY ZenonT(60), Before DEF Typed
<1>1. th'[t] = y /\ \A u \in Threads : u # t => th'[u] = th[u]
  BY ZenonT(60), <1>0 DEF Typed
<1>2. Live' \subseteq Live
  <2>1. \A u \in Threads : th'[u].pin \in Live \cup {None}
    BY ZenonT(60), <1>0, <1>1, LiveNow
  <2> QED  BY ZenonT(60), <1>0, <2>1, LiveNow, LiveKept
<1>3. Ledger'
  <2>1. th[t].owns => th[t].page \in inflight
                        /\ (th[t].pc # "publish" => \E g \in 1..Generations : <<th[t].page, g>> \notin Live')
    BY ZenonT(60), <1>0, <1>2 DEF Ledger, Owned
  <2> QED  BY ZenonT(60), <1>0, <1>2, <2>1, ThreadStep DEF Typed
<1>4. Cached' = Cached /\ inflight' = inflight /\ table' = table
  BY ZenonT(60) DEF Cached, Pages, StoredBytes
<1>5. Numbers
  BY ZenonT(60), <1>0, InUseNat
<1>6. ASSUME y.chg \subseteq th[t].chg, Resident' \subseteq Resident PROVE IInv'
  <2>1. table'.book <= table.book
    BY <1>4, <1>5 DEF Numbers
  <2> QED  BY ZenonT(60), <1>1, <1>2, <1>3, <1>4, <1>6, <2>1, Shrinks
<1>7. ASSUME "chunk" \in th[t].chg, y.chg = th[t].chg \ {"chunk"},
             NEW c, Resident' \subseteq Resident \cup {c}
      PROVE  IInv'
  <2>1. /\ LiveSum(db, Live') <= LiveSum(db, Live) + 0
        /\ SlotSum(Cached' \cup inflight') <= SlotSum(Cached \cup inflight) + 0
    <3>1. IsFiniteSet(Live) /\ (\A b \in Live : b[1] \in DOMAIN db.stored)
      BY ZenonT(60), <1>0, FiniteSets, LiveNow
    <3>2. LiveSum(db, Live') <= LiveSum(db, Live)
      BY ZenonT(60), <1>0, <1>2, <3>1, LiveChanged
    <3> QED  BY SMTT(60), <1>4, <1>5, <3>2 DEF Numbers
  <2>2. ChunkBytes \in Nat /\ ChunkSum(Resident') <= ChunkSum(Resident) + ChunkBytes
    <3>1. IsFiniteSet(Resident) /\ ChunkBytes \in Nat
      BY ZenonT(60), <1>0, FiniteSets, PageStoreAssumption
    <3> QED  BY ZenonT(60), <1>7, <3>1, Times DEF ChunkSum
  <2>3. Fits(db, th[t].page, th[t].chg) /\ Fits(db, y.page, y.chg)
    BY ZenonT(60), <1>0, ThreadFits
  <2>4. HeldIn(db, th[t].page, th[t].chg) = ChunkBytes + HeldIn(db, y.page, y.chg)
    <3>1. SizeIn(db, th[t].page, "chunk") = ChunkBytes
      BY ZenonT(60) DEF SizeIn
    <3> QED  BY SMTT(60), <1>0, <1>7, <2>3, <3>1, HeldOneLess
  <2>5. HeldIn(db, y.page, y.chg) \in Nat
    BY ZenonT(60), <1>0, <2>3, HeldNat
  <2>6. InUse + 0 <= Limit
    BY SMTT(60), <1>5 DEF IInv, Numbers
  <2>7. HeldIn(db, th'[t].page, th'[t].chg) + 0 + ChunkBytes + 0 + table'.book
          <= HeldIn(db, th[t].page, th[t].chg) + table.book + 0
    BY <1>1, <1>4, <1>5, <2>2, <2>4, <2>5 DEF Numbers
  <2> QED  BY ZenonT(60), <1>1, <1>3, <2>1, <2>2, <2>6, <2>7, Balance
<1> QED  BY ZenonT(60), <1>3, <1>6, <1>7

\* A walk finds its chunk resident: it becomes the most recently used.
LEMMA LookupStep ==
    ASSUME IInv, NEW t \in Threads, db' = db, Lookup(t), ChunkOf(t) \in Resident
    PROVE  IInv' /\ (Order => Order')
<1>0. Typed /\ th[t] \in Thread /\ Shape(th[t])
  BY ZenonT(60), Before
<1> DEFINE y == [th[t] EXCEPT !.pc = th[t].to]
<1>1. /\ th' = [th EXCEPT ![t] = y] /\ recency' = Append(Without(ChunkOf(t)), ChunkOf(t))
      /\ UNCHANGED <<cache, inflight, roots, table, alive, guards>> /\ th[t].pc = "offset"
  BY ZenonT(60), <1>0 DEF Lookup, Goto, Typed, Thread
<1>2. th[t].to \in {"length", "bounded"}
  BY ZenonT(60), <1>0, <1>1 DEF Shape, Resolving
<1>3. y \in Thread
  BY SMTT(60), <1>0, <1>2 DEF Thread, Labels, Loading, Resolving
<1>4. Shape(y)
  BY ZenonT(60), <1>0, <1>1, <1>2 DEF Shape, Needs, Thread, Reclaiming, Loading, Resolving
<1>5. /\ y.pin = th[t].pin /\ y.owns = th[t].owns /\ y.page = th[t].page /\ y.chg = th[t].chg
      /\ y.pc = th[t].to
  BY ZenonT(60), <1>0 DEF Thread
<1> HIDE DEF y
<1>6. /\ recency' \in Seq(Chunks \cup Threads)
      /\ \A x : x \in Range(recency') <=> x \in Range(recency)
      /\ Distinct(recency) => Distinct(recency')
  BY ZenonT(60), <1>0, <1>1, HitRecency
<1>7. Resident' = Resident
  BY ZenonT(60), <1>6 DEF Resident, Chunks, Pages, StoredBytes
<1>8. IInv'
  BY ZenonT(60), <1>1, <1>3, <1>4, <1>5, <1>6, <1>7, RecencyStep
<1>9. Order => Order'
  <2>1. \A u \in Threads : th'[u].pc = "insert" <=> th[u].pc = "insert"
    BY ZenonT(60), <1>0, <1>1, <1>2, <1>5 DEF Typed
  <2> QED  BY ZenonT(60), <1>6, <1>7, <2>1 DEF Order
<1> QED  BY ZenonT(60), <1>8, <1>9

\* A chunk has been read: the thread takes its tick.
LEMMA ChunkReadStep ==
    ASSUME IInv, NEW t \in Threads, db' = db, ChunkRead(t)
    PROVE  IInv' /\ (Order => Order')
<1>0. Typed /\ th[t] \in Thread /\ Shape(th[t])
  BY ZenonT(60), Before
<1> DEFINE y == [th[t] EXCEPT !.pc = "insert"]
<1>1. /\ th' = [th EXCEPT ![t] = y] /\ recency' = Append(recency, t)
      /\ UNCHANGED <<cache, inflight, roots, table, alive, guards>> /\ th[t].pc = "chunkread"
  BY ZenonT(60), <1>0 DEF ChunkRead, Goto, Typed, Thread
<1>3. y \in Thread
  BY ZenonT(60), <1>0 DEF Thread, Labels, Loading, Resolving
<1>4. Shape(y)
  BY ZenonT(60), <1>0, <1>1 DEF Shape, Needs, Thread, Reclaiming, Loading, Resolving
<1>5. /\ y.pin = th[t].pin /\ y.owns = th[t].owns /\ y.page = th[t].page /\ y.chg = th[t].chg
      /\ y.pc = "insert"
  BY ZenonT(60), <1>0 DEF Thread
<1> HIDE DEF y
<1>6. /\ recency' \in Seq(Chunks \cup Threads)
      /\ \A x : x \in Range(recency') <=> x \in Range(recency) \/ x = t
      /\ Distinct(recency) /\ t \notin Range(recency) => Distinct(recency')
  <2>1. recency \in Seq(Chunks \cup Threads) /\ t \in Chunks \cup Threads
    BY ZenonT(60), <1>0 DEF Typed
  <2> QED  BY SMTT(60), <1>1, <2>1, AppendKeeps
<1>7. Resident' = Resident
  <2>1. t \notin Chunks
    BY ZenonT(60), <1>0, ChunkNames
  <2> QED  BY ZenonT(60), <1>6, <2>1 DEF Resident, Chunks, Pages, StoredBytes
<1>8. IInv'
  BY ZenonT(60), <1>1, <1>3, <1>4, <1>5, <1>6, <1>7, RecencyStep
<1>9. Order => Order'
  <2>1. th'[t].pc = "insert" /\ \A u \in Threads : u # t => th'[u] = th[u]
    BY ZenonT(60), <1>0, <1>1, <1>5 DEF Typed
  <2> QED  BY ZenonT(60), <1>1, <1>6, <1>7, <2>1 DEF Order
<1> QED  BY ZenonT(60), <1>8, <1>9

\* A chunk that has been read goes in: what it was charged to goes to the directory.
LEMMA InsertStep ==
    ASSUME IInv, Order, NEW t \in Threads, db' = db, Insert(t)
    PROVE  IInv' /\ Order'
<1>0. Typed /\ th[t] \in Thread /\ Shape(th[t])
  BY ZenonT(60), Before
<1> DEFINE y == [th[t] EXCEPT !.pc = th[t].to, !.chg = @ \ {"chunk"}, !.mem = @ \ {"chunk"}]
<1>1. /\ th' = [th EXCEPT ![t] = y]
      /\ UNCHANGED <<cache, inflight, roots, table, alive, guards>> /\ th[t].pc = "insert"
  BY ZenonT(60), <1>0 DEF Insert, Typed, Thread
<1>2. th[t].to \in {"length", "bounded"} /\ "chunk" \in th[t].chg
  BY ZenonT(60), <1>0, <1>1 DEF Shape, Resolving, Needs
<1>3. y \in Thread
  BY ZenonT(60), <1>0, <1>2 DEF Thread, Labels, Loading, Resolving
<1>4. Shape(y)
  BY ZenonT(60), <1>0, <1>1, <1>2 DEF Shape, Needs, Thread, Reclaiming, Loading, Resolving
<1>5. /\ y.pin = th[t].pin /\ y.owns = th[t].owns /\ y.page = th[t].page
      /\ y.chg = th[t].chg \ {"chunk"} /\ y.pc = th[t].to
  BY ZenonT(60), <1>0 DEF Thread
<1> HIDE DEF y
<1>6. /\ recency' \in Seq(Chunks \cup Threads)
      /\ Distinct(recency')
      /\ ChunkOf(t) \in Chunks
      /\ \A u \in Threads : u \in Range(recency') <=> u \in Range(recency) /\ u # t
      /\ \A x \in Chunks : x \in Range(recency') => x \in Range(recency) \/ x = ChunkOf(t)
      /\ ChunkOf(t) \notin Resident /\ Cardinality(Resident) >= MaxChunks /\ Resident # {} =>
           Oldest \notin Range(recency')
  BY ZenonT(60), InsertRecency
<1>7. Resident' \subseteq Resident \cup {ChunkOf(t)}
  BY ZenonT(60), <1>6 DEF Resident, Chunks, Pages, StoredBytes
<1>8. IInv'
  BY ZenonT(60), <1>1, <1>2, <1>3, <1>4, <1>5, <1>6, <1>7, RecencyStep
<1>9. Cardinality(Resident') <= MaxChunks
  <2>1. IsFiniteSet(Resident) /\ Cardinality(Resident) \in Nat /\ MaxChunks \in Nat \ {0}
          /\ Cardinality(Resident) <= MaxChunks
    BY ZenonT(60), <1>0, FiniteSets, FS_CardinalityType, PageStoreAssumption DEF Order
  <2>2. CASE ChunkOf(t) \in Resident
    <3>1. Resident' \subseteq Resident
      BY ZenonT(60), <1>7, <2>2
    <3>2. Cardinality(Resident') <= Cardinality(Resident) /\ Cardinality(Resident') \in Nat
      BY ZenonT(60), <2>1, <3>1, FS_Subset, FS_CardinalityType
    <3> QED  BY SMTT(60), <2>1, <3>2
  <2>3. CASE ChunkOf(t) \notin Resident /\ Cardinality(Resident) >= MaxChunks
    <3>1. Resident # {}
      BY SMTT(60), <2>1, <2>3, FS_EmptySet
    <3>2. Oldest \in Resident /\ Oldest \in Chunks
      BY ZenonT(60), <1>0, <3>1, OldestIs
    <3>3. Oldest \notin Resident'
      BY ZenonT(60), <1>6, <2>3, <3>1 DEF Resident
    <3>4. Resident' \subseteq (Resident \ {Oldest}) \cup {ChunkOf(t)}
      BY ZenonT(60), <1>7, <3>3
    <3>5. /\ IsFiniteSet(Resident \ {Oldest})
          /\ Cardinality(Resident \ {Oldest}) = Cardinality(Resident) - 1
      BY ZenonT(60), <2>1, <3>2, FS_RemoveElement
    <3>6. /\ IsFiniteSet((Resident \ {Oldest}) \cup {ChunkOf(t)})
          /\ Cardinality((Resident \ {Oldest}) \cup {ChunkOf(t)}) = Cardinality(Resident \ {Oldest}) + 1
      BY ZenonT(60), <2>3, <3>5, FS_AddElement
    <3>7. Cardinality(Resident') <= Cardinality((Resident \ {Oldest}) \cup {ChunkOf(t)})
            /\ Cardinality(Resident') \in Nat
      BY ZenonT(60), <3>4, <3>6, FS_Subset, FS_CardinalityType
    <3> QED  BY SMTT(60), <2>1, <3>5, <3>6, <3>7
  <2>4. CASE ChunkOf(t) \notin Resident /\ ~(Cardinality(Resident) >= MaxChunks)
    <3>1. /\ IsFiniteSet(Resident \cup {ChunkOf(t)})
          /\ Cardinality(Resident \cup {ChunkOf(t)}) = Cardinality(Resident) + 1
      BY ZenonT(60), <2>1, <2>4, FS_AddElement
    <3>2. Cardinality(Resident') <= Cardinality(Resident \cup {ChunkOf(t)})
            /\ Cardinality(Resident') \in Nat
      BY ZenonT(60), <1>7, <3>1, FS_Subset, FS_CardinalityType
    <3> QED  BY <2>1, <2>4, <3>1, <3>2
  <2> QED  BY ZenonT(60), <2>2, <2>3, <2>4
<1>10. \A u \in Threads : u \in Range(recency') <=> th'[u].pc = "insert"
  <2>1. th'[t].pc = th[t].to /\ \A u \in Threads : u # t => th'[u] = th[u]
    BY ZenonT(60), <1>0, <1>1, <1>5 DEF Typed
  <2> QED  BY ZenonT(60), <1>2, <1>6, <2>1 DEF Order
<1> QED  BY ZenonT(60), <1>6, <1>8, <1>9, <1>10 DEF Order

\* evict_one has a chunk to give up.
LEMMA DropChunkStep ==
    ASSUME IInv, NEW t \in Threads, db' = db, DropChunk(t), Resident # {}
    PROVE  /\ IInv' /\ (Order => Order')
           /\ Resident' \subseteq Resident /\ (Order => Resident' \subseteq Resident \ {Oldest})
<1>0. Typed /\ th[t] \in Thread /\ Shape(th[t])
  BY ZenonT(60), Before
<1> DEFINE pc == IF th[t].by = "chunk" THEN "chunktry" ELSE "again"
           y == [th[t] EXCEPT !.pc = pc, !.freed = 1]
<1>1. /\ th' = [th EXCEPT ![t] = y] /\ recency' = Without(Oldest)
      /\ UNCHANGED <<cache, inflight, roots, table, alive, guards>> /\ th[t].pc = "chunk"
  BY ZenonT(60), <1>0 DEF DropChunk, Retry, Typed, Thread
<1>2. pc \in Labels /\ pc \in {"chunktry", "again"}
  BY ZenonT(60) DEF Labels, Reclaiming, Loading, Resolving
<1>3. y \in Thread
  <2> HIDE DEF pc
  <2> QED  BY ZenonT(60), <1>0, <1>2 DEF Thread
<1>4. Shape(y)
  BY SMTT(60), <1>0, <1>1 DEF Shape, Needs, Thread, Reclaiming, Loading, Resolving
<1>5. /\ y.pin = th[t].pin /\ y.owns = th[t].owns /\ y.page = th[t].page /\ y.chg = th[t].chg
      /\ y.pc = pc
  BY ZenonT(60), <1>0 DEF Thread
<1> HIDE DEF y, pc
<1>6. Oldest \in Resident /\ Oldest \in Chunks /\ Oldest \in Range(recency)
  BY ZenonT(60), <1>0, OldestIs
<1>7. /\ recency' \in Seq(Chunks \cup Threads)
      /\ \A x : x \in Range(recency') => x \in Range(recency)
      /\ \A x : x \in Range(recency) /\ x # Oldest => x \in Range(recency')
      /\ Distinct(recency) => Distinct(recency') /\ Oldest \notin Range(recency')
  BY ZenonT(60), <1>0, <1>1, <1>6, GoneRecency
<1>8. Resident' \subseteq Resident /\ (Distinct(recency) => Resident' \subseteq Resident \ {Oldest})
  BY ZenonT(60), <1>7 DEF Resident, Chunks, Pages, StoredBytes
<1>9. IInv'
  BY ZenonT(60), <1>1, <1>2, <1>3, <1>4, <1>5, <1>7, <1>8, RecencyStep
<1>10. Order => Order'
  <2>1. \A u \in Threads : th'[u].pc = "insert" <=> th[u].pc = "insert"
    BY ZenonT(60), <1>0, <1>1, <1>2, <1>5 DEF Typed
  <2>2. \A u \in Threads : u # Oldest
    BY ZenonT(60), <1>0, <1>6, ChunkNames
  <2>3. Cardinality(Resident') <= Cardinality(Resident) /\ Cardinality(Resident') \in Nat
          /\ Cardinality(Resident) \in Nat /\ MaxChunks \in Nat
    BY ZenonT(60), <1>0, <1>8, FiniteSets, FS_Subset, FS_CardinalityType, PageStoreAssumption
  <2> QED  BY SMTT(40), <1>7, <2>1, <2>2, <2>3 DEF Order
<1> QED  BY ZenonT(60), <1>8, <1>9, <1>10 DEF Order

\* No other step moves recency, or a call to or from where it has a tick.
Elsewhere(t) ==
    \/ (\E p \in Pages : CallPage(t, p))
    \/ (\E r \in Trees : RootPage(t, r))
    \/ CallReserve(t)
    \/ QueryReserved(t)
    \/ QueryDone(t)
    \/ (\E b \in Buffers : DropGuard(t, b))
    \/ Hit(t)
    \/ Miss(t)
    \/ Claim(t)
    \/ (Lookup(t) /\ ChunkOf(t) \notin Resident)
    \/ ChunkTry(t)
    \/ Length(t)
    \/ Bounded(t)
    \/ Read(t)
    \/ Payload(t)
    \/ Probe(t)
    \/ Decode(t)
    \/ Copy(t)
    \/ Drop(t)
    \/ Validate(t)
    \/ Publish(t)
    \/ LoadError(t)
    \/ Unwind(t)
    \/ Fail(t)
    \/ Try(t)
    \/ (\E p \in Pages : EvictPage(t, p))
    \/ Evicted(t)
    \/ (DropChunk(t) /\ Resident = {})
    \/ ReleaseRoots(t)
    \/ Again(t)
    \/ Pinned(t)
    \/ Retain(t)

\* Nobody but the directory's lookup, read_chunk, insert and evict_one touches the order.
LEMMA ElsewhereStep ==
    ASSUME IInv, NEW t \in Threads, Elsewhere(t)
    PROVE  recency' = recency /\ \A u \in Threads : th'[u].pc = "insert" <=> th[u].pc = "insert"
<1>0. Typed /\ th \in [Threads -> Thread] /\ th[t] \in Thread /\ Shape(th[t])
  BY ZenonT(60), Before DEF Typed
<1> SUFFICES /\ recency' = recency /\ \A u \in Threads : u # t => th'[u] = th[u]
             /\ th'[t].pc = "insert" <=> th[t].pc = "insert"
  BY ZenonT(60)
<1>1. CASE \E p \in Pages : CallPage(t, p)
  BY SMTT(40), <1>0, <1>1 DEF CallPage, Thread
<1>2. CASE \E r \in Trees : RootPage(t, r)
  BY SMTT(60), <1>0, <1>2 DEF RootPage, Thread
<1>3. CASE CallReserve(t)
  BY ZenonT(60), <1>0, <1>3 DEF CallReserve, Reserve, Thread
<1>4. CASE QueryReserved(t)
  BY ZenonT(60), <1>0, <1>4 DEF QueryReserved, Idle, Thread
<1>5. CASE QueryDone(t)
  BY ZenonT(60), <1>0, <1>5 DEF QueryDone, Idle, Thread
<1>6. CASE \E b \in Buffers : DropGuard(t, b)
  BY ZenonT(60), <1>0, <1>6 DEF DropGuard, Thread
<1>7. CASE Hit(t)
  BY ZenonT(60), <1>0, <1>7 DEF Hit, Thread
<1>8. CASE Miss(t)
  BY ZenonT(60), <1>0, <1>8 DEF Miss, Reserve, Thread
<1>9. CASE Claim(t)
  BY ZenonT(60), <1>0, <1>9 DEF Claim, Thread
<1>10. CASE Lookup(t) /\ ChunkOf(t) \notin Resident
  BY SMTT(60), <1>0, <1>10 DEF Lookup, Goto, Thread
<1>11. CASE ChunkTry(t)
  BY SMTT(60), <1>0, <1>11 DEF ChunkTry, Thread
<1>12. CASE Length(t)
  BY SMTT(60), <1>0, <1>12 DEF Length, Goto, Thread
<1>13. CASE Bounded(t)
  BY ZenonT(60), <1>0, <1>13 DEF Bounded, Reserve, Thread
<1>14. CASE Read(t)
  BY ZenonT(60), <1>0, <1>14 DEF Read, Reserve, Thread
<1>15. CASE Payload(t)
  BY ZenonT(60), <1>0, <1>15 DEF Payload, Reserve, Thread
<1>16. CASE Probe(t)
  BY ZenonT(60), <1>0, <1>16 DEF Probe, Reserve, Thread
<1>17. CASE Decode(t)
  BY ZenonT(60), <1>0, <1>17 DEF Decode, Reserve, Thread
<1>18. CASE Copy(t)
  BY ZenonT(60), <1>0, <1>18 DEF Copy, Thread
<1>19. CASE Drop(t)
  BY ZenonT(60), <1>0, <1>19 DEF Drop, Thread
<1>20. CASE Validate(t)
  BY ZenonT(60), <1>0, <1>20 DEF Validate, Thread
<1>21. CASE Publish(t)
  BY ZenonT(60), <1>0, <1>21 DEF Publish, Thread
<1>22. CASE LoadError(t)
  BY ZenonT(60), <1>0, <1>22 DEF LoadError, Goto, Thread
<1>23. CASE Unwind(t)
  BY ZenonT(60), <1>0, <1>23 DEF Unwind, Thread
<1>24. CASE Fail(t)
  BY ZenonT(60), <1>0, <1>24 DEF Fail, Idle, Thread
<1>25. CASE Try(t)
  BY SMTT(60), <1>0, <1>25 DEF Try, Granted, Goto, Shape, Goals, Reclaiming, Thread
<1>26. CASE \E p \in Pages : EvictPage(t, p)
  BY SMTT(60), <1>0, <1>26 DEF EvictPage, Thread
<1>27. CASE Evicted(t)
  BY ZenonT(60), <1>0, <1>27 DEF Evicted, Goto, Retry, Thread
<1>28. CASE DropChunk(t) /\ Resident = {}
  BY SMTT(60), <1>0, <1>28 DEF DropChunk, Goto, Thread
<1>29. CASE ReleaseRoots(t)
  BY ZenonT(60), <1>0, <1>29 DEF ReleaseRoots, Retry, Thread
<1>30. CASE Again(t)
  BY SMTT(60), <1>0, <1>30 DEF Again, Granted, Goto, Shape, Goals, Reclaiming, Thread
<1>31. CASE Pinned(t)
  BY ZenonT(60), <1>0, <1>31 DEF Pinned, Goto, Return, Idle, Thread
<1>32. CASE Retain(t)
  BY ZenonT(60), <1>0, <1>32 DEF Retain, Return, Idle, Thread
<1> QED  BY ZenonT(60), <1>1, <1>2, <1>3, <1>4, <1>5, <1>6, <1>7, <1>8, <1>9, <1>10, <1>11, <1>12, <1>13, <1>14, <1>15, <1>16, <1>17, <1>18, <1>19, <1>20, <1>21, <1>22, <1>23, <1>24, <1>25, <1>26, <1>27, <1>28, <1>29, <1>30, <1>31, <1>32 DEF Elsewhere

\* So what holds of the order still does after any other step.
LEMMA ElsewhereOrder ==
    ASSUME IInv, NEW t \in Threads, Elsewhere(t), db' = db
    PROVE  Order => Order'
<1>1. recency' = recency /\ \A u \in Threads : th'[u].pc = "insert" <=> th[u].pc = "insert"
  BY ZenonT(60), ElsewhereStep
<1>2. Resident' = Resident
  BY ZenonT(60), <1>1 DEF Resident, Chunks, Pages, StoredBytes
<1> QED  BY ZenonT(60), <1>1, <1>2 DEF Order

-----------------------------------------------------------------------------
\* The books and the order together.

\* A step of a call keeps the ledger and the order.
LEMMA StepKeeps ==
    ASSUME IInv, Order, NEW t \in Threads, db' = db, Step(t)
    PROVE  IInv' /\ Order'
<1>1. CASE QueryReserved(t)
  BY ZenonT(60), <1>1, CallerSteps, ElsewhereOrder DEF Elsewhere
<1>2. CASE \/ Hit(t) \/ Miss(t) \/ ChunkTry(t) \/ Length(t) \/ Bounded(t) \/ Read(t) \/ Payload(t)
           \/ Probe(t) \/ Decode(t) \/ Copy(t) \/ LoadError(t) \/ Unwind(t)
  BY ZenonT(60), <1>2, LoadSteps, ElsewhereOrder DEF Elsewhere
<1>3. CASE Claim(t)
  BY ZenonT(60), <1>3, ClaimStep, ElsewhereOrder DEF Elsewhere
<1>4. CASE Lookup(t)
  <2>1. CASE ChunkOf(t) \in Resident
    BY ZenonT(60), <1>4, <2>1, LookupStep
  <2>2. CASE ChunkOf(t) \notin Resident
    BY ZenonT(60), <1>4, <2>2, ReserveSteps, ElsewhereOrder DEF Elsewhere
  <2> QED  BY ZenonT(60), <2>1, <2>2
<1>5. CASE ChunkRead(t)
  BY ZenonT(60), <1>5, ChunkReadStep
<1>6. CASE Insert(t)
  BY ZenonT(60), <1>6, InsertStep
<1>7. CASE Drop(t)
  BY ZenonT(60), <1>7, DropStep, ElsewhereOrder DEF Elsewhere
<1>8. CASE Validate(t)
  BY ZenonT(60), <1>8, ValidateStep, ElsewhereOrder DEF Elsewhere
<1>9. CASE Publish(t) \/ \E p \in Pages : EvictPage(t, p)
  BY ZenonT(60), <1>9, CacheSteps, ElsewhereOrder DEF Elsewhere
<1>10. CASE Fail(t)
  BY ZenonT(60), <1>10, FailStep, ElsewhereOrder DEF Elsewhere
<1>11. CASE Try(t) \/ Evicted(t) \/ Again(t)
  BY ZenonT(60), <1>11, ReserveSteps, ElsewhereOrder DEF Elsewhere
<1>12. CASE DropChunk(t)
  <2>1. CASE Resident # {}
    BY ZenonT(60), <1>12, <2>1, DropChunkStep
  <2>2. CASE Resident = {}
    BY ZenonT(60), <1>12, <2>2, ReserveSteps, ElsewhereOrder DEF Elsewhere
  <2> QED  BY ZenonT(60), <2>1, <2>2
<1>13. CASE ReleaseRoots(t)
  BY ZenonT(60), <1>13, RootSteps, ElsewhereOrder DEF Elsewhere
<1>14. CASE Pinned(t)
  <2>1. CASE RoomToRetain(t)
    BY ZenonT(60), <1>14, <2>1, ReserveSteps, ElsewhereOrder DEF Elsewhere
  <2>2. CASE ~RoomToRetain(t)
    BY ZenonT(60), <1>14, <2>2, GuardSteps, ElsewhereOrder DEF Elsewhere
  <2> QED  BY ZenonT(60), <2>1, <2>2
<1>15. CASE Retain(t)
  BY ZenonT(60), <1>15, RetainStep, ElsewhereOrder DEF Elsewhere
<1> QED  BY SMTT(60), <1>1, <1>2, <1>3, <1>4, <1>5, <1>6, <1>7, <1>8, <1>9, <1>10, <1>11, <1>12, <1>13,
            <1>14, <1>15 DEF Step

\* Every step keeps the books and the order.
LEMMA NextKeeps ==
    ASSUME IInv, Order, Next
    PROVE  IInv' /\ Order'
<1>0. Typed /\ db' = db /\ Callers \subseteq Threads
  BY ZenonT(60), PageStoreAssumption DEF IInv, Ledger, Typed, Next, Callers
<1>1. ASSUME NEW t \in Callers,
             \/ \E p \in Pages : CallPage(t, p)
             \/ \E r \in Trees : RootPage(t, r)
             \/ CallReserve(t) \/ QueryDone(t)
      PROVE  IInv' /\ Order'
  <2>1. t \in Threads /\ Elsewhere(t)
    BY ZenonT(60), <1>0, <1>1 DEF Elsewhere
  <2>2. IInv'
    BY ZenonT(60), <1>0, <1>1, <2>1, CallerSteps
  <2>3. Order'
    BY ZenonT(60), <1>0, <2>1, ElsewhereOrder
  <2> QED  BY ZenonT(60), <2>2, <2>3
<1>2. ASSUME NEW t \in Callers, \E b \in Buffers : DropGuard(t, b) PROVE IInv' /\ Order'
  <2>1. t \in Threads /\ Elsewhere(t)
    BY ZenonT(60), <1>0, <1>2 DEF Elsewhere
  <2>2. IInv'
    BY SMTT(40), <1>0, <1>2, <2>1, GuardSteps
  <2>3. Order'
    BY SMTT(60), <1>0, <2>1, ElsewhereOrder
  <2> QED  BY SMTT(60), <2>2, <2>3
<1>3. ASSUME NEW t \in Callers, Step(t) PROVE IInv' /\ Order'
  BY ZenonT(60), <1>0, <1>3, StepKeeps
<1>4. ASSUME NEW r \in Trees, DropTree(r) PROVE IInv' /\ Order'
  <2>1. PICK t \in Threads : TRUE
    BY ZenonT(60), <1>0, <1>4 DEF DropTree
  <2>2. IInv'
    BY ZenonT(60), <1>0, <1>4, <2>1, RootSteps
  <2>3. Order'
    BY ZenonT(60), <1>0, <1>4 DEF DropTree, Order, Resident, Chunks, Pages, StoredBytes
  <2> QED  BY ZenonT(60), <2>2, <2>3
<1> QED  BY ZenonT(60), <1>1, <1>2, <1>3, <1>4 DEF Next

\* A store that has just been opened.
LEMMA InitKeeps == Init => IInv /\ Order
<1> HAVE Init
<1>0. db \in Databases /\ OpenBytes \in Nat /\ Limit \in Nat /\ OpenBytes <= Limit /\ Pages \subseteq Nat
  BY ZenonT(60), PageStoreAssumption DEF Init, OpenBytes, Limit, Pages, StoredBytes
<1>1. Idle \in Thread
  BY ZenonT(60) DEF Idle, Thread, Labels, Kinds, Leftover
<1>2. Shape(Idle)
  BY ZenonT(60) DEF Idle, Shape, Needs, Reclaiming, Loading, Resolving
<1>3. Typed
  <2>1. /\ cache \in [Pages -> Buffers \cup {None}] /\ inflight \in SUBSET Pages
        /\ roots \in [Trees -> Buffers \cup {None}] /\ alive \in SUBSET Trees
        /\ guards \in [Threads -> SUBSET Buffers] /\ recency \in Seq(Chunks \cup Threads)
    BY DEF Init
  <2>2. th \in [Threads -> Thread]
    BY ZenonT(60), <1>1 DEF Init
  <2>3. table \in [slots : Nat, book : Nat] /\ table.book = RootBytes * table.slots
    BY PageStoreAssumption DEF Init
  <2> QED  BY ZenonT(60), <1>0, <2>1, <2>2, <2>3 DEF Typed
<1>4. Ledger
  <2>1. \A t \in Threads : th[t] = Idle /\ ~th[t].owns
    BY ZenonT(60) DEF Init, Idle
  <2> QED  BY ZenonT(60), <1>2, <1>3, <2>1 DEF Ledger, Owned, Owners
<1>5. Cached = {} /\ Retained = {} /\ Resident = {} /\ Live = {} /\ inflight = {}
  <2>1. Cached = {} /\ Retained = {} /\ inflight = {}
    BY ZenonT(60) DEF Init, Cached, Retained
  <2>2. Resident = {}
    BY DEF Init, Resident, Range
  <2>3. \A t \in Threads : guards[t] = {} /\ th[t].pin = None
    BY ZenonT(60) DEF Init, Idle
  <2> QED  BY SMTT(40), <2>1, <2>2, <2>3 DEF Live
<1>6. InUse = OpenBytes
  <2>1. LiveSum(db, Live) = 0
    BY ZenonT(60), <1>5, SumEmpty DEF LiveSum
  <2>2. ChunkSum(Resident) = 0 /\ SlotSum(Cached \cup inflight) = 0
    <3>1. Cardinality(Resident) = 0 /\ Cardinality(Cached \cup inflight) = 0
      BY ZenonT(60), <1>5, FS_EmptySet
    <3> QED  BY SMTT(60), <3>1, PageStoreAssumption DEF ChunkSum, SlotSum
  <2>3. ChargeSum(db, th) = 0
    <3> DEFINE f == [t \in Threads |-> HeldIn(db, th[t].page, th[t].chg)]
    <3>1. \A t \in Threads : f[t] = 0
      BY ZenonT(60), SumEmpty DEF Init, Idle, HeldIn
    <3> HIDE DEF f
    <3>2. SumFunctionOnSet(f, Threads) = 0
      BY ZenonT(60), <3>1, PageStoreAssumption, SumZero
    <3> QED  BY ZenonT(60), <3>2 DEF ChargeSum, f
  <2>4. table.book = 0 /\ OpenBytes = db.open
    BY ZenonT(60) DEF Init, OpenBytes
  <2> QED  BY SMTT(60), <1>0, <2>1, <2>2, <2>3, <2>4, Totals
<1>7. Order
  BY SMTT(40), <1>0, <1>5, FS_EmptySet, PageStoreAssumption DEF Init, Order, Distinct, Range, Idle
<1> QED  BY ZenonT(60), <1>0, <1>4, <1>6, <1>7 DEF IInv

\* A call has no buffer it has not reserved, so the process has none either.
LEMMA Covered ==
    ASSUME IInv
    PROVE  MemoryCovered
<1>1. Ledger /\ Typed /\ db \in Databases /\ Numbers
  BY ZenonT(60), InUseNat DEF IInv, Ledger, Typed
<1> DEFINE f == [t \in Threads |-> HeldIn(db, th[t].page, th[t].mem)]
           g == [t \in Threads |-> HeldIn(db, th[t].page, th[t].chg)]
<1>2. \A t \in Threads : f[t] \in Nat /\ g[t] \in Nat /\ f[t] <= g[t]
  <2> TAKE t \in Threads
  <2>1. th[t] \in Thread /\ Shape(th[t]) /\ th[t].mem \subseteq th[t].chg
    BY ZenonT(60), <1>1 DEF Ledger, Typed, Shape
  <2>2. Fits(db, th[t].page, th[t].mem) /\ Fits(db, th[t].page, th[t].chg)
    BY ZenonT(60), <2>1, ThreadFits
  <2> QED  BY ZenonT(60), <1>1, <2>1, <2>2, HeldNat, HeldFewer
<1>3. MemSum(db, th) = SumFunctionOnSet(f, Threads) /\ ChargeSum(db, th) = SumFunctionOnSet(g, Threads)
  BY ZenonT(60) DEF MemSum, ChargeSum
<1> HIDE DEF f, g
<1>4. SumFunctionOnSet(f, Threads) <= SumFunctionOnSet(g, Threads)
  BY ZenonT(60), <1>2, PageStoreAssumption, SumLe
<1>5. SumFunctionOnSet(f, Threads) \in Nat
  BY ZenonT(60), <1>2, PageStoreAssumption, SumType
<1>6. RootBytes * table.slots = table.book /\ db.open \in Nat
  BY ZenonT(60), <1>1, PageStoreAssumption DEF Typed
<1> QED  BY SMTT(40), <1>1, <1>3, <1>4, <1>5, <1>6, Totals DEF MemoryCovered, IInv, Numbers

\* The order is what ChunksOnce says of it.
LEMMA Once ==
    ASSUME IInv, Order
    PROVE  ChunksOnce
<1>1. DOMAIN recency = 1..Len(recency)
  BY ZenonT(60), LenProperties DEF IInv, Ledger, Typed
<1> QED  BY ZenonT(60), <1>1 DEF Order, Distinct, ChunksOnce

\* Every step keeps the ledger and the order.
LEMMA Kept == IInv /\ Order /\ [Next]_vars => IInv' /\ Order'
<1>1. ASSUME IInv, Order, UNCHANGED vars PROVE IInv' /\ Order'
  <2>1. UNCHANGED <<db, cache, inflight, recency, roots, table, alive, guards, th>>
    BY ZenonT(60), <1>1 DEF vars
  <2>2. Pages' = Pages /\ Buffers' = Buffers /\ Chunks' = Chunks /\ Generations' = Generations
    BY ZenonT(60), <2>1 DEF Pages, Buffers, Chunks, StoredBytes, Generations
  <2>3. Thread' = Thread
    BY ZenonT(60), <2>2 DEF Thread
  <2>4. Live' = Live /\ Resident' = Resident /\ Cached' = Cached
    BY ZenonT(60), <2>1, <2>2 DEF Live, Resident, Cached, Retained
  <2>5. Typed'
    BY ZenonT(60), <1>1, <2>1, <2>2, <2>3 DEF IInv, Ledger, Typed
  <2>6. \A t \in Threads : Shape(th[t])'
    BY SMTT(40), <1>1, <2>1, <2>2 DEF IInv, Ledger, Shape, Needs, Filtered
  <2>7. Owners' /\ \A t \in Threads : Owned(t)'
    BY ZenonT(60), <1>1, <2>1, <2>2, <2>4 DEF IInv, Ledger, Owners, Owned
  <2>8. InUse' = InUse /\ Limit' = Limit
    BY ZenonT(60), <2>1, <2>4, Totals, TotalsNext DEF Limit
  <2>9. Order'
    BY ZenonT(60), <1>1, <2>1, <2>4 DEF Order
  <2> QED  BY ZenonT(60), <1>1, <2>5, <2>6, <2>7, <2>8, <2>9 DEF IInv, Ledger
<1> QED  BY ZenonT(60), <1>1, NextKeeps

\* PageStore's MemoryCovered for every number of threads, page sizes and limits: what the
\* process has allocated for pages, chunks, roots and the buffers of loads and queries is
\* always within what it has reserved from the budget, in the drops that end a load too,
\* and the reservations never pass the limit (load, reserve, retain_root, release_roots).
THEOREM BudgetCoversMemory == Spec => []MemoryCovered
<1>1. Init => IInv /\ Order
  BY ZenonT(60), InitKeeps
<1>2. IInv /\ Order /\ [Next]_vars => IInv' /\ Order'
  BY ZenonT(60), Kept
<1>3. IInv => MemoryCovered
  BY ZenonT(60), Covered
<1> QED  BY <1>1, <1>2, <1>3, PTL DEF Spec

\* PageStore's ChunksOnce for every number of threads and chunks: two threads that read
\* the same chunk of the directory at a time leave one copy, and max_chunks is kept
\* (read_chunk).
THEOREM DirectoryKeepsChunksOnce == Spec => []ChunksOnce
<1>1. IInv /\ Order => ChunksOnce
  BY ZenonT(60), Once
<1> QED  BY InitKeeps, Kept, <1>1, PTL DEF Spec

\* Nothing is left to give back.
Bare == Cached = {} /\ Resident = {} /\ Retained = {}

\* How many rounds it takes at most to give up what there is.
Left == Cardinality(Cached) + Cardinality(Resident) + (IF Retained = {} THEN 0 ELSE 1)

\* Where a reclaim is when nobody else is about.
Sole(t) ==
    /\ th[t].pc = "try" => th[t].freed = 0
    /\ th[t].pc \in Reclaiming \ {"try"} => Want(t) > 0
    /\ th[t].pc = "evict" /\ th[t].by = "chunk" => Resident = {}
    /\ th[t].pc = "chunk" /\ th[t].by = "reserve" => Cached = {}
    /\ th[t].pc = "roots" => Cached = {} /\ Resident = {}
    /\ th[t].pc = "again" /\ th[t].freed = 0 => Bare
    /\ th[t].pc \in {"evict", "chunk", "roots"} /\ th[t].by = "reserve" => Left <= th[t].rounds
    /\ th[t].pc \in {"evict", "again"} /\ th[t].by = "reserve" /\ th[t].freed > 0 =>
         Left < th[t].rounds
    /\ th[t].pc = "refused" /\ Want(t) <= Limit => Bare

\* The steps of a call that are not part of a reclaim.
Apart(t) ==
    \/ (\E p \in Pages : CallPage(t, p))
    \/ (\E r \in Trees : RootPage(t, r))
    \/ CallReserve(t)
    \/ QueryReserved(t)
    \/ QueryDone(t)
    \/ (\E b \in Buffers : DropGuard(t, b))
    \/ Hit(t)
    \/ Miss(t)
    \/ Claim(t)
    \/ Lookup(t)
    \/ ChunkRead(t)
    \/ Insert(t)
    \/ Length(t)
    \/ Bounded(t)
    \/ Read(t)
    \/ Payload(t)
    \/ Probe(t)
    \/ Decode(t)
    \/ Copy(t)
    \/ Drop(t)
    \/ Validate(t)
    \/ Publish(t)
    \/ LoadError(t)
    \/ Unwind(t)
    \/ Fail(t)
    \/ Pinned(t)
    \/ Retain(t)

\* Such a step starts a reservation, if that.
LEMMA ApartLabel ==
    ASSUME IInv, NEW t \in Threads, Apart(t)
    PROVE  \/ th'[t].pc \notin Reclaiming \cup {"refused"}
           \/ th'[t].pc = "try" /\ th'[t].freed = 0
<1>0. Typed /\ th \in [Threads -> Thread] /\ th[t] \in Thread /\ Shape(th[t])
  BY ZenonT(60), Before DEF Typed
<1>1. CASE \E p \in Pages : CallPage(t, p)
  BY SMTT(60), <1>0, <1>1 DEF CallPage, Thread, Reclaiming, Resolving, Loading
<1>2. CASE \E r \in Trees : RootPage(t, r)
  BY SMTT(60), <1>0, <1>2 DEF RootPage, Thread, Reclaiming, Resolving, Loading
<1>3. CASE CallReserve(t)
  BY ZenonT(60), <1>0, <1>3 DEF CallReserve, Reserve, Thread, Reclaiming, Resolving, Loading
<1>4. CASE QueryReserved(t)
  BY ZenonT(60), <1>0, <1>4 DEF QueryReserved, Idle, Thread, Reclaiming, Resolving, Loading
<1>5. CASE QueryDone(t)
  BY ZenonT(60), <1>0, <1>5 DEF QueryDone, Idle, Thread, Reclaiming, Resolving, Loading
<1>6. CASE \E b \in Buffers : DropGuard(t, b)
  BY ZenonT(60), <1>0, <1>6 DEF DropGuard, Thread, Reclaiming, Resolving, Loading
<1>7. CASE Hit(t)
  BY ZenonT(60), <1>0, <1>7 DEF Hit, Thread, Reclaiming, Resolving, Loading
<1>8. CASE Miss(t)
  BY ZenonT(60), <1>0, <1>8 DEF Miss, Reserve, Thread, Reclaiming, Resolving, Loading
<1>9. CASE Claim(t)
  BY ZenonT(60), <1>0, <1>9 DEF Claim, Thread, Reclaiming, Resolving, Loading
<1>10. CASE Lookup(t)
  BY SMTT(60), <1>0, <1>10 DEF Lookup, Goto, Shape, Thread, Reclaiming, Resolving, Loading
<1>11. CASE ChunkRead(t)
  BY ZenonT(60), <1>0, <1>11 DEF ChunkRead, Goto, Thread, Reclaiming, Resolving, Loading
<1>12. CASE Insert(t)
  BY SMTT(60), <1>0, <1>12 DEF Insert, Shape, Thread, Reclaiming, Resolving, Loading
<1>13. CASE Length(t)
  BY SMTT(60), <1>0, <1>13 DEF Length, Goto, Thread, Reclaiming, Resolving, Loading
<1>14. CASE Bounded(t)
  BY ZenonT(60), <1>0, <1>14 DEF Bounded, Reserve, Thread, Reclaiming, Resolving, Loading
<1>15. CASE Read(t)
  <2>1. CASE Filtered
    <3>1. th'[t].pc = "try" /\ th'[t].freed = 0
      BY ZenonT(60), <1>0, <1>15, <2>1 DEF Read, Reserve, Thread
    <3> QED  BY ZenonT(60), <3>1
  <2>2. CASE ~Filtered
    <3>1. th'[t].pc = "validate"
      BY ZenonT(60), <1>0, <1>15, <2>2 DEF Read, Thread
    <3> QED  BY ZenonT(60), <3>1 DEF Reclaiming
  <2> QED  BY ZenonT(60), <2>1, <2>2
<1>16. CASE Payload(t)
  BY ZenonT(60), <1>0, <1>16 DEF Payload, Reserve, Thread, Reclaiming, Resolving, Loading
<1>17. CASE Probe(t)
  BY ZenonT(60), <1>0, <1>17 DEF Probe, Reserve, Thread, Reclaiming, Resolving, Loading
<1>18. CASE Decode(t)
  BY ZenonT(60), <1>0, <1>18 DEF Decode, Reserve, Thread, Reclaiming, Resolving, Loading
<1>19. CASE Copy(t)
  BY ZenonT(60), <1>0, <1>19 DEF Copy, Thread, Reclaiming, Resolving, Loading
<1>20. CASE Drop(t)
  BY SMTT(60), <1>0, <1>20 DEF Drop, Thread, Reclaiming, Resolving, Loading
<1>21. CASE Validate(t)
  BY ZenonT(60), <1>0, <1>21 DEF Validate, Thread, Reclaiming, Resolving, Loading
<1>22. CASE Publish(t)
  BY ZenonT(60), <1>0, <1>22 DEF Publish, Thread, Reclaiming, Resolving, Loading
<1>23. CASE LoadError(t)
  BY ZenonT(60), <1>0, <1>23 DEF LoadError, Goto, Thread, Reclaiming, Resolving, Loading
<1>24. CASE Unwind(t)
  BY ZenonT(60), <1>0, <1>24 DEF Unwind, Thread, Reclaiming, Resolving, Loading
<1>25. CASE Fail(t)
  BY ZenonT(60), <1>0, <1>25 DEF Fail, Idle, Thread, Reclaiming, Resolving, Loading
<1>26. CASE Pinned(t)
  <2>1. CASE RoomToRetain(t)
    <3>1. th'[t].pc = "retain"
      BY SMTT(40), <1>0, <1>26, <2>1 DEF Pinned, Goto, Thread
    <3> QED  BY ZenonT(60), <3>1 DEF Reclaiming
  <2>2. CASE ~RoomToRetain(t)
    <3>1. th'[t].pc = "idle"
      BY ZenonT(60), <1>0, <1>26, <2>2 DEF Pinned, Return, Idle
    <3> QED  BY ZenonT(60), <3>1 DEF Reclaiming
  <2> QED  BY ZenonT(60), <2>1, <2>2
<1>27. CASE Retain(t)
  BY ZenonT(60), <1>0, <1>27 DEF Retain, Return, Idle, Thread, Reclaiming, Resolving, Loading
<1> QED  BY ZenonT(60), <1>1, <1>2, <1>3, <1>4, <1>5, <1>6, <1>7, <1>8, <1>9, <1>10, <1>11, <1>12, <1>13, <1>14, <1>15, <1>16, <1>17, <1>18, <1>19, <1>20, <1>21, <1>22, <1>23, <1>24, <1>25, <1>26, <1>27 DEF Apart

\* So it is in no reclaim that is under way.
LEMMA ApartStep ==
    ASSUME IInv, NEW t \in Threads, Apart(t)
    PROVE  Sole(t)'
BY ZenonT(60), ApartLabel DEF Sole, Reclaiming

\* The rounds left are a number, and none are left when there is nothing to give up.
LEMMA LeftIs ==
    ASSUME Typed
    PROVE  /\ IsFiniteSet(Cached) /\ IsFiniteSet(Resident)
           /\ Cardinality(Cached) \in Nat /\ Cardinality(Resident) \in Nat
           /\ Left \in Nat /\ (Left = 0 => Bare)
<1>1. IsFiniteSet(Cached) /\ IsFiniteSet(Resident)
  BY ZenonT(60), FiniteSets, FS_Subset DEF Cached
<1>2. Cardinality(Cached) \in Nat /\ Cardinality(Resident) \in Nat
  BY ZenonT(60), <1>1, FS_CardinalityType
<1>3. Left \in Nat
  BY SMTT(60), <1>2 DEF Left
<1>4. ASSUME Left = 0 PROVE Bare
  <2>1. Cardinality(Cached) = 0 /\ Cardinality(Resident) = 0 /\ Retained = {}
    BY SMTT(40), <1>2, <1>4 DEF Left
  <2> QED  BY ZenonT(60), <1>1, <2>1, FS_EmptySet DEF Bare
<1> QED  BY ZenonT(60), <1>1, <1>2, <1>3, <1>4

\* What a reclaim asks for.
LEMMA WantIs ==
    ASSUME IInv, NEW t \in Threads, th[t].pc \in Reclaiming
    PROVE  /\ Want(t) \in Nat /\ InUse \in Nat /\ Limit \in Nat
           /\ ~TryReserve(Want(t)) => Want(t) > 0
           /\ th[t].by \in {"reserve", "chunk"} /\ th[t].freed \in Nat /\ th[t].rounds \in Nat
           /\ th[t].by = "reserve" /\ th[t].pc # "try" => th[t].rounds > 0
           /\ th[t].pc \in {"try", "again"} => th[t].by = "reserve"
           /\ th[t].by = "reserve" => th[t].to \notin Reclaiming \cup {"refused"}
<1>1. Typed /\ th[t] \in Thread /\ Shape(th[t]) /\ Numbers /\ db \in Databases
  BY ZenonT(60), Before, InUseNat DEF Typed
<1>2. Want(t) \in Nat
  <2>1. th[t].want \in Kinds /\ (th[t].page \in DOMAIN db.stored \/ th[t].want = "query")
    BY ZenonT(60), <1>1 DEF Shape, Thread, Pages, StoredBytes, Reclaiming
  <2> QED  BY ZenonT(60), <1>1, <2>1, Sizes, Names DEF Want
<1>3. ~TryReserve(Want(t)) => Want(t) > 0
  BY SMTT(40), <1>1, <1>2 DEF TryReserve, IInv, Numbers
<1>4. /\ th[t].by \in {"reserve", "chunk"} /\ th[t].freed \in Nat /\ th[t].rounds \in Nat
      /\ th[t].by = "reserve" /\ th[t].pc # "try" => th[t].rounds > 0
      /\ th[t].pc \in {"try", "again"} => th[t].by = "reserve"
  BY ZenonT(60), <1>1 DEF Thread, Shape
<1>5. th[t].by = "reserve" => th[t].to \notin Reclaiming \cup {"refused"}
  BY ZenonT(60), <1>1 DEF Shape, Goals, Reclaiming
<1> QED  BY ZenonT(60), <1>1, <1>2, <1>3, <1>4, <1>5 DEF Numbers

\* A step that leaves what can be given up alone.
LEMMA SameStock ==
    ASSUME db' = db, UNCHANGED <<cache, recency, roots>>
    PROVE  Cached' = Cached /\ Resident' = Resident /\ Retained' = Retained /\ Left' = Left
             /\ Bare' = Bare
<1>1. Cached' = Cached /\ Resident' = Resident /\ Retained' = Retained
  BY ZenonT(60) DEF Cached, Resident, Retained, Chunks, Pages, StoredBytes
<1> QED  BY ZenonT(60), <1>1 DEF Left, Bare

\* What a call asks for stays what it was.
LEMMA WantNext ==
    ASSUME NEW t, db' = db, th'[t].page = th[t].page, th'[t].want = th[t].want
    PROVE  Want(t)' = Want(t) /\ Limit' = Limit
BY ZenonT(60) DEF Want, Size, StoredBytes, DecodedBytes, QueryBytes, Limit

\* The head of read_chunk's loop, and the first try of reserve.
LEMMA SoleTry ==
    ASSUME IInv, NEW t \in Threads, Sole(t), db' = db, ChunkTry(t) \/ Try(t)
    PROVE  Sole(t)'
<1>0. Typed /\ th[t] \in Thread /\ th \in [Threads -> Thread] /\ Numbers /\ ChunkBytes \in Nat
  BY ZenonT(60), Before, InUseNat, PageStoreAssumption DEF Typed
<1>1. CASE ChunkTry(t)
  <2>1. CASE TryReserve(ChunkBytes)
    <3>1. th'[t].pc = "chunkread"
      BY SMTT(40), <1>0, <1>1, <2>1 DEF ChunkTry, Thread
    <3> QED  BY ZenonT(60), <3>1 DEF Sole, Reclaiming
  <2>2. CASE ~TryReserve(ChunkBytes)
    <3>1. th'[t].pc = "chunk" /\ th'[t].by = "chunk" /\ th'[t].want = "chunk"
      BY SMTT(60), <1>0, <1>1, <2>2 DEF ChunkTry, Thread
    <3>2. Want(t)' = ChunkBytes
      BY ZenonT(60), <3>1 DEF Want, Size
    <3>3. ChunkBytes > 0
      BY <1>0, <2>2 DEF TryReserve, IInv, Numbers
    <3> QED  BY ZenonT(60), <3>1, <3>2, <3>3 DEF Sole
  <2> QED  BY ZenonT(60), <2>1, <2>2
<1>2. CASE Try(t)
  <2>0. th[t].pc = "try" /\ th[t].pc \in Reclaiming /\ UNCHANGED <<cache, recency, roots>>
    BY ZenonT(60), <1>2 DEF Try, Reclaiming
  <2>1. /\ Want(t) \in Nat /\ Limit \in Nat /\ (~TryReserve(Want(t)) => Want(t) > 0)
        /\ th[t].by = "reserve" /\ th[t].to \notin Reclaiming \cup {"refused"}
    BY ZenonT(60), <2>0, WantIs
  <2>2. CASE TryReserve(Want(t))
    <3>1. th'[t].pc = th[t].to
      BY SMTT(40), <1>0, <1>2, <2>2 DEF Try, Granted, Thread
    <3> QED  BY ZenonT(60), <2>1, <3>1 DEF Sole, Reclaiming
  <2>3. CASE ~TryReserve(Want(t)) /\ Want(t) > Limit
    <3>1. th'[t].pc = "refused" /\ th'[t].page = th[t].page /\ th'[t].want = th[t].want
      BY SMTT(40), <1>0, <1>2, <2>3 DEF Try, Goto, Thread
    <3>2. Want(t)' = Want(t) /\ Limit' = Limit
      BY ZenonT(60), <3>1, WantNext
    <3>3. ~(Want(t)' <= Limit')
      BY SMTT(40), <2>1, <2>3, <3>2
    <3> QED  BY ZenonT(60), <3>1, <3>3 DEF Sole, Reclaiming
  <2>4. CASE ~TryReserve(Want(t)) /\ ~(Want(t) > Limit)
    <3>1. /\ th'[t].pc = "evict" /\ th'[t].page = th[t].page /\ th'[t].want = th[t].want
          /\ th'[t].by = "reserve" /\ th'[t].freed = th[t].freed /\ th'[t].rounds = Rounds
      BY SMTT(40), <1>0, <1>2, <2>1, <2>4 DEF Try, Thread
    <3>2. Want(t)' > 0 /\ th'[t].freed = 0
      BY ZenonT(60), <2>0, <2>1, <2>4, <3>1, WantNext DEF Sole
    <3>3. Left' <= Rounds
      <4>1. Left' = Left
        BY ZenonT(60), <2>0, SameStock
      <4>2. EvictRounds \in Nat /\ EvictRounds >= 1
        BY PageStoreAssumption
      <4>3. Cardinality(Cached) \in Nat /\ Cardinality(Resident) \in Nat
        BY ZenonT(60), <1>0, LeftIs
      <4> QED  BY SMTT(40), <4>1, <4>2, <4>3 DEF Left, Rounds
    <3> QED  BY SMTT(40), <3>1, <3>2, <3>3 DEF Sole
  <2> QED  BY ZenonT(60), <2>2, <2>3, <2>4
<1> QED  BY ZenonT(60), <1>1, <1>2

\* The rest of a reclaim.
LEMMA SoleEvict ==
    ASSUME IInv, NEW t \in Threads, Sole(t), db' = db,
           (\E p \in Pages : EvictPage(t, p)) \/ Evicted(t)
    PROVE  Sole(t)'
<1>0. /\ Typed /\ th[t] \in Thread /\ th \in [Threads -> Thread] /\ db \in Databases
      /\ Left \in Nat /\ IsFiniteSet(Cached) /\ Cardinality(Cached) \in Nat /\ Cardinality(Resident) \in Nat
  BY ZenonT(60), Before, LeftIs DEF Typed
<1>1. th[t].pc = "evict" /\ th[t].pc \in Reclaiming
  BY ZenonT(60) DEF EvictPage, Evicted, Reclaiming
<1>2. /\ Want(t) \in Nat /\ th[t].by \in {"reserve", "chunk"}
      /\ th[t].freed \in Nat /\ th[t].rounds \in Nat /\ Want(t) > 0
  BY ZenonT(60), <1>1, WantIs DEF Sole
<1>3. ASSUME NEW p \in Pages, EvictPage(t, p) PROVE Sole(t)'
  <2>1. BufferBytes(p) \in Nat /\ BufferBytes(p) > 0
    BY SMTT(60), <1>0, PageStoreAssumption DEF BufferBytes, Pages, StoredBytes, DecodedBytes
  <2>2. /\ th'[t].pc = "evict" /\ th'[t].page = th[t].page /\ th'[t].want = th[t].want
        /\ th'[t].by = th[t].by /\ th'[t].freed = th[t].freed + BufferBytes(p)
        /\ th'[t].rounds = th[t].rounds
    BY ZenonT(60), <1>0, <1>1, <1>3 DEF EvictPage, Thread
  <2>3. p \in Cached /\ Cached' = Cached \ {p} /\ Resident' = Resident /\ Retained' = Retained
    BY ZenonT(60), <1>0, <1>3 DEF EvictPage, Cached, Resident, Retained, Chunks, Pages, StoredBytes, Typed
  <2>4. Cardinality(Cached') = Cardinality(Cached) - 1
    BY ZenonT(60), <1>0, <2>3, FS_RemoveElement
  <2>5. Left' < Left /\ Left' \in Nat
    <3>1. Cardinality(Cached') \in Nat
      BY ZenonT(60), <1>0, <2>3, FS_RemoveElement, FS_CardinalityType
    <3> QED  BY SMTT(40), <1>0, <2>3, <2>4, <3>1 DEF Left
  <2>6. Want(t)' > 0
    BY ZenonT(60), <1>2, <2>2, WantNext
  <2>7. th[t].by = "reserve" => Left' < th[t].rounds /\ Left' <= th[t].rounds
    BY SMTT(40), <1>0, <1>1, <1>2, <2>5 DEF Sole
  <2> QED  BY ZenonT(60), <1>1, <2>2, <2>3, <2>6, <2>7 DEF Sole
<1>4. ASSUME Evicted(t) PROVE Sole(t)'
  <2>0. /\ Cached' = Cached /\ Resident' = Resident /\ Retained' = Retained /\ Left' = Left
    BY ZenonT(60), <1>4, SameStock DEF Evicted
  <2>1. th' = [th EXCEPT ![t].pc = CASE th[t].freed > 0 -> (IF th[t].by = "chunk" THEN "chunktry" ELSE "again")
                                    [] th[t].freed = 0 /\ th[t].by = "reserve" -> "chunk"
                                    [] OTHER -> "roots"]
    BY ZenonT(60), <1>4 DEF Evicted, Goto, Retry
  <2>2. /\ th'[t].page = th[t].page /\ th'[t].want = th[t].want
        /\ th'[t].by = th[t].by /\ th'[t].freed = th[t].freed /\ th'[t].rounds = th[t].rounds
    BY ZenonT(60), <1>0, <2>1 DEF Thread
  <2>3. Want(t)' > 0
    BY ZenonT(60), <1>2, <2>2, WantNext
  <2>4. CASE th[t].freed > 0
    <3>1. th'[t].pc = IF th[t].by = "chunk" THEN "chunktry" ELSE "again"
      BY SMTT(60), <1>0, <2>1, <2>4 DEF Thread
    <3>2. th[t].by = "reserve" => Left' < th'[t].rounds
      BY ZenonT(60), <1>1, <2>0, <2>2, <2>4 DEF Sole
    <3> QED  BY SMTT(60), <1>2, <2>2, <2>3, <2>4, <3>1, <3>2 DEF Sole, Reclaiming
  <2>5. CASE ~(th[t].freed > 0)
    <3>1. th[t].freed = 0 /\ Cached = {}
      BY SMTT(40), <1>2, <1>4, <2>5 DEF Evicted
    <3>2. CASE th[t].by = "reserve"
      <4>1. th'[t].pc = "chunk"
        BY SMTT(40), <1>0, <2>1, <3>1, <3>2 DEF Thread
      <4>2. Left' <= th'[t].rounds
        BY ZenonT(60), <1>1, <2>0, <2>2, <3>2 DEF Sole
      <4> QED  BY ZenonT(60), <2>0, <2>2, <2>3, <3>1, <4>1, <4>2 DEF Sole
    <3>3. CASE th[t].by = "chunk"
      <4>1. th'[t].pc = "roots"
        BY SMTT(40), <1>0, <2>1, <3>1, <3>3 DEF Thread
      <4>2. Resident = {}
        BY ZenonT(60), <1>1, <3>3 DEF Sole
      <4> QED  BY ZenonT(60), <2>0, <2>2, <2>3, <3>1, <3>3, <4>1, <4>2 DEF Sole
    <3> QED  BY ZenonT(60), <1>2, <3>2, <3>3
  <2> QED  BY ZenonT(60), <2>4, <2>5
<1> QED  BY ZenonT(60), <1>3, <1>4

\* A reclaim turns to the chunks.
LEMMA SoleChunk ==
    ASSUME IInv, Order, NEW t \in Threads, Sole(t), db' = db, DropChunk(t)
    PROVE  Sole(t)'
<1>0. /\ Typed /\ th[t] \in Thread /\ th \in [Threads -> Thread]
      /\ Left \in Nat /\ IsFiniteSet(Resident)
      /\ Cardinality(Cached) \in Nat /\ Cardinality(Resident) \in Nat
  BY ZenonT(60), Before, LeftIs DEF Typed
<1>1. th[t].pc = "chunk" /\ th[t].pc \in Reclaiming
  BY ZenonT(60) DEF DropChunk, Reclaiming
<1>2. /\ Want(t) \in Nat /\ th[t].by \in {"reserve", "chunk"}
      /\ th[t].freed \in Nat /\ th[t].rounds \in Nat /\ Want(t) > 0
  BY ZenonT(60), <1>1, WantIs DEF Sole
<1>3. Cached' = Cached /\ Retained' = Retained
  BY ZenonT(60) DEF DropChunk, Cached, Retained, Pages, StoredBytes
<1>4. CASE Resident # {}
  <2>1. /\ th'[t].pc = IF th[t].by = "chunk" THEN "chunktry" ELSE "again"
        /\ th'[t].page = th[t].page /\ th'[t].want = th[t].want
        /\ th'[t].by = th[t].by /\ th'[t].freed = 1 /\ th'[t].rounds = th[t].rounds
    BY SMTT(60), <1>0, <1>4 DEF DropChunk, Retry, Thread
  <2>2. Oldest \in Resident /\ Resident' \subseteq Resident \ {Oldest}
    BY ZenonT(60), <1>0, <1>4, OldestIs, DropChunkStep
  <2>3. Cardinality(Resident') \in Nat /\ Cardinality(Resident') <= Cardinality(Resident) - 1
    <3>1. IsFiniteSet(Resident \ {Oldest}) /\ Cardinality(Resident \ {Oldest}) = Cardinality(Resident) - 1
      BY ZenonT(60), <1>0, <2>2, FS_RemoveElement
    <3> QED  BY SMTT(60), <2>2, <3>1, FS_Subset, FS_CardinalityType
  <2>4. th[t].by = "reserve" => Left' < th[t].rounds
    <3>1. Left' < Left /\ Left' \in Nat
      BY SMTT(40), <1>0, <1>3, <2>3 DEF Left
    <3> QED  BY SMTT(40), <1>0, <1>1, <1>2, <3>1 DEF Sole
  <2>5. Want(t)' > 0
    BY ZenonT(60), <1>2, <2>1, WantNext
  <2> QED  BY SMTT(40), <1>2, <2>1, <2>4, <2>5 DEF Sole, Reclaiming
<1>5. CASE Resident = {}
  <2>1. /\ th'[t].pc = IF th[t].by = "chunk" THEN "evict" ELSE "roots"
        /\ th'[t].page = th[t].page /\ th'[t].want = th[t].want
        /\ th'[t].by = th[t].by /\ th'[t].freed = th[t].freed /\ th'[t].rounds = th[t].rounds
    BY SMTT(60), <1>0, <1>5 DEF DropChunk, Goto, Thread
  <2>2. Resident' = Resident /\ Left' = Left
    BY ZenonT(60), <1>5, SameStock DEF DropChunk
  <2>3. Want(t)' > 0
    BY ZenonT(60), <1>2, <2>1, WantNext
  <2>4. th[t].by = "reserve" => Left' <= th[t].rounds /\ Cached' = {}
    BY ZenonT(60), <1>1, <1>3, <2>2 DEF Sole
  <2> QED  BY ZenonT(60), <1>2, <1>5, <2>1, <2>2, <2>3, <2>4 DEF Sole
<1> QED  BY ZenonT(60), <1>4, <1>5

\* A reclaim turns to the roots.
LEMMA SoleRoots ==
    ASSUME IInv, NEW t \in Threads, Sole(t), db' = db, ReleaseRoots(t)
    PROVE  Sole(t)'
<1>0. /\ Typed /\ th[t] \in Thread /\ th \in [Threads -> Thread]
  BY ZenonT(60), Before DEF Typed
<1>1. th[t].pc = "roots" /\ th[t].pc \in Reclaiming /\ Cached = {} /\ Resident = {}
  BY ZenonT(60) DEF ReleaseRoots, Reclaiming, Sole
<1>2. /\ Want(t) \in Nat /\ th[t].by \in {"reserve", "chunk"}
      /\ th[t].freed \in Nat /\ th[t].rounds \in Nat /\ Want(t) > 0
      /\ th[t].by = "reserve" => th[t].rounds > 0
  BY ZenonT(60), <1>1, WantIs DEF Sole
<1>3. Cached' = {} /\ Resident' = {} /\ Retained' = {}
  BY ZenonT(60), <1>1 DEF ReleaseRoots, Cached, Resident, Retained, Chunks, Pages, StoredBytes
<1>4. Left' = 0 /\ Bare'
  <2>1. Cardinality({}) = 0
    BY ZenonT(60), FS_EmptySet
  <2> QED  BY SMTT(60), <1>3, <2>1 DEF Left, Bare
<1>5. /\ th'[t].pc = IF th[t].by = "chunk" /\ Retained = {} THEN "refused"
                     ELSE IF th[t].by = "chunk" THEN "chunktry" ELSE "again"
      /\ th'[t].page = th[t].page /\ th'[t].want = th[t].want
      /\ th'[t].by = th[t].by /\ th'[t].rounds = th[t].rounds
  BY ZenonT(60), <1>0 DEF ReleaseRoots, Retry, Thread
<1>6. Want(t)' > 0
  BY ZenonT(60), <1>2, <1>5, WantNext
<1> QED  BY ZenonT(60), <1>2, <1>4, <1>5, <1>6 DEF Sole, Reclaiming

\* The end of a round.
LEMMA SoleAgain ==
    ASSUME IInv, NEW t \in Threads, Sole(t), db' = db, Again(t)
    PROVE  Sole(t)'
<1>0. /\ Typed /\ th[t] \in Thread /\ th \in [Threads -> Thread] /\ Left \in Nat /\ (Left = 0 => Bare)
  BY ZenonT(60), Before, LeftIs DEF Typed
<1>1. th[t].pc = "again" /\ th[t].pc \in Reclaiming
  BY ZenonT(60) DEF Again, Reclaiming
<1>2. /\ Want(t) \in Nat /\ th[t].by = "reserve"
      /\ th[t].freed \in Nat /\ th[t].rounds \in Nat /\ Want(t) > 0
      /\ th[t].to \notin Reclaiming \cup {"refused"}
      /\ th[t].rounds > 0
  BY ZenonT(60), <1>1, WantIs DEF Sole
<1>3. Left' = Left /\ Bare' = Bare
  BY ZenonT(60), SameStock DEF Again
<1>4. CASE TryReserve(Want(t))
  <2>1. th'[t].pc = th[t].to
    BY SMTT(40), <1>0, <1>4 DEF Again, Granted, Thread
  <2> QED  BY ZenonT(60), <1>2, <2>1 DEF Sole, Reclaiming
<1>5. CASE ~TryReserve(Want(t)) /\ (th[t].freed = 0 \/ th[t].rounds = 1)
  <2>1. th'[t].pc = "refused"
    BY SMTT(40), <1>0, <1>5 DEF Again, Goto, Thread
  <2>2. Bare
    BY SMTT(40), <1>0, <1>1, <1>2, <1>5 DEF Sole
  <2> QED  BY ZenonT(60), <1>3, <2>1, <2>2 DEF Sole, Reclaiming
<1>6. CASE ~TryReserve(Want(t)) /\ ~(th[t].freed = 0 \/ th[t].rounds = 1)
  <2>1. /\ th'[t].pc = "evict" /\ th'[t].freed = 0 /\ th'[t].rounds = th[t].rounds - 1
        /\ th'[t].page = th[t].page /\ th'[t].want = th[t].want /\ th'[t].by = th[t].by
    BY SMTT(40), <1>0, <1>6 DEF Again, Thread
  <2>2. Left' <= th[t].rounds - 1
    BY SMTT(60), <1>0, <1>1, <1>2, <1>3, <1>6 DEF Sole
  <2>3. Want(t)' > 0
    BY ZenonT(60), <1>2, <2>1, WantNext
  <2> QED  BY SMTT(40), <1>2, <2>1, <2>2, <2>3 DEF Sole
<1> QED  BY ZenonT(60), <1>4, <1>5, <1>6

\* A thread that is in a call alone.
Soles == \A t \in Threads : Callers = {t} => Sole(t)

\* Every step keeps what is known of a reclaim alone.
LEMMA SolesKept == IInv /\ Order /\ Soles /\ [Next]_vars => Soles'
<1>1. ASSUME IInv, Order, Soles, Next, NEW t \in Threads, Callers' = {t}
      PROVE  Sole(t)'
  <2>0. db' = db /\ Callers = {t} /\ Sole(t) /\ Typed
    BY ZenonT(60), <1>1 DEF Next, Callers, Soles, IInv, Ledger
  <2>1. CASE \/ \E p \in Pages : CallPage(t, p)
             \/ \E r \in Trees : RootPage(t, r)
             \/ CallReserve(t) \/ QueryDone(t)
             \/ \E b \in Buffers : DropGuard(t, b)
    BY ZenonT(60), <1>1, <2>1, ApartStep DEF Apart
  <2>2. CASE Step(t)
    <3>1. CASE Apart(t)
      BY ZenonT(60), <1>1, <3>1, ApartStep
    <3>2. CASE ChunkTry(t) \/ Try(t)
      BY ZenonT(60), <1>1, <2>0, <3>2, SoleTry
    <3>3. CASE (\E p \in Pages : EvictPage(t, p)) \/ Evicted(t)
      BY ZenonT(60), <1>1, <2>0, <3>3, SoleEvict
    <3>4. CASE DropChunk(t)
      BY ZenonT(60), <1>1, <2>0, <3>4, SoleChunk
    <3>5. CASE ReleaseRoots(t)
      BY ZenonT(60), <1>1, <2>0, <3>5, SoleRoots
    <3>6. CASE Again(t)
      BY ZenonT(60), <1>1, <2>0, <3>6, SoleAgain
    <3> QED  BY SMTT(60), <2>2, <3>1, <3>2, <3>3, <3>4, <3>5, <3>6 DEF Step, Apart
  <2>3. CASE \E r \in Trees : DropTree(r)
    <3>1. th' = th /\ th[t].pc = "idle"
      BY ZenonT(60), <2>0, <2>3 DEF DropTree
    <3> QED  BY ZenonT(60), <3>1 DEF Sole, Reclaiming
  <2> QED  BY ZenonT(60), <1>1, <2>0, <2>1, <2>2, <2>3 DEF Next
<1>2. ASSUME IInv, Soles, UNCHANGED vars PROVE Soles'
  <2>1. db' = db /\ th' = th /\ UNCHANGED <<cache, recency, roots>>
    BY ZenonT(60), <1>2 DEF vars
  <2>2. Cached' = Cached /\ Resident' = Resident /\ Left' = Left /\ Bare' = Bare /\ Callers' = Callers
    BY ZenonT(60), <2>1, SameStock DEF Callers
  <2>3. \A t \in Threads : Want(t)' = Want(t) /\ Limit' = Limit
    BY ZenonT(60), <2>1, WantNext
  <2> QED  BY ZenonT(60), <1>2, <2>1, <2>2, <2>3 DEF Soles, Sole
<1> QED  BY ZenonT(60), <1>1, <1>2 DEF Soles

\* At first nobody reclaims.
LEMMA SolesInit == Init => Soles
BY SMTT(40) DEF Init, Idle, Soles, Sole, Reclaiming

\* PageStore's RefusedWhenBare: with nobody else about, reserve and read_chunk refuse a
\* request that fits the limit only when no cached page, chunk or retained root is left,
\* whatever the sizes: the bound on the rounds is never what stops them.
THEOREM RefusalsAreLastResort == Spec => []RefusedWhenBare
<1>1. Soles => RefusedWhenBare
  BY ZenonT(60) DEF Soles, Sole, RefusedWhenBare, Bare
<1> QED  BY InitKeeps, Kept, SolesInit, SolesKept, <1>1, PTL DEF Spec

\* PageStore's RootsLast: with nobody else about, reserve and reclaim_pages give up
\* retained roots only after the last cached page and the last chunk.
THEOREM RootsAreLast == Spec => RootsLast
<1>1. Soles /\ [Next]_vars =>
        [\A t \in Threads :
           Callers = {t} /\ th[t].pc = "roots" /\ th'[t].pc # "roots" /\ Retained # {} =>
              Cached = {} /\ Resident = {}]_vars
  BY ZenonT(60) DEF Soles, Sole
<1> QED  BY InitKeeps, Kept, SolesInit, SolesKept, <1>1, PTL DEF Spec, RootsLast

=============================================================================
