----------------------------- MODULE PageStore -----------------------------
(***************************************************************************)
(* The page store of crates/drydb/src/store.rs with the page directory of  *)
(* directory.rs, on one byte budget: pages, directory chunks and retained  *)
(* roots take memory back from each other, and a page that is given up     *)
(* only returns its bytes once nobody pins it (page.rs).                   *)
(*                                                                         *)
(* The cache is the map module PageCache implements: an entry is absent,   *)
(* in flight or a buffer, with one loader at a time, and its table costs   *)
(* SlotBytes an entry (module ShardBook has the real sizes).  The budget   *)
(* is the ledger module Budget implements: what is charged is the sum over *)
(* what is held.  A buffer is a page and a generation, since an evicted    *)
(* page that is still pinned can be read again beside its old buffer.      *)
(***************************************************************************)
EXTENDS Naturals, Sequences, FiniteSets, Functions

CONSTANTS Threads,
          EntriesPerChunk,
          MaxChunks,        \* PageDirectory::max_chunks
          ChunkBytes,
          MaxDecodedBytes,  \* Limits::max_decoded_page_bytes and its overhead
          Hinted,           \* whether decoded_size_hint answers
          WorkingBytes,     \* PageFilter::working_set_bytes
          ProbeBytes,       \* PageFilter::probe_bytes
          SlotBytes,
          RootBytes,        \* a slot of the retained roots table
          CacheCapacity,
          PageSize,         \* the header's page size and an overhead
          EvictRounds,      \* EVICT_ROUNDS
          RetainHeadroom,   \* RETAIN_HEADROOM_PAGES
          RootOf,           \* RootOf[r]: the root page of tree r
          Databases         \* the files, the options and the callers looked at

ASSUME PageStoreAssumption ==
    /\ {EntriesPerChunk, MaxChunks, EvictRounds} \subseteq Nat \ {0}
    /\ {ChunkBytes, MaxDecodedBytes, WorkingBytes, ProbeBytes, SlotBytes, RootBytes,
        CacheCapacity, PageSize, RetainHeadroom} \subseteq Nat
    /\ Hinted \in BOOLEAN
    /\ IsFiniteSet(Threads) /\ Threads \cap Nat = {}
    /\ IsFiniteSet(DOMAIN RootOf)
    /\ \A d \in Databases :
        /\ DOMAIN d.stored \subseteq Nat /\ IsFiniteSet(DOMAIN d.stored)
        /\ d.stored \in [DOMAIN d.stored -> Nat \ {0}]
        /\ d.decoded \in [DOMAIN d.stored -> 1..MaxDecodedBytes]
        /\ d.filtered \in BOOLEAN
        /\ {d.query, d.limit, d.open, d.slack, d.guards, d.buffers} \subseteq Nat
        /\ d.open <= d.limit      \* open reserves what it charges like everybody else
        /\ RootOf \in [DOMAIN RootOf -> DOMAIN d.stored]
        /\ d.callers \subseteq Threads

VARIABLE db                 \* the database that is open

Callers == db.callers       \* the threads that use it
StoredBytes == db.stored    \* StoredBytes[p]: stored length and its overhead
DecodedBytes == db.decoded  \* DecodedBytes[p]: decoded length and its overhead
Filtered == db.filtered     \* whether the file has a page filter
QueryBytes == db.query      \* what a query reserves for itself
Limit == db.limit           \* Budget::limit
OpenBytes == db.open        \* what open has charged: catalog, handles, shard array
Slack == db.slack           \* what minimum_budget adds for bookkeeping
MaxGuards == db.guards      \* bound: guards a caller keeps
Generations == db.buffers   \* bound: buffers of one page alive at once

Pages == DOMAIN StoredBytes
Trees == DOMAIN RootOf
Chunks == {p \div EntriesPerChunk : p \in Pages}
Buffers == Pages \X (1..Generations)
None == <<>>

VARIABLES cache,      \* cache[p]: the buffer of a Ready slot, or None
          inflight,   \* the pages with an in-flight marker
          recency,    \* resident chunks by last_used, oldest first, and at the tick
                      \* it took the thread that has read a chunk and not inserted it
          roots,      \* roots[r]: the retained root of tree r, or None
          table,      \* slots and charge of the retained roots table
          alive,      \* trees that have not been dropped
          guards,     \* guards[t]: buffers the caller keeps pinned
          th          \* th[t]: the call t is in

vars == <<db, cache, inflight, recency, roots, table, alive, guards, th>>

\* page, tree: what the call is for; ord: the ordinal being resolved; chg, mem: what
\* the call has reserved, and allocated, of a slot in the cache, the stored page, the
\* scratch, probe and working buffers of a decode, the exact copy, a chunk, and what its
\* query holds; owns: it has a marker in the cache; pin: the page it has pinned; want, by, to: the reservation, what makes it and where it goes
\* on; freed, rounds: the locals of reserve; left: the drops at the end of a decode still to come.
Idle == [pc |-> "idle", page |-> 0, tree |-> None, ord |-> 0, chg |-> {}, mem |-> {},
         pin |-> None, want |-> "slot", by |-> "reserve", to |-> "idle", freed |-> 0,
         rounds |-> 0, left |-> <<>>, owns |-> FALSE]

Init ==
    /\ db \in Databases
    /\ cache = [p \in Pages |-> None]
    /\ inflight = {}
    /\ recency = <<>>
    /\ roots = [r \in Trees |-> None]
    /\ table = [slots |-> 0, book |-> 0]
    /\ alive = Trees
    /\ guards = [t \in Threads |-> {}]
    /\ th = [t \in Threads |-> Idle]

-----------------------------------------------------------------------------
BufferBytes(p) == IF Filtered THEN DecodedBytes[p] ELSE StoredBytes[p]

Size(p, kind) ==
    CASE kind = "slot" -> SlotBytes
      [] kind = "stored" -> StoredBytes[p]
      [] kind = "scratch" -> IF Hinted THEN DecodedBytes[p] ELSE MaxDecodedBytes
      [] kind = "probe" -> ProbeBytes
      [] kind = "working" -> WorkingBytes
      [] kind = "exact" -> DecodedBytes[p]
      [] kind = "chunk" -> ChunkBytes
      [] kind = "query" -> QueryBytes

Cached == {p \in Pages : cache[p] # None}
Retained == {r \in Trees : roots[r] # None}
Resident == Chunks \cap Range(recency)

\* The buffers somebody pins: the cache, a retained root, a call or a guard.
Live ==
    {cache[p] : p \in Cached} \cup {roots[r] : r \in Retained}
        \cup (UNION {guards[t] : t \in Threads})
        \cup {th[t].pin : t \in {u \in Threads : th[u].pin # None}}

Shared ==
    OpenBytes + SumFunction([b \in Live |-> BufferBytes(b[1])])
        + ChunkBytes * Cardinality(Resident)
        + SlotBytes * Cardinality(Cached \cup inflight)

Held(p, kinds) == SumFunction([k \in kinds |-> Size(p, k)])
Private(field) == SumFunction([t \in Threads |-> Held(th[t].page, th[t][field])])

\* Bytes charged to the budget, and bytes the process has.
InUse == Shared + table.book + Private("chg")
Memory == Shared + RootBytes * table.slots + Private("mem")

TryReserve(n) == InUse + n <= Limit

Goto(t, label) == th' = [th EXCEPT ![t].pc = label]

\* A call of reserve for `kind` that goes on at `next`.
Reserve(t, kind, next, thread) ==
    th' = [th EXCEPT ![t] = [thread EXCEPT !.pc = "try", !.want = kind, !.by = "reserve",
                                           !.to = next, !.freed = 0]]
-----------------------------------------------------------------------------
\* The caller: page for a plain read or for the root of a tree, a reservation of its
\* own, and letting go of guards, reservations and trees.
CallPage(t, p) ==
    /\ th[t].pc = "idle"
    /\ Cardinality(guards[t]) < MaxGuards
    /\ th' = [th EXCEPT ![t].pc = "look", ![t].page = p]
    /\ UNCHANGED <<cache, inflight, recency, roots, table, alive, guards>>

RootPage(t, r) ==
    /\ th[t].pc = "idle"
    /\ Cardinality(guards[t]) < MaxGuards
    /\ r \in alive
    /\ th' = [th EXCEPT ![t].pc = IF roots[r] # None THEN "pinned" ELSE "look",
                        ![t].pin = roots[r], ![t].page = RootOf[r],
                        ![t].tree = IF roots[r] # None THEN None ELSE <<r>>]
    /\ UNCHANGED <<cache, inflight, recency, roots, table, alive, guards>>

CallReserve(t) ==
    /\ th[t].pc = "idle"
    /\ "query" \notin th[t].chg
    /\ Reserve(t, "query", "query", th[t])
    /\ UNCHANGED <<cache, inflight, recency, roots, table, alive, guards>>

QueryReserved(t) ==
    /\ th[t].pc = "query"
    /\ th' = [th EXCEPT ![t] = [Idle EXCEPT !.chg = {"query"}, !.mem = {"query"}]]
    /\ UNCHANGED <<cache, inflight, recency, roots, table, alive, guards>>

QueryDone(t) ==
    /\ th[t].pc = "idle"
    /\ "query" \in th[t].chg
    /\ th' = [th EXCEPT ![t] = Idle]
    /\ UNCHANGED <<cache, inflight, recency, roots, table, alive, guards>>

DropGuard(t, b) ==
    /\ th[t].pc = "idle"
    /\ b \in guards[t]
    /\ guards' = [guards EXCEPT ![t] = @ \ {b}]
    /\ UNCHANGED <<cache, inflight, recency, roots, table, alive, th>>

\* The call returns its pin.
Return(t) ==
    /\ guards' = [guards EXCEPT ![t] = @ \cup {th[t].pin}]
    /\ th' = [th EXCEPT ![t] = [Idle EXCEPT !.chg = th[t].chg \cap {"query"},
                                            !.mem = th[t].mem \cap {"query"}]]

-----------------------------------------------------------------------------
\* get_or_load: a hit, a miss that reserves its marker, and the marker going in.  A
\* caller that finds the page in flight waits, keeping what it has reserved.
Hit(t) ==
    /\ th[t].pc \in {"look", "claim"}
    /\ cache[th[t].page] # None
    /\ th' = [th EXCEPT ![t].pc = "pinned", ![t].pin = cache[th[t].page],
                        ![t].chg = @ \ {"slot"}]
    /\ UNCHANGED <<cache, inflight, recency, roots, table, alive, guards>>

Absent(p) == cache[p] = None /\ p \notin inflight

Miss(t) ==
    /\ th[t].pc = "look"
    /\ Absent(th[t].page)
    /\ Reserve(t, "slot", "claim", th[t])
    /\ UNCHANGED <<cache, inflight, recency, roots, table, alive, guards>>

\* A page is never alive in more buffers than the bound.
Claim(t) ==
    /\ th[t].pc = "claim"
    /\ Absent(th[t].page)
    /\ \E g \in 1..Generations : <<th[t].page, g>> \notin Live
    /\ inflight' = inflight \cup {th[t].page}
    /\ th' = [th EXCEPT ![t].pc = "offset", ![t].ord = th[t].page, ![t].to = "length",
                        ![t].chg = @ \ {"slot"}, ![t].owns = TRUE]
    /\ UNCHANGED <<cache, recency, roots, table, alive, guards>>

-----------------------------------------------------------------------------
\* PageDirectory::offset_of: lookup, and read_chunk when the chunk is not resident.
ChunkOf(t) == th[t].ord \div EntriesPerChunk

\* The least recently used chunk, and what recency is with one of its members gone.
At(x) == CHOOSE i \in DOMAIN recency : recency[i] = x
Oldest == CHOOSE c \in Resident : \A d \in Resident : At(c) <= At(d)
Without(x) == SubSeq(recency, 1, At(x) - 1) \o SubSeq(recency, At(x) + 1, Len(recency))

Lookup(t) ==
    /\ th[t].pc = "offset"
    /\ IF ChunkOf(t) \in Resident
         THEN /\ recency' = Append(Without(ChunkOf(t)), ChunkOf(t))
              /\ Goto(t, th[t].to)
         ELSE /\ Goto(t, "chunktry")
              /\ UNCHANGED recency
    /\ UNCHANGED <<cache, inflight, roots, table, alive, guards>>

\* The head of read_chunk's loop: try_reserve, or go and give something up.
ChunkTry(t) ==
    /\ th[t].pc = "chunktry"
    /\ IF TryReserve(ChunkBytes)
         THEN th' = [th EXCEPT ![t].pc = "chunkread", ![t].chg = @ \cup {"chunk"},
                               ![t].mem = @ \cup {"chunk"}]
         ELSE th' = [th EXCEPT ![t].pc = "chunk", ![t].by = "chunk", ![t].want = "chunk",
                               ![t].freed = 0]
    /\ UNCHANGED <<cache, inflight, recency, roots, table, alive, guards>>

\* The read succeeds and takes its tick.
ChunkRead(t) ==
    /\ th[t].pc = "chunkread"
    /\ recency' = Append(recency, t)
    /\ Goto(t, "insert")
    /\ UNCHANGED <<cache, inflight, roots, table, alive, guards>>

\* Mutation: whether another thread has put the chunk there is not looked at.
InsertUnlooked(t) ==
    /\ th[t].pc = "insert"
    /\ LET c == ChunkOf(t)
           put(seq) == [i \in DOMAIN seq |-> IF seq[i] = t THEN c ELSE seq[i]]
       IN  recency' = put(IF Cardinality(Resident) >= MaxChunks /\ c \notin Resident
                            THEN Without(Oldest) ELSE recency)
    /\ th' = [th EXCEPT ![t].pc = th[t].to, ![t].chg = @ \ {"chunk"}, ![t].mem = @ \ {"chunk"}]
    /\ UNCHANGED <<cache, inflight, roots, table, alive, guards>>

\* PageDirectory::insert: a chunk another thread has put there first stays.
Insert(t) ==
    /\ th[t].pc = "insert"
    /\ LET c == ChunkOf(t)
           put(seq) == [i \in DOMAIN seq |-> IF seq[i] = t THEN c ELSE seq[i]]
       IN  recency' = CASE c \in Resident -> Without(t)
                        [] c \notin Resident /\ Cardinality(Resident) >= MaxChunks -> put(Without(Oldest))
                        [] OTHER -> put(recency)
    /\ th' = [th EXCEPT ![t].pc = th[t].to, ![t].chg = @ \ {"chunk"}, ![t].mem = @ \ {"chunk"}]
    /\ UNCHANGED <<cache, inflight, roots, table, alive, guards>>

-----------------------------------------------------------------------------
\* PageStore::load: the length, the bound the next page sets, the stored bytes.
Length(t) ==
    /\ th[t].pc = "length"
    /\ IF th[t].page + 1 \in Pages
         THEN th' = [th EXCEPT ![t].pc = "offset", ![t].ord = th[t].page + 1, ![t].to = "bounded"]
         ELSE Goto(t, "bounded")
    /\ UNCHANGED <<cache, inflight, recency, roots, table, alive, guards>>

Bounded(t) ==
    /\ th[t].pc = "bounded"
    /\ Reserve(t, "stored", "read", th[t])
    /\ UNCHANGED <<cache, inflight, recency, roots, table, alive, guards>>

\* The stored bytes are read into their buffer.  Without a filter that is the page.
Read(t) ==
    /\ th[t].pc = "read"
    /\ LET with == [th[t] EXCEPT !.mem = @ \cup {"stored"}]
       IN  IF Filtered THEN Reserve(t, "scratch", "payload", with)
           ELSE th' = [th EXCEPT ![t] = [with EXCEPT !.pc = "validate"]]
    /\ UNCHANGED <<cache, inflight, recency, roots, table, alive, guards>>

\* The buffer the filter decodes into; then what asking the filter costs.
Payload(t) ==
    /\ th[t].pc = "payload"
    /\ Reserve(t, "probe", "probe", [th[t] EXCEPT !.mem = @ \cup {"scratch"}])
    /\ UNCHANGED <<cache, inflight, recency, roots, table, alive, guards>>

Probe(t) ==
    /\ th[t].pc = "probe"
    /\ Reserve(t, "working", "decode", [th[t] EXCEPT !.chg = @ \ {"probe"}])
    /\ UNCHANGED <<cache, inflight, recency, roots, table, alive, guards>>

\* The filter has decoded and its working set is given back.
Decode(t) ==
    /\ th[t].pc = "decode"
    /\ Reserve(t, "exact", "copy", [th[t] EXCEPT !.chg = @ \ {"working"}])
    /\ UNCHANGED <<cache, inflight, recency, roots, table, alive, guards>>

\* Mutation: the stored bytes' reservation goes before the stored bytes.
DropsReversed == <<<<"mem", "scratch">>, <<"chg", "scratch">>, <<"chg", "stored">>, <<"mem", "stored">>>>

\* The order in which the buffers and the reservations of a decode are let go.
Drops == <<<<"mem", "scratch">>, <<"chg", "scratch">>, <<"mem", "stored">>, <<"chg", "stored">>>>

Copy(t) ==
    /\ th[t].pc = "copy"
    /\ th' = [th EXCEPT ![t].pc = "drop", ![t].mem = @ \cup {"exact"}, ![t].left = Drops]
    /\ UNCHANGED <<cache, inflight, recency, roots, table, alive, guards>>

Drop(t) ==
    /\ th[t].pc = "drop"
    /\ LET next == Head(th[t].left)
       IN  th' = [th EXCEPT ![t].mem = IF next[1] = "mem" THEN @ \ {next[2]} ELSE @,
                            ![t].chg = IF next[1] = "chg" THEN @ \ {next[2]} ELSE @,
                            ![t].left = Tail(@),
                            ![t].pc = IF Len(th[t].left) = 1 THEN "validate" ELSE "drop"]
    /\ UNCHANGED <<cache, inflight, recency, roots, table, alive, guards>>

\* PageView::parse and validate pass: the reservation goes into a new buffer.
NewBuffer(p) ==
    <<p, CHOOSE g \in 1..Generations :
            <<p, g>> \notin Live /\ \A h \in 1..(g - 1) : <<p, h>> \in Live>>

Validate(t) ==
    /\ th[t].pc = "validate"
    /\ th' = [th EXCEPT ![t].pc = "publish", ![t].pin = NewBuffer(th[t].page),
                        ![t].chg = @ \ {"stored", "exact"}, ![t].mem = @ \ {"stored", "exact"}]
    /\ UNCHANGED <<cache, inflight, recency, roots, table, alive, guards>>

PageBytesOf(ps) == SumFunction([p \in ps |-> BufferBytes(p)])

\* Evicting `out` brings a cache of the pages `ps` down to its capacity, and no sooner.
DownToCapacity(ps, out) ==
    /\ out \subseteq ps
    /\ PageBytesOf(ps \ out) <= CacheCapacity
    /\ out # {} => \E last \in out : PageBytesOf((ps \ out) \cup {last}) > CacheCapacity

\* The cache publishes the page.
Publish(t) ==
    /\ th[t].pc = "publish"
    /\ \E out \in SUBSET Pages :
         /\ DownToCapacity(Cached \cup {th[t].page}, out)
         /\ cache' = [p \in Pages |-> CASE p \in out -> None
                                        [] p \notin out /\ p = th[t].page -> th[t].pin
                                        [] OTHER -> cache[p]]
    /\ inflight' = inflight \ {th[t].page}
    /\ th' = [th EXCEPT ![t].pc = "pinned", ![t].owns = FALSE]
    /\ UNCHANGED <<recency, roots, table, alive, guards>>

\* A read, a parse, a decode or a check of the load fails.
LoadError(t) ==
    /\ th[t].pc \in {"chunkread", "length", "bounded", "read", "payload", "decode", "validate"}
    /\ Goto(t, "fail")
    /\ UNCHANGED <<cache, inflight, recency, roots, table, alive, guards>>

\* A call ends with an error: its buffers go, and then its reservations and its marker.
Unwind(t) ==
    /\ th[t].pc \in {"fail", "refused"}
    /\ th[t].mem \ {"query"} # {}
    /\ th' = [th EXCEPT ![t].mem = @ \cap {"query"}, ![t].pc = "fail"]
    /\ UNCHANGED <<cache, inflight, recency, roots, table, alive, guards>>

\* The error reaches the caller.
Fail(t) ==
    /\ th[t].pc \in {"fail", "refused"}
    /\ th[t].mem \ {"query"} = {}
    /\ inflight' = IF th[t].owns THEN inflight \ {th[t].page} ELSE inflight
    /\ th' = [th EXCEPT ![t] = [Idle EXCEPT !.chg = th[t].chg \cap {"query"},
                                            !.mem = th[t].mem \cap {"query"}]]
    /\ UNCHANGED <<cache, recency, roots, table, alive, guards>>

-----------------------------------------------------------------------------
\* PageStore::reserve.  Its first try.
Want(t) == Size(th[t].page, th[t].want)

Granted(t) == th' = [th EXCEPT ![t].pc = th[t].to, ![t].chg = @ \cup {th[t].want},
                               ![t].freed = 0, ![t].rounds = 0]

\* Mutation: a fixed number of rounds.
RoundsFixed == EvictRounds

Rounds == Cardinality(Cached) + Cardinality(Resident) + EvictRounds

Try(t) ==
    /\ th[t].pc = "try"
    /\ CASE TryReserve(Want(t)) -> Granted(t)
         [] ~TryReserve(Want(t)) /\ Want(t) > Limit -> Goto(t, "refused")
         [] OTHER -> th' = [th EXCEPT ![t].pc = "evict", ![t].rounds = Rounds]
    /\ UNCHANGED <<cache, inflight, recency, roots, table, alive, guards>>

\* evict_bytes: pages go until they add up to what is wanted, pinned or not.
EvictPage(t, p) ==
    /\ th[t].pc = "evict"
    /\ th[t].freed < Want(t)
    /\ p \in Cached
    /\ cache' = [cache EXCEPT ![p] = None]
    /\ th' = [th EXCEPT ![t].freed = @ + BufferBytes(p)]
    /\ UNCHANGED <<inflight, recency, roots, table, alive, guards>>

\* Where a round goes on once something has been given up.
Retry(t) == IF th[t].by = "chunk" THEN "chunktry" ELSE "again"

\* Mutation: reserve takes the roots before the chunks.
EvictedRootsFirst(t) ==
    /\ th[t].pc = "evict"
    /\ th[t].freed >= Want(t) \/ Cached = {}
    /\ Goto(t, CASE th[t].freed > 0 -> Retry(t)
                 [] th[t].freed = 0 /\ th[t].by = "reserve" /\ Retained = {} -> "chunk"
                 [] OTHER -> "roots")
    /\ UNCHANGED <<cache, inflight, recency, roots, table, alive, guards>>

Evicted(t) ==
    /\ th[t].pc = "evict"
    /\ th[t].freed >= Want(t) \/ Cached = {}
    /\ Goto(t, CASE th[t].freed > 0 -> Retry(t)
                 [] th[t].freed = 0 /\ th[t].by = "reserve" -> "chunk"
                 [] OTHER -> "roots")
    /\ UNCHANGED <<cache, inflight, recency, roots, table, alive, guards>>

\* Mutation: evict_one reports a chunk it did not have.
DropChunkAlways(t) ==
    /\ th[t].pc = "chunk"
    /\ recency' = IF Resident # {} THEN Without(Oldest) ELSE recency
    /\ th' = [th EXCEPT ![t].pc = Retry(t), ![t].freed = 1]
    /\ UNCHANGED <<cache, inflight, roots, table, alive, guards>>

\* PageDirectory::evict_one.
DropChunk(t) ==
    /\ th[t].pc = "chunk"
    /\ IF Resident # {}
         THEN /\ recency' = Without(Oldest)
              /\ th' = [th EXCEPT ![t].pc = Retry(t), ![t].freed = 1]
         ELSE /\ Goto(t, IF th[t].by = "chunk" THEN "evict" ELSE "roots")
              /\ UNCHANGED recency
    /\ UNCHANGED <<cache, inflight, roots, table, alive, guards>>

\* Mutation: retained roots are out of reach of a reclaim.
ReleaseNoRoots(t) ==
    /\ th[t].pc = "roots"
    /\ th' = [th EXCEPT ![t].freed = 0,
                        ![t].pc = IF th[t].by = "chunk" THEN "refused" ELSE Retry(t)]
    /\ UNCHANGED <<cache, inflight, recency, roots, table, alive, guards>>

\* release_roots: every root, and the table with them.
ReleaseRoots(t) ==
    /\ th[t].pc = "roots"
    /\ roots' = [r \in Trees |-> None]
    /\ table' = [slots |-> 0, book |-> 0]
    /\ th' = [th EXCEPT ![t].freed = IF Retained = {} THEN 0 ELSE 1,
                        ![t].pc = IF th[t].by = "chunk" /\ Retained = {} THEN "refused"
                                  ELSE Retry(t)]
    /\ UNCHANGED <<cache, inflight, recency, alive, guards>>

\* The end of a round of reserve.
Again(t) ==
    /\ th[t].pc = "again"
    /\ CASE TryReserve(Want(t)) -> Granted(t)
         [] ~TryReserve(Want(t)) /\ (th[t].freed = 0 \/ th[t].rounds = 1) -> Goto(t, "refused")
         [] OTHER -> th' = [th EXCEPT ![t].pc = "evict", ![t].freed = 0, ![t].rounds = @ - 1]
    /\ UNCHANGED <<cache, inflight, recency, roots, table, alive, guards>>

-----------------------------------------------------------------------------
\* The end of root_page: the root is kept when there is room to spare.
RoomToRetain(t) ==
    /\ th[t].tree # None
    /\ (IF Limit >= InUse THEN Limit - InUse ELSE 0) >= RetainHeadroom * BufferBytes(th[t].page)

Pinned(t) ==
    /\ th[t].pc = "pinned"
    /\ IF RoomToRetain(t)
         THEN Goto(t, "retain") /\ UNCHANGED guards
         ELSE Return(t)
    /\ UNCHANGED <<cache, inflight, recency, roots, table, alive>>

\* Bookkeeping::settle of the retained roots table: growing may not fit.
Settles(want) == want <= table.book \/ TryReserve(want - table.book)

\* retain_root.  The table doubles when it is full, and both tables are there while it
\* moves.
Retain(t) ==
    /\ th[t].pc = "retain"
    /\ LET r == th[t].tree[1]
           full == table.slots = Cardinality(Retained)
           grown == IF table.slots = 0 THEN 1 ELSE 2 * table.slots
           want == RootBytes * (IF full THEN table.slots + grown ELSE table.slots)
           slots == IF full THEN grown ELSE table.slots
       IN  IF Settles(want)
             THEN /\ roots' = [roots EXCEPT ![r] = th[t].pin]
                  /\ table' = [slots |-> slots, book |-> RootBytes * slots]
             ELSE UNCHANGED <<roots, table>>
    /\ Return(t)
    /\ UNCHANGED <<cache, inflight, recency, alive>>

\* The last handle of a tree goes, and release_root with it, on a thread in no call.
DropTree(r) ==
    /\ r \in alive
    /\ \E t \in Callers : th[t].pc = "idle"
    /\ \A t \in Threads : th[t].tree # <<r>>
    /\ alive' = alive \ {r}
    /\ roots' = [roots EXCEPT ![r] = None]
    /\ LET len == Cardinality(Retained \ {r})
           shrinks == table.slots > 2 * len /\ Settles(RootBytes * (table.slots + len))
           slots == IF shrinks THEN len ELSE table.slots
       IN  table' = [slots |-> slots, book |-> RootBytes * slots]
    /\ UNCHANGED <<cache, inflight, recency, guards, th>>

-----------------------------------------------------------------------------
Step(t) ==
    \/ QueryReserved(t) \/ Hit(t) \/ Miss(t) \/ Claim(t)
    \/ Lookup(t) \/ ChunkTry(t) \/ ChunkRead(t) \/ Insert(t)
    \/ Length(t) \/ Bounded(t) \/ Read(t) \/ Payload(t) \/ Probe(t) \/ Decode(t)
    \/ Copy(t) \/ Drop(t) \/ Validate(t) \/ Publish(t)
    \/ LoadError(t) \/ Unwind(t) \/ Fail(t)
    \/ Try(t) \/ (\E p \in Pages : EvictPage(t, p)) \/ Evicted(t)
    \/ DropChunk(t) \/ ReleaseRoots(t) \/ Again(t)
    \/ Pinned(t) \/ Retain(t)

Next ==
    /\ \/ \E t \in Callers :
            \/ \E p \in Pages : CallPage(t, p)
            \/ \E r \in Trees : RootPage(t, r)
            \/ CallReserve(t) \/ QueryDone(t)
            \/ \E b \in Buffers : DropGuard(t, b)
            \/ Step(t)
       \/ \E r \in Trees : DropTree(r)
    /\ UNCHANGED db

Spec == Init /\ [][Next]_vars

\* A thread inside a call keeps being scheduled.
FairSpec == Spec /\ \A t \in Threads : WF_vars(Step(t) /\ UNCHANGED db)

-----------------------------------------------------------------------------
\* At no instant, in a load, in a decode, in the drops that end one, in an error or in
\* a reclaim, does the process have more memory than it has reserved, and what it has
\* reserved never passes the limit.
MemoryCovered == Memory <= InUse /\ InUse <= Limit

\* A chunk is resident at most once however many threads read it at a time, no more
\* chunks are resident than max_chunks, and only chunks count as such.
ChunksOnce ==
    /\ Cardinality(Resident) <= MaxChunks
    /\ \A i, j \in DOMAIN recency : recency[i] = recency[j] => i = j
    /\ \A t \in Threads : t \in Range(recency) => th[t].pc = "insert"

\* With nobody else about, reserve and read_chunk refuse a request that fits the budget
\* only when there is nothing left to give back: no cached page, no chunk and no
\* retained root.  The rounds do not run out first.
RefusedWhenBare ==
    \A t \in Threads :
        Callers = {t} /\ th[t].pc = "refused" /\ Want(t) <= Limit =>
            Cached = {} /\ Resident = {} /\ Retained = {}

\* With nobody else about, a reclaim gives up retained roots only when no cached page
\* and no chunk is left.
RootsLast ==
    [][\A t \in Threads :
         Callers = {t} /\ th[t].pc = "roots" /\ th'[t].pc # "roots" /\ Retained # {} =>
            Cached = {} /\ Resident = {}]_vars

\* A refusal is about now: when reserve or read_chunk returns BudgetExceeded, the
\* request does not fit the budget as it stands at that step, whatever other threads
\* have given back since it was last tried.
RefusalIsCurrent ==
    [][\A t \in Threads :
         th[t].pc # "refused" /\ th'[t].pc = "refused" => ~TryReserve(Want(t))]_vars

\* What open_source asks of the budget.
minimum_budget == 4 * PageSize + ChunkBytes + Slack
OpenAccepts ==
    /\ Limit >= minimum_budget
    /\ Filtered => /\ OpenBytes + ProbeBytes <= Limit
                   /\ MaxDecodedBytes + PageSize + WorkingBytes <= Limit

\* A budget open accepts is enough to read with: no page is refused to a caller on its
\* own that keeps few guards and has reserved nothing itself, whatever the cache, the
\* directory and the roots hold.
ReadsFit ==
    OpenAccepts =>
        \A t \in Threads : th[t].pc = "refused" => th[t].want = "query" \/ "query" \in th[t].chg

\* That is so of a file without a page filter.
PlainReadsFit == ~Filtered /\ Cardinality(Callers) = 1 => ReadsFit

\* Once no new call starts, every call returns: the reclaim loops of reserve and of
\* read_chunk end although what they give up may be pinned.
CallsReturn ==
    <>[][\A t \in Threads : th[t].pc = "idle" => th'[t].pc = "idle"]_vars
        => <>[](\A t \in Threads : th[t].pc = "idle")
=============================================================================
