# Verification of drydb-rs in TLA+

drydb-rs reads and writes immutable single-file databases: tables of key/value rows in
B+Trees of variable-size pages, secondary indexes, overflow values in blob pages, and a
page directory at the end of the file. A database is written once, by an external sort
feeding a bottom-up tree writer, and then read by any number of threads under one byte
budget that page buffers, directory chunks, cursors and the cache's own tables share.

The specifications here are translated from the code under `src/`, not from its
documents. Line numbers are in `PROJECT.json` (`map`), one entry for every definition
that models code.

## Inventory

| Part | State | Operations that change it | What makes it hard |
|---|---|---|---|
| Budget (`budget.rs`) | two atomics `used`, `peak`; the bytes of every `Charge` | `try_reserve`, `grow`, `shrink`, `absorb`, drop | lost updates between load and swap, overflow, the peak raised in a second step |
| Page cache (`cache.rs`) | per shard: map of slots, CLOCK ring, resident bytes, promised pushes, lock, condition variable | `get`, `get_or_load`, `evict_bytes`, drop of an in-flight marker | loads outside the lock, waiters, unwinding, eviction during publish |
| Shard bookkeeping (`cache.rs`, `budget.rs`) | what the map and ring have allocated, what is charged for it | growth, settle, shrink | memory must be reserved before it is allocated, and the tables belong to a library |
| Page store (`store.rs`, `page.rs`) | retained roots, pins | `reserve`, `load`, `retain_root`, `release_root(s)` | reclaim loops over memory that may be pinned |
| Page directory (`directory.rs`) | chunk list in LRU order | `offset_of`, `read_chunk`, `insert`, `evict_one` | two readers of one chunk, an unbounded reclaim loop |
| Tree search (`btree.rs`, `format/node.rs`) | digest marks on page buffers | `find`, `find_cached`, edges, siblings | cached-only lookups racing eviction, malformed pages |
| Cursors (`query.rs`, `index.rs`) | position, page, bounds | `advance`, seek, restore | a step that fails half way, composite keys |
| External sort (`builder/spool.rs`) | buffer, runs and their levels, spool file | push, spill, merge, compact | partial failures, runs and file growing with the input |
| Build driver (`builder/mod.rs`) | a sorter a table, one count for all | create_table, append, build | one sort buffer for tables, indexes and waiting keys |
| Tree writer (`builder/tree.rs`) | one open page a level | push, rotate, flush, finish | siblings patched after they are written |
| Sink and publication (`builder/sink.rs`, `builder/temp.rs`) | buffered file, directory spool, temporary name | write page, patch, finish, sync, rename | patches of buffered bytes, crashes |
| Open (`db.rs`, `format/*`) | none after it returns | catalog read, budget checks | |
| Verification pass (`verify.rs`) | report, chain of the level below | page sweep, tree walk | a pass that stops must not read as clean |
| Async adapter (`drydb-async`) | futures, blocking tasks, what they copied and reserved | get, collect, drop | futures dropped while their work runs, work that panics or never starts |
| Blob reader (`blob.rs`) | a position | read, seek | |
| Encodings, filters, codecs, sources, CLI | none | | |

## How the parts are modelled

Two groups of modules follow the two halves of the program. The first is memory: every
byte the reader holds is charged to one budget, and threads take it from each other. The
second is data: what is written by the builder is what the reader finds, and what a
verification pass says of a file is what reading it shows.

| Module | Models | State | One step is |
|---|---|---|---|
| `Budget` | `Budget`, `Charge` | `used`, `peak`, the bytes of each charge, each caller's program counter and the value it loaded | one atomic operation: a load and check (`Take`), a `compare_exchange_weak` that succeeds (`Swap`) or not (`SwapFailed`), `fetch_max` (`RaisePeak`), or a `fetch_sub` |
| `BudgetLedger` | the promise of `Budget`: a reservation is granted or refused at once | `used`, `bytes`, `outcome` | one whole call |
| `PageCache` | `PageCache` as a protocol | slots, rings with reference bits, resident bytes, `pending_pushes`, owner of each lock, each caller's place in the call | one critical section, one attempt to reserve, one load, one pass of the CLOCK hand |
| `ShardBook` | what a shard's map and ring allocate and what is charged for them | buckets, entries, used-up slots, ring room, `map_slots`, `book` | one critical section |
| `PageStore` | `PageStore` and `PageDirectory` over a cache and a budget that behave as the two modules above say | cached buffers, in-flight pages, chunk list, retained roots, guards, and for each caller the reservations and buffers it holds | one reservation, one reclaim, one read or decode |
| `TreeWriter` | `TreeWriter` of the builder | open levels, pages written, the stack of rotations under way, rows waiting for their leaf | `push` up to the rotation it needs, one page written, one separator promoted, one level closed |
| `BTree` | `Tree` (search), `count_range`, the digest ranks of `PageView` | none: operators over the pages `TreeWriter` wrote | — |
| `Cursor` | `Cursor`, composed with the writer and the search | position, saved position, rows handed out | the parts of `advance` between which a page load can fail |
| `RecordSpool` | `RecordSpool`, its runs, `Merger` | none: operators from a spool to the set of its outcomes, a failure at each write among them | — |
| `PageSink` | `PageSink`, `DirectorySpool`, the buffer in front of the file | none: operators on a sink | — |
| `Builder` | `DatabaseBuilder`, and the tree writer over the sink | a sorter a table, the count of what they hold, the rows appended, the table and tree being written | one call of `append`, one row or entry pushed into a tree, one tree finished |
| `Publish` | `TempFile::publish`, failures and crashes | what of the file is synced, what is at the destination | sync, rename, sync of the directory |
| `IndexCursor` | `Index::range`, `IndexCursor`, over the file that was published | range, the tree's position, what the cursor shows | the parts of `advance` between which a load can fail |
| `Verify` | `Database::verify`, with the search of `BTree`, of a file `TreeWriter` wrote and something damaged | report, overflow pages, place in the walk | one page of the sweep, one page or entry of a level, one stage |
| `AsyncReads` | `AsyncTable` on a blocking pool | future and closure of each call, what it has copied and what it has reserved | one reservation, copy or drop; one hand-over between caller and pool |
| `OrderedTable` | the promise of a table: rows of a range, each once, in order | rows, range, rows given | one row |

`MC...` modules give constants their values; `...Proofs` modules, `PageStoreLedger` and
`PageStoreReads` hold theorems.

What crosses between modules:

- `PageCache` leaves open whether a reservation succeeds; `Budget` says what one does, and
  `PageStore` composes reservations, eviction and the directory with actual byte counts.
- `PageStore` takes the cache as a map of buffers with in-flight markers, which is what the
  theorems about `PageCache` give it. It keeps the cost of the cache's tables as
  `table.book`, and `ShardBook` is where that number is justified.
- `Cursor`, `Verify` and `AsyncReads` leave open whether a load or a reservation succeeds;
  `PageStore` is where they fail.
- `TreeWriter` decides by bytes what fits a page, `Builder` gives a page a number of entries
  and follows instead where each page, sibling, root and reference ends up in the file.
  `Cursor` and `Verify` read the first kind of tree, `IndexCursor` the second.
- `IndexCursor` takes the cursor of the index tree as `Cursor` shows it to be: it gives the
  rows of a range in order, and goes back by itself when its own step fails. What
  `IndexCursor` is shown to implement is the same `OrderedTable`.

### Abstractions

A key is a number, its digest the number or (where the encoding is not exact) half of it,
so that two keys share a digest. A page of the tree is a record of entries and links, not
bytes, but whether a row fits a page is decided by the code's arithmetic on lengths, with
the code's constants. A page in the memory modules is its size. The Swiss table behind
`HashMap` and the growth of `VecDeque` belong to the standard library; they are modelled
from how the cache uses them and marked external. Poisoned locks, logging, statistics and
error texts are left out. A panic inside a load is the failure of the load: the marker is
taken out by a drop in both cases.

The file of the build modules is a sequence of cells, one for each field or entry that is
written or patched by itself. What a crash leaves of it is the file system's doing and
marked external: of a file what was synced, of a rename before the directory was synced
either name. In `AsyncReads` memory is counted in copies of keys and slots of a list. A closure
that is dropped without having run, or that unwinds, drops what it captured in the order
rustc captures it (table, key, reservation); the language leaves that order open, and the
code relies on it.

## Runs

States are distinct states. Every run ends within about three minutes on two workers.

**`budget`** (23,002 states). Two threads and two charges, `Limit` 3 in a word that wraps
after 4, requests from 0 to 4: requests at, below and past the limit, sums that overflow,
and lost swaps all occur. `UsedIsHeld` (no update lost), `PeakIsHighWater`
(the peak is the highest `used`, up to the calls that have not raised it yet),
`LedgerSpec` (the loop implements the ledger, which never passes the limit; a refusal is one
some state within the call justified).

**`cache`** (298,633). Three threads, a page that fits and one larger than the shard in
one shard, a second shard that stays empty so that a reclaim goes from shard to shard, one
retry of a reservation. `SingleFlight`, `PendingIsLoading`, `RingIsReady` (ring, map and
the count of resident bytes say the same), `NoLostWakeup`, `SweepIsComplete` (the bound on
the steps of a sweep never cuts it short of a page it could evict).

**`cache_live`** (19,346). Three threads after one page: two can sleep on one marker while
the third loads. `LocksAreReleased`, `CallsReturn`, `WaitersWake`.

**`shard_book`** (991,076). The code's sizes for slots and markers, up to
8 pages, two threads, and a probe group of 8 so that small tables already have slots that
a removal uses up. `ReservedBeforeAllocated`, `BookCoversFootprint`,
`EmptyShardGivesAllBack`. What the second says of the charge, and the last, leave out states
after the one allocation described under *Findings*.

**`page_store`** (1,168,953). Three databases (`MCPageStore`): one caller of a filtered file
in little memory, with a query that asks for more than there is; one caller of a plain file
with exactly the budget `open` insists on and up to four guards; two callers of the same
chunk and pages, every step able to fail. `MemoryCovered` (the stored, the decoded and the
final copy of a page are charged while they exist), `PlainReadsFit` (without a filter, what
`open` accepts is enough), `RefusedWhenBare` (a request below the limit is refused only with
nothing left to reclaim), `ChunksOnce`, `RootsLast`, and `CallsReturn`: the
reclaim loops of `reserve` and `read_chunk` end.

**`cursor`** (1,745,272). Every sequence of at most five rows with a
small, a large and an overflowing value, under nine settings (`MCCursor`): sorted and
Eytzinger digests, exact and shared, keys on the page and omitted, small and large page
metadata, a leaf written early for its index keys, an index from the C# builder,
keys that nearly or do not fit, and (`Long`) values just below and just above `MAX_I32` in a
file that has four page numbers left. Three levels occur. `FindIsMembership`, `CachedFindAgrees`
(with any one page missing, a lookup over cached pages is right or says it does not
know), `CountIsCardinality` (every pair of bounds), `AcceptedRowsAreBuilt` (for tables, apart from
values and page counts past `i32::MAX`), `NeverCorrupt` (apart from values so close to it that
the length of their page wraps) and `ScanSpec`: the cursor
implements `OrderedTable` while its loads fail at any point and any number of times. A
built tree that has been read and a build that fails stop, so deadlock is not checked.

**`build`** (319,572). Five builds (`MCBuilder`), from `create_table` to a scan of the
finished file: ten rows that each make a run, in several orders and with a key that may
come twice; two tables and two indexes in one sort buffer that is lowered and raised; a
table that waits with what it may hold while another is written; rows that share an index
key, with values on the leaf and on pages of their own, read through either index.
Every write may fail and the machine may stop at every step.
`SpoolHoldsEveryRecord` (through spills, merges and moves to a fresh file),
`SpoolIsBounded` (the number of runs, and the dead space in their file: at most
twice the live records, but for a single run, which keeps one copy for each merge it came of), `SortBufferIsKept`
(one sort buffer for all of it), `OldOrWhole` (the destination is the file that was there, or
a file in which every table and index reads back as appended, ties in the order of their
rows, and every reference leads to its row; and not after an append that failed),
`ShownIsLast` (between advances key and value are of the last row handed out, or neither is
there, or the caller has taken the value), and `IndexScanSpec`: the index cursor implements `OrderedTable` for every pair of bounds, while
its loads fail. Builds end, so deadlock is not checked.

**`verify`** (811,219). Seven files (`MCVerify`) in four layouts, empty, of one to three
levels, with and without an index, with an overflow value; one field damaged in every
possible way, in one file two; passes with and without the sweep that keep two problems, one
or none. `SoundFilesPass`; `CleanMeansConsistent` (if a pass finds nothing, scans up and down,
lookups and counts agree and references lead to rows); `NothingGoesUnsaid` (a pass that
had to stop is an error, a problem that was not kept leaves the report marked as cut short);
`PassEnds`, cycles included.

**`async`** (198,660). Two lookups of one page and a scan of two rows on two blocking
threads, with a budget the rest of the program takes from, pages that are evicted, futures
dropped at any await, loads that fail or panic, and a runtime that shuts down.
`CopiesCovered`, `FailedGivesBack`, `DroppedGivesBack`, `CallsAreAnswered`.

**`shard_book_publish`, `page_store_stale`, `page_store_decode`** are violated; see
*Findings*.

### Bounds

Each was chosen as the least at which the cases named above happen. Two threads suffice
for a lost update, a stale refusal or a chunk read twice; three are needed for two sleepers
and one loader. One page that fits and one that does not cover both outcomes of
the capacity loop. Five rows give three levels at two separators a page, a first, a middle
and a last leaf, and a pair of equal digests on either side of a page border.
`MAX_I32` is 100,000, the largest page size of the settings, which the builder never lets pass
`i32::MAX`. `MAX_LEVELS` is 6 rather than 64, which no accepted build of five rows reaches, and which
a build that does not reduce reaches quickly. `buffers` of a database bounds the buffers of
one page alive at once, `guards` the guards a caller keeps, `MaxPages` and `MaxRequest` the
requests.

`MERGE_FAN_IN` is 3 rather than 16, so that ten runs reach the third level, a
compaction and a final merge of several levels; `DIRECTORY_THRESHOLD` is 2 and
`BUFFER_CELLS` 12, so that the directory spills and patches meet pages both in the buffer
and in the file. `MAX_RID` is the largest record id, which the composite bounds need and no
key reaches. `MaxKey` 5 and three levels give a verification pass a level above and one below
those it compares; `max_tree_depth` 3 lets every sound tree pass and stops a chain of
levels a damaged reference makes longer. Two threads for three calls leave one closure in
the queue, where a shutdown finds it; under a limit of 6 the scan can get both its rows, and
can be refused its second row or the move of its list.

### Fairness

`PageCache` (`FairSpec`): weak fairness of every thread that is inside a call, because the
scheduler runs a runnable thread. Strong fairness in three places. That `reserve` and
`load` return: the cache calls them outside its locks and can only rely on it. That a
thread which has a marker to take out, by publishing or abandoning it, gets its shard's
lock: a `std::sync::Mutex` promises no order, so this is an assumption about contention,
and a thread kept from the lock for ever by others would leave its waiters asleep. The
liveness properties speak of calls already begun, once no new one starts.

`PageStore` (`FairSpec`): weak fairness of each caller's next step, nothing else.

`Verify` (`Spec`): weak fairness of `Pass`: a pass is one call, which runs until it returns.

`AsyncReads` (`FairSpec`): weak fairness of each closure's steps, of a caller that has begun
(it is polled when it is woken), and of dropping the output of a task whose future is gone.
Nothing makes a caller drop the rows it was given.

No other specification has fairness; their properties are about safety.

## Proofs

Eight modules, all checked by TLAPS, for any sets of threads, charges, pages, rows and calls,
any number of shards, and any sizes within the assumptions below.

| Module | Theorem | Says |
|---|---|---|
| `BudgetProofs` | `TypeCorrect`, `UsedIsHeldAlways`, `WithinLimitAlways`, `PeakIsHighWaterAlways` | types, the limit, and the two invariants of run `budget` |
| | `ImplementsLedger` | the compare-and-swap loop refines `BudgetLedger` |
| `PageCacheProofs` | `TypeCorrect`, `SingleFlightAlways`, `PendingIsLoadingAlways`, `NoLostWakeupAlways`, `RingIsReadyAlways`, `SweepIsCompleteAlways` | types, and every invariant of run `cache` |
| `ShardBookProofs` | `ReservationsPrecedeAllocations`, `ChargeCoversFootprint`, `EmptyShardsKeepNothing` | every invariant of run `shard_book` |
| `PageStoreLedger` | lemmas | sums over finite sets; most of the steps, which keep the books |
| `PageStoreProofs` | `BudgetCoversMemory`, `DirectoryKeepsChunksOnce`, `RefusalsAreLastResort`, `RootsAreLast` | `MemoryCovered`, `ChunksOnce`, `RefusedWhenBare` and the action property `RootsLast` of run `page_store` |
| `PageStoreReads` | `AcceptedBudgetsServeReads` | `PlainReadsFit` of run `page_store` |
| `TreeProofs` | `AcceptedRowsAlwaysBuilt` | `AcceptedRowsAreBuilt` of run `cursor` |
| | `PassesOwnUp` | `NothingGoesUnsaid` of run `verify` |
| `AsyncReadsProofs` | `CopiesAreCovered`, `FailuresGiveBack` | the two invariants of run `async` |

### Assumptions

Each is an `ASSUME` that TLC evaluates on the runs of its module.

- `BudgetAssumption`: the charges are finitely many, the limit is a number that fits the word.
- `PageCacheAssumption`: there is a shard, every page has one, the pages are finitely many,
  sizes are numbers.
- `ShardBookAssumption`: threads are finitely many; a slot is at least 24 bytes (two `u64`, a
  pointer and a flag), so that a map which moves without a reservation costs more than all
  that is charged ahead for the ring, and is seen; a shard may have any number of pages.
- `PageStoreAssumption`: sizes are numbers, files and threads are finite, roots are pages, and what
  `open` charges is within the limit.
- `VerifyAssumption`: files and requests are what their types say.
- `ConfigAssumption`, `SizeAssumption`: the settings of a tree are ones the builder takes (a
  page has room for its prefix and 32 bytes and is no longer than `i32::MAX`), lengths are
  numbers.
- `AsyncAssumption`: a call is a lookup or a scan, there is a thread, sizes are numbers.

Two theorems have a hypothesis besides, and are false without it.

- `Counted`, of `AcceptedBudgetsServeReads`. `minimum_budget` (`db.rs:365`) counts four pages
  of the header's page size, one chunk and 8 KiB. So the theorem is about files none of whose
  pages is larger than the header says, callers that keep at most four guards, and catalogs
  that fit the 8 KiB with an entry of the cache to spare.
- `DepthSuffices`, of `AcceptedRowsAlwaysBuilt`: there are at most `2^(MAX_LEVELS - 2)` rows.
  With the code's 64 levels (`builder/tree.rs:32`) that is 2^62, more rows of ten bytes than
  64-bit offsets reach.

### The arguments

*Budget.* `UsedIsHeld` says that `used` is the sum over the charges. TLAPS has no induction
for a sum, so the sum is the size of a set: `HeldBy(bytes)` has one pair for every byte of
every charge, and `used` is its cardinality. `AddBytes`, `GiveBackBytes` and `AbsorbStep`
show how the size changes when one charge does. The inductive invariant is
`TypeOK /\ Decided /\ WithinLimit /\ Accounted`: `Decided` is what the check before a swap
established about the value the thread loaded, without which a swap could pass the limit.
`PeakIsHighWater` is inductive on top of it.

*Cache.* `IInv == TypeOK /\ Tidy /\ Markers`. `Markers` puts `SingleFlight`,
`PendingIsLoading` and `NoLostWakeup` together, since none is inductive alone: a waiter's
marker is there because the thread that put it there has not finished. `Tidy` ties a
thread's return address to the loop it is in, which typing needs when a sweep returns.
Most steps touch no marker; `QuietMarkers` proves the invariant for all of them at once,
and `Claim`, `Publish`, `Abandon`, `Wait` and `Notify` have a step each.
On top of it `Rings` says of each shard that ring, map and resident bytes agree (`RingOf`),
and of each thread in a critical section what the lock gives it (`Held`): the lock is its own,
and where a sweep is. `Swept` is the reason a sweep misses nothing: with `n` steps left, the
pages it has passed are at the end of the ring with their bits cleared, so the second time
round it takes the first it meets.

*Shard bookkeeping.* One shard's invariant: its entries are within its buckets, what is on
record (`map_slots`) covers the buckets, the ring has room for the pages (`Sound`), the charge
covers the footprint (`Paid`), an empty shard keeps nothing (`Emptied`). The charge is exactly
the footprint between critical sections, which is why a reservation made under one lock is
still right under the next. Growth and shrinking of map and ring are functions of the counters.
`next_power_of_two` and the loop that doubles a ring are recursive functions; that they are what
their definitions say is proved from the existence of each finite part, and what the invariant
needs of them (a power reaches its argument, grows with it, and halves where it shrinks; seven
eighths of the buckets have room for the entries; the loop ends past the entries) by least
counterexample.

*Page store.* `MemoryCovered` compares two sums, of charges and of memory, over threads,
buffers, chunks and roots. The sum of the community modules is defined by recursion over a
set; `PageStoreLedger` shows first that the function exists and that it grows by one term
with each element, by least counterexample. `Ledger` then gives for every label of a call what
it holds (`Shape`), that a page in flight is one caller's (`Owned`, `Owners`), and that what is
reserved is within the limit. Each step changes one thread and at most one of the other terms.
`Order` says that the directory's list has every resident chunk, and every thread that has
read one, once. `Sole` is for a caller with nobody else about: at each place of a reclaim,
what it has found empty, and that the rounds left are more than what there is to give up
(`Left`); hence the bound on rounds never ends a reclaim, and roots go last.
`PlainReadsFit` needs what that caller itself has reserved (`Plain`), that all else is idle
(`Only`), that a refused request does not fit at that moment (`Denied`), and that the table of
retained roots goes with the last of them (`Emptied`). When it is refused nothing is left but
its guards, one chunk and the page it reads, and the least budget counts those.

*Tree writer.* The invariant is that the build is `Good`, or was `Refused` for a value's length
or for want of a page number, and `Good` has three parts. Pages: every open page fits (`Fits`), and
a row on its way finds room (`Room`). Calls: the recursive calls of `rotate` climb one level at
a time from the one `push` or `finish` made (`Stack`, `Outermost`), and a call that has had its
parent written finds it empty (`Asked`), so that its separator fits, by `check_key_fits`.
Depth: `Tapers` gives each level a bound on the entries it was ever given, at most half of the
bound below it, because only pages of two separators or more are promoted while rows come;
`finish` may promote one page of a single separator on each level, which is the third case of
`Shrinks`. A tree of `MAX_LEVELS` levels would therefore have had more than
`2^(MAX_LEVELS - 2)` rows. That `power_of_two` is what its recursive definition says is proved
like the sums, from the existence of each finite part.

*Verification pass.* `Said`: until the pass returns there is no result; a tree is begun, and
`Ok` returned, only while nothing has failed; and the report is `Honest` at every step (within
its limit, and marked if a problem was left out). `problem`, `walk_page`, `expect` and the checks
of values give sets of reports a step may go on with, and there is a lemma for each: from an
honest report come honest ones. Nothing about the file is used, so the theorem holds whatever
the damage.

*Async reads.* `CopiesCovered` is not inductive: that a list of rows may grow depends on what
was reserved two steps before. `IInv` says for every call (`Shape`) what it has copied and
reserved at each place of its closure: between rows a slot and a key for each row; after a
row's reservation one more; while the list moves, both lists. A step of one call leaves the
others alone (`Only`), so `OneCall` reduces the invariant to the call that moved, and
`CallerStep` and `PoolStep` have a case for each action. Neither theorem needs the budget to
be enough: a reservation that is refused ends the call.

Leaves name the prover that finds them, with more time than it needs, so that a slower machine
checks them too.

### Only model-checked

- Liveness (`LocksAreReleased`, `CallsReturn`, `WaitersWake`, `PassEnds`, `CallsAreAnswered`,
  `DroppedGivesBack`): fairness and `ENABLED` are out of the prover's reach.
- `FindIsMembership`, `CachedFindAgrees`, `CountIsCardinality`, `NeverCorrupt` and `ScanSpec`
  say what a search that descends by recursion finds in every tree the writer makes, which
  takes an induction over trees.
- `SpoolHoldsEveryRecord`, `SpoolIsBounded`, `SortBufferIsKept`, `OldOrWhole`, `ShownIsLast` and
  `IndexScanSpec` are about modules with recursive operators (merging, building), for which the
  prover has no solver.
- `SoundFilesPass` and `CleanMeansConsistent` say what a walk finds in every tree the writer
  makes, and compare it with those searches.

## Findings

1. *A page takes its marker's place on memory nothing was reserved for.* `publish` removes
   the marker and inserts the page (`cache.rs:302-316`). In a full map whose removal leaves
   a slot that is not handed out again, that insert reallocates. `cache.rs:423` says the
   room is reserved before the allocation. Run `shard_book_publish`.
2. *A chunk that fits is refused.* `read_chunk` returns the error of an attempt made before
   it looked for something to evict (`directory.rs:151`); by then another thread may have
   given memory back. `docs/architecture.md:188` describes a retry. `PageStore::reserve`
   does try once more. Run `page_store_stale`.
3. *The smallest budget `open` accepts does not fit a decode.* `db.rs:265` counts the decoded
   page once; `load` holds the stored page, the decode buffer and the final copy together.
   `docs/architecture.md:194` says one decode's reservations are checked. Run
   `page_store_decode`.

Observations that came up on the way and have no run of their own:

- `cache.rs:488` says that an empty shard gives everything back. A map whose free slots were
  all used up by removals reports capacity 0 before and after `shrink_to_fit`
  (`cache.rs:502`), so `map_slots` and its charge stay. `EmptyShardGivesAllBack` therefore
  says that the map itself is always given back, and ring and charge where `map_slots` is 0.
- `check_key_fits` is asked for the keys of tables. An index whose keys fit a page once but
  not twice is built until `MAX_LEVELS` stops it (setting `Narrow`). `AcceptedRowsAreBuilt`
  therefore speaks of tables.
- `append` does not look at the length of a value (`builder/mod.rs:274-303`), although
  `builder/mod.rs:288` calls its check the one the tree writer makes at build time, and
  `docs/architecture.md:224` says that input too large for a page is refused on the spot. A
  value longer than `i32::MAX` is taken, and `push` fails the build for it
  (`builder/tree.rs:210`); so does the page after the last that `i32` counts
  (`builder/sink.rs:51`), which `append` cannot know. `AcceptedRowsAreBuilt` names the two.
- A value within 28 bytes of `i32::MAX` passes that check, and the length of its page, prefix
  included, wraps when it is cast to `i32` (`builder/tree.rs:322`). The file is built, and a read
  of the value is refused for the negative length. `NeverCorrupt` names the case.
- `docs/architecture.md:220` says that the sorter's file is rewritten when it is more than twice
  what is live in it, so that it stays within about twice the input, and `builder/spool.rs:532-538`
  says the like. One run alone is never rewritten (`builder/spool.rs:348`), and merging copies
  every record once a level: after 16 x 16 spills of one size the one run that is left is a third
  of its file. `SpoolIsBounded` allows for the levels of a lone run, and for a factor of two
  wherever there are more.
- `verify.rs:82` says that a pass which reached `max_problems` met problems. One asked for none
  stops at once and marks its report as cut short, so that a sound file is not `is_ok`.
  `SoundFilesPass` leaves that request out for the mark only.

## Not modelled

`PROJECT.json` has the reason for each part.

- Reading and writing bytes: codecs, filters, sources, the parse of header, catalog and page,
  key encodings beyond the order and digest the trees rely on, and the CLI. They have no
  state of their own.
- `open` apart from the budget it insists on: nothing is shared before it returns.
- The blob reader: a position over one pinned page.
- Keys of several lengths in one tree: `key_len` is one length for each setting, and TLC's
  settings have short and long ones.
- Values of 4 GiB and more, whose length does not fit the `u32` of a spooled record
  (`builder/spool.rs:662`), and the page a filter made too long (`builder/sink.rs:183`).
- Prefix ranges of tables and indexes: their bounds are worked out of bytes, and then they
  are ranges. The counts of an index are those of its tree.
- The mark on a page buffer that a tree has checked it: the models check a page each time it
  is loaded, and a mark that is lost is made again.
- What a cursor reserves for its bounds and key buffer is a step that may fail; byte counts
  for it are left to `PageStore`'s queries.
- Damage in `Verify` changes fields of pages, not bytes within a field: what no longer parses
  is a page that cannot be read. Damaged files are read by `Verify` only; the other tree runs
  read what the writer wrote.
- A temporary file left behind by a crash, which nothing reads.

## Plan

1. **Cursor reservations** with byte counts, over `PageStore`.
2. **Proofs**: that the pages of a level are a chain from its first to its last, on top of the
   invariant of `TreeProofs`, as the first step towards `NeverCorrupt`.
