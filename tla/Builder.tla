------------------------------ MODULE Builder -------------------------------
(***************************************************************************)
(* DatabaseBuilder (builder/mod.rs, builder/temp.rs): rows are appended to *)
(* one sorter per table, which share a sort buffer; a build then writes a  *)
(* tree for each table and for each of its indexes into a temporary file,  *)
(* and moves that file into place.                                         *)
(*                                                                         *)
(* Any read or write may fail, and the machine may stop at any step.  How  *)
(* rows pack onto a page by their bytes is TreeWriter's subject; here a    *)
(* page holds PAGE_ENTRIES of them, and what matters is where a page goes, *)
(* what is patched into it later, and what the sorters hold meanwhile.     *)
(***************************************************************************)
EXTENDS RecordSpool, PageSink

CONSTANTS
    Plans,         \* the builds considered (see Plan)
    PAGE_ENTRIES,  \* entries a page has room for
    INLINE_LEN,    \* the longest value kept on the leaf
    EXTRA_BYTES    \* what one index key waiting for its leaf costs

(***************************************************************************)
(* schema: for each table its indexes, an index being whether it is unique *)
(* and the key its key_fn makes of each value.  script: which rows may     *)
(* come next.  buffers: what sort_buffer may be called with, the first     *)
(* being in force at the start.  reads: the index of the first table that  *)
(* is read once the file is in place, or zero.                             *)
(***************************************************************************)
Plan == [schema : Seq(Seq([unique : BOOLEAN, key_fn : Seq(Nat)])),
         script : Seq(SUBSET [table : Nat, key : Nat, val : Nat, len : Nat]),
         buffers : Seq(Nat), filter : BOOLEAN, reads : Nat]

ASSUME PlanAssumption == Plans \subseteq Plan /\ PAGE_ENTRIES \in Nat \ {0, 1}

VARIABLES
    plan,
    limit,     \* the builder's sort_buffer
    tables,    \* the sorter of each table declared
    buffered,  \* what they hold between them, as append keeps count of it
    appended,  \* the rows append was given, and whether it took them
    job,       \* the table and the tree being written (see NoJob)
    synced,    \* what of the temporary file is safe from a crash
    dest,      \* what is at the destination
    pc

vars == <<plan, limit, tables, buffered, appended, job, synced, dest, pc>>

\* A database was at the destination before.
Old == <<Field("old", 0)>>

Indexes(t) == plan.schema[t]
Total(spools) == FoldLeft(LAMBDA n, sp : n + buffered_bytes(sp), 0, spools)
Less(a, b) == IF a > b THEN a - b ELSE 0

\* Iterator::max_by_key gives the last of several.
fullest(spools) ==
    Max({i \in DOMAIN spools : \A j \in DOMAIN spools : buffered_bytes(spools[j]) <= buffered_bytes(spools[i])})

\* rest: the sorted records to come, held in memory or read from the sorter's file.
\* previous, rid: the key written last and its record id.  index: 0 for the table's tree.
\* roots: for each table, where the roots of its trees are to be written.
NoJob == [table |-> 0, index |-> 0, rest |-> <<>>, held |-> 0, previous |-> 0, rid |-> 0,
          spools |-> <<>>, spool_budget |-> 0, extra_budget |-> 0, roots |-> <<>>, writer |-> <<>>]

-----------------------------------------------------------------------------
\* Collecting rows.

Init ==
    /\ plan \in Plans
    /\ limit = Max({plan.buffers[1], MIN_BUFFER})
    /\ tables = <<>> /\ buffered = 0 /\ appended = <<>>
    /\ job = NoJob /\ synced = <<>>
    /\ dest = Old /\ pc = "append"

create_table ==
    /\ pc = "append" /\ Len(tables) < Len(plan.schema)
    /\ tables' = Append(tables, NewSpool(limit))
    /\ UNCHANGED <<plan, limit, buffered, appended, job, synced, dest, pc>>

set_sort_buffer(bytes) ==
    /\ pc = "append"
    /\ limit' = Max({bytes, MIN_BUFFER}) /\ limit' # limit
    /\ tables' = [t \in DOMAIN tables |-> set_budget(tables[t], limit')]
    /\ UNCHANGED <<plan, buffered, appended, job, synced, dest, pc>>

\* The outcomes of keep_inside_the_sort_buffer for these tables and this count.
RECURSIVE keep_inside_the_sort_buffer(_, _)
keep_inside_the_sort_buffer(spools, count) ==
    LET i == fullest(spools)
    IN  IF count <= limit \/ buffered_bytes(spools[i]) = 0
          THEN {[ok |-> TRUE, tables |-> spools, buffered |-> count]}
          ELSE UNION {LET now == [spools EXCEPT ![i] = o.spool]
                      IN  IF o.ok THEN keep_inside_the_sort_buffer(now, Total(now))
                          ELSE {[ok |-> FALSE, tables |-> now, buffered |-> count]} : o \in flush(spools[i])}

\* Mutation: a push that failed returns before it is counted.
AppendedUncounted(t, row) ==
    UNION {LET now == [tables EXCEPT ![t] = o.spool]
               count == Less(buffered, buffered_bytes(tables[t])) + buffered_bytes(o.spool)
           IN  IF o.ok THEN keep_inside_the_sort_buffer(now, count)
               ELSE {[ok |-> FALSE, tables |-> now, buffered |-> buffered]} :
               o \in push(tables[t], row.key, row.val, row.len)}

\* What append leaves of the sorters.
Appended(t, row) ==
    UNION {LET now == [tables EXCEPT ![t] = o.spool]
               count == Less(buffered, buffered_bytes(tables[t])) + buffered_bytes(o.spool)
           IN  IF o.ok THEN keep_inside_the_sort_buffer(now, count)
               ELSE {[ok |-> FALSE, tables |-> now, buffered |-> count]} :
               o \in push(tables[t], row.key, row.val, row.len)}

append(row) ==
    /\ pc = "append" /\ row.table \in DOMAIN tables
    /\ \E o \in Appended(row.table, row) :
          /\ tables' = o.tables /\ buffered' = o.buffered
          /\ appended' = Append(appended, [row |-> row, ok |-> o.ok])
    /\ UNCHANGED <<plan, limit, job, synced, dest, pc>>

-----------------------------------------------------------------------------
\* TreeWriter over the sink: a page that is full is written, linked from the one before
\* it and named in its parent; the rows of a leaf then learn where they are.

Entry(key, rid, val, page, slot) == [key |-> key, rid |-> rid, val |-> val, page |-> page, slot |-> slot]
NewLevel == [entries |-> <<>>, prev |-> None, prev_offset |-> 0]

\* extras: the rows of the leaf in the making.  refs: what on_value_ref is told.
NewWriter(s) == [sink |-> s, levels |-> <<NewLevel>>, extras |-> <<>>, refs |-> <<>>]

\* Where the value of a leaf's entry is: on its own page, or in its slot on the leaf.
ValueRef(entry, page, slot) ==
    IF entry.page # None THEN [page |-> entry.page, slot |-> 0] ELSE [page |-> page, slot |-> slot]

linked(s, lv, page) ==
    IF lv.prev = None THEN s ELSE patch_at(s, lv.prev_offset + RIGHT_SIBLING_OFFSET, <<Field("right", page)>>)

flush_page(w, l) ==
    LET lv == w.levels[l]
        begun == begin_page(w.sink)
        page == begun.directory.count
        written == write_page(begun, IF l = 1 THEN "leaf" ELSE "internal", lv.prev, lv.entries)
        extras == IF l = 1 THEN w.extras ELSE <<>>
    IN  [w EXCEPT !.sink = linked(written, lv, page),
                  !.levels[l] = [entries |-> <<>>, prev |-> page, prev_offset |-> w.sink.pos],
                  !.extras = IF l = 1 THEN <<>> ELSE @,
                  !.refs = @ \o [i \in DOMAIN extras |->
                                   [row |-> extras[i], at |-> ValueRef(lv.entries[i], page, i)]]]

RECURSIVE rotate(_, _)
rotate(w, l) ==
    LET first == w.levels[l].entries[1]
        flushed == flush_page(w, l)
        grown == IF l = Len(w.levels) THEN [flushed EXCEPT !.levels = Append(@, NewLevel)] ELSE flushed
        room == IF Len(grown.levels[l + 1].entries) >= PAGE_ENTRIES THEN rotate(grown, l + 1) ELSE grown
    IN  [room EXCEPT !.levels[l + 1].entries =
            Append(@, Entry(first.key, first.rid, 0, flushed.levels[l].prev, 0))]

\* An entry for the leaf, and the page of its own a long value is put on.
WithValue(w, key, rid, val, len, at) ==
    LET s == begin_page(w.sink)
        blob == [w EXCEPT !.sink = write_page(s, "blob", None, <<Entry(0, 0, val, None, 0)>>)]
        added(v, entry) == [v EXCEPT !.levels[1].entries = Append(@, entry)]
    IN  IF len > INLINE_LEN THEN added(blob, Entry(key, rid, 0, s.directory.count, 0))
        ELSE added(w, Entry(key, rid, val, at.page, at.slot))

\* PageRef::encode and PageRef::parse.
EncodeRef(at) == at.page * (PAGE_ENTRIES + 1) + at.slot
ParseRef(n) == [page |-> n \div (PAGE_ENTRIES + 1), slot |-> n % (PAGE_ENTRIES + 1)]

LeafRoom(w) == IF Len(w.levels[1].entries) >= PAGE_ENTRIES THEN rotate(w, 1) ELSE w

\* TreeWriter::push of a row, and of an index entry.
PushRow(w, row, len, extra_bytes, extra_budget) ==
    LET added == [WithValue(LeafRoom(w), row.key, 0, row.val, len, [page |-> None, slot |-> 0])
                     EXCEPT !.extras = Append(@, row)]
    IN  IF Len(added.extras) * extra_bytes > extra_budget THEN rotate(added, 1) ELSE added

PushRef(w, key, rid, at) == WithValue(LeafRoom(w), key, rid, 0, 0, at)

\* finish: what is left of each level, the lowest first, and then the top.
RECURSIVE finish(_)
finish(w) ==
    LET left == {l \in 1..(Len(w.levels) - 1) : w.levels[l].entries # <<>>}
        top == Last(w.levels)
    IN  IF left # {} THEN finish(rotate(w, Min(left)))
        ELSE IF top.entries # <<>> \/ top.prev = None THEN flush_page(w, Len(w.levels)) ELSE w

Root(w) == Last(w.levels).prev

-----------------------------------------------------------------------------
\* Building.

\* The sorters once what they hold is inside the budget, unless one could not be written.
RECURSIVE keep_inside(_, _)
keep_inside(spools, budget) ==
    LET i == fullest(spools)
    IN  IF Total(spools) <= budget \/ buffered_bytes(spools[i]) = 0 THEN {spools}
        ELSE UNION {keep_inside([spools EXCEPT ![i] = s], budget) : s \in Done(flush(spools[i]))}

\* d: the sink, and where in it the roots of the table's trees go.
write_index_descriptor(d) ==
    [sink |-> write_raw(d.sink, <<Field("descriptor", 0), Field("root", d.sink.pos + 2)>>),
     roots |-> Append(d.roots, d.sink.pos + 1)]

\* The header and the descriptors.
Preamble ==
    LET header == write_raw(NewSink(plan.filter), <<Field("page_count", 0), Field("directory", 0)>>)
        filter == IF plan.filter THEN write_raw(header, <<Field("filter", 0)>>) ELSE header
        table(d, t) ==
            LET named == write_raw(d.sink, <<Field("table", t)>>)
                primary == write_index_descriptor([sink |-> named, roots |-> <<>>])
                counted == [primary EXCEPT !.sink = write_raw(@, <<Field("indexes", Len(Indexes(t)))>>)]
                all == FoldLeft(LAMBDA x, i : write_index_descriptor(x), counted, Indexes(t))
            IN  [sink |-> all.sink, roots |-> Append(d.roots, all.roots)]
    IN  FoldLeft(table, [sink |-> filter, roots |-> <<>>], [t \in DOMAIN tables |-> t])

build_into ==
    /\ pc = "append"
    /\ \E spools \in keep_inside(tables, limit) :
          /\ tables' = spools
          /\ job' = [NoJob EXCEPT !.roots = Preamble.roots, !.writer = NewWriter(Preamble.sink)]
    /\ pc' = "table"
    /\ UNCHANGED <<plan, limit, buffered, appended, synced, dest>>

GivenUp == NewSpool(0)

Share(waiting) == Less(limit, waiting)

\* The next table: the tables after it keep to half of the sort buffer, and what they
\* leave is divided between its rows, the index keys waiting for a leaf, and its indexes.
build_table ==
    /\ pc = "table" /\ job.table < Len(tables)
    /\ LET t == job.table + 1
           indexed == Indexes(t) # <<>>
       IN  \E rest \in keep_inside(SubSeq(tables, t + 1, Len(tables)), limit \div 2) :
              LET share == Share(Total(rest))
                  over == indexed /\ buffered_bytes(tables[t]) > share \div 2
              IN  \E spool \in IF over THEN Done(flush(tables[t])) ELSE {tables[t]} :
                     \E sorted \in into_sorted(spool) :
                        LET budget == Less(share, sorted.held)
                        IN  /\ tables' = [u \in DOMAIN tables |-> IF u <= t THEN GivenUp ELSE rest[u - t]]
                            /\ job' = [NoJob EXCEPT
                                  !.table = t, !.rest = sorted.rows, !.held = sorted.held,
                                  !.spools = [i \in DOMAIN Indexes(t) |-> NewSpool(limit)],
                                  !.extra_budget = budget \div 2, !.spool_budget = budget - budget \div 2,
                                  !.roots = job.roots, !.writer = NewWriter(job.writer.sink)]
    /\ pc' = "rows"
    /\ UNCHANGED <<plan, limit, buffered, appended, synced, dest>>

The(S) == CHOOSE x \in S : TRUE

\* The index sorters once these rows have been handed to them.
on_value_ref(spools, refs) ==
    LET index_key(i, row) == Indexes(job.table)[i].key_fn[row.val]
        handed(sps, r) ==
            The(keep_inside([i \in DOMAIN sps |-> The(Done(push(sps[i], index_key(i, r.row), EncodeRef(r.at), 1)))],
                            job.spool_budget))
    IN  FoldLeft(handed, spools, refs)

\* The writer w took the place of the job's; what it told on_value_ref goes to the indexes.
Moved(w, rest) ==
    [job EXCEPT !.rest = rest, !.writer = [w EXCEPT !.refs = <<>>], !.spools = on_value_ref(job.spools, w.refs)]

\* One row of the table: the loop of build_table.
PushNextRow ==
    /\ pc = "rows" /\ job.rest # <<>>
    /\ LET row == Head(job.rest)
           extra_bytes == EXTRA_BYTES * Len(job.spools)
       IN  IF job.previous >= row.key THEN pc' = "failed" /\ job' = job
           ELSE \E w \in {PushRow(job.writer, row, row.len, extra_bytes, job.extra_budget)} :
                   pc' = pc /\ job' = [Moved(w, Tail(job.rest)) EXCEPT !.previous = row.key]
    /\ UNCHANGED <<plan, limit, tables, buffered, appended, synced, dest>>

FinishRows ==
    /\ pc = "rows" /\ job.rest = <<>>
    /\ \E w \in {finish(job.writer)} :
          LET rooted == [w EXCEPT !.sink = patch_at(@, job.roots[job.table][1], <<Field("root", Root(w))>>)]
          IN  job' = [Moved(rooted, <<>>) EXCEPT !.held = 0]
    /\ pc' = "tree"
    /\ UNCHANGED <<plan, limit, tables, buffered, appended, synced, dest>>

\* The next index of the table, or the next table.
build_index_tree ==
    /\ pc = "tree"
    /\ LET i == job.index + 1
       IN  IF i > Len(job.spools) THEN pc' = "table" /\ job' = job
           ELSE \E sorted \in into_sorted(job.spools[i]) :
                  /\ job' = [job EXCEPT !.index = i, !.rest = sorted.rows, !.held = sorted.held,
                                        !.spools[i] = GivenUp, !.previous = 0, !.rid = 0,
                                        !.writer = NewWriter(@.sink)]
                  /\ pc' = "entries"
    /\ UNCHANGED <<plan, limit, tables, buffered, appended, synced, dest>>

next_rid(key) == IF job.previous = key THEN job.rid + 1 ELSE 0

PushNextEntry ==
    /\ pc = "entries" /\ job.rest # <<>>
    /\ LET r == Head(job.rest)
           unique == Indexes(job.table)[job.index].unique
           rid == IF unique THEN 0 ELSE next_rid(r.key)
       IN  IF unique /\ job.previous >= r.key THEN pc' = "failed" /\ job' = job
           ELSE /\ pc' = pc
                /\ job' = [job EXCEPT !.rest = Tail(@), !.previous = r.key, !.rid = rid,
                                      !.writer = PushRef(@, r.key, rid, ParseRef(r.val))]
    /\ UNCHANGED <<plan, limit, tables, buffered, appended, synced, dest>>

FinishEntries ==
    /\ pc = "entries" /\ job.rest = <<>>
    /\ \E w \in {finish(job.writer)} :
           job' = [job EXCEPT !.held = 0, !.writer =
                      [w EXCEPT !.sink = patch_at(@, job.roots[job.table][job.index + 1], <<Field("root", Root(w))>>)]]
    /\ pc' = "tree"
    /\ UNCHANGED <<plan, limit, tables, buffered, appended, synced, dest>>

\* The directory, and the header's word on where it is.
FinishFile ==
    /\ pc = "table" /\ job.table = Len(tables)
    /\ LET s == job.writer.sink
           header == <<Field("page_count", s.directory.count), Field("directory", s.pos)>>
       IN  job' = [job EXCEPT !.writer.sink = flush_buffer(patch_at(finish_directory(s), PAGE_COUNT_FIELD, header))]
    /\ pc' = "built"
    /\ UNCHANGED <<plan, limit, tables, buffered, appended, synced, dest>>

BuildNext ==
    \/ create_table \/ build_into \/ build_table \/ PushNextRow \/ FinishRows \/ build_index_tree
    \/ PushNextEntry \/ FinishEntries \/ FinishFile
    \/ \E i \in DOMAIN plan.buffers : set_sort_buffer(plan.buffers[i])
    \/ Len(appended) < Len(plan.script) /\ \E row \in plan.script[Len(appended) + 1] : append(row)

-----------------------------------------------------------------------------

Usable == {sp \in Range(tables) \cup Range(job.spools) : ~sp.spoiled}

(***************************************************************************)
(* A sorter that is usable holds every record it was given, once: in the   *)
(* buffer or in one of its runs, which are in order and do not overlap,    *)
(* whatever was spilled, merged and moved to a fresh file since.           *)
(***************************************************************************)
SpoolHoldsEveryRecord ==
    \A sp \in Usable :
        LET run(r) == SubSeq(sp.file, r.start + 1, r.end)
            all == sp.data \o FlattenSeq([i \in DOMAIN sp.runs |-> run(sp.runs[i])])
        IN  /\ Len(all) = sp.count /\ {all[i].seq : i \in DOMAIN all} = 0..(sp.count - 1)
            /\ \A i \in DOMAIN sp.runs :
                  /\ sp.runs[i].end <= sp.write_pos
                  /\ i > 1 => sp.runs[i - 1].end <= sp.runs[i].start
                  /\ LET rs == run(sp.runs[i]) IN \A j \in 2..Len(rs) : Before(rs[j - 1], rs[j])

(***************************************************************************)
(* However many times a sorter has spilled, its runs are few: of each      *)
(* level fewer than one merge takes, the older the higher.  Its file does  *)
(* not keep what was merged away: it is at most COMPACT_AT times what is   *)
(* live in it.  Only a single run is never rewritten: its file holds every *)
(* record once for its spill and once for each merge it went through.      *)
(***************************************************************************)
SpoolIsBounded ==
    \A sp \in Usable :
        /\ \A i \in DOMAIN sp.runs :
              /\ i > 1 => sp.runs[i - 1].level >= sp.runs[i].level
              /\ Cardinality({j \in DOMAIN sp.runs : sp.runs[j].level = sp.runs[i].level}) < MERGE_FAN_IN
        /\ sp.write_pos <= Live(sp) * (IF Len(sp.runs) = 1 THEN sp.runs[1].level + 1 ELSE COMPACT_AT)

\* What the sorters of the tables to come hold, the rows being read, the index keys
\* waiting for a leaf and the sorters of the indexes.
InMemoryNow ==
    Total(tables) + job.held + Total(job.spools) + EXTRA_BYTES * Len(job.spools) * Len(job.writer.extras)

(***************************************************************************)
(* There is one sort buffer.  An append that is taken leaves the sorters   *)
(* of all tables inside it, also when it was lowered since the rows before *)
(* came in or an append failed; and while a file is written, everything    *)
(* that sorts or waits to be sorted is inside it together.                 *)
(***************************************************************************)
SortBufferIsKept ==
    [][/\ appended' # appended /\ Last(appended').ok => Total(tables') <= limit
       /\ pc' \in {"table", "rows", "tree", "entries"} => InMemoryNow' <= limit']_vars
=============================================================================
