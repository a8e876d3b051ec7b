----------------------------- MODULE RecordSpool -----------------------------
(***************************************************************************)
(* The external sort of the builder (builder/spool.rs).                    *)
(*                                                                         *)
(* Records are buffered, and a buffer that is full is sorted and appended  *)
(* to a temporary file as a run.  Runs of one level are merged as they     *)
(* pile up, and the file is written afresh when too much of it is dead.    *)
(* An operation may fail at any read or write, so it is the set of its     *)
(* outcomes: whether it returned Ok, and the spool it left.                *)
(*                                                                         *)
(* A record takes one place in the file; positions count records from      *)
(* zero.  In memory it takes its bytes and a slot, in vectors that double. *)
(***************************************************************************)
EXTENDS Naturals, SequencesExt, FiniteSetsExt

CONSTANTS
    MERGE_FAN_IN,  \* runs one merge reads at once
    COMPACT_AT,    \* how many times the live records the file may hold
    MIN_BUFFER,    \* the smallest buffer a spool or a build is given
    SLOT_BYTES     \* size of a Slot

ASSUME SpoolAssumption ==
    /\ MERGE_FAN_IN \in Nat \ {0, 1} /\ COMPACT_AT \in Nat \ {0}
    /\ MIN_BUFFER \in Nat /\ SLOT_BYTES \in Nat

\* A record is [key, seq, val, len] and a run [start, end, level].
NewSpool(budget) ==
    [data |-> <<>>, data_cap |-> 0, slots_cap |-> 0, runs |-> <<>>, file |-> <<>>,
     write_pos |-> 0, budget |-> Max({budget, MIN_BUFFER}), count |-> 0, spoiled |-> FALSE]

set_budget(sp, budget) == [sp EXCEPT !.budget = Max({budget, MIN_BUFFER})]

Ok(sp) == [ok |-> TRUE, spool |-> sp]
Err(sp) == [ok |-> FALSE, spool |-> sp]

buffered_bytes(sp) == sp.data_cap + SLOT_BYTES * sp.slots_cap

\* How a Vec grows.
Grown(cap, len) == IF len <= cap THEN cap ELSE Max({2 * cap, len})

Before(r, s) == r.key < s.key \/ (r.key = s.key /\ r.seq < s.seq)

sort_buffer(sp) == [sp EXCEPT !.data = SortSeq(@, Before)]

-----------------------------------------------------------------------------
\* Merger: a binary heap of runs by their front records.

sift_down(front, heap, i) ==
    LET Less(a, b) == Before(front[a], front[b])
        down[h \in Seq(Nat), n \in Nat] ==
            LET left == 2 * n
                smallest == IF left < Len(h) /\ Less(h[left + 1], h[left]) THEN left + 1 ELSE left
            IN  IF left > Len(h) \/ ~Less(h[smallest], h[n]) THEN h
                ELSE down[[h EXCEPT ![n] = h[smallest], ![smallest] = h[n]], smallest]
    IN  down[heap, i]

\* The heap once the front of its first run has been taken.
next_pending(front, heap, exhausted) ==
    sift_down(front, IF exhausted THEN <<Last(heap)>> \o SubSeq(heap, 2, Len(heap) - 1) ELSE heap, 1)

\* Merger::new: every run's first record, made into a heap from the last parent up.
NewHeap(front) ==
    LET build[h \in Seq(Nat), i \in Nat] ==
            IF i = 0 THEN h ELSE build[sift_down(front, h, i), i - 1]
        n == Len(front)
    IN  build[SetToSortSeq(1..n, <), n \div 2]

\* The records of these runs, in the order next_record gives them.
merge(file, runs) ==
    LET Fronts(at) == [r \in DOMAIN at |-> file[Min({at[r], runs[r].end - 1}) + 1]]
        from[at \in Seq(Nat), heap \in Seq(Nat)] ==
            LET run == heap[1]
                moved == [at EXCEPT ![run] = @ + 1]
                exhausted == moved[run] >= runs[run].end
                last == exhausted /\ Len(heap) = 1
            IN  <<file[at[run] + 1]>> \o
                (IF last THEN <<>> ELSE from[moved, next_pending(Fronts(moved), heap, exhausted)])
        starts == [r \in DOMAIN runs |-> runs[r].start]
    IN  from[starts, NewHeap(Fronts(starts))]

-----------------------------------------------------------------------------
\* Merging and compacting the runs.

RunLen(run) == run.end - run.start
Live(sp) == FoldLeft(LAMBDA n, run : n + RunLen(run), 0, sp.runs)

\* Mutation: the end of the file is taken to be where it was.
merge_tail_stays(sp, count, level) ==
    LET at == Len(sp.runs) - count
        start == sp.write_pos
        merged == merge(sp.file, SubSeq(sp.runs, at + 1, Len(sp.runs)))
        end == start + Len(merged)
    IN  [sp EXCEPT !.file = SubSeq(@, 1, start) \o merged,
                   !.runs = Append(SubSeq(@, 1, at), [start |-> start, end |-> end, level |-> level])]

\* The last count runs become one, appended to the file.
merge_tail(sp, count, level) ==
    LET at == Len(sp.runs) - count
        start == sp.write_pos
        merged == merge(sp.file, SubSeq(sp.runs, at + 1, Len(sp.runs)))
        end == start + Len(merged)
    IN  [sp EXCEPT !.file = SubSeq(@, 1, start) \o merged, !.write_pos = end,
                   !.runs = Append(SubSeq(@, 1, at), [start |-> start, end |-> end, level |-> level])]

\* Every group of this many runs becomes one, in a fresh file.
merge_groups(sp, group) ==
    LET n == Len(sp.runs)
        chunks == [j \in 1..((n + group - 1) \div group) |->
                      SubSeq(sp.runs, (j - 1) * group + 1, Min({j * group, n}))]
        merged == [j \in DOMAIN chunks |-> merge(sp.file, chunks[j])]
        end(j) == Len(FlattenSeq(SubSeq(merged, 1, j)))
        level(chunk) == Max({chunk[i].level : i \in DOMAIN chunk}) + (IF Len(chunk) = 1 THEN 0 ELSE 1)
    IN  [sp EXCEPT !.file = FlattenSeq(merged), !.write_pos = end(Len(chunks)),
                   !.runs = [j \in DOMAIN chunks |->
                                [start |-> end(j - 1), end |-> end(j), level |-> level(chunks[j])]]]

\* Whether the newest runs are enough of one level.
ripe(sp) ==
    /\ Len(sp.runs) >= MERGE_FAN_IN
    /\ \A i \in (Len(sp.runs) - MERGE_FAN_IN + 1)..Len(sp.runs) : sp.runs[i].level = Last(sp.runs).level

\* Mutation: only where there are many runs.
dead_space_late(sp) == sp.write_pos > Live(sp) * COMPACT_AT /\ Len(sp.runs) > MERGE_FAN_IN

dead_space(sp) == sp.write_pos > Live(sp) * COMPACT_AT /\ Len(sp.runs) > 1

RECURSIVE merge_tiers(_)
merge_tiers(sp) ==
    IF ripe(sp) THEN {Err(sp)} \cup merge_tiers(merge_tail(sp, MERGE_FAN_IN, Last(sp.runs).level + 1))
    ELSE IF dead_space(sp) THEN {Err(sp), Ok(merge_groups(sp, 1))}
    ELSE {Ok(sp)}

RECURSIVE reduce_runs(_)
reduce_runs(sp) ==
    IF Len(sp.runs) > MERGE_FAN_IN THEN reduce_runs(merge_groups(sp, MERGE_FAN_IN)) ELSE sp

-----------------------------------------------------------------------------
\* The operations.

\* The first n records of the buffer written at the end of the file.
Wrote(sp, n) ==
    [sp EXCEPT !.file = SubSeq(@, 1, sp.write_pos) \o SubSeq(sp.data, 1, n), !.write_pos = @ + n]

\* The whole buffer, as a run of level zero; the buffer is given up.
NewRun(sp) ==
    LET all == Wrote(sp, Len(sp.data))
    IN  [all EXCEPT !.runs = Append(@, [start |-> sp.write_pos, end |-> all.write_pos, level |-> 0]),
                    !.data = <<>>, !.data_cap = 0, !.slots_cap = 0]

\* A write that fails leaves the position after the records written before it.
spill(sp) ==
    IF sp.data = <<>> THEN {Ok(sp)}
    ELSE LET sorted == sort_buffer(sp)
         IN  {Err(Wrote(sorted, n)) : n \in 0..Len(sp.data)} \cup merge_tiers(NewRun(sorted))

\* A spill that failed leaves a spool nothing more is done with.
Spoiling(outcomes) ==
    {IF o.ok THEN o ELSE Err([o.spool EXCEPT !.spoiled = TRUE]) : o \in outcomes}

check_usable(sp) == ~sp.spoiled

push(sp, key, val, len) ==
    LET data == Append(sp.data, [key |-> key, seq |-> sp.count, val |-> val, len |-> len])
        bytes == FoldLeft(LAMBDA n, r : n + r.len, 0, data)
        added == [sp EXCEPT !.data = data, !.count = @ + 1, !.data_cap = Grown(@, bytes),
                            !.slots_cap = Grown(@, Len(data))]
    IN  IF ~check_usable(sp) THEN {Err(sp)}
        ELSE IF buffered_bytes(added) >= sp.budget THEN Spoiling(spill(added))
        ELSE {Ok(added)}

flush(sp) == IF ~check_usable(sp) THEN {Err(sp)} ELSE Spoiling(spill(sp))

Done(outcomes) == {o.spool : o \in {p \in outcomes : p.ok}}

\* SortedRecords: the records in order, and the bytes they hold in memory.
InMemory(sp) == [rows |-> sort_buffer(sp).data, held |-> buffered_bytes(sp)]

OnDisk(sp) ==
    LET reduced == reduce_runs(sp)
    IN  [rows |-> merge(reduced.file, reduced.runs), held |-> 0]

Sorted(sp) == IF sp.runs = <<>> THEN {InMemory(sp)} ELSE {OnDisk(s) : s \in Done(spill(sp))}

into_sorted(sp) == IF check_usable(sp) THEN Sorted(sp) ELSE {}
=============================================================================
