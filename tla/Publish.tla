------------------------------ MODULE Publish -------------------------------
(***************************************************************************)
(* The end of build_to_file (builder/temp.rs): the finished file is synced,*)
(* renamed over the destination, and the directory synced.  A build may    *)
(* fail, or the machine stop, at any step of it.                           *)
(*                                                                         *)
(* What a crash leaves is the file system's doing: of a file, what was     *)
(* synced; of a rename, before the directory is synced, either name.       *)
(***************************************************************************)
EXTENDS Builder

VARIABLE settled  \* whether the rename is safe from a crash

publishVars == <<vars, settled>>

PublishInit == Init /\ settled = FALSE

sync_all ==
    /\ pc = "built"
    /\ synced' = job.writer.sink.file
    /\ pc' = "synced"
    /\ UNCHANGED <<plan, limit, tables, buffered, appended, job, dest, settled>>

rename ==
    /\ pc = "synced"
    /\ dest' = job.writer.sink.file
    /\ pc' = "renamed"
    /\ UNCHANGED <<plan, limit, tables, buffered, appended, job, synced, settled>>

\* A failure to open or sync the directory is let pass, and the build returns Ok.
sync_directory ==
    /\ pc = "renamed"
    /\ settled' \in BOOLEAN
    /\ pc' = "done"
    /\ UNCHANGED <<plan, limit, tables, buffered, appended, job, synced, dest>>

\* An error anywhere in the build, or of the sync or the rename: the builder is used up
\* and its temporary files are removed.
Fail ==
    /\ pc \in {"append", "table", "rows", "tree", "entries", "built", "synced"}
    /\ pc' = "failed"
    /\ UNCHANGED <<plan, limit, tables, buffered, appended, job, synced, dest, settled>>

Crash ==
    /\ pc \notin {"append", "failed", "crashed"}
    /\ pc' = "crashed"
    /\ dest' \in IF pc \notin {"renamed", "done"} THEN {dest}
                 ELSE IF settled THEN {synced} ELSE {Old, synced}
    /\ UNCHANGED <<plan, limit, tables, buffered, appended, job, synced, settled>>

Next ==
    \/ BuildNext /\ UNCHANGED settled
    \/ sync_all \/ rename \/ sync_directory \/ Fail \/ Crash

Spec == PublishInit /\ [][Next]_publishVars

-----------------------------------------------------------------------------
\* What a reader finds in a file.

Chain(file, first) ==
    LET from[p \in Nat, before \in Nat, left \in Nat] ==
            LET page == PageAt(file, p)
            IN  IF p = None \/ left = 0 \/ page.left # before THEN <<>>
                ELSE page.entries \o from[page.right, p, left - 1]
    IN  from[first, None, PageCount(file)]

\* The entries under a page, as descents reach them, and its leftmost leaf.
Under(file, root) ==
    LET below[p \in Nat, left \in Nat] ==
            LET page == PageAt(file, p)
                child(i) == below[page.entries[i].page, left - 1]
            IN  IF left = 0 \/ page.kind # "internal" THEN page.entries
                ELSE FlattenSeq([i \in DOMAIN page.entries |->
                        IF SubSeq(child(i), 1, 1) = <<>> \/ child(i)[1].key # page.entries[i].key
                             \/ child(i)[1].rid # page.entries[i].rid THEN <<>> ELSE child(i)])
    IN  below[root, PageCount(file)]

LeftmostLeaf(file, root) ==
    LET down[p \in Nat, left \in Nat] ==
            LET page == PageAt(file, p)
            IN  IF left = 0 \/ page.kind # "internal" \/ page.entries = <<>> THEN p
                ELSE down[page.entries[1].page, left - 1]
    IN  down[root, PageCount(file)]

\* The value a reference leads to.
ValueAt(file, at) ==
    LET entries == PageAt(file, at.page).entries
        slot == IF at.slot = 0 THEN 1 ELSE at.slot
    IN  IF slot \in DOMAIN entries THEN entries[slot].val ELSE None

Row(file, e) == [key |-> e.key, val |-> IF e.page = None THEN e.val ELSE ValueAt(file, [page |-> e.page, slot |-> 0])]
Ref(file, e) == [key |-> e.key, rid |-> e.rid, val |-> ValueAt(file, [page |-> e.page, slot |-> e.slot])]

\* The tree whose root is in this cell holds these entries, by descent and along its leaves.
TreeHolds(file, cell, Read(_, _), expected) ==
    LET root == CellAt(file, cell + 1).n
        read(entries) == [i \in DOMAIN entries |-> Read(file, entries[i])]
    IN  /\ read(Under(file, root)) = expected
        /\ read(Chain(file, LeftmostLeaf(file, root))) = expected

\* The rows append was given for a table, in key order; the entries an index should have.
ExpectedRows(t) ==
    LET mine == SelectSeq(appended, LAMBDA a : a.row.table = t)
        rows == [i \in DOMAIN mine |-> [key |-> mine[i].row.key, val |-> mine[i].row.val]]
    IN  SortSeq(rows, LAMBDA r, s : r.key < s.key)

ExpectedRefs(t, i) ==
    LET rows == ExpectedRows(t)
        key(n) == Indexes(t)[i].key_fn[rows[n].val]
        rid(n) == Cardinality({m \in 1..(n - 1) : key(m) = key(n)})
        refs == [n \in DOMAIN rows |-> [key |-> key(n), rid |-> rid(n), val |-> rows[n].val]]
    IN  SortSeq(refs, LAMBDA r, s : r.key < s.key \/ (r.key = s.key /\ r.rid < s.rid))

Whole(file) ==
    \A t \in DOMAIN tables :
        /\ TreeHolds(file, job.roots[t][1], Row, ExpectedRows(t))
        /\ \A i \in DOMAIN Indexes(t) : TreeHolds(file, job.roots[t][i + 1], Ref, ExpectedRefs(t, i))

(***************************************************************************)
(* Wherever a build fails or the machine stops, the destination is what it *)
(* was, or a whole database: every row appended and no other, found down   *)
(* the tree and along the leaves, and every index entry leading to its row.*)
(* After an append that failed in a sorter, with its row kept or lost, no  *)
(* build passes for complete.  (A key append turns away leaves no trace.)  *)
(***************************************************************************)
OldOrWhole == dest = Old \/ (Whole(dest) /\ \A i \in DOMAIN appended : appended[i].ok)

=============================================================================
