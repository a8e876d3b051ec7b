---------------------------- MODULE IndexCursor -----------------------------
(***************************************************************************)
(* Reading a secondary index of the file that was built (index.rs).        *)
(*                                                                         *)
(* The tree of an index that is not unique is ordered by key and record    *)
(* id, so a caller's bounds are widened to take in or leave out every id   *)
(* of a key.  A cursor over that tree (Cursor shows what it does) gives    *)
(* entries in order, and goes back by itself when an advance of its own    *)
(* fails; the value is then read through the reference in the entry, which *)
(* may fail after the tree's cursor has moved.                             *)
(***************************************************************************)
EXTENDS Publish

CONSTANTS
    MAX_RID,   \* i32::MAX
    BoundKeys  \* the keys a range may be bounded by

VARIABLES
    query,    \* the caller's range and order, or NoQuery
    found,    \* the entries of the tree's range, in the order the tree's cursor gives them
    taken,    \* how many of them it has given
    saved,    \* where it stood before the advance under way
    shown,    \* what key() and value() give
    given,    \* the rows handed out
    ended,
    step      \* "idle", or within advance "moved"

readVars == <<query, found, taken, saved, shown, given, ended, step>>
allVars == <<publishVars, readVars>>

Bound(kind, k) == [kind |-> kind, key |-> k]
Unbounded == Bound("Unbounded", 0)
CallerBounds == {Unbounded} \cup {Bound(kind, k) : kind \in {"Included", "Excluded"}, k \in BoundKeys}

NoQuery == [lower |-> Bound("none", 0), upper |-> Bound("none", 0), ascending |-> TRUE]
Nothing == [key |-> 0, val |-> 0]

ReadInit ==
    /\ PublishInit
    /\ query = NoQuery /\ found = <<>> /\ taken = 0 /\ saved = 0
    /\ shown = Nothing /\ given = <<>> /\ ended = FALSE /\ step = "idle"

-----------------------------------------------------------------------------
\* Index::tree_range.

is_unique == Indexes(1)[plan.reads].unique

is_empty_range(lower, upper) ==
    /\ lower # Unbounded /\ upper # Unbounded /\ lower.key = upper.key
    /\ lower.kind = "Excluded" \/ upper.kind = "Excluded"

Composite(bound, rid) == [kind |-> bound.kind, key |-> bound.key, rid |-> rid]

tree_lower(lower) ==
    Composite(lower, IF lower.kind = "Excluded" /\ ~is_unique THEN MAX_RID ELSE 0)

tree_upper(upper) ==
    Composite(upper, IF upper.kind = "Included" /\ ~is_unique THEN MAX_RID ELSE 0)

\* Whether a is before b in the order of the tree: DuplicateKeyEncoding::compare.
Lower(a, b) == a.key < b.key \/ (a.key = b.key /\ a.rid < b.rid)

\* KeyRange: what of these found is inside the bounds.
InRange(e, lower, upper) ==
    /\ lower.kind = "Included" => ~Lower(e, lower)
    /\ lower.kind = "Excluded" => Lower(lower, e)
    /\ upper.kind = "Included" => ~Lower(upper, e)
    /\ upper.kind = "Excluded" => Lower(e, upper)

\* Cursor::new refuses a range whose ends have crossed.
Crossed(lower, upper) == lower.kind # "Unbounded" /\ upper.kind # "Unbounded" /\ Lower(upper, lower)

TreeEntries ==
    LET root == CellAt(dest, job.roots[1][plan.reads + 1] + 1).n
    IN  Chain(dest, LeftmostLeaf(dest, root))

\* Index::range.
range(lower, upper, ascending) ==
    LET low == tree_lower(lower)
        high == tree_upper(upper)
        inside == SelectSeq(TreeEntries, LAMBDA e : InRange(e, low, high))
        empty == ~is_unique /\ is_empty_range(lower, upper)
    IN  /\ pc = "done" /\ plan.reads # 0 /\ tables # <<>> /\ query = NoQuery
        /\ ~empty => ~Crossed(low, high)
        /\ query' = [lower |-> lower, upper |-> upper, ascending |-> ascending]
        /\ found' = IF empty THEN <<>> ELSE IF ascending THEN inside ELSE Reverse(inside)
        /\ UNCHANGED <<publishVars, taken, saved, shown, given, ended, step>>

-----------------------------------------------------------------------------
\* IndexCursor::advance.

Reading == query # NoQuery /\ ~ended

\* The tree's cursor moves, or has reached its end; an error of its own leaves it be.
AdvanceTree ==
    /\ Reading /\ step = "idle"
    /\ saved' = taken
    /\ IF taken = Len(found)
         THEN ended' = TRUE /\ shown' = Nothing /\ UNCHANGED <<taken, step>>
         ELSE /\ taken' = taken + 1 /\ step' = "moved" /\ ended' = ended
              /\ shown' = [shown EXCEPT !.val = 0]
    /\ UNCHANGED <<publishVars, query, found, given>>

\* The key is copied before the page with the value is asked for.
CopyKey ==
    /\ step = "moved"
    /\ shown' = [shown EXCEPT !.key = found[taken].key]
    /\ step' = "copied"
    /\ UNCHANGED <<publishVars, query, found, taken, saved, given, ended>>

ReadValue ==
    /\ step = "copied"
    /\ shown' = [shown EXCEPT !.val = ValueAt(dest, [page |-> found[taken].page, slot |-> found[taken].slot])]
    /\ given' = Append(given, [sort |-> shown.key, row |-> shown'.val])
    /\ step' = "idle"
    /\ UNCHANGED <<publishVars, query, found, taken, saved, ended>>

\* Mutation: the tree's cursor stays where it went.
restore_forward == [taken |-> taken, shown |-> Nothing]

\* Mutation: the key copied stays.
restore_key == [taken |-> saved, shown |-> [shown EXCEPT !.val = 0]]

restore == [taken |-> saved, shown |-> Nothing]

\* The tree's cursor, the budget for the key or the read of the value fails.
FailRead ==
    /\ step \in {"moved", "copied"}
    /\ taken' = restore.taken /\ shown' = restore.shown
    /\ step' = "idle"
    /\ UNCHANGED <<publishVars, query, found, saved, given, ended>>

FailTree ==
    /\ Reading /\ step = "idle"
    /\ shown' = Nothing
    /\ UNCHANGED <<publishVars, query, found, taken, saved, given, ended, step>>

\* The caller takes the value; the cursor stays.
take_value ==
    /\ step = "idle" /\ shown.val # 0
    /\ shown' = [shown EXCEPT !.val = 0]
    /\ UNCHANGED <<publishVars, query, found, taken, saved, given, ended, step>>

ReadNext ==
    \/ Next /\ UNCHANGED readVars
    \/ \E lower, upper \in CallerBounds, ascending \in BOOLEAN : range(lower, upper, ascending)
    \/ pc = "done" /\ (AdvanceTree \/ CopyKey \/ ReadValue \/ FailRead \/ FailTree \/ take_value)

ReadSpec == ReadInit /\ [][ReadNext]_allVars

-----------------------------------------------------------------------------

\* The rows of the table by their key in the index; the values of the rows read in these
\* builds are their own and ascend with the primary key.
IndexedRows ==
    IF plan.reads = 0 THEN {}
    ELSE {[sort |-> Indexes(1)[plan.reads].key_fn[a.row.val], row |-> a.row.val] :
             a \in {b \in Range(appended) : b.row.table = 1}}

Scan == INSTANCE OrderedTable WITH table <- IndexedRows, scan <- query

(***************************************************************************)
(* Reading an index is reading a table ordered by the index key, from the  *)
(* rows appended to the last one handed out: whatever the bounds, each row *)
(* inside them comes once, by index key and then by primary key, with its  *)
(* own value, and a read that failed is made good by the next advance.     *)
(***************************************************************************)
IndexScanSpec == Scan!Spec

(***************************************************************************)
(* Between advances key() is of the last row handed out and value() too,   *)
(* unless it was taken, or neither is there: a read that fails half way    *)
(* leaves no key behind.                                                   *)
(***************************************************************************)
ShownIsLast ==
    step = "idle" /\ shown # Nothing =>
        given # <<>> /\ shown.key = Last(given).sort /\ shown.val \in {0, Last(given).row}
=============================================================================
