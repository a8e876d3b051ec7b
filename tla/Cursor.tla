------------------------------- MODULE Cursor -------------------------------
(***************************************************************************)
(* A cursor over the tree (query.rs).                                      *)
(*                                                                         *)
(* An advance moves the cursor in several steps, each of which may load a  *)
(* page, and a load may fail: the memory budget is spent, or the disk      *)
(* refuses.  The cursor then goes back to where it stood and the caller    *)
(* may advance it again.                                                   *)
(***************************************************************************)
EXTENDS BTree

CONSTANT BoundKeys  \* the keys a range may be bounded by

VARIABLES
    lower, upper, ascending,  \* the range and the order
    cur,    \* the cursor's position (struct Position)
    saved,  \* the position to go back to when the advance fails
    given   \* the rows handed out

cursorVars == <<lower, upper, ascending, cur, saved, given>>
vars == <<writerVars, cursorVars>>
treeVars == <<config, layout, levels, pages, frames, row, rows, pending, refs, root>>

Start == [page |-> None, index |-> 1, leaf_limit |-> 1, leaf_ends_scan |-> FALSE,
          started |-> FALSE, finished |-> FALSE, page_steps_left |-> 0]

CursorInit ==
    /\ Init
    /\ lower = Unbounded /\ upper = Unbounded /\ ascending = TRUE
    /\ cur = Start /\ saved = Start /\ given = <<>>

-----------------------------------------------------------------------------

\* recompute_leaf_bounds: the window of the leaf at p the scan may hand out.
LeafWindow(p) ==
    LET far == IF ascending THEN upper ELSE lower
        op == IF ascending THEN PastOp(upper) ELSE FromOp(lower)
        found == leaf_search(p, far.key, op)
        Window(limit, ends) == [limit |-> limit, ends |-> ends]
        past == Count(p) + 1
    IN  IF ascending
          THEN IF far = Unbounded \/ found = 0 THEN Window(past, FALSE) ELSE Window(found, TRUE)
        ELSE IF far = Unbounded THEN Window(1, FALSE)
        ELSE IF found = 0 THEN Window(past, TRUE) ELSE Window(found, found > 1)

\* The cursor on entry i of leaf p.
OnLeaf(c, p, i) ==
    [c EXCEPT !.page = p, !.index = i, !.leaf_limit = LeafWindow(p).limit,
              !.leaf_ends_scan = LeafWindow(p).ends]

\* The last entry before the bound, on this leaf or on the nearest to the left that has one.
descending_start(k, op) ==
    LET walk[p \in Nat, steps_left \in Nat] ==
            LET left == pages[p].left
            IN  IF left = None THEN IF ends_at(tree_root, p, FALSE) THEN NoEntry ELSE Corrupt
                ELSE IF steps_left = 0 \/ ~step_sibling(p, left, FALSE) THEN Corrupt
                ELSE IF Count(left) > 0 THEN Found(left, Count(left))
                ELSE walk[left, steps_left - 1]
        before[found \in Position] ==
            IF found = NoEntry THEN max_leaf(tree_root)
            ELSE IF found = Corrupt THEN Corrupt
            ELSE IF found.index > 1 THEN Found(found.page, found.index - 1)
            ELSE walk[found.page, page_count + 1]
    IN  before[search(tree_root, k, op)]

FirstEntry ==
    IF ascending
      THEN IF lower = Unbounded THEN min_leaf(tree_root) ELSE search(tree_root, lower.key, FromOp(lower))
      ELSE IF upper = Unbounded THEN max_leaf(tree_root) ELSE descending_start(upper.key, PastOp(upper))

-----------------------------------------------------------------------------

Open ==
    /\ pc = "built"
    /\ lower' \in Bounds(BoundKeys) /\ upper' \in Bounds(BoundKeys) /\ ascending' \in BOOLEAN
    /\ Ordered(lower', upper')
    /\ cur' = [Start EXCEPT !.page_steps_left = page_count + 1]
    /\ pc' = "idle"
    /\ UNCHANGED <<treeVars, saved, given>>

\* Cursor::advance, up to the call of seek_first or step.
Advance ==
    /\ pc = "idle" /\ ~cur.finished
    /\ saved' = cur
    /\ cur' = [cur EXCEPT !.started = TRUE]
    /\ pc' = IF cur.started THEN "step" ELSE "seek"
    /\ UNCHANGED <<treeVars, lower, upper, ascending, given>>

Finished(c) == [c EXCEPT !.finished = TRUE, !.page = None]

seek_first ==
    /\ pc = "seek"
    /\ \E found \in {FirstEntry} :
           CASE found = Corrupt -> pc' = "corrupt" /\ cur' = cur
             [] found = NoEntry -> pc' = "idle" /\ cur' = Finished(cur)
             [] OTHER -> pc' = "skip" /\ cur' = OnLeaf(cur, found.page, found.index)
    /\ UNCHANGED <<treeVars, lower, upper, ascending, saved, given>>

step ==
    /\ pc = "step"
    /\ LET onward == IF ascending THEN cur.index + 1 < cur.leaf_limit ELSE cur.index > cur.leaf_limit
       IN  /\ pc' = IF onward THEN "read" ELSE "next"
           /\ cur' = IF ascending THEN [cur EXCEPT !.index = @ + 1]
                     ELSE IF onward THEN [cur EXCEPT !.index = @ - 1] ELSE cur
    /\ UNCHANGED <<treeVars, lower, upper, ascending, saved, given>>

skip_to_valid ==
    /\ pc = "skip"
    /\ LET in_window == IF ascending THEN cur.index < Min({cur.leaf_limit, Count(cur.page) + 1})
                        ELSE cur.index >= cur.leaf_limit /\ cur.index <= Count(cur.page)
       IN  pc' = IF in_window THEN "read" ELSE "next"
    /\ UNCHANGED <<treeVars, cursorVars>>

\* next_page, up to the load of the page beside this one.
next_page ==
    /\ pc = "next"
    /\ CASE cur.leaf_ends_scan -> pc' = "idle" /\ cur' = Finished(cur)
         [] ~cur.leaf_ends_scan /\ cur.page_steps_left = 0 -> pc' = "corrupt" /\ cur' = cur
         [] OTHER -> pc' = "load" /\ cur' = [cur EXCEPT !.page_steps_left = @ - 1]
    /\ UNCHANGED <<treeVars, lower, upper, ascending, saved, given>>

load_sibling ==
    /\ pc = "load"
    /\ LET sibling == Sibling(cur.page, ascending)
           intact == IF sibling = None THEN ends_at(tree_root, cur.page, ascending)
                                       ELSE step_sibling(cur.page, sibling, ascending)
       IN  CASE ~intact -> pc' = "corrupt" /\ cur' = cur
             [] intact /\ sibling = None -> pc' = "idle" /\ cur' = Finished(cur)
             [] OTHER -> /\ pc' = "skip"
                         /\ cur' = OnLeaf(cur, sibling, IF ascending THEN 1 ELSE Max({Count(sibling), 1}))
    /\ UNCHANGED <<treeVars, lower, upper, ascending, saved, given>>

materialize ==
    /\ pc = "read"
    /\ LET item == [sort |-> KeyAt(cur.page, cur.index), row |-> resolve_value(cur.page, cur.index)]
       IN  IF Resolves(cur.page, cur.index) THEN pc' = "idle" /\ given' = Append(given, item)
           ELSE pc' = "corrupt" /\ given' = given
    /\ UNCHANGED <<treeVars, lower, upper, ascending, cur, saved>>

\* Mutation: the index is left where it was when the step failed.
restore_without_index == [saved EXCEPT !.index = cur.index]

\* Mutation: a page that was not stepped to stays counted.
restore_without_steps == [saved EXCEPT !.page_steps_left = cur.page_steps_left]

restore == saved

\* A page, a blob or a buffer the step under way asks for is not to be had.
Fail ==
    /\ pc \in {"seek", "load", "read"}
    /\ cur' = restore
    /\ pc' = "idle"
    /\ UNCHANGED <<treeVars, lower, upper, ascending, saved, given>>

Next ==
    \/ WriterNext /\ UNCHANGED cursorVars
    \/ Open \/ Advance \/ seek_first \/ step \/ skip_to_valid \/ next_page \/ load_sibling \/ materialize \/ Fail

Spec == CursorInit /\ [][Next]_vars

-----------------------------------------------------------------------------

Reading == pc \in {"idle", "seek", "step", "skip", "next", "load", "read", "corrupt"}

Scan == INSTANCE OrderedTable WITH
    table <- {[sort |-> Probe(r), row |-> r] : r \in rows},
    scan <- LET Placed(b) == [b EXCEPT !.key = IF b = Unbounded THEN None ELSE Probe(b.key)]
            IN  IF Reading THEN [lower |-> Placed(lower), upper |-> Placed(upper), ascending |-> ascending]
                ELSE [lower |-> [kind |-> "none", key |-> 0], upper |-> [kind |-> "none", key |-> 0],
                      ascending |-> TRUE],
    ended <- cur.finished

(***************************************************************************)
(* A scan is the table's: whatever the packing of the pages, the range and *)
(* the order, and however often an advance fails part way and is retried,  *)
(* the cursor hands out the rows of the range, each once, in order, and    *)
(* says it is done only when none is left.                                 *)
(***************************************************************************)
ScanSpec == Scan!Spec

(***************************************************************************)
(* A cursor over a tree that is intact never reports it as corrupt: the    *)
(* limit on the pages it may step over, which stands against a cyclic      *)
(* chain, is not used up by steps that failed, and both ends of the chain  *)
(* are where the tree says they are.  The one exception is a value that is *)
(* on a page of its own and leaves the page's length no room in its i32.   *)
(***************************************************************************)
NeverCorrupt == pc = "corrupt" => cur.page # None /\ ~Resolves(cur.page, cur.index)
=============================================================================
