------------------------------- MODULE BTree -------------------------------
(***************************************************************************)
(* Searching the tree the writer wrote (btree.rs, format/node.rs) and      *)
(* counting a range of it (query.rs).                                      *)
(*                                                                         *)
(* A search finds the first digest that can match and compares keys from   *)
(* there on.  An entry's index counts from one.  What the code returns as  *)
(* an error of kind Corrupt is the result Corrupt, so that a search over a *)
(* tree that is intact can be seen to answer.  r is the root of the tree   *)
(* that is searched.                                                       *)
(***************************************************************************)
EXTENDS TreeWriter

CONSTANT max_tree_depth

\* The upstream builder gives an empty tree no root.
tree_root == IF config.upstream /\ rows = {} THEN None ELSE root

page_count == Len(pages)
Count(p) == Len(pages[p].entries)

Found(p, i) == [page |-> p, index |-> i]
Position == [page : Nat, index : Nat]
NoEntry == Found(None, 0)
Corrupt == Found(None, 1)

\* What compare_leaf and compare_internal compare: the digests where there are no keys.
Probe(k) == IF layout.omitted_keys THEN digest(k) ELSE k
KeyAt(p, i) == IF layout.omitted_keys THEN pages[p].slots[i] ELSE pages[p].entries[i].key

-----------------------------------------------------------------------------
\* PageView::lower_bound_rank: the number of digests below d.

EytzingerRank(slots, d) ==
    LET n == Len(slots)
        down[i \in Nat] == IF i > n THEN i - n - 1 ELSE down[2 * i + (IF slots[i] < d THEN 1 ELSE 0)]
    IN  down[1]

SortedRank(slots, d) ==
    LET split[lo \in Nat, hi \in Nat] ==
            LET mid == lo + (hi - lo) \div 2
            IN  IF lo >= hi THEN lo
                ELSE IF slots[mid + 1] < d THEN split[mid + 1, hi] ELSE split[lo, mid]
    IN  split[0, Len(slots)]

lower_bound_rank(p, d) ==
    IF layout.eytzinger THEN EytzingerRank(pages[p].slots, d) ELSE SortedRank(pages[p].slots, d)

-----------------------------------------------------------------------------
\* Tree::check_digests: the page is ordered the way a search assumes.

\* What PageStore::page needs to hand out a page.
Readable(p) == p \in DOMAIN pages /\ pages[p].readable

\* The nodes in the order the check visits them, each the in-order successor of the last.
EytzingerWalk(n) ==
    LET leftmost[node \in Nat] == IF 2 * node <= n THEN leftmost[2 * node] ELSE node
        climb[node \in Nat] == IF node > 1 /\ node % 2 = 1 THEN climb[node \div 2] ELSE node
        walk[node \in Nat] ==
            IF node = None THEN <<>>
            ELSE <<node>> \o walk[IF 2 * node + 1 <= n THEN leftmost[2 * node + 1]
                                  ELSE climb[node] \div 2]
    IN  IF n = 0 THEN <<>> ELSE walk[leftmost[1]]

check_eytzinger_digests(p) ==
    LET nodes == EytzingerWalk(Len(pages[p].slots))
    IN  /\ Len(nodes) = Len(pages[p].slots)
        /\ \A rank \in DOMAIN nodes :
              pages[p].slots[nodes[rank]] =
                  IF rank <= Count(p) THEN digest(pages[p].entries[rank].key) ELSE MaxDigest

check_digests(p) ==
    /\ Readable(p)
    /\ IF layout.eytzinger THEN check_eytzinger_digests(p)
       ELSE layout.omitted_keys \/
              \A i \in 1..Count(p) : pages[p].slots[i] = digest(pages[p].entries[i].key)
    /\ \A i \in 2..Count(p) :
          \/ KeyAt(p, i - 1) < KeyAt(p, i)
          \/ layout.omitted_keys /\ ~config.exact /\ KeyAt(p, i - 1) = KeyAt(p, i)

-----------------------------------------------------------------------------
\* Searching one page.

\* The first entry from the rank on that is at or above the key, or above it.
FirstFrom(p, k, above) ==
    LET start == Min({lower_bound_rank(p, digest(k)), Count(p)}) + 1
        passes(i) == IF above THEN KeyAt(p, i) > Probe(k) ELSE KeyAt(p, i) >= Probe(k)
    IN  Min({i \in start..Count(p) : passes(i)} \cup {Count(p) + 1})

separators_are_inexact == layout.omitted_keys /\ ~config.exact

\* Mutation: the last child that compares equal, as upstream.
last_equal_child(p, k) ==
    LET i == FirstFrom(p, k, TRUE) IN <<Max({i - 1, 1}), FALSE>>

\* The child to descend into, and whether it was taken for starting below the key.
internal_child_index(p, k) ==
    LET i == FirstFrom(p, k, FALSE)
        equal == i <= Count(p) /\ KeyAt(p, i) = Probe(k)
    IN  IF equal /\ ~separators_are_inexact THEN <<i, FALSE>>
        ELSE <<Max({i - 1, 1}), equal>>

\* The index of the entry op asks for, or zero.
leaf_search(p, k, op) ==
    LET i == FirstFrom(p, k, op = "UpperBound")
    IN  IF i > Count(p) \/ (op = "Equal" /\ KeyAt(p, i) # Probe(k)) THEN 0 ELSE i

ends_below(p, k) == Count(p) = 0 \/ KeyAt(p, Count(p)) < Probe(k)

-----------------------------------------------------------------------------
\* Walking the tree.

\* The leaf that could hold k, and whether the match may be on a later one.
descend(r, k) ==
    LET down[p \in Nat, left \in Nat, conservative \in BOOLEAN] ==
            IF left = 0 \/ ~check_digests(p) THEN Corrupt
            ELSE IF pages[p].leaf THEN [page |-> p, index |-> IF conservative THEN 1 ELSE 0]
            ELSE IF Count(p) = 0 THEN Corrupt
            ELSE LET choice == internal_child_index(p, k)
                     child == pages[p].entries[choice[1]].child
                 IN  IF child = p THEN Corrupt ELSE down[child, left - 1, conservative \/ choice[2]]
    IN  IF r = None THEN NoEntry ELSE down[r, max_tree_depth, FALSE]

edge_leaf(r, leftmost) ==
    LET End(p) == IF leftmost THEN 1 ELSE Count(p)
        down[p \in Nat, left \in Nat] ==
            IF left = 0 \/ ~check_digests(p) THEN Corrupt
            ELSE IF pages[p].leaf THEN IF Count(p) = 0 THEN NoEntry ELSE Found(p, End(p))
            ELSE IF Count(p) = 0 \/ pages[p].entries[End(p)].child = p THEN Corrupt
            ELSE down[pages[p].entries[End(p)].child, left - 1]
    IN  IF r = None THEN NoEntry ELSE down[r, max_tree_depth]

min_leaf(r) == edge_leaf(r, TRUE)
max_leaf(r) == edge_leaf(r, FALSE)

ends_at(r, p, ascending) ==
    LET edge == edge_leaf(r, ~ascending) IN edge = NoEntry \/ edge.page = p

Sibling(p, ascending) == IF ascending THEN pages[p].right ELSE pages[p].left

\* Whether a walk may step from one leaf into the next: leaf_page and step_sibling.
step_sibling(from, to, ascending) ==
    check_digests(to) /\ pages[to].leaf /\ Sibling(to, ~ascending) = from

search(r, k, op) ==
    LET walk[p \in Nat, conservative \in BOOLEAN, steps_left \in Nat] ==
            LET i == leaf_search(p, k, op)
                right == pages[p].right
            IN  IF i # 0 THEN Found(p, i)
                ELSE IF op = "Equal" /\ ~(conservative /\ ends_below(p, k)) THEN NoEntry
                ELSE IF right = None THEN IF ends_at(r, p, TRUE) THEN NoEntry ELSE Corrupt
                ELSE IF steps_left = 0 \/ ~step_sibling(p, right, TRUE) THEN Corrupt
                ELSE walk[right, conservative, steps_left - 1]
        from[reached \in Position] ==
            IF reached.page = None THEN reached ELSE walk[reached.page, reached.index = 1, page_count + 1]
    IN  from[descend(r, k)]

find(r, k) == search(r, k, "Equal")

\* The same over the pages in memory only, with no page read: Unknown when one is missing.
Unknown == Found(None, 2)

\* Mutation: only the leaf the descent reaches is looked at.
find_on_one_leaf(r, k, cached) ==
    LET reached == descend(r, k)
        i == leaf_search(reached.page, k, "Equal")
    IN  IF reached.page = None THEN reached
        ELSE IF reached.page \notin cached THEN Unknown
        ELSE IF i = 0 THEN NoEntry ELSE Found(reached.page, i)

find_cached(r, k, cached) ==
    LET walk[p \in Nat, depth_left \in Nat, steps_left \in Nat, conservative \in BOOLEAN, descending \in BOOLEAN] ==
            LET i == leaf_search(p, k, "Equal")
                right == pages[p].right
                choice == internal_child_index(p, k)
                child == pages[p].entries[choice[1]].child
                deeper == IF descending THEN depth_left - 1 ELSE depth_left
            IN  IF descending /\ depth_left = 0 THEN Corrupt
                ELSE IF p \notin cached THEN Unknown
                ELSE IF ~check_digests(p) THEN Corrupt
                ELSE IF pages[p].leaf
                  THEN IF i # 0 THEN Found(p, i)
                       ELSE IF ~(conservative /\ ends_below(p, k)) \/ right = None THEN NoEntry
                       ELSE IF steps_left = 0 THEN Corrupt
                       ELSE walk[right, deeper, steps_left - 1, conservative, FALSE]
                ELSE IF Count(p) = 0 \/ child = p THEN Corrupt
                ELSE walk[child, deeper, steps_left, conservative \/ choice[2], descending]
    IN  IF r = None THEN NoEntry
        ELSE walk[r, max_tree_depth, page_count + 1, FALSE, TRUE]

-----------------------------------------------------------------------------
\* Ranges.  A bound is one of std::ops::Bound.

Bound(kind, k) == [kind |-> kind, key |-> k]
Unbounded == Bound("Unbounded", None)
Bounds(keys) == {Unbounded} \cup {Bound(kind, k) : kind \in {"Included", "Excluded"}, k \in keys}

\* What Cursor::build and count_range accept.
Ordered(lower, upper) == lower = Unbounded \/ upper = Unbounded \/ lower.key <= upper.key

\* The search that finds the first entry past the near end of a range, and past its end.
FromOp(bound) == IF bound.kind = "Included" THEN "LowerBound" ELSE "UpperBound"
\* Mutation: an end that is left out is counted in.
PastIncluded(bound) == "UpperBound"

PastOp(bound) == IF bound.kind = "Included" THEN "UpperBound" ELSE "LowerBound"

CorruptCount == MaxKey + 1

count_range(r, lower, upper) ==
    LET walk[p \in Nat, index \in Nat, count \in Nat, steps_left \in Nat] ==
            LET end == IF upper = Unbounded THEN 0 ELSE leaf_search(p, upper.key, PastOp(upper))
                right == pages[p].right
                total == count + Max({Count(p) + 1 - index, 0})
            IN  IF end # 0 THEN count + Max({end - index, 0})
                ELSE IF right = None THEN IF ends_at(r, p, TRUE) THEN total ELSE CorruptCount
                ELSE IF steps_left = 0 \/ ~step_sibling(p, right, TRUE) THEN CorruptCount
                ELSE walk[right, 1, total, steps_left - 1]
        from[start \in Position] ==
            IF start.page # None THEN walk[start.page, start.index, 0, page_count + 1]
            ELSE IF start = Corrupt THEN CorruptCount ELSE 0
    IN  from[IF lower = Unbounded THEN min_leaf(r) ELSE search(r, lower.key, FromOp(lower))]

\* resolve_value, of the cursor and of get: the row whose value is read.
resolve_value(p, i) ==
    LET entry == pages[p].entries[i] IN IF entry.blob = None THEN entry.val ELSE pages[entry.blob].val

\* Its value can be read.
Resolves(p, i) == LET blob == pages[p].entries[i].blob IN blob # None => Readable(blob)

-----------------------------------------------------------------------------

\* The rows of a range, by the order a page is compared in.
RowsIn(lower, upper) ==
    {r \in rows : /\ lower.kind = "Included" => Probe(r) >= Probe(lower.key)
                  /\ lower.kind = "Excluded" => Probe(r) > Probe(lower.key)
                  /\ upper.kind = "Included" => Probe(r) <= Probe(upper.key)
                  /\ upper.kind = "Excluded" => Probe(r) < Probe(upper.key)}

(***************************************************************************)
(* A lookup finds exactly the rows that were pushed: a key with a row is   *)
(* found at the first entry that compares equal to it, which leads to that *)
(* row's value; a key without one is not found and not taken for damage.   *)
(***************************************************************************)
FindIsMembership ==
    pc = "built" => \A k \in Keys :
        LET same == {r \in rows : Probe(r) = Probe(k)}
            found == find(tree_root, k)
        IN  IF same = {} THEN found = NoEntry
            ELSE found.page # None /\ resolve_value(found.page, found.index) = Min(same)

(***************************************************************************)
(* A lookup that may not read answers as the one that may, or says that a  *)
(* page it needs is not in memory; with every page there it answers.       *)
(***************************************************************************)
CachedFindAgrees ==
    pc = "built" => \A k \in Keys :
        LET all == DOMAIN pages
        IN  /\ find_cached(tree_root, k, all) = find(tree_root, k)
            /\ \A missing \in all : find_cached(tree_root, k, all \ {missing}) \in {Unknown, find(tree_root, k)}

(***************************************************************************)
(* count_range counts the rows of the range, across the leaves, for every  *)
(* kind of bound at every key.                                             *)
(***************************************************************************)
CountIsCardinality ==
    pc = "built" => \A low, high \in Bounds(Keys) :
        Ordered(low, high) => count_range(tree_root, low, high) = Cardinality(RowsIn(low, high))

=============================================================================
