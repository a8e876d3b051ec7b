------------------------------- MODULE Verify -------------------------------
(***************************************************************************)
(* Database::verify (verify.rs), of a table and its index in a file that   *)
(* may be damaged.                                                         *)
(*                                                                         *)
(* The writer builds the trees, damage changes a field here and there, and *)
(* a pass then sweeps the directory and walks each tree level by level,    *)
(* holding one page at a time: every level is a chain of siblings, and the *)
(* chain of the level below is followed in step with the children the      *)
(* pages of a level name.  What a page load or a reservation came to is    *)
(* one of its outcomes at the step that made it.                           *)
(***************************************************************************)
EXTENDS BTree

CONSTANTS
    Files,          \* the files considered (see FileType)
    Requests        \* the VerifyOptions considered

VARIABLES
    file,      \* the member of Files being built
    trees,     \* the trees in it, the table's and the index's: root and refs
    damage,    \* how many fields were damaged
    request,
    report,    \* problems, truncated, failed (the failure), missed (a problem was not kept)
    overflow,  \* OverflowPages
    walk,      \* the locals of the walk (see NoWalk)
    result,    \* what verify returned
    stage

verifyVars == <<file, trees, damage, request, report, overflow, walk, result, stage>>
allVars == <<writerVars, verifyVars>>

\* damage: how many fields may be damaged.
FileType == [config : Configs, rows : Seq([key : Keys, len : Nat]), indexed : BOOLEAN, damage : Nat]
RequestType == [check_pages : BOOLEAN, check_trees : BOOLEAN, max_problems : Nat]

ASSUME VerifyAssumption ==
    /\ Files \subseteq FileType /\ Requests \subseteq RequestType
    /\ max_tree_depth \in Nat

PAGE_REF_LEN == 16
NoRequest == [check_pages |-> FALSE, check_trees |-> FALSE, max_problems |-> 0]
NoChain == [current |-> None, started |-> FALSE, broken |-> FALSE, steps_left |-> 0]

\* page, entry: where the walk is.  start: the first page of the level; first_child: of
\* the next.  left: the page before.  previous: the key of the entry before.
NoWalk == [tree |-> 0, start |-> None, page |-> 1, entry |-> 0, left |-> None, first_child |-> None,
           is_root |-> FALSE, levels_left |-> 0, steps_left |-> 0, previous |-> None, lower |-> NoChain]

VerifyInit ==
    /\ Init
    /\ file \in Files /\ config = file.config
    /\ trees = <<>> /\ damage = 0 /\ request = NoRequest /\ overflow = {}
    /\ report = [problems |-> 0, truncated |-> FALSE, failed |-> FALSE, missed |-> FALSE]
    /\ walk = NoWalk /\ result = "none" /\ stage = "build"

-----------------------------------------------------------------------------
\* Building the file: the table's rows, then a reference to each for its index.

Ahead(records) == SelectSeq(records, LAMBDA r : r.key \notin rows)

NextRecords ==
    IF trees = <<>> THEN Ahead(file.rows)
    ELSE Ahead([i \in DOMAIN file.rows |-> [key |-> file.rows[i].key, len |-> PAGE_REF_LEN]])

\* A file whose pages the directory refuses is not written, so RefusePage is left out.
Write ==
    /\ stage = "build"
    /\ \/ IF NextRecords = <<>> THEN Finish ELSE Push(Head(NextRecords).key, Head(NextRecords).len)
       \/ AddEntry \/ FlushPage \/ Promote \/ FinishLevel
    /\ UNCHANGED verifyVars

\* A tree is done, and the next is begun after it.
NextTree ==
    /\ stage = "build" /\ pc = "built"
    /\ trees' = Append(trees, [root |-> tree_root, refs |-> refs, last |-> Len(pages)])
    /\ IF file.indexed /\ trees = <<>>
         THEN /\ levels' = <<NewLevel>> /\ rows' = {} /\ refs' = <<>> /\ root' = None /\ pending' = 0
              /\ pc' = "ready" /\ stage' = stage
         ELSE stage' = "closed" /\ UNCHANGED <<levels, rows, refs, root, pending, pc>>
    /\ UNCHANGED <<config, layout, pages, frames, row, file, damage, request, report, overflow, walk, result>>

-----------------------------------------------------------------------------
\* Damage: what a page says of its siblings, its kind, an entry's key, child or value, an
\* entry gone, a page that cannot be read, a root in a descriptor.

Ordinals == 0..(Len(pages) + 1)
WIDTH == 4

\* A reference, as the value of an index entry: of a row, or of some place else.
ParseRef(v) ==
    LET mine == {i \in DOMAIN trees[1].refs : trees[1].refs[i].key = v}
    IN  IF mine # {} THEN trees[1].refs[Min(mine)].at
        ELSE [page |-> (v - MaxKey) \div WIDTH, slot |-> (v - MaxKey) % WIDTH]
References == Keys \cup (MaxKey + 1)..(MaxKey + WIDTH * (Len(pages) + 1))

InIndex(p) == p > trees[1].last
Without(s, i) == SubSeq(s, 1, i - 1) \o SubSeq(s, i + 1, Len(s))
Rewritten(page, entries) == [page EXCEPT !.entries = entries, !.slots = Slots(entries)]

DamagedPages(p) ==
    LET page == pages[p]
        n == DOMAIN page.entries
        Blobs == {i \in n : page.entries[i].blob # None}
        Refs == IF InIndex(p) THEN {i \in n : page.entries[i].val # None} ELSE {}
    IN  {[page EXCEPT !.left = q] : q \in Ordinals} \cup {[page EXCEPT !.right = q] : q \in Ordinals}
        \cup {[page EXCEPT !.leaf = ~@], [page EXCEPT !.readable = FALSE]}
        \cup {Rewritten(page, Without(page.entries, i)) : i \in n}
        \cup {Rewritten(page, [page.entries EXCEPT ![i] = Entry(k, @.val, @.blob, @.child)]) : i \in n, k \in Keys}
        \cup {[page EXCEPT !.slots[i] = d] : i \in DOMAIN page.slots, d \in Keys}
        \cup {[page EXCEPT !.entries[i].child = q] : i \in IF page.leaf THEN {} ELSE n, q \in Ordinals \ {0}}
        \cup {[page EXCEPT !.entries[i].blob = q] : i \in Blobs, q \in Ordinals \ {0}}
        \cup {[page EXCEPT !.entries[i].val = v] : i \in Refs, v \in References}

Damage ==
    /\ stage = "closed" /\ damage < file.damage
    /\ damage' = damage + 1
    /\ \/ /\ \E p \in DOMAIN pages : \E damaged \in DamagedPages(p) \ {pages[p]} :
                pages' = [pages EXCEPT ![p] = damaged]
          /\ UNCHANGED trees
       \/ /\ \E t \in DOMAIN trees, p \in 0..Len(pages) :
                p # trees[t].root /\ trees' = [trees EXCEPT ![t].root = p]
          /\ UNCHANGED pages
    /\ UNCHANGED <<config, layout, levels, frames, row, rows, pending, refs, root, pc,
                   file, request, report, overflow, walk, result, stage>>

-----------------------------------------------------------------------------
\* Reporter.  What an operation may leave is the set of its outcomes.

full(r) == r.failed \/ r.problems >= request.max_problems

Unkept(r) == [r EXCEPT !.truncated = TRUE, !.missed = TRUE]

\* The room for a problem is reserved first, and may not be there.
problem(r) ==
    IF full(r) THEN {Unkept(r)} ELSE {[r EXCEPT !.problems = @ + 1], Unkept(r)}

\* A load that ran out of budget, or could not be read, stops the pass.
Stopped(r) == [r EXCEPT !.failed = TRUE]

Noted(r, wrong) == IF wrong THEN problem(r) ELSE {r}
NotedBoth(r, one, other) == UNION {Noted(s, other) : s \in Noted(r, one)}

\* walk_page, and the loads of the checks.
walk_page(p, r) ==
    IF Readable(p) THEN {[got |-> TRUE, report |-> r], [got |-> FALSE, report |-> Stopped(r)]}
    ELSE {[got |-> FALSE, report |-> s] : s \in problem(r)}

Return(value) == stage' = "done" /\ result' = value

kept == <<writerVars, file, trees, damage, request>>

Go(where, r, w) ==
    stage' = where /\ report' = r /\ walk' = w /\ UNCHANGED <<kept, overflow, result>>

-----------------------------------------------------------------------------
\* Database::verify up to the trees.

verify(options) ==
    /\ stage = "closed"
    /\ request' = options
    /\ IF ~options.check_pages /\ ~options.check_trees THEN Return("Err")
       ELSE stage' = (IF options.check_pages THEN "sweep" ELSE "tree") /\ result' = result
    /\ UNCHANGED <<writerVars, file, trees, damage, report, overflow, walk>>

SweepPage ==
    /\ stage = "sweep" /\ walk.page <= Len(pages) /\ ~full(report)
    /\ \E o \in walk_page(walk.page, report) : Go("sweep", o.report, [walk EXCEPT !.page = @ + 1])

EndSweep ==
    /\ stage = "sweep" /\ (walk.page > Len(pages) \/ full(report))
    /\ LET cut == walk.page <= Len(pages) /\ ~report.failed
       IN  /\ report' = [report EXCEPT !.truncated = @ \/ cut]
           /\ IF report.failed THEN Return("Err")
              ELSE IF cut THEN Return("Ok")
              ELSE stage' = "tree" /\ result' = result
    /\ UNCHANGED <<kept, overflow, walk>>

\* The next tree, if trees are to be checked; a table with an index has its overflow
\* pages remembered, which takes room that may not be there.
BeginTree ==
    /\ stage = "tree"
    /\ LET t == walk.tree + 1
           begun == [NoWalk EXCEPT !.tree = t, !.start = trees[t].root, !.is_root = TRUE,
                                   !.levels_left = max_tree_depth, !.steps_left = Len(pages) + 1]
       IN  IF ~request.check_trees \/ t > Len(trees) THEN Return("Ok") /\ UNCHANGED <<report, walk>>
           ELSE \/ t = 1 /\ file.indexed /\ Return("Err") /\ UNCHANGED <<report, walk>>
                \/ /\ stage' = IF trees[t].root = None THEN "checked" ELSE "level"
                   /\ walk' = begun /\ UNCHANGED <<report, result>>
    /\ UNCHANGED <<kept, overflow>>

-----------------------------------------------------------------------------
\* verify_internal_levels.

\* Mutation: the pages of a chain are not counted.
Entering_uncounted(w) == [w EXCEPT !.entry = 1]

\* At the first entry of the page, one page further along the chain.
Entering(w) == [w EXCEPT !.steps_left = @ - 1, !.entry = 1]

\* One page tells whether the level is the leaves'.
BeginLevel ==
    /\ stage = "level"
    /\ IF full(report) THEN Go("checked", report, walk)
       ELSE \E o \in walk_page(walk.start, report) :
              LET page == pages[walk.start]
                  beside == walk.is_root /\ (page.left # None \/ page.right # None)
                  deep == walk.levels_left = 0
                  begun == [walk EXCEPT !.page = walk.start, !.left = None, !.previous = None, !.is_root = FALSE]
              IN  IF ~o.got THEN Go("checked", o.report, walk)
                  ELSE \E r \in NotedBoth(o.report, beside, deep) :
                         IF deep THEN Go("checked", r, walk)
                         ELSE IF page.leaf THEN Go("leaf", r, [begun EXCEPT !.steps_left = Len(pages) + 1])
                         ELSE Go("internal", r,
                                 [begun EXCEPT !.levels_left = @ - 1, !.first_child = None,
                                               !.lower = [NoChain EXCEPT !.steps_left = Len(pages) + 1]])

InternalPage ==
    /\ stage = "internal"
    /\ LET p == walk.page
           unnamed == ~walk.lower.broken /\ walk.lower.current # None
       IN  IF p = None
             THEN \E r \in Noted(report, unnamed) : Go("level", r, [walk EXCEPT !.start = walk.first_child])
           ELSE IF full(report) THEN Go("checked", report, walk)
           ELSE IF walk.steps_left = 0 THEN \E r \in problem(report) : Go("checked", r, walk)
           ELSE \E o \in walk_page(p, report) :
                  IF ~o.got THEN Go("checked", o.report, walk)
                  ELSE IF pages[p].leaf \/ Count(p) = 0 THEN \E r \in problem(o.report) : Go("checked", r, walk)
                  ELSE \E r \in NotedBoth(o.report, pages[p].left # walk.left, ~check_digests(p)) :
                         Go("child", r, Entering(walk))

\* Mutation: the page numbers are enough.
check_separator_unread(child, separator) == Count(child) > 0

check_separator(child, separator) == Count(child) > 0 /\ KeyAt(child, 1) = separator

\* LowerChain::expect: the chain below must go on at this child.
expect(lower, child, separator, r) ==
    LET current == IF lower.started THEN lower.current ELSE child
        broken == [lower EXCEPT !.started = TRUE, !.broken = TRUE]
        next == [lower EXCEPT !.started = TRUE, !.steps_left = @ - 1, !.current = pages[child].right]
    IN  IF lower.broken THEN {[lower |-> lower, report |-> r]}
        ELSE IF current # child \/ lower.steps_left = 0 THEN {[lower |-> broken, report |-> s] : s \in problem(r)}
        ELSE UNION {IF ~o.got THEN {[lower |-> broken, report |-> o.report]}
                    ELSE {[lower |-> next, report |-> s] : s \in Noted(o.report, ~check_separator(child, separator))} :
                        o \in walk_page(child, r)}

InternalEntry ==
    /\ stage = "child"
    /\ LET p == walk.page
           i == walk.entry
           child == pages[p].entries[i].child
           outside == child \notin DOMAIN pages \/ child = p
           disorder == ~layout.omitted_keys /\ walk.previous # None /\ walk.previous >= KeyAt(p, i)
       IN  IF i > Count(p) THEN Go("internal", report, [walk EXCEPT !.left = p, !.page = pages[p].right])
           ELSE IF full(report) THEN Go("checked", report, walk)
           ELSE \E o \in IF outside THEN {[lower |-> walk.lower, report |-> s] : s \in problem(report)}
                         ELSE expect(walk.lower, child, KeyAt(p, i), report) :
                  \E r \in Noted(o.report, disorder) :
                     Go("child", r, [walk EXCEPT !.entry = @ + 1, !.lower = o.lower, !.previous = KeyAt(p, i),
                                                 !.first_child = IF @ = None THEN child ELSE @])

-----------------------------------------------------------------------------
\* verify_tree, along the leaves.

Leaf ==
    /\ stage = "leaf"
    /\ \E o \in walk_page(walk.page, report) :
          LET p == walk.page
              lost == walk.steps_left = 0 \/ ~pages[p].leaf
          IN  IF ~o.got \/ full(o.report) THEN Go("checked", o.report, walk)
              ELSE IF lost THEN \E r \in problem(o.report) : Go("checked", r, walk)
              ELSE \E r \in NotedBoth(o.report, pages[p].left # walk.left, ~check_digests(p)) :
                     Go("entry", r, Entering(walk))

check_overflow_value(q, r) ==
    IF q \notin DOMAIN pages THEN problem(r)
    ELSE UNION {IF ~o.got THEN {o.report} ELSE Noted(o.report, ~(pages[q].leaf /\ Count(q) = 0)) :
                    o \in walk_page(q, r)}

\* Whether a place on a page is the value of a row of the table.
is_value(at) ==
    LET p == at.page
    IN  IF Count(p) = 0 THEN p \in overflow /\ at.slot = None
        ELSE /\ pages[p].leaf /\ at.slot \in 1..Count(p) /\ pages[p].entries[at.slot].blob = None
             /\ find(trees[1].root, KeyAt(p, at.slot)) = [page |-> p, index |-> at.slot]

\* v: the value of an index entry, from this page.  The bytes of a row are no reference.
parses(v, from) == InIndex(from) /\ v # None

check_page_ref(v, from, r) ==
    IF ~parses(v, from) THEN problem(r)
    ELSE UNION {IF ~o.got THEN {o.report} ELSE {Stopped(o.report)} \cup Noted(o.report, ~is_value(ParseRef(v))) :
                    o \in walk_page(ParseRef(v).page, r)}

\* The checks of the value of a leaf's entry.
check_value(p, i, r) ==
    LET e == pages[p].entries[i]
        index == walk.tree = 2
    IN  IF e.blob = None THEN IF index THEN check_page_ref(e.val, p, r) ELSE {r}
        ELSE UNION {IF ~index THEN {s}
                    ELSE UNION {IF ~o.got THEN {o.report} ELSE check_page_ref(pages[e.blob].val, e.blob, o.report) :
                                    o \in walk_page(e.blob, s)} :
                        s \in check_overflow_value(e.blob, r)}

\* Mutation: two entries are never equal.
disordered_if_equal(before, key) == before # None /\ before >= key

disordered(before, key) ==
    before # None /\ (before > key \/ (before = key /\ ~separators_are_inexact))

LeafEntry ==
    /\ stage = "entry"
    /\ LET p == walk.page
           i == walk.entry
           blob == pages[p].entries[i].blob
           next == [walk EXCEPT !.entry = @ + 1, !.previous = KeyAt(p, i)]
       IN  IF i > Count(p)
             THEN IF pages[p].right = None THEN Go("checked", report, walk)
                  ELSE Go("leaf", report, [walk EXCEPT !.left = p, !.page = pages[p].right])
           ELSE IF full(report) THEN Go("checked", report, walk)
           ELSE /\ \E s \in check_value(p, i, report) : \E r \in Noted(s, disordered(walk.previous, KeyAt(p, i))) :
                      report' = r
                /\ overflow' = IF walk.tree = 1 /\ file.indexed /\ blob # None THEN overflow \cup {blob} ELSE overflow
                /\ walk' = next /\ UNCHANGED <<kept, stage, result>>

\* The room for a copy of the key is not there.
KeyRefused ==
    /\ stage \in {"child", "entry"} /\ walk.entry <= Count(walk.page) /\ ~full(report)
    /\ stage = "child" => ~layout.omitted_keys
    /\ Return("Err")
    /\ UNCHANGED <<kept, report, overflow, walk>>

-----------------------------------------------------------------------------
\* verify_index after its walk, and verify after each tree.

\* A scan of the index through its cursor: how far it came, and whether it got there.
Scanned ==
    LET r == trees[2].root
        value(e) == IF e.blob = None THEN e.val ELSE pages[e.blob].val
        resolves(p, i) ==
            LET e == pages[p].entries[i]
            IN  /\ e.blob # None => Readable(e.blob)
                /\ parses(value(e), IF e.blob = None THEN p ELSE e.blob) /\ Readable(ParseRef(value(e)).page)
        along[p \in Nat, steps_left \in Nat, count \in Nat] ==
            LET bad == {i \in 1..Count(p) : ~resolves(p, i)}
                right == pages[p].right
                all == count + Count(p)
            IN  IF bad # {} THEN [count |-> count + Min(bad) - 1, failed |-> TRUE]
                ELSE IF right = None THEN [count |-> all, failed |-> ~ends_at(r, p, TRUE)]
                ELSE IF steps_left = 0 \/ ~step_sibling(p, right, TRUE) THEN [count |-> all, failed |-> TRUE]
                ELSE along[right, steps_left - 1, all]
        first == min_leaf(r)
    IN  IF first.page = None THEN [count |-> 0, failed |-> first = Corrupt]
        ELSE along[first.page, Len(pages) + 1, 0]

Counted == count_range(trees[2].root, Unbounded, Unbounded)

\* A bound, a page of the scan or a page of the count may find no room.
ScanIndex ==
    /\ stage = "scan"
    /\ \/ Return("Err") /\ UNCHANGED <<kept, report, overflow, walk>>
       \/ Go("scanned", Stopped(report), walk)
       \/ \E r \in NotedBoth(report, Scanned.failed, Counted # Scanned.count) : Go("scanned", r, walk)

\* Mutation: what stopped the walk of a tree is left for the caller to find in the report.
TreeChecked_unstopped ==
    /\ stage \in {"checked", "scanned"}
    /\ IF stage = "checked" /\ walk.tree = 2 /\ ~full(report) THEN Go("scan", report, walk)
       ELSE IF report.problems >= request.max_problems
         THEN report' = [report EXCEPT !.truncated = TRUE] /\ Return("Ok") /\ UNCHANGED <<kept, overflow, walk>>
       ELSE Go("tree", report, walk)

TreeChecked ==
    /\ stage \in {"checked", "scanned"}
    /\ IF report.failed THEN Return("Err") /\ UNCHANGED <<kept, report, overflow, walk>>
       ELSE IF stage = "checked" /\ walk.tree = 2 /\ ~full(report) THEN Go("scan", report, walk)
       ELSE IF report.problems >= request.max_problems
         THEN report' = [report EXCEPT !.truncated = TRUE] /\ Return("Ok") /\ UNCHANGED <<kept, overflow, walk>>
       ELSE Go("tree", report, walk)

Pass ==
    \/ SweepPage \/ EndSweep \/ BeginTree \/ BeginLevel \/ InternalPage \/ InternalEntry
    \/ Leaf \/ LeafEntry \/ KeyRefused \/ ScanIndex \/ TreeChecked

Next == Write \/ NextTree \/ Damage \/ (\E options \in Requests : verify(options)) \/ Pass

\* The pass is one call, which runs until it returns.
Spec == VerifyInit /\ [][Next]_allVars /\ WF_allVars(Pass)

-----------------------------------------------------------------------------

is_ok == result = "Ok" /\ report.problems = 0 /\ ~report.truncated

\* The positions a scan gives, from the first leaf right or from the last one left.
Positions(r, ascending) ==
    LET T(p) == IF ascending THEN [i \in 1..Count(p) |-> [page |-> p, index |-> i]]
                ELSE [i \in 1..Count(p) |-> [page |-> p, index |-> Count(p) + 1 - i]]
        along[p \in Nat, steps_left \in Nat] ==
            LET next == IF ascending THEN pages[p].right ELSE pages[p].left
            IN  T(p) \o (IF next = None \/ steps_left = 0 \/ ~step_sibling(p, next, ascending) THEN <<>>
                         ELSE along[next, steps_left - 1])
        first == edge_leaf(r, ascending)
    IN  IF first.page = None THEN <<>> ELSE along[first.page, Len(pages)]

Consistent(r) ==
    LET rowsUp == Positions(r, TRUE)
        keys == {KeyAt(rowsUp[i].page, rowsUp[i].index) : i \in DOMAIN rowsUp}
    IN  /\ LET down == Positions(r, FALSE)
           IN  down = [i \in DOMAIN rowsUp |-> rowsUp[Len(rowsUp) + 1 - i]]
        /\ \A k \in Keys :
              LET found == find(r, k)
              IN  IF Probe(k) \in keys
                    THEN found.page # None /\ KeyAt(found.page, found.index) = Probe(k)
                    ELSE found = NoEntry
        /\ count_range(r, Unbounded, Unbounded) = Len(rowsUp)
        /\ \A i \in DOMAIN rowsUp :
              LET blob == pages[rowsUp[i].page].entries[rowsUp[i].index].blob
              IN  blob # None => Readable(blob) /\ pages[blob].leaf /\ Count(blob) = 0

\* Where the values of a table are.
ValuePlaces(r) ==
    {LET e == pages[at.page].entries[at.index]
     IN  IF e.blob = None THEN [page |-> at.page, slot |-> at.index] ELSE [page |-> e.blob, slot |-> None] :
        at \in Range(Positions(r, TRUE))}

(***************************************************************************)
(* A file that a pass over the trees finds nothing wrong with answers the  *)
(* same whichever way it is asked: scans up and down give the same rows, a *)
(* lookup finds exactly those, the count is theirs and no search calls the *)
(* file corrupt; and an index entry leads to the value of a row.           *)
(***************************************************************************)
CleanMeansConsistent ==
    is_ok /\ request.check_trees =>
        /\ \A t \in DOMAIN trees : Consistent(trees[t].root)
        /\ file.indexed => \A at \in Range(Positions(trees[2].root, TRUE)) :
              LET e == pages[at.page].entries[at.index]
              IN  ParseRef(IF e.blob = None THEN e.val ELSE pages[e.blob].val) \in ValuePlaces(trees[1].root)

(***************************************************************************)
(* What the builder wrote and nothing damaged is never found fault with,   *)
(* whatever the layout of its pages, the C# builder's included; and unless *)
(* not one problem was asked for, the pass looks at all of it.             *)
(***************************************************************************)
SoundFilesPass == damage = 0 => report.problems = 0 /\ (report.truncated => request.max_problems = 0)

(***************************************************************************)
(* A pass that could not read a page or find room for it returns an error  *)
(* and no report, however much it looked at besides; a problem found and   *)
(* not kept, for the limit or for want of room, leaves the report marked   *)
(* as cut short; and a report holds no more problems than were asked for.  *)
(***************************************************************************)
NothingGoesUnsaid ==
    /\ result = "Ok" => ~report.failed /\ (report.missed => report.truncated)
    /\ report.problems <= request.max_problems

(***************************************************************************)
(* A pass ends, whatever the damage: also where children and siblings lead *)
(* round in a circle.                                                      *)
(***************************************************************************)
PassEnds == request # NoRequest ~> result # "none"
=============================================================================
