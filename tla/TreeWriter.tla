----------------------------- MODULE TreeWriter -----------------------------
(***************************************************************************)
(* The bottom-up B+Tree writer (builder/tree.rs).                          *)
(*                                                                         *)
(* Rows arrive in key order and are packed into the leaf; a page that has  *)
(* no room for the next entry is written, linked to the page before it and *)
(* named in its parent by its first key, which may in turn be full.  The   *)
(* recursive calls of rotate are the frames of a stack, so that each page  *)
(* written is a step.  Lengths are in bytes and the packing arithmetic is  *)
(* the code's; what a page holds is its entries.                           *)
(*                                                                         *)
(* A page is named by its place in the file, counted from one; None is the *)
(* -1 of a missing sibling.                                                *)
(***************************************************************************)
EXTENDS Naturals, Sequences, FiniteSetsExt

CONSTANTS
    Configs,    \* the settings a tree may be built with (see ConfigType)
    MaxKey,     \* the keys are 1..MaxKey, in the order of their encoding
    MAX_LEVELS, \* deepest tree the writer will build
    MAX_I32     \* i32::MAX

VARIABLES
    config,     \* the settings of this build
    layout,     \* the NodeLayout of its pages
    levels,     \* one page in the making per level, the leaf first
    pages,      \* the pages written
    frames,     \* the calls of rotate under way, the outermost first
    row,        \* the row being pushed
    rows,       \* the keys of the rows pushed
    pending,    \* bytes of the extras waiting for the leaf
    refs,       \* what on_value_ref was told: where each row landed
    root,       \* the root page, once finish has returned
    pc

writerVars == <<config, layout, levels, pages, frames, row, rows, pending, refs, root, pc>>

None == 0
Keys == 1..MaxKey

PAGE_PREFIX_LEN == 28
MAX_COMPACT_PAGE_SIZE == 32767
OVERFLOW_SENTINEL == 65535
ORDINAL_LEN == 8
EXTRA_BYTES == 1

\* exact: the encoding's digest tells any two keys apart.  table: the rows went through
\* append, which checks their keys; those of an index do not.  upstream: the file is the
\* C# builder's, which the reader accepts too.  key_len: of every key.  values: the lengths
\* the values may have.  room: the pages the file's directory still takes, MAX_I32 less
\* those of the trees before this one.
ConfigType == [page_size : Nat, eytzinger : BOOLEAN, exact : BOOLEAN, allow_omitted : BOOLEAN,
               key_len : Nat, extra_budget : Nat, table : BOOLEAN, upstream : BOOLEAN,
               values : SUBSET Nat, room : Nat]

ASSUME ConfigAssumption ==
    \A c \in Configs : /\ c \in ConfigType /\ c.key_len <= 65535
                      /\ c.page_size >= PAGE_PREFIX_LEN + 32 /\ c.page_size <= MAX_I32
ASSUME SizeAssumption == MaxKey \in Nat /\ MAX_LEVELS \in Nat \ {0} /\ MAX_I32 \in Nat

\* The order-preserving digest: the key itself, or what two keys share.
digest(k) == IF config.exact THEN k ELSE (k + 1) \div 2

\* u64::MAX, which the digest of the last key reaches.
MaxDigest == MaxKey

-----------------------------------------------------------------------------
\* NodeLayout and the sizes of a page's areas.

choose_layout(c) ==
    LET compact == c.page_size <= MAX_COMPACT_PAGE_SIZE
    IN  [eytzinger |-> c.eytzinger, compact_meta |-> compact,
         omitted_keys |-> c.allow_omitted /\ compact /\ ~c.eytzinger /\ c.exact]

\* The C# builder also omits the keys of an index whose rows share digests.
LayoutOf(c) ==
    [choose_layout(c) EXCEPT !.omitted_keys = @ \/ c.upstream]

power_of_two[k \in Nat] == IF k = 0 THEN 1 ELSE 2 * power_of_two[k - 1]

complete_size(n) == Min({power_of_two[k] - 1 : k \in 0..n} \cap n..(2 * n))

digest_area(n) == 8 * (IF layout.eytzinger THEN complete_size(n) ELSE n)

leaf_meta(n) ==
    IF layout.compact_meta THEN 2 * (n + 1 + (IF layout.omitted_keys THEN 0 ELSE n)) ELSE 8 * n

internal_meta(n) ==
    IF ~layout.compact_meta THEN 6 * n ELSE IF layout.omitted_keys THEN 0 ELSE 2 * (n + 1)

stored_key_len == IF layout.omitted_keys THEN 0 ELSE config.key_len

page_len(l, n, payload) ==
    PAGE_PREFIX_LEN + digest_area(n) + (IF l = 1 THEN leaf_meta(n) ELSE internal_meta(n)) + payload

\* The length of a page of level l once an entry is added to lv, the page in the making.
needs(l, lv, payload_len) ==
    page_len(l, Len(lv.entries) + 1, lv.payload + stored_key_len + payload_len)

inline_needs(value_len) == needs(1, levels[1], value_len)
internal_needs(lv) == needs(2, lv, ORDINAL_LEN)

\* Mutation: only the leaf is thought of.
check_leaf_fits == page_len(1, 1, stored_key_len + ORDINAL_LEN) <= config.page_size

check_key_fits ==
    /\ page_len(1, 1, stored_key_len + ORDINAL_LEN) <= config.page_size
    /\ page_len(2, 2, 2 * (stored_key_len + ORDINAL_LEN)) <= config.page_size

-----------------------------------------------------------------------------
\* Levels, entries and pages.

NoRow == [key |-> None, len |-> 0]
NewLevel == [entries |-> <<>>, payload |-> 0, first |-> None, prev |-> None, extras |-> <<>>]

\* An entry on a page: its key unless the page omits keys, its digest, and the value,
\* the blob page or the child it leads to.
Entry(k, val, blob, child) ==
    [key |-> IF layout.omitted_keys THEN None ELSE k, digest |-> digest(k),
     val |-> val, blob |-> blob, child |-> child]

Page(leaf, entries, slots, left, val) ==
    [leaf |-> leaf, entries |-> entries, slots |-> slots, left |-> left, right |-> None, val |-> val,
     readable |-> TRUE]

\* The length of a blob page is cast to an i32: one that wraps cannot be read back.
BlobPage(k, len) ==
    [Page(TRUE, <<>>, <<>>, None, k) EXCEPT !.readable = PAGE_PREFIX_LEN + len <= MAX_I32]

reset(lv, page) == [NewLevel EXCEPT !.prev = page]

Named(lv, k) == IF lv.entries = <<>> THEN [lv EXCEPT !.first = k] ELSE lv

With(lv, k, entry, payload_len) ==
    [Named(lv, k) EXCEPT !.entries = Append(@, entry), !.payload = @ + stored_key_len + payload_len]

\* A row's extras wait with it, in the leaf.
WithRow(lv, k, entry, payload_len) == [With(lv, k, entry, payload_len) EXCEPT !.extras = Append(@, k)]

\* The nodes of the complete tree of n slots below a node, in order.
InOrder(n) ==
    LET below[node \in Nat] ==
            IF node > n THEN <<>> ELSE below[2 * node] \o <<node>> \o below[2 * node + 1]
    IN  below[1]

scatter_eytzinger(sorted) ==
    LET n == complete_size(Len(sorted))
        nodes == InOrder(n)
    IN  [node \in 1..n |->
            LET rank == CHOOSE r \in 1..n : nodes[r] = node
            IN  IF rank <= Len(sorted) THEN sorted[rank] ELSE MaxDigest]

Slots(entries) ==
    LET sorted == [i \in DOMAIN entries |-> entries[i].digest]
    IN  IF layout.eytzinger THEN scatter_eytzinger(sorted) ELSE sorted

-----------------------------------------------------------------------------
\* TreeWriter::push and TreeWriter::rotate.

Rotate(l, promote, then) == [level |-> l, page |-> None, asked |-> FALSE, promote |-> promote, then |-> then]

innermost == frames[Len(frames)]

Init ==
    /\ config \in Configs /\ layout = LayoutOf(config)
    /\ levels = <<NewLevel>>
    /\ pages = <<>> /\ frames = <<>> /\ refs = <<>>
    /\ row = NoRow /\ rows = {} /\ pending = 0
    /\ root = None /\ pc = "ready"

Push(k, len) ==
    /\ pc = "ready"
    /\ \A r \in rows : r < k
    /\ config.table => check_key_fits
    /\ row' = [key |-> k, len |-> len]
    /\ LET minimum == page_len(1, 1, stored_key_len + ORDINAL_LEN)
           full == /\ inline_needs(len) > config.page_size
                   /\ inline_needs(ORDINAL_LEN) > config.page_size
                   /\ levels[1].entries # <<>>
       IN  /\ pc' = IF len > MAX_I32 \/ minimum > config.page_size THEN "failed"
                    ELSE IF full THEN "rotate" ELSE "add"
           /\ frames' = IF pc' = "rotate" THEN <<Rotate(1, TRUE, "add")>> ELSE <<>>
    /\ UNCHANGED <<config, layout, levels, pages, rows, pending, refs, root>>

extras_over(bytes) == bytes > config.extra_budget

\* The directory takes another page.
HasRoom == Len(pages) < config.room

\* The value has to go on a page of its own.
overflows == inline_needs(row.len) > config.page_size \/ row.len >= OVERFLOW_SENTINEL

\* The rest of push: the value goes inline, or on a page of its own when it does not fit
\* beside what the leaf already holds.
AddEntry ==
    /\ pc = "add"
    /\ overflows => HasRoom
    /\ LET k == row.key
           blob == IF overflows THEN Len(pages) + 1 ELSE None
           entry == Entry(k, IF overflows THEN None ELSE k, blob, None)
           payload_len == IF overflows THEN ORDINAL_LEN ELSE row.len
       IN  /\ pages' = IF overflows THEN Append(pages, BlobPage(k, row.len)) ELSE pages
           /\ levels' = [levels EXCEPT ![1] = WithRow(@, k, entry, payload_len)]
           /\ rows' = rows \cup {k}
    /\ pending' = pending + EXTRA_BYTES
    /\ pc' = IF extras_over(pending') THEN "rotate" ELSE "ready"
    /\ frames' = IF pc' = "rotate" THEN <<Rotate(1, TRUE, "ready")>> ELSE <<>>
    /\ row' = NoRow
    /\ UNCHANGED <<config, layout, refs, root>>

\* Where the value of the leaf's i-th entry is.
value_ref(lv, page, i) ==
    LET blob == lv.entries[i].blob
    IN  IF blob = None THEN [page |-> page, slot |-> i] ELSE [page |-> blob, slot |-> None]

\* begin_page and flush_page, and the link from the page before.  The rows of a leaf
\* learn where they are.
FlushPage ==
    /\ pc = "rotate" /\ innermost.page = None
    /\ HasRoom
    /\ LET l == innermost.level
           lv == levels[l]
           page == Len(pages) + 1
           linked == IF lv.prev = None THEN pages ELSE [pages EXCEPT ![lv.prev].right = page]
       IN  IF page_len(l, Len(lv.entries), lv.payload) > config.page_size
             THEN pc' = "failed" /\ UNCHANGED <<levels, pages, frames, pending, refs, root>>
             ELSE /\ pages' = Append(linked, Page(l = 1, lv.entries, Slots(lv.entries), lv.prev, None))
                  /\ refs' = refs \o [i \in DOMAIN lv.extras |-> [key |-> lv.extras[i], at |-> value_ref(lv, page, i)]]
                  /\ pending' = IF l = 1 THEN 0 ELSE pending
                  /\ IF innermost.promote
                       THEN /\ frames' = [frames EXCEPT ![Len(frames)].page = page]
                            /\ levels' = [levels EXCEPT ![l].extras = <<>>]
                            /\ UNCHANGED <<root, pc>>
                       ELSE /\ levels' = [levels EXCEPT ![l] = reset(@, page)]
                            /\ frames' = <<>> /\ root' = page /\ pc' = "built"
    /\ UNCHANGED <<config, layout, row, rows>>

\* begin_page, for a value or for a level: the directory is full.
RefusePage ==
    /\ \/ pc = "add" /\ overflows
       \/ pc = "rotate" /\ innermost.page = None
    /\ ~HasRoom
    /\ pc' = "failed"
    /\ UNCHANGED <<config, layout, levels, pages, frames, row, rows, pending, refs, root>>

\* The page's first key goes into the parent, once a parent without room for it has been
\* written too.
Promote ==
    /\ pc = "rotate" /\ innermost.page # None
    /\ LET frame == innermost
           l == frame.level
           separator == levels[l].first
           grown == IF l = Len(levels) THEN Append(levels, NewLevel) ELSE levels
           parent == Named(grown[l + 1], separator)
           full == ~frame.asked /\ internal_needs(parent) > config.page_size
           entry == Entry(separator, None, None, frame.page)
       IN  IF l = Len(levels) /\ Len(levels) >= MAX_LEVELS
             THEN pc' = "failed" /\ UNCHANGED <<levels, frames>>
           ELSE IF full
             THEN /\ frames' = Append([frames EXCEPT ![Len(frames)].asked = TRUE], Rotate(l + 1, TRUE, frame.then))
                  /\ levels' = [grown EXCEPT ![l + 1] = parent]
                  /\ UNCHANGED pc
           ELSE /\ levels' = [grown EXCEPT ![l + 1] = With(@, separator, entry, ORDINAL_LEN),
                                           ![l] = reset(@, frame.page)]
                /\ frames' = SubSeq(frames, 1, Len(frames) - 1)
                /\ pc' = IF frames' = <<>> THEN frame.then ELSE pc
    /\ UNCHANGED <<config, layout, pages, row, rows, pending, refs, root>>

-----------------------------------------------------------------------------
\* TreeWriter::finish writes what is left of each level, the lowest first, and then the top.

Finish ==
    /\ pc = "ready"
    /\ pc' = "finish"
    /\ UNCHANGED <<config, layout, levels, pages, frames, row, rows, pending, refs, root>>

FinishLevel ==
    /\ pc = "finish"
    /\ LET left == {l \in 1..(Len(levels) - 1) : levels[l].entries # <<>>}
           top == levels[Len(levels)]
           rotated == IF left # {} THEN Rotate(Min(left), TRUE, "finish")
                                   ELSE Rotate(Len(levels), FALSE, "built")
       IN  IF left # {} \/ top.entries # <<>> \/ top.prev = None
             THEN frames' = <<rotated>> /\ pc' = "rotate" /\ root' = root
             ELSE frames' = <<>> /\ pc' = "built" /\ root' = top.prev
    /\ UNCHANGED <<config, layout, levels, pages, row, rows, pending, refs>>

WriterNext ==
    \/ \E k \in Keys, len \in config.values : Push(k, len)
    \/ AddEntry \/ FlushPage \/ RefusePage \/ Promote \/ Finish \/ FinishLevel

WriterSpec == Init /\ [][WriterNext]_writerVars

-----------------------------------------------------------------------------

(***************************************************************************)
(* Rows that append accepted can be written: no key is too long for the    *)
(* pages it has to go on, no page outgrows the page size and no level of   *)
(* separators fails to shrink.  What append does not look at, and push     *)
(* refuses, is a value longer than an i32 tells; and the file may run out  *)
(* of page numbers.                                                        *)
(***************************************************************************)
AcceptedRowsAreBuilt ==
    config.table /\ pc = "failed" => row.len > MAX_I32 \/ ~HasRoom

=============================================================================
