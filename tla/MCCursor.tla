------------------------------ MODULE MCCursor ------------------------------
(* Small instances of the tree writer, its reader and a cursor. *)
EXTENDS Cursor

Plain == [page_size |-> 72, eytzinger |-> FALSE, exact |-> FALSE, allow_omitted |-> TRUE,
          key_len |-> 1, extra_budget |-> 100, table |-> TRUE, upstream |-> FALSE,
          values |-> {1, 20, 65535}, room |-> 100]

\* Two separators and three small rows to a page, where keys may share a digest; the
\* same with the last key's digest the sentinel of an Eytzinger page; with no keys on the
\* page; with the metadata of large pages, where a value can reach the overflow sentinel.
Eytzinger == [Plain EXCEPT !.page_size = 84, !.eytzinger = TRUE, !.exact = TRUE]
Omitted == [Plain EXCEPT !.page_size = 60, !.exact = TRUE, !.key_len = 8]
Classic == [Plain EXCEPT !.page_size = 100000, !.key_len = 30000]

\* A leaf written early for the index keys it holds up; the rows of an index the C#
\* builder wrote; keys too long for the page.
Hurried == [Plain EXCEPT !.page_size = 72, !.extra_budget = 1]
Upstream == [Plain EXCEPT !.page_size = 60, !.key_len = 12, !.table = FALSE, !.upstream = TRUE]
Tight == [Plain EXCEPT !.page_size = 60]

\* An index whose keys fit a page once and not twice, which nothing refuses beforehand.
Narrow == [Tight EXCEPT !.key_len = 5, !.table = FALSE]

\* Values about as long as an i32 tells, in a file that runs out of page numbers.
Long == [Plain EXCEPT !.values = {1, MAX_I32 - 10, MAX_I32 + 1}, !.room = 4]

AllConfigs == {Plain, Eytzinger, Omitted, Classic, Hurried, Upstream, Tight, Narrow, Long}
=============================================================================
