------------------------------ MODULE MCVerify ------------------------------
(* Small files, with every way to damage a field of them. *)
EXTENDS Verify

Plain == [page_size |-> 72, eytzinger |-> FALSE, exact |-> FALSE, allow_omitted |-> TRUE,
          key_len |-> 1, extra_budget |-> 100, table |-> TRUE, upstream |-> FALSE,
          values |-> {8, 16, 20}, room |-> 100]
Eytzinger == [Plain EXCEPT !.page_size = 84, !.eytzinger = TRUE, !.exact = TRUE]
Omitted == [Plain EXCEPT !.page_size = 60, !.exact = TRUE, !.key_len = 8]
Upstream == [Plain EXCEPT !.page_size = 60, !.key_len = 12, !.table = FALSE, !.upstream = TRUE]
AllConfigs == {Plain, Eytzinger, Omitted, Upstream}

Row(k, len) == [key |-> k, len |-> len]
File(c, rs, indexed) == [config |-> c, rows |-> rs, indexed |-> indexed, damage |-> 1]

\* A table with a value on a page of its own, and its index; a tree of three levels; the
\* keys left off the page; the rows of an index the C# builder wrote, which share digests.
AllFiles ==
    {File(Plain, <<Row(1, 8), Row(2, 20), Row(3, 8)>>, TRUE),
     File(Plain, <<Row(1, 8), Row(2, 8), Row(3, 8), Row(4, 8), Row(5, 8)>>, FALSE),
     File(Eytzinger, <<Row(1, 8), Row(3, 8), Row(4, 8)>>, FALSE),
     File(Omitted, <<Row(2, 8), Row(4, 8)>>, TRUE),
     File(Upstream, <<Row(1, 8), Row(2, 8), Row(3, 8)>>, FALSE),
     File(Plain, <<>>, TRUE),
     [File(Plain, <<Row(1, 8), Row(3, 8), Row(4, 8)>>, FALSE) EXCEPT !.damage = 2]}

AllRequests == {[check_pages |-> TRUE, check_trees |-> TRUE, max_problems |-> 2],
                [check_pages |-> FALSE, check_trees |-> TRUE, max_problems |-> 1],
                [check_pages |-> FALSE, check_trees |-> TRUE, max_problems |-> 0],
                [check_pages |-> FALSE, check_trees |-> FALSE, max_problems |-> 1]}
=============================================================================
