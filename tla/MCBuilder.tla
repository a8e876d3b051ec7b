----------------------------- MODULE MCBuilder ------------------------------
(* Small builds. *)
EXTENDS IndexCursor

R(t, key, val, len) == [table |-> t, key |-> key, val |-> val, len |-> len]
NonUnique(key_fn) == [unique |-> FALSE, key_fn |-> key_fn]
Unique(key_fn) == [unique |-> TRUE, key_fn |-> key_fn]

\* A run for every row, arriving in one of several orders; the last may repeat a key.
Runs == [schema |-> <<<<NonUnique(<<1, 2>>)>>>>,
         script |-> <<{R(1, 4, 1, 1)}, {R(1, 2, 2, 1), R(1, 6, 1, 1)}, {R(1, 1, 1, 1), R(1, 7, 2, 1)}, {R(1, 5, 1, 1)},
                      {R(1, 3, 2, 1)}, {R(1, 8, 1, 1)}, {R(1, 11, 1, 1)}, {R(1, 13, 1, 1)},
                      {R(1, 12, 2, 1)}, {R(1, 9, 1, 1), R(1, 4, 1, 1)}>>,
         buffers |-> <<2>>, filter |-> FALSE, reads |-> 0]

\* Two tables in one sort buffer that is lowered and raised, with two indexes on the first.
Shared == [schema |-> <<<<NonUnique(<<1, 1>>), Unique(<<2, 1>>)>>, <<>>>>,
           script |-> [i \in 1..4 |-> {R(1, 2, 1, 1), R(1, 1, 2, 3), R(2, 1, 1, 3), R(2, 2, 1, 1)}],
           buffers |-> <<16, 4>>, filter |-> TRUE, reads |-> 0]

\* The second table holds what it may while the first is written.
Waiting == [Shared EXCEPT
    !.schema = <<<<NonUnique(<<1, 1, 2>>), Unique(<<2, 1, 3>>)>>, <<>>>>,
    !.script = <<{R(1, 2, 1, 1)}, {R(1, 1, 2, 1)}, {R(2, 1, 1, 7)}, {R(1, 3, 3, 1)}>>, !.buffers = <<16>>]

\* Rows that share an index key, and values on the leaf and on pages of their own.
Reads == [schema |-> <<<<NonUnique(<<2, 1, 2, 2>>), Unique(<<3, 1, 2, 4>>)>>>>,
          script |-> <<{R(1, 2, 2, 1)}, {R(1, 1, 1, 3)}, {R(1, 4, 4, 1)}, {R(1, 3, 3, 1)}>>,
          buffers |-> <<4>>, filter |-> FALSE, reads |-> 1]

AllPlans == {Runs, Shared, Waiting, Reads, [Reads EXCEPT !.reads = 2, !.filter = TRUE]}
=============================================================================
