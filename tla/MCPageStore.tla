---------------------------- MODULE MCPageStore ----------------------------
(* Small instances of module PageStore. *)
EXTENDS PageStore, TLC

CONSTANTS t1, t2, r1

Root == [r \in {r1} |-> 0]

\* `count` pages of two bytes, the first of them `first` once it is decoded.
Pages_of(count, first, rest) ==
    rest @@ [stored |-> [p \in 0..(count - 1) |-> 2],
             decoded |-> [p \in 0..(count - 1) |-> IF p = 0 THEN first ELSE 2]]

\* A filtered file in little memory, with a query that asks for more than there is.
Tight ==
    Pages_of(3, 4, [callers |-> {t1}, filtered |-> TRUE, query |-> 14, limit |-> 13, open |-> 0,
                    slack |-> 0, guards |-> 2, buffers |-> 3])

\* A file without a filter, with what open asks for and no more.
Enough ==
    Pages_of(3, 2, [callers |-> {t1}, filtered |-> FALSE, query |-> 12, limit |-> 11, open |-> 1,
                    slack |-> 2, guards |-> 4, buffers |-> 4])

\* A file two threads share.
Both ==
    Pages_of(2, 2, [callers |-> {t1, t2}, filtered |-> FALSE, query |-> 2, limit |-> 4, open |-> 0,
                    slack |-> 0, guards |-> 1, buffers |-> 2])

\* A filtered file with a page as large as the limits let it be.
Largest ==
    Pages_of(3, 8, [callers |-> {t1}, filtered |-> TRUE, query |-> 0, limit |-> 14, open |-> 0,
                    slack |-> 0, guards |-> 1, buffers |-> 3])

Shared_file == {[Both EXCEPT !.limit = 8, !.buffers = 3]}
All == {Tight, Enough, Both}
Decoding == {Largest}
=============================================================================
