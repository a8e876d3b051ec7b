---------------------------- MODULE OrderedTable ----------------------------
(***************************************************************************)
(* What a table promises a reader: rows are put in, a range is opened, and *)
(* the rows inside it come out one at a time, each once, in order and none *)
(* left out, after which the scan ends.                                    *)
(*                                                                         *)
(* A row is its place in the key order and its identity.  Rows the file    *)
(* cannot tell apart by key share a place; they come out in row order.     *)
(***************************************************************************)
EXTENDS Naturals, Sequences

VARIABLES
    table,  \* the rows, [sort, row]
    scan,   \* the range being read, [lower, upper, ascending], or NoScan
    given,  \* the rows handed out
    ended   \* whether the scan said it was over

vars == <<table, scan, given, ended>>

NoScan == [lower |-> [kind |-> "none", key |-> 0], upper |-> [kind |-> "none", key |-> 0],
           ascending |-> TRUE]

Above(bound, sort) ==
    CASE bound.kind = "Included" -> sort >= bound.key
      [] bound.kind = "Excluded" -> sort > bound.key
      [] OTHER -> TRUE

Below(bound, sort) ==
    CASE bound.kind = "Included" -> sort <= bound.key
      [] bound.kind = "Excluded" -> sort < bound.key
      [] OTHER -> TRUE

Range(lower, upper) == {r \in table : Above(lower, r.sort) /\ Below(upper, r.sort)}

Left == Range(scan.lower, scan.upper) \ {given[i] : i \in DOMAIN given}

Precedes(r, s) ==
    LET smaller(a, b) == a.sort < b.sort \/ (a.sort = b.sort /\ a.row < b.row)
    IN  IF scan.ascending THEN smaller(r, s) ELSE smaller(s, r)

Init == table = {} /\ scan = NoScan /\ given = <<>> /\ ended = FALSE

Insert ==
    /\ scan = NoScan
    /\ \E r \in table' \ table : table' = table \cup {r}
    /\ UNCHANGED <<scan, given, ended>>

Open ==
    /\ scan = NoScan
    /\ scan' # NoScan
    /\ UNCHANGED <<table, given, ended>>

Deliver ==
    /\ scan # NoScan /\ ~ended
    /\ \E r \in Left :
          /\ \A s \in Left \ {r} : Precedes(r, s)
          /\ given' = Append(given, r)
    /\ UNCHANGED <<table, scan, ended>>

End ==
    /\ scan # NoScan /\ Left = {} /\ ~ended
    /\ ended' = TRUE
    /\ UNCHANGED <<table, scan, given>>

Next == Insert \/ Open \/ Deliver \/ End

Spec == Init /\ [][Next]_vars
=============================================================================
