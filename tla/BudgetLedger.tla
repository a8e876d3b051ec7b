---------------------------- MODULE BudgetLedger ----------------------------
(***************************************************************************)
(* What the byte budget of crates/drydb/src/budget.rs promises its         *)
(* callers, with the atomics left out: a reservation is one indivisible    *)
(* entry in a ledger, it is refused exactly when it would not fit at that  *)
(* instant, and a refusal says whether the request could ever fit.         *)
(* Module Budget, which has the compare-and-swap loop, implements this.    *)
(***************************************************************************)
EXTENDS Naturals

CONSTANTS Threads,      \* callers
          Charges,      \* the Charge values a program holds
          Limit,        \* Budget::limit
          Requests      \* the sizes that are asked for

VARIABLES used,         \* bytes charged
          bytes,        \* bytes[c]: what charge c holds; 0 when it is gone
          outcome       \* outcome[t]: how the last reservation of t was decided

lvars == <<used, bytes, outcome>>

Outcomes == {"none", "charged", "retryable", "impossible"}

Refusal(n) == IF n <= Limit THEN "retryable" ELSE "impossible"

Init ==
    /\ used = 0
    /\ bytes = [c \in Charges |-> 0]
    /\ outcome = [t \in Threads |-> "none"]

Reserve(t, c, n) ==
    /\ used + n <= Limit
    /\ used' = used + n
    /\ bytes' = [bytes EXCEPT ![c] = @ + n]
    /\ outcome' = [outcome EXCEPT ![t] = "charged"]

Refuse(t, n) ==
    /\ used + n > Limit
    /\ outcome' = [outcome EXCEPT ![t] = Refusal(n)]
    /\ UNCHANGED <<used, bytes>>

Release(c, n) ==
    /\ n <= used
    /\ used' = used - n
    /\ bytes' = [bytes EXCEPT ![c] = @ - n]
    /\ UNCHANGED outcome

Absorb(c, d) ==
    /\ c # d
    /\ bytes' = [bytes EXCEPT ![c] = @ + bytes[d], ![d] = 0]
    /\ UNCHANGED <<used, outcome>>

Next ==
    \/ \E t \in Threads, c \in Charges, n \in Requests : Reserve(t, c, n)
    \/ \E t \in Threads, n \in Requests : Refuse(t, n)
    \/ \E c \in Charges : \E n \in 0..bytes[c] : Release(c, n)
    \/ \E c, d \in Charges : Absorb(c, d)

Spec == Init /\ [][Next]_lvars
=============================================================================
