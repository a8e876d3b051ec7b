------------------------------- MODULE Budget -------------------------------
(***************************************************************************)
(* The shared byte budget of crates/drydb/src/budget.rs.                   *)
(*                                                                         *)
(* `used` and `peak` are two separate atomics.  A reservation reads        *)
(* `used`, decides, and installs the new value with a compare-and-swap     *)
(* that starts over when another thread got in between; only then, as a    *)
(* second atomic step, does it raise `peak`.  Giving bytes back is one     *)
(* fetch_sub.  A Charge is reached through &mut, so two threads never      *)
(* work on the same one at a time; its bytes are added when the swap       *)
(* succeeds, since nobody can see them before the call returns.            *)
(***************************************************************************)
EXTENDS Naturals, FiniteSets

CONSTANTS Threads,      \* callers
          Charges,      \* the Charge values the callers hold between them
          Limit,        \* Budget::limit
          MaxWord,      \* largest value of a u64
          MaxRequest    \* bound: largest request a caller makes

ASSUME BudgetAssumption ==
    /\ IsFiniteSet(Charges)
    /\ Limit \in Nat
    /\ MaxWord \in Nat
    /\ MaxRequest \in Nat
    /\ Limit <= MaxWord
    /\ MaxRequest <= MaxWord

VARIABLES used,         \* Budget::used
          peak,         \* Budget::peak
          bytes,        \* bytes[c]: Charge::bytes; 0 when there is no such charge
          pc,           \* pc[t]: where t is inside Budget::take
          charge,       \* charge[t]: the charge t is reserving for
          request,      \* request[t]: the argument of take
          seen,         \* seen[t]: take's local `used`
          outcome,      \* outcome[t]: how the last reservation of t was decided
          high          \* history: the largest value `used` has had

vars == <<used, peak, bytes, pc, charge, request, seen, outcome, high>>

Requests == 0..MaxRequest

TypeOK ==
    /\ used \in 0..MaxWord
    /\ peak \in 0..MaxWord
    /\ bytes \in [Charges -> Nat]
    /\ pc \in [Threads -> {"idle", "swap", "peak"}]
    /\ charge \in [Threads -> Charges]
    /\ request \in [Threads -> Requests]
    /\ seen \in [Threads -> 0..MaxWord]
    /\ outcome \in [Threads -> {"none", "charged", "retryable", "impossible"}]
    /\ high \in 0..MaxWord

-----------------------------------------------------------------------------
Init ==
    /\ used = 0
    /\ peak = 0
    /\ bytes = [c \in Charges |-> 0]
    /\ pc = [t \in Threads |-> "idle"]
    /\ charge \in [Threads -> Charges]
    /\ request = [t \in Threads |-> 0]
    /\ seen = [t \in Threads |-> 0]
    /\ outcome = [t \in Threads |-> "none"]
    /\ high = 0

\* A charge is borrowed mutably by at most one call at a time.
Free(c) == \A t \in Threads : pc[t] # "idle" => charge[t] # c

\* Mutation: the sum wraps instead of being checked.
FitsWrapping(u, n) == (u + n) % (MaxWord + 1) <= Limit

\* checked_add, then the comparison with the limit.
Fits(u, n) == u + n <= MaxWord /\ u + n <= Limit

Refusal(n) == IF n <= Limit THEN "retryable" ELSE "impossible"

Larger(a, b) == IF a >= b THEN a ELSE b

\* The check of take against the value u it has just read: go for the swap, or
\* report the refusal and return.
Decide(t, u, n) ==
    IF Fits(u, n)
      THEN /\ pc' = [pc EXCEPT ![t] = "swap"]
           /\ UNCHANGED outcome
      ELSE /\ pc' = [pc EXCEPT ![t] = "idle"]
           /\ outcome' = [outcome EXCEPT ![t] = Refusal(n)]

\* try_reserve(n) for a new charge, or grow(n) of one that is held: take's load.
Take(t, c, n) ==
    /\ pc[t] = "idle"
    /\ Free(c)
    /\ charge' = [charge EXCEPT ![t] = c]
    /\ request' = [request EXCEPT ![t] = n]
    /\ seen' = [seen EXCEPT ![t] = used]
    /\ Decide(t, used, n)
    /\ UNCHANGED <<used, peak, bytes, high>>

\* Mutation: the new value is stored without comparing.
SwapBlindly(t) ==
    /\ pc[t] = "swap"
    /\ used' = seen[t] + request[t]
    /\ bytes' = [bytes EXCEPT ![charge[t]] = @ + request[t]]
    /\ pc' = [pc EXCEPT ![t] = "peak"]
    /\ outcome' = [outcome EXCEPT ![t] = "charged"]
    /\ high' = Larger(high, used')
    /\ UNCHANGED <<peak, charge, request, seen>>

\* compare_exchange_weak finds the value take read.
Swap(t) ==
    /\ pc[t] = "swap"
    /\ used = seen[t]
    /\ used' = seen[t] + request[t]
    /\ bytes' = [bytes EXCEPT ![charge[t]] = @ + request[t]]
    /\ pc' = [pc EXCEPT ![t] = "peak"]
    /\ outcome' = [outcome EXCEPT ![t] = "charged"]
    /\ high' = Larger(high, used')
    /\ UNCHANGED <<peak, charge, request, seen>>

\* compare_exchange_weak finds another value and take goes round with that one.
\* (A spurious failure hands back the value already read: a stuttering step.)
SwapFailed(t) ==
    /\ pc[t] = "swap"
    /\ used # seen[t]
    /\ seen' = [seen EXCEPT ![t] = used]
    /\ Decide(t, used, request[t])
    /\ UNCHANGED <<used, peak, bytes, charge, request, high>>

\* Mutation: peak is stored rather than raised.
StorePeak(t) ==
    /\ pc[t] = "peak"
    /\ peak' = seen[t] + request[t]
    /\ pc' = [pc EXCEPT ![t] = "idle"]
    /\ UNCHANGED <<used, bytes, charge, request, seen, outcome, high>>

\* peak.fetch_max(next), and take returns.
RaisePeak(t) ==
    /\ pc[t] = "peak"
    /\ peak' = Larger(peak, seen[t] + request[t])
    /\ pc' = [pc EXCEPT ![t] = "idle"]
    /\ UNCHANGED <<used, bytes, charge, request, seen, outcome, high>>

\* fetch_sub on a word, as a release build leaves it.
WordMinus(u, n) == IF n <= u THEN u - n ELSE (u + MaxWord + 1) - n

Smaller(a, b) == IF a <= b THEN a ELSE b

\* Charge::shrink(n).  Dropping the charge is shrink by all that it holds.
Shrink(c, n) ==
    /\ Free(c)
    /\ LET back == Smaller(n, bytes[c])
       IN  /\ used' = WordMinus(used, back)
           /\ bytes' = [bytes EXCEPT ![c] = @ - back]
    /\ UNCHANGED <<peak, pc, charge, request, seen, outcome, high>>

\* Charge's Drop.
Drop(c) ==
    /\ Free(c)
    /\ used' = WordMinus(used, bytes[c])
    /\ bytes' = [bytes EXCEPT ![c] = 0]
    /\ UNCHANGED <<peak, pc, charge, request, seen, outcome, high>>

\* Charge::absorb: take_bytes empties d, whose drop then releases nothing.
Absorb(c, d) ==
    /\ c # d
    /\ Free(c)
    /\ Free(d)
    /\ bytes' = [bytes EXCEPT ![c] = @ + bytes[d], ![d] = 0]
    /\ UNCHANGED <<used, peak, pc, charge, request, seen, outcome, high>>

Next ==
    \/ \E t \in Threads, c \in Charges, n \in Requests : Take(t, c, n)
    \/ \E t \in Threads : Swap(t) \/ SwapFailed(t) \/ RaisePeak(t)
    \/ \E c \in Charges, n \in Requests : Shrink(c, n)
    \/ \E c \in Charges : Drop(c)
    \/ \E c, d \in Charges : Absorb(c, d)

Spec == Init /\ [][Next]_vars

-----------------------------------------------------------------------------
\* One element for every byte that charges holding b[c] each hold.
HeldBy(b) == UNION {{c} \X (1..b[c]) : c \in Charges}

\* However reservations, growth, shrinking, absorbing and dropping interleave,
\* `used` is exactly the number of bytes the live charges hold: nothing is lost
\* between a failed compare-and-swap and its retry, counted twice, or given back
\* twice.  The debug_assert of Budget::release follows from it.
UsedIsHeld == used = Cardinality(HeldBy(bytes))

\* The limit is never passed, not even between the check and the swap
\* (concurrent_reservations_never_exceed_the_limit).
WithinLimit == used <= Limit

\* What peak will read once the calls that still have to raise it have done so.
PeakDue == {peak} \cup {seen[t] + request[t] : t \in {u \in Threads : pc[u] = "peak"}}

\* Budget::peak is the highest number of bytes ever charged at once, up to the
\* calls that have swapped `used` and not raised `peak` yet, in whatever order
\* they get there.
PeakIsHighWater ==
    /\ high \in PeakDue
    /\ \A p \in PeakDue : p <= high

Ledger == INSTANCE BudgetLedger

\* The compare-and-swap loop implements the ledger: every reservation takes
\* effect in one step, a refusal is decided against the bytes charged at that very
\* step, and it is called retryable exactly when the request fits an empty budget.
LedgerSpec == Ledger!Spec
=============================================================================
