---------------------------- MODULE BudgetProofs ----------------------------
(***************************************************************************)
(* Proofs about Budget, for any number of threads and charges and any      *)
(* limit: the bytes charged are the bytes held, the limit holds, peak is   *)
(* the high-water mark, and the compare-and-swap loop implements           *)
(* BudgetLedger.                                                           *)
(*                                                                         *)
(* The sum of what the charges hold is the cardinality of HeldBy(bytes),   *)
(* so adding and giving back bytes are unions of disjoint sets and no      *)
(* induction over the charges is needed.                                   *)
(***************************************************************************)
EXTENDS Budget, FiniteSetTheorems, TLAPS

\* The cardinality of a disjoint union.
LEMMA DisjointUnion ==
    ASSUME NEW S, IsFiniteSet(S), NEW T, IsFiniteSet(T), S \cap T = {}
    PROVE  /\ IsFiniteSet(S \cup T)
           /\ Cardinality(S \cup T) = Cardinality(S) + Cardinality(T)
<1>1. Cardinality(S \cap T) = 0
  BY FS_EmptySet
<1>2. Cardinality(S) \in Nat /\ Cardinality(T) \in Nat
  BY FS_CardinalityType
<1>3. /\ IsFiniteSet(S \cup T)
      /\ Cardinality(S \cup T)
           = Cardinality(S) + Cardinality(T) - Cardinality(S \cap T)
  BY FS_Union
<1> QED
  BY <1>1, <1>2, <1>3

\* Adding n bytes to one charge adds n to what is held.
LEMMA AddBytes ==
    ASSUME NEW b \in [Charges -> Nat], NEW c \in Charges, NEW n \in Nat,
           NEW a \in [Charges -> Nat], a[c] = b[c] + n,
           \A x \in Charges : x # c => a[x] = b[x],
           IsFiniteSet(HeldBy(b))
    PROVE  /\ IsFiniteSet(HeldBy(a))
           /\ Cardinality(HeldBy(a)) = Cardinality(HeldBy(b)) + n
<1> DEFINE more == {c} \X ((b[c] + 1)..(b[c] + n))
<1>1. IsFiniteSet(more) /\ Cardinality(more) = n
  <2>1. IsFiniteSet({c}) /\ Cardinality({c}) = 1
    BY ZenonT(60), FS_Singleton
  <2>2. /\ IsFiniteSet((b[c] + 1)..(b[c] + n))
        /\ Cardinality((b[c] + 1)..(b[c] + n)) = n
    <3>1. b[c] + 1 \in Int /\ b[c] + n \in Int
      OBVIOUS
    <3>2. /\ IsFiniteSet((b[c] + 1)..(b[c] + n))
          /\ Cardinality((b[c] + 1)..(b[c] + n))
               = IF b[c] + 1 > b[c] + n THEN 0 ELSE (b[c] + n) - (b[c] + 1) + 1
      BY ZenonT(60), <3>1, FS_Interval
    <3> QED
      BY <3>2
  <2>3. /\ IsFiniteSet(more)
        /\ Cardinality(more) = Cardinality({c}) * Cardinality((b[c] + 1)..(b[c] + n))
    BY SMTT(40), <2>1, <2>2, FS_Product
  <2> QED
    BY <2>1, <2>2, <2>3
<1>2. HeldBy(a) = HeldBy(b) \cup more
  <2>1. \A p : p \in HeldBy(a) <=> \E x \in Charges : p \in {x} \X (1..a[x])
    BY DEF HeldBy
  <2>2. \A p : p \in HeldBy(b) <=> \E x \in Charges : p \in {x} \X (1..b[x])
    BY DEF HeldBy
  <2>3. {c} \X (1..a[c]) = ({c} \X (1..b[c])) \cup more
    <3>1. 1..a[c] = (1..b[c]) \cup ((b[c] + 1)..(b[c] + n))
      OBVIOUS
    <3> QED
      BY <3>1
  <2> HIDE DEF more
  <2> QED
    BY <2>1, <2>2, <2>3
<1>3. HeldBy(b) \cap more = {}
  <2> SUFFICES ASSUME NEW p, p \in HeldBy(b), p \in more
               PROVE  FALSE
    OBVIOUS
  <2>1. PICK x \in Charges : p \in {x} \X (1..b[x])
    BY DEF HeldBy
  <2>2. p[1] = x /\ p[1] = c /\ p[2] \in 1..b[x] /\ p[2] \in (b[c] + 1)..(b[c] + n)
    BY <2>1
  <2> QED
    BY <2>2
<1> HIDE DEF more
<1>4. /\ IsFiniteSet(HeldBy(b) \cup more)
      /\ Cardinality(HeldBy(b) \cup more) = Cardinality(HeldBy(b)) + Cardinality(more)
  BY <1>1, <1>3, DisjointUnion
<1>5. /\ IsFiniteSet(HeldBy(a))
      /\ Cardinality(HeldBy(a)) = Cardinality(HeldBy(b)) + Cardinality(more)
  BY <1>2, <1>4, Zenon
<1> QED
  BY <1>1, <1>5, Zenon

\* Giving back n of the bytes of one charge takes n from what is held.
LEMMA GiveBackBytes ==
    ASSUME NEW b \in [Charges -> Nat], NEW c \in Charges, NEW n \in Nat,
           NEW a \in [Charges -> Nat], b[c] = a[c] + n,
           \A x \in Charges : x # c => b[x] = a[x],
           IsFiniteSet(HeldBy(b))
    PROVE  /\ IsFiniteSet(HeldBy(a))
           /\ Cardinality(HeldBy(b)) = Cardinality(HeldBy(a)) + n
<1>1. HeldBy(a) \subseteq HeldBy(b)
  <2>1. \A x \in Charges : 1..a[x] \subseteq 1..b[x]
    OBVIOUS
  <2> QED
    BY <2>1 DEF HeldBy
<1>2. IsFiniteSet(HeldBy(a))
  BY <1>1, FS_Subset
<1> QED
  BY <1>2, AddBytes

-----------------------------------------------------------------------------
\* A call that has passed its check works on a sum that fits.
Decided == \A t \in Threads : pc[t] # "idle" => seen[t] + request[t] <= Limit

Accounted == IsFiniteSet(HeldBy(bytes)) /\ UsedIsHeld

\* TypeOK alone is not inductive: that `used` stays in its word needs the limit, which
\* needs Decided; that giving bytes back does not wrap needs Accounted.
IInv == TypeOK /\ Decided /\ WithinLimit /\ Accounted

\* The debug_assert of Budget::release: no charge holds more than is charged.
LEMMA NoUnderflow ==
    ASSUME TypeOK, Accounted, NEW c \in Charges
    PROVE  bytes[c] <= used
<1> DEFINE a == [bytes EXCEPT ![c] = 0]
<1>1. /\ bytes \in [Charges -> Nat]
      /\ bytes[c] \in Nat
      /\ a \in [Charges -> Nat]
      /\ bytes[c] = a[c] + bytes[c]
      /\ \A x \in Charges : x # c => bytes[x] = a[x]
  BY DEF TypeOK
<1> HIDE DEF a
<1>2. /\ IsFiniteSet(HeldBy(a))
      /\ Cardinality(HeldBy(bytes)) = Cardinality(HeldBy(a)) + bytes[c]
  BY <1>1, GiveBackBytes DEF Accounted
<1>3. Cardinality(HeldBy(a)) \in Nat
  BY <1>2, FS_CardinalityType
<1> QED
  BY <1>1, <1>2, <1>3 DEF Accounted, UsedIsHeld

\* Giving back part of a charge keeps the account and does not wrap.
LEMMA ReleaseStep ==
    ASSUME TypeOK, Accounted, NEW c \in Charges, NEW n \in 0..bytes[c],
           used' = WordMinus(used, n), bytes' = [bytes EXCEPT ![c] = @ - n]
    PROVE  /\ n <= used
           /\ used' = used - n
           /\ bytes' \in [Charges -> Nat]
           /\ Accounted'
<1> DEFINE a == bytes'
<1>1. /\ bytes \in [Charges -> Nat] /\ a \in [Charges -> Nat]
      /\ n \in Nat /\ bytes[c] \in Nat /\ used \in Nat
      /\ bytes[c] = a[c] + n
      /\ \A x \in Charges : x # c => bytes[x] = a[x]
  BY DEF TypeOK
<1>2. n <= used /\ used' = used - n
  <2>1. bytes[c] <= used
    BY NoUnderflow
  <2> QED
    BY <1>1, <2>1 DEF WordMinus
<1> HIDE DEF a
<1>3. /\ IsFiniteSet(HeldBy(a))
      /\ Cardinality(HeldBy(bytes)) = Cardinality(HeldBy(a)) + n
  BY <1>1, GiveBackBytes DEF Accounted
<1>4. Cardinality(HeldBy(a)) \in Nat
  BY <1>3, FS_CardinalityType
<1>5. used' = Cardinality(HeldBy(a))
  BY <1>1, <1>2, <1>3, <1>4 DEF Accounted, UsedIsHeld
<1> QED
  BY <1>1, <1>2, <1>3, <1>5 DEF Accounted, UsedIsHeld, HeldBy, a

\* Moving the bytes of one charge to another keeps the account.
LEMMA AbsorbStep ==
    ASSUME TypeOK, Accounted, NEW c \in Charges, NEW d \in Charges, Absorb(c, d)
    PROVE  bytes' \in [Charges -> Nat] /\ Accounted'
<1> DEFINE a == [bytes EXCEPT ![d] = 0]
           n == bytes[d]
<1>1. /\ bytes \in [Charges -> Nat] /\ a \in [Charges -> Nat]
      /\ bytes' \in [Charges -> Nat] /\ n \in Nat
      /\ bytes[d] = a[d] + n
      /\ \A x \in Charges : x # d => bytes[x] = a[x]
      /\ bytes'[c] = a[c] + n
      /\ \A x \in Charges : x # c => bytes'[x] = a[x]
  BY DEF TypeOK, Absorb
<1> HIDE DEF a, n
<1>2. /\ IsFiniteSet(HeldBy(a))
      /\ Cardinality(HeldBy(bytes)) = Cardinality(HeldBy(a)) + n
  BY <1>1, GiveBackBytes DEF Accounted
<1>3. /\ IsFiniteSet(HeldBy(bytes'))
      /\ Cardinality(HeldBy(bytes')) = Cardinality(HeldBy(a)) + n
  BY <1>1, <1>2, AddBytes
<1>4. used' = Cardinality(HeldBy(bytes'))
  BY <1>2, <1>3 DEF Accounted, UsedIsHeld, Absorb
<1> QED
  BY <1>1, <1>3, <1>4 DEF Accounted, UsedIsHeld, HeldBy

\* A successful swap adds the request to the account.
LEMMA SwapStep ==
    ASSUME IInv, NEW t \in Threads, Swap(t)
    PROVE  /\ used' = used + request[t]
           /\ used' <= Limit
           /\ bytes' \in [Charges -> Nat]
           /\ Accounted'
<1> DEFINE a == bytes'
           c == charge[t]
           n == request[t]
<1>1. used' = used + n /\ used' <= Limit
  BY DEF IInv, TypeOK, Swap, Decided
<1>2. /\ bytes \in [Charges -> Nat] /\ a \in [Charges -> Nat]
      /\ c \in Charges /\ n \in Nat
      /\ a[c] = bytes[c] + n
      /\ \A x \in Charges : x # c => a[x] = bytes[x]
  BY DEF IInv, TypeOK, Requests, Swap
<1> HIDE DEF a, c, n
<1>3. /\ IsFiniteSet(HeldBy(a))
      /\ Cardinality(HeldBy(a)) = Cardinality(HeldBy(bytes)) + n
  BY <1>2, AddBytes DEF IInv, Accounted
<1>4. used' = Cardinality(HeldBy(a))
  BY <1>1, <1>3 DEF IInv, Accounted, UsedIsHeld
<1> QED
  BY <1>1, <1>2, <1>3, <1>4 DEF Accounted, UsedIsHeld, HeldBy, a, n

\* An unchanged `used` and `bytes` keep the account.
LEMMA SameAccount ==
    ASSUME Accounted, UNCHANGED <<used, bytes>>
    PROVE  Accounted'
BY DEF Accounted, UsedIsHeld, HeldBy

\* A budget nobody has used.
LEMMA InductiveInit == Init => IInv
<1> SUFFICES ASSUME Init PROVE IInv
  OBVIOUS
<1>1. HeldBy(bytes) = {}
  BY DEF Init, HeldBy
<1>2. Accounted
  BY <1>1, FS_EmptySet DEF Init, Accounted, UsedIsHeld
<1> QED
  BY <1>2, BudgetAssumption DEF Init, IInv, TypeOK, Decided, WithinLimit, Requests

\* Every step keeps the inductive invariant.
LEMMA InductiveStep == IInv /\ [Next]_vars => IInv'
<1> SUFFICES ASSUME IInv, [Next]_vars PROVE IInv'
  OBVIOUS
<1> USE BudgetAssumption
<1>1. ASSUME NEW t \in Threads, NEW c \in Charges, NEW n \in Requests, Take(t, c, n)
      PROVE  IInv'
  <2>1. Accounted'
    BY <1>1, SameAccount DEF IInv, Take
  <2> QED
    BY <1>1, <2>1 DEF IInv, TypeOK, Decided, WithinLimit, Requests, Take, Decide, Fits, Refusal
<1>2. ASSUME NEW t \in Threads, Swap(t)
      PROVE  IInv'
  <2>1. used' = used + request[t] /\ used' <= Limit /\ bytes' \in [Charges -> Nat] /\ Accounted'
    BY <1>2, SwapStep
  <2> QED
    BY <1>2, <2>1 DEF IInv, TypeOK, Decided, WithinLimit, Requests, Swap, Larger
<1>3. ASSUME NEW t \in Threads, SwapFailed(t)
      PROVE  IInv'
  <2>1. Accounted'
    BY <1>3, SameAccount DEF IInv, SwapFailed
  <2> QED
    BY <1>3, <2>1 DEF IInv, TypeOK, Decided, WithinLimit, SwapFailed, Decide, Fits, Refusal
<1>4. ASSUME NEW t \in Threads, RaisePeak(t)
      PROVE  IInv'
  <2>1. Accounted'
    BY <1>4, SameAccount DEF IInv, RaisePeak
  <2> QED
    BY <1>4, <2>1 DEF IInv, TypeOK, Decided, WithinLimit, Requests, RaisePeak, Larger
<1>5. ASSUME NEW c \in Charges, NEW n \in Requests, Shrink(c, n)
      PROVE  IInv'
  <2> DEFINE back == Smaller(n, bytes[c])
  <2>1. back \in 0..bytes[c]
    BY DEF IInv, TypeOK, Requests, Smaller
  <2>2. used' = WordMinus(used, back) /\ bytes' = [bytes EXCEPT ![c] = @ - back]
    BY <1>5 DEF Shrink
  <2> HIDE DEF back
  <2>3. back <= used /\ used' = used - back /\ bytes' \in [Charges -> Nat] /\ Accounted'
    BY ZenonT(60), <2>1, <2>2, ReleaseStep DEF IInv
  <2> QED
    BY <1>5, <2>1, <2>3 DEF IInv, TypeOK, Decided, WithinLimit, Shrink
<1>6. ASSUME NEW c \in Charges, Drop(c)
      PROVE  IInv'
  <2> DEFINE back == bytes[c]
  <2>1. back \in 0..bytes[c]
    BY DEF IInv, TypeOK
  <2>2. used' = WordMinus(used, back) /\ bytes' = [bytes EXCEPT ![c] = @ - back]
    <3>1. bytes[c] - bytes[c] = 0
      BY DEF IInv, TypeOK
    <3> QED
      BY ZenonT(60), <1>6, <3>1 DEF Drop
  <2> HIDE DEF back
  <2>3. back <= used /\ used' = used - back /\ bytes' \in [Charges -> Nat] /\ Accounted'
    BY ZenonT(60), <2>1, <2>2, ReleaseStep DEF IInv
  <2> QED
    BY <1>6, <2>1, <2>3 DEF IInv, TypeOK, Decided, WithinLimit, Drop
<1>7. ASSUME NEW c \in Charges, NEW d \in Charges, Absorb(c, d)
      PROVE  IInv'
  <2>1. bytes' \in [Charges -> Nat] /\ Accounted'
    BY <1>7, AbsorbStep DEF IInv
  <2> QED
    BY <1>7, <2>1 DEF IInv, TypeOK, Decided, WithinLimit, Absorb
<1>8. CASE UNCHANGED vars
  <2>1. Accounted'
    BY <1>8, SameAccount DEF IInv, vars
  <2> QED
    BY <1>8, <2>1 DEF IInv, TypeOK, Decided, WithinLimit, vars
<1> QED
  BY <1>1, <1>2, <1>3, <1>4, <1>5, <1>6, <1>7, <1>8 DEF Next

\* The inductive invariant holds in every reachable state.
THEOREM Inductive == Spec => []IInv
BY InductiveInit, InductiveStep, PTL DEF Spec

\* Every variable keeps its type; in particular `used` and `peak` stay in their words.
THEOREM TypeCorrect == Spec => []TypeOK
BY Inductive, PTL DEF IInv

\* What is charged is what the live charges hold, for any number of threads.
THEOREM UsedIsHeldAlways == Spec => []UsedIsHeld
BY Inductive, PTL DEF IInv, Accounted

\* The limit is never passed.
THEOREM WithinLimitAlways == Spec => []WithinLimit
BY Inductive, PTL DEF IInv

-----------------------------------------------------------------------------
\* Budget::peak is the highest number of bytes ever charged at once, but for the calls
\* that have still to raise it.
THEOREM PeakIsHighWaterAlways == Spec => []PeakIsHighWater
<1>1. Init => PeakIsHighWater
  BY DEF Init, PeakIsHighWater, PeakDue
<1>2. IInv /\ PeakIsHighWater /\ [Next]_vars => PeakIsHighWater'
  <2> SUFFICES ASSUME IInv, PeakIsHighWater, [Next]_vars PROVE PeakIsHighWater'
    OBVIOUS
  <2> USE BudgetAssumption
  <2>1. ASSUME NEW t \in Threads, NEW c \in Charges, NEW n \in Requests, Take(t, c, n)
        PROVE  PeakIsHighWater'
    <3>1. PeakDue' = PeakDue /\ high' = high
      BY <2>1 DEF IInv, TypeOK, PeakDue, Take, Decide
    <3> QED
      BY <3>1 DEF PeakIsHighWater
  <2>2. ASSUME NEW t \in Threads, Swap(t)
        PROVE  PeakIsHighWater'
    <3>1. PeakDue' = PeakDue \cup {used'}
      BY <2>2 DEF IInv, TypeOK, PeakDue, Swap
    <3>2. /\ high' = Larger(high, used')
          /\ high \in Nat /\ used' \in Nat
          /\ \A p \in PeakDue : p \in Nat
      BY <2>2 DEF IInv, TypeOK, Requests, PeakDue, Swap
    <3> QED
      BY <3>1, <3>2 DEF PeakIsHighWater, Larger
  <2>3. ASSUME NEW t \in Threads, SwapFailed(t)
        PROVE  PeakIsHighWater'
    <3>1. PeakDue' = PeakDue /\ high' = high
      BY <2>3 DEF IInv, TypeOK, PeakDue, SwapFailed, Decide
    <3> QED
      BY <3>1 DEF PeakIsHighWater
  <2>4. ASSUME NEW t \in Threads, RaisePeak(t)
        PROVE  PeakIsHighWater'
    <3> DEFINE mine == seen[t] + request[t]
    <3>1. mine \in PeakDue /\ peak \in PeakDue
      BY <2>4 DEF PeakDue, RaisePeak
    <3>2. high' = high /\ high \in Nat /\ peak \in Nat /\ mine \in Nat
      BY <2>4 DEF IInv, TypeOK, Requests, RaisePeak
    <3>3. peak <= high /\ mine <= high /\ high \in PeakDue
      BY <3>1 DEF PeakIsHighWater
    <3>4. peak' = Larger(peak, mine)
      BY <2>4 DEF RaisePeak
    <3>5. \A p : p \in PeakDue' => p \in PeakDue
      BY <2>4, <3>1, <3>2, <3>4 DEF IInv, TypeOK, PeakDue, RaisePeak, Larger
    <3>6. \A p : p \in PeakDue => p \in PeakDue' \/ p = peak \/ p = mine
      BY <2>4 DEF IInv, TypeOK, PeakDue, RaisePeak
    <3>7. peak' \in PeakDue'
      BY DEF PeakDue
    <3>8. high \in PeakDue'
      BY <3>2, <3>3, <3>4, <3>6, <3>7 DEF Larger
    <3> QED
      BY <3>2, <3>5, <3>8 DEF PeakIsHighWater
  <2>5. ASSUME UNCHANGED <<peak, pc, request, seen, high>>
        PROVE  PeakIsHighWater'
    BY <2>5 DEF PeakIsHighWater, PeakDue
  <2>6. ASSUME NEW c \in Charges, NEW n \in Requests, Shrink(c, n)
        PROVE  PeakIsHighWater'
    BY <2>5, <2>6 DEF Shrink
  <2>7. ASSUME NEW c \in Charges, Drop(c)
        PROVE  PeakIsHighWater'
    BY <2>5, <2>7 DEF Drop
  <2>8. ASSUME NEW c \in Charges, NEW d \in Charges, Absorb(c, d)
        PROVE  PeakIsHighWater'
    BY <2>5, <2>8 DEF Absorb
  <2>9. CASE UNCHANGED vars
    BY <2>5, <2>9 DEF vars
  <2> QED
    BY <2>1, <2>2, <2>3, <2>4, <2>6, <2>7, <2>8, <2>9 DEF Next
<1> QED
  BY <1>1, <1>2, Inductive, PTL DEF Spec

\* The compare-and-swap loop implements the ledger.  A successful swap is the ledger's
\* Reserve, the step that reads a `used` too large is its Refuse, and the rest of take is
\* invisible to it.
THEOREM ImplementsLedger == Spec => LedgerSpec
<1>1. Init => Ledger!Init
  BY DEF Init, Ledger!Init
<1>2. IInv /\ [Next]_vars => [Ledger!Next]_<<used, bytes, outcome>>
  <2> SUFFICES ASSUME IInv, [Next]_vars
               PROVE  Ledger!Next \/ UNCHANGED <<used, bytes, outcome>>
    OBVIOUS
  <2> USE BudgetAssumption
  <2>1. ASSUME NEW t \in Threads, NEW n \in Requests, Decide(t, used, n), UNCHANGED <<used, bytes>>
        PROVE  Ledger!Next \/ UNCHANGED <<used, bytes, outcome>>
    <3>1. CASE Fits(used, n)
      BY <2>1, <3>1 DEF Decide
    <3>2. CASE ~Fits(used, n)
      <4>1. used + n > Limit
        BY <3>2 DEF Fits, IInv, TypeOK, Requests
      <4>2. Ledger!Refuse(t, n)
        BY <2>1, <3>2, <4>1 DEF Decide, Ledger!Refuse, Refusal, Ledger!Refusal
      <4> QED
        BY <4>2 DEF Ledger!Next
    <3> QED
      BY <3>1, <3>2
  <2>2. ASSUME NEW c \in Charges, NEW n \in 0..bytes[c], UNCHANGED outcome,
               used' = WordMinus(used, n), bytes' = [bytes EXCEPT ![c] = @ - n]
        PROVE  Ledger!Next
    <3>1. n <= used /\ used' = used - n
      BY ZenonT(60), <2>2, ReleaseStep DEF IInv
    <3>2. Ledger!Release(c, n)
      BY <2>2, <3>1 DEF Ledger!Release
    <3> QED
      BY <3>2 DEF Ledger!Next
  <2>3. ASSUME NEW t \in Threads, NEW c \in Charges, NEW n \in Requests, Take(t, c, n)
        PROVE  Ledger!Next \/ UNCHANGED <<used, bytes, outcome>>
    BY <2>1, <2>3 DEF Take
  <2>4. ASSUME NEW t \in Threads, Swap(t)
        PROVE  Ledger!Next
    <3>1. charge[t] \in Charges /\ request[t] \in Requests
      BY DEF IInv, TypeOK
    <3>2. Ledger!Reserve(t, charge[t], request[t])
      BY <2>4 DEF IInv, TypeOK, Decided, Swap, Ledger!Reserve
    <3> QED
      BY <3>1, <3>2 DEF Ledger!Next
  <2>5. ASSUME NEW t \in Threads, SwapFailed(t)
        PROVE  Ledger!Next \/ UNCHANGED <<used, bytes, outcome>>
    <3>1. request[t] \in Requests
      BY DEF IInv, TypeOK
    <3> QED
      BY <2>1, <2>5, <3>1 DEF SwapFailed
  <2>6. ASSUME NEW t \in Threads, RaisePeak(t)
        PROVE  UNCHANGED <<used, bytes, outcome>>
    BY <2>6 DEF RaisePeak
  <2>7. ASSUME NEW c \in Charges, NEW n \in Requests, Shrink(c, n)
        PROVE  Ledger!Next
    <3>1. Smaller(n, bytes[c]) \in 0..bytes[c]
      BY DEF IInv, TypeOK, Requests, Smaller
    <3> QED
      BY ZenonT(60), <2>2, <2>7, <3>1 DEF Shrink
  <2>8. ASSUME NEW c \in Charges, Drop(c)
        PROVE  Ledger!Next
    <3>1. bytes[c] \in 0..bytes[c] /\ bytes[c] - bytes[c] = 0
      BY DEF IInv, TypeOK
    <3>2. bytes' = [bytes EXCEPT ![c] = @ - bytes[c]]
      BY ZenonT(60), <2>8, <3>1 DEF Drop
    <3> QED
      BY ZenonT(60), <2>2, <2>8, <3>1, <3>2 DEF Drop
  <2>9. ASSUME NEW c \in Charges, NEW d \in Charges, Absorb(c, d)
        PROVE  Ledger!Next
    BY ZenonT(60), <2>9 DEF Absorb, Ledger!Absorb, Ledger!Next
  <2>10. CASE UNCHANGED vars
    BY <2>10 DEF vars
  <2> QED
    BY <2>3, <2>4, <2>5, <2>6, <2>7, <2>8, <2>9, <2>10 DEF Next
<1> QED
  BY <1>1, <1>2, Inductive, PTL DEF Spec, LedgerSpec, Ledger!Spec, Ledger!lvars
=============================================================================
