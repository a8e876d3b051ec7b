-------------------------- MODULE ShardBookProofs --------------------------
(***************************************************************************)
(* A shard's charge covers its memory: proofs about module ShardBook, for  *)
(* every set of threads, every number of pages and every size of a slot    *)
(* the code can have.                                                      *)
(***************************************************************************)
EXTENDS ShardBook, FiniteSetTheorems, WellFoundedInduction, TLAPS

\* A set of natural numbers that is not empty has a least member.
LEMMA Least ==
    ASSUME NEW T \in SUBSET Nat, T # {}
    PROVE  \E n \in T : \A m \in T : n <= m
<1>1. PICK n \in T : \A m \in T : ~(<<m, n>> \in OpToRel(<, Nat))
  BY ZenonT(60), WFMin, NatLessThanWellFounded
<1>2. \A m \in T : ~(m < n) BY ZenonT(60), <1>1 DEF OpToRel
<1> QED BY <1>2

-----------------------------------------------------------------------------
\* Powers of two.

Half(n) == CeilDiv(n, 2)

\* Half of a number above one, rounded up, is a smaller number that is not zero.
LEMMA HalfIs ==
    ASSUME NEW n \in Nat, ~(n <= 1)
    PROVE  /\ Half(n) \in Nat /\ Half(n) >= 1 /\ Half(n) < n
           /\ 2 * Half(n) = n \/ 2 * Half(n) = n + 1
BY DEF Half, CeilDiv

\* The functions that are what next_power_of_two is to be, of the numbers up to n.
Powers(n) ==
    {f \in [Nat -> Nat] : \A i \in 0..n : f[i] = IF i <= 1 THEN 1 ELSE 2 * f[Half(i)]}

\* Two of them agree as far as both go.
LEMMA PowersAgree ==
    ASSUME NEW m \in Nat, NEW n \in Nat, NEW f \in Powers(m), NEW g \in Powers(n),
           NEW i \in Nat, i <= m, i <= n
    PROVE  f[i] = g[i]
<1> DEFINE Bad == {j \in Nat : j <= m /\ j <= n /\ f[j] # g[j]}
<1>1. SUFFICES ASSUME Bad # {} PROVE FALSE BY ZenonT(60)
<1>2. PICK j \in Bad : \A k \in Bad : j <= k
  <2>1. Bad \in SUBSET Nat BY ZenonT(60)
  <2> HIDE DEF Bad
  <2> QED BY ZenonT(60), <1>1, <2>1, Least
<1>3. j \in Nat /\ j <= m /\ j <= n /\ f[j] # g[j] BY ZenonT(60), <1>2
<1>4. j \in 0..m /\ j \in 0..n BY <1>3
<1>5. /\ f[j] = IF j <= 1 THEN 1 ELSE 2 * f[Half(j)]
      /\ g[j] = IF j <= 1 THEN 1 ELSE 2 * g[Half(j)]
  BY ZenonT(60), <1>4 DEF Powers
<1>6. ~(j <= 1) BY ZenonT(60), <1>3, <1>5
<1>7. Half(j) \in Nat /\ Half(j) < j BY ZenonT(60), <1>3, <1>6, HalfIs
<1>8. Half(j) \notin Bad
  <2>1. ~(j <= Half(j)) BY <1>3, <1>7
  <2> QED BY ZenonT(60), <1>2, <2>1
<1>9. Half(j) <= m /\ Half(j) <= n BY <1>3, <1>7
<1>10. f[Half(j)] = g[Half(j)] BY ZenonT(60), <1>7, <1>8, <1>9
<1> QED BY ZenonT(60), <1>3, <1>5, <1>6, <1>10

\* There is one for every n.
LEMMA PowersExist ==
    ASSUME NEW n \in Nat
    PROVE  \E f : f \in Powers(n)
<1> DEFINE Bad == {j \in Nat : ~ \E f : f \in Powers(j)}
<1>1. SUFFICES ASSUME Bad # {} PROVE FALSE BY ZenonT(60)
<1>2. PICK j \in Bad : \A k \in Bad : j <= k
  <2>1. Bad \in SUBSET Nat BY ZenonT(60)
  <2> HIDE DEF Bad
  <2> QED BY ZenonT(60), <1>1, <2>1, Least
<1>3. j \in Nat /\ ~ \E f : f \in Powers(j) BY ZenonT(60), <1>2
<1> HIDE DEF Bad
<1>4. CASE j <= 1
  <2> DEFINE one == [i \in Nat |-> 1]
  <2>1. one \in [Nat -> Nat] BY SMT
  <2>2. \A i \in 0..j : one[i] = IF i <= 1 THEN 1 ELSE 2 * one[Half(i)] BY <1>3, <1>4
  <2>3. one \in Powers(j) BY ZenonT(60), <2>1, <2>2 DEF Powers
  <2> QED BY ZenonT(60), <1>3, <2>3
<1>5. CASE ~(j <= 1)
  <2>1. j - 1 \in Nat /\ ~(j <= j - 1) BY <1>3, <1>5
  <2>2. PICK f : f \in Powers(j - 1) BY ZenonT(60), <1>2, <2>1 DEF Bad
  <2>3. /\ f \in [Nat -> Nat]
        /\ \A i \in 0..(j - 1) : f[i] = IF i <= 1 THEN 1 ELSE 2 * f[Half(i)]
    BY ZenonT(60), <2>2 DEF Powers
  <2>4. Half(j) \in Nat /\ Half(j) < j BY ZenonT(60), <1>3, <1>5, HalfIs
  <2> DEFINE g == [f EXCEPT ![j] = 2 * f[Half(j)]]
  <2>5. 2 * f[Half(j)] \in Nat BY <2>3, <2>4
  <2>6. g \in [Nat -> Nat] BY ZenonT(60), <2>3, <2>5
  <2>7. ASSUME NEW i \in 0..j PROVE g[i] = IF i <= 1 THEN 1 ELSE 2 * g[Half(i)]
    <3>1. i \in Nat BY <1>3
    <3>2. CASE i = j
      <4>1. g[j] = 2 * f[Half(j)] BY ZenonT(60), <1>3, <2>3
      <4>2. Half(j) # j BY <1>3, <2>4
      <4>3. g[Half(j)] = f[Half(j)] BY ZenonT(60), <2>3, <2>4, <4>2
      <4> QED BY ZenonT(60), <1>5, <3>2, <4>1, <4>3
    <3>3. CASE i # j
      <4>1. i \in 0..(j - 1) BY <1>3, <3>3
      <4>2. g[i] = f[i] BY ZenonT(60), <2>3, <3>1, <3>3
      <4>3. CASE i <= 1 BY ZenonT(60), <2>3, <4>1, <4>2, <4>3
      <4>4. CASE ~(i <= 1)
        <5>1. Half(i) \in Nat /\ Half(i) < i BY ZenonT(60), <3>1, <4>4, HalfIs
        <5>2. Half(i) # j BY <1>3, <4>1, <5>1
        <5>3. g[Half(i)] = f[Half(i)] BY ZenonT(60), <2>3, <5>1, <5>2
        <5> QED BY ZenonT(60), <2>3, <4>1, <4>2, <4>4, <5>3
      <4> QED BY ZenonT(60), <4>3, <4>4
    <3> QED BY ZenonT(60), <3>2, <3>3
  <2>8. g \in Powers(j) BY ZenonT(60), <2>6, <2>7 DEF Powers
  <2> QED BY ZenonT(60), <1>3, <2>8
<1> QED BY ZenonT(60), <1>4, <1>5

\* next_power_of_two is what its definition says.
LEMMA PowerIs ==
    /\ next_power_of_two \in [Nat -> Nat]
    /\ \A n \in Nat : next_power_of_two[n] = IF n <= 1 THEN 1 ELSE 2 * next_power_of_two[Half(n)]
<1> DEFINE f == [n \in Nat |-> (CHOOSE g : g \in Powers(n))[n]]
<1>1. \A n \in Nat : (CHOOSE g : g \in Powers(n)) \in Powers(n) BY ZenonT(60), PowersExist
<1>2. ASSUME NEW n \in Nat PROVE f[n] = IF n <= 1 THEN 1 ELSE 2 * f[Half(n)]
  <2> DEFINE g == CHOOSE h : h \in Powers(n)
  <2>1. g \in Powers(n) /\ f[n] = g[n] BY ZenonT(60), <1>1
  <2>2. n \in 0..n BY SMT
  <2>3. g[n] = IF n <= 1 THEN 1 ELSE 2 * g[Half(n)] BY ZenonT(60), <2>1, <2>2 DEF Powers
  <2>4. CASE n <= 1 BY ZenonT(60), <2>1, <2>3, <2>4
  <2>5. CASE ~(n <= 1)
    <3> DEFINE d == CHOOSE h : h \in Powers(Half(n))
    <3>1. Half(n) \in Nat /\ Half(n) < n BY ZenonT(60), <2>5, HalfIs
    <3>2. d \in Powers(Half(n)) /\ f[Half(n)] = d[Half(n)] BY ZenonT(60), <1>1, <3>1
    <3>3. Half(n) <= Half(n) /\ Half(n) <= n BY <3>1
    <3> HIDE DEF g, d, f
    <3>4. d[Half(n)] = g[Half(n)] BY ZenonT(60), <2>1, <3>1, <3>2, <3>3, PowersAgree
    <3> QED BY ZenonT(60), <2>1, <2>3, <2>5, <3>2, <3>4
  <2> QED BY ZenonT(60), <2>4, <2>5
<1>3. f = [n \in Nat |-> IF n <= 1 THEN 1 ELSE 2 * f[CeilDiv(n, 2)]]
  <2>1. f = [n \in Nat |-> f[n]] BY SMT
  <2> HIDE DEF f
  <2>2. \A n \in Nat : f[n] = IF n <= 1 THEN 1 ELSE 2 * f[CeilDiv(n, 2)] BY ZenonT(60), <1>2 DEF Half
  <2> QED BY ZenonT(60), <2>1, <2>2
<1> HIDE DEF f
<1>4. next_power_of_two = [n \in Nat |-> IF n <= 1 THEN 1 ELSE 2 * next_power_of_two[CeilDiv(n, 2)]]
  BY ZenonT(60), <1>3 DEF next_power_of_two
<1>5. \A n \in Nat : next_power_of_two[n] = IF n <= 1 THEN 1 ELSE 2 * next_power_of_two[Half(n)]
  BY ZenonT(60), <1>4 DEF Half
<1>6. \A n \in Nat : next_power_of_two[n] \in Nat
  <2> DEFINE Bad == {j \in Nat : next_power_of_two[j] \notin Nat}
  <2>1. SUFFICES ASSUME Bad # {} PROVE FALSE BY ZenonT(60)
  <2>2. PICK j \in Bad : \A k \in Bad : j <= k
    <3>1. Bad \in SUBSET Nat BY ZenonT(60)
    <3> HIDE DEF Bad
    <3> QED BY ZenonT(60), <2>1, <3>1, Least
  <2>3. j \in Nat /\ next_power_of_two[j] \notin Nat BY ZenonT(60), <2>2
  <2>4. ~(j <= 1) BY <1>5, <2>3
  <2>5. Half(j) \in Nat /\ Half(j) < j BY ZenonT(60), <2>3, <2>4, HalfIs
  <2>6. ~(j <= Half(j)) BY <2>3, <2>5
  <2>7. next_power_of_two[Half(j)] \in Nat BY ZenonT(60), <2>2, <2>5, <2>6
  <2> QED BY <1>5, <2>3, <2>4, <2>7
<1> QED
  <2>1. next_power_of_two = [n \in Nat |-> next_power_of_two[n]]
    <3>1. \A n \in Nat : next_power_of_two[n] = IF n <= 1 THEN 1 ELSE 2 * next_power_of_two[CeilDiv(n, 2)]
      BY ZenonT(60), <1>5 DEF Half
    <3> QED BY ZenonT(60), <1>4, <3>1
  <2>2. next_power_of_two \in [Nat -> Nat] BY ZenonT(60), <1>6, <2>1
  <2> QED BY ZenonT(60), <1>5, <2>2

\* It reaches its argument, and is less than twice as large; and it is the next power of
\* two of itself, and twice as large that of one more.
LEMMA PowerReaches ==
    ASSUME NEW n \in Nat
    PROVE  /\ next_power_of_two[n] \in Nat \ {0}
           /\ next_power_of_two[n] >= n
           /\ next_power_of_two[n] < 2 * Larger(n, 1)
           /\ next_power_of_two[next_power_of_two[n]] = next_power_of_two[n]
           /\ next_power_of_two[next_power_of_two[n] + 1] = 2 * next_power_of_two[n]
<1> DEFINE F(j) == next_power_of_two[j]
           Good(j) == /\ F(j) \in Nat \ {0}
                      /\ F(j) >= j
                      /\ F(j) < 2 * Larger(j, 1)
                      /\ F(F(j)) = F(j)
                      /\ F(F(j) + 1) = 2 * F(j)
           Bad == {j \in Nat : ~Good(j)}
<1>1. SUFFICES ASSUME Bad # {} PROVE FALSE BY ZenonT(60)
<1>2. PICK j \in Bad : \A k \in Bad : j <= k
  <2>1. Bad \in SUBSET Nat BY ZenonT(60)
  <2> HIDE DEF Bad
  <2> QED BY ZenonT(60), <1>1, <2>1, Least
<1>3. j \in Nat /\ ~Good(j) BY ZenonT(60), <1>2
<1>4. \A i \in Nat : F(i) = IF i <= 1 THEN 1 ELSE 2 * F(Half(i)) BY ZenonT(60), PowerIs
<1>5. CASE j <= 1
  <2>1. F(j) = 1 /\ F(1) = 1 BY <1>3, <1>4, <1>5
  <2>2. Half(2) = 1 BY DEF Half, CeilDiv
  <2>3. F(2) = 2 BY <1>4, <2>1, <2>2
  <2> HIDE DEF F
  <2> QED BY <1>3, <1>5, <2>1, <2>3 DEF Larger
<1>6. CASE ~(j <= 1)
  <2> DEFINE h == Half(j)
             a == F(h)
  <2>1. h \in Nat /\ h >= 1 /\ h < j /\ (2 * h = j \/ 2 * h = j + 1) BY ZenonT(60), <1>3, <1>6, HalfIs
  <2>2. Good(h)
    <3>1. ~(j <= h) BY <1>3, <2>1
    <3> QED BY ZenonT(60), <1>2, <2>1, <3>1
  <2>3. F(j) = 2 * a BY ZenonT(60), <1>3, <1>4, <1>6
  <2> HIDE DEF F, h, a
  <2>4. a \in Nat \ {0} /\ a >= h /\ a < 2 * Larger(h, 1) /\ F(a) = a /\ F(a + 1) = 2 * a
    BY ZenonT(60), <2>2 DEF a
  <2>5. /\ 2 * a \in Nat /\ ~(2 * a <= 1) /\ Half(2 * a) = a
        /\ 2 * a + 1 \in Nat /\ ~(2 * a + 1 <= 1) /\ Half(2 * a + 1) = a + 1
    BY <2>4 DEF Half, CeilDiv
  <2>6. F(2 * a) = 2 * a BY ZenonT(60), <1>4, <2>4, <2>5
  <2>7. F(2 * a + 1) = 2 * (2 * a) BY ZenonT(60), <1>4, <2>4, <2>5
  <2>8. F(j) \in Nat \ {0} /\ F(j) >= j /\ F(j) < 2 * Larger(j, 1)
    BY <1>3, <1>6, <2>1, <2>3, <2>4 DEF Larger
  <2> QED BY ZenonT(60), <1>3, <2>3, <2>6, <2>7, <2>8
<1> QED BY ZenonT(60), <1>5, <1>6

\* next_power_of_two of more is no less.
LEMMA PowerGrows ==
    ASSUME NEW m \in Nat, NEW n \in Nat, m <= n
    PROVE  next_power_of_two[m] <= next_power_of_two[n]
<1> DEFINE F(j) == next_power_of_two[j]
           Bad == {j \in Nat : \E i \in Nat : i <= j /\ ~(F(i) <= F(j))}
<1>1. SUFFICES ASSUME Bad # {} PROVE FALSE BY ZenonT(60)
<1>2. PICK j \in Bad : \A k \in Bad : j <= k
  <2>1. Bad \in SUBSET Nat BY ZenonT(60)
  <2> HIDE DEF Bad
  <2> QED BY ZenonT(60), <1>1, <2>1, Least
<1>3. PICK i \in Nat : i <= j /\ ~(F(i) <= F(j)) BY ZenonT(60), <1>2
<1>4. j \in Nat BY ZenonT(60), <1>2
<1>5. /\ F(i) = IF i <= 1 THEN 1 ELSE 2 * F(Half(i))
      /\ F(j) = IF j <= 1 THEN 1 ELSE 2 * F(Half(j))
  BY ZenonT(60), <1>3, <1>4, PowerIs
<1>6. F(i) \in Nat \ {0} /\ F(j) \in Nat \ {0} BY ZenonT(60), <1>3, <1>4, PowerReaches
<1>7. ~(i <= 1) /\ ~(j <= 1)
  <2> HIDE DEF F
  <2> QED BY <1>3, <1>4, <1>5, <1>6
<1>8. Half(i) \in Nat /\ Half(j) \in Nat /\ Half(i) <= Half(j) /\ ~(j <= Half(j))
  BY <1>3, <1>4, <1>7 DEF Half, CeilDiv
<1>9. F(Half(i)) <= F(Half(j)) BY ZenonT(60), <1>2, <1>8
<1>10. F(Half(i)) \in Nat /\ F(Half(j)) \in Nat BY ZenonT(60), <1>8, PowerReaches
<1> HIDE DEF F
<1> QED BY <1>3, <1>5, <1>7, <1>9, <1>10

PowersOfTwo == {next_power_of_two[n] : n \in Nat}

\* A power of two is its own next.
LEMMA PowerOfItself ==
    ASSUME NEW p \in PowersOfTwo
    PROVE  p \in Nat \ {0} /\ next_power_of_two[p] = p
BY ZenonT(60), PowerReaches DEF PowersOfTwo

\* Half of one that is not one is another.
LEMMA PowerHalves ==
    ASSUME NEW p \in PowersOfTwo, p # 1
    PROVE  \E q \in PowersOfTwo : q \in Nat \ {0} /\ p = 2 * q
<1>1. PICK n \in Nat : p = next_power_of_two[n] BY ZenonT(60) DEF PowersOfTwo
<1>2. ~(n <= 1) /\ p = 2 * next_power_of_two[Half(n)] BY ZenonT(60), <1>1, PowerIs
<1>3. Half(n) \in Nat BY ZenonT(60), <1>2, HalfIs
<1>4. next_power_of_two[Half(n)] \in PowersOfTwo BY ZenonT(60), <1>3 DEF PowersOfTwo
<1> QED BY ZenonT(60), <1>2, <1>4, PowerOfItself

\* Four and the multiples of eight are all there are from four on.
LEMMA PowerEighths ==
    ASSUME NEW p \in PowersOfTwo, p >= 4
    PROVE  p = 4 \/ \E q \in Nat \ {0} : p = 8 * q
<1>0. p \in Nat BY ZenonT(60), PowerOfItself
<1>1. PICK q \in PowersOfTwo : q \in Nat \ {0} /\ p = 2 * q
  <2>1. p # 1 BY <1>0
  <2> QED BY ZenonT(60), <2>1, PowerHalves
<1>2. PICK r \in PowersOfTwo : r \in Nat \ {0} /\ q = 2 * r
  <2>1. q # 1 BY <1>1
  <2> QED BY ZenonT(60), <2>1, PowerHalves
<1>3. CASE r = 1 BY <1>1, <1>2, <1>3
<1>4. CASE r # 1
  <2>1. PICK s \in PowersOfTwo : s \in Nat \ {0} /\ r = 2 * s BY ZenonT(60), <1>4, PowerHalves
  <2>2. p = 8 * s BY <1>1, <1>2, <2>1
  <2> QED BY ZenonT(60), <2>1, <2>2
<1> QED BY ZenonT(60), <1>3, <1>4

-----------------------------------------------------------------------------
\* The buckets for n entries: a power of two with an eighth of it to spare.
LEMMA BucketsAre ==
    ASSUME NEW n \in Nat
    PROVE  /\ Buckets(n) \in PowersOfTwo
           /\ Buckets(n) \in Nat
           /\ Buckets(n) >= 4
           /\ 7 * Buckets(n) >= 8 * n
<1> DEFINE k == Larger(CeilDiv(8 * n, 7), 4)
<1>1. k \in Nat /\ k >= 4 /\ 7 * k >= 8 * n BY DEF Larger, CeilDiv
<1> HIDE DEF k
<1>2. next_power_of_two[k] \in Nat /\ next_power_of_two[k] >= k BY ZenonT(60), <1>1, PowerReaches
<1>3. next_power_of_two[k] \in PowersOfTwo BY ZenonT(60), <1>1 DEF PowersOfTwo
<1>4. Buckets(n) = next_power_of_two[k] BY ZenonT(60) DEF Buckets, k
<1> QED BY <1>1, <1>2, <1>3, <1>4

\* More entries never need fewer buckets.
LEMMA BucketsGrow ==
    ASSUME NEW m \in Nat, NEW n \in Nat, m <= n
    PROVE  Buckets(m) <= Buckets(n)
<1> DEFINE j == Larger(CeilDiv(8 * m, 7), 4)
           k == Larger(CeilDiv(8 * n, 7), 4)
<1>1. j \in Nat /\ k \in Nat /\ j <= k BY DEF Larger, CeilDiv
<1> HIDE DEF j, k
<1>2. next_power_of_two[j] <= next_power_of_two[k] BY ZenonT(60), <1>1, PowerGrows
<1> QED BY ZenonT(60), <1>2 DEF Buckets, j, k

\* Products of natural numbers grow with a factor.
LEMMA ProductGrows ==
    \A a, b, c \in Nat : a * c \in Nat /\ (a <= b => a * c <= b * c)
OBVIOUS

\* A table's bytes cover its buckets, and grow with the entries asked for.
LEMMA TableBytes ==
    ASSUME NEW n \in Nat
    PROVE  /\ hash_table_bytes(n) \in Nat
           /\ n > 0 => hash_table_bytes(n) >= Buckets(n) * (SlotBytes + 1) + HASH_GROUP
<1> DEFINE x == Buckets(n) * (SlotBytes + 1)
<1>1. x \in Nat BY ProductGrows, BucketsAre, ShardBookAssumption
<1> HIDE DEF x
<1>2. CeilDiv(x + 16, 16) * 16 \in Nat /\ CeilDiv(x + 16, 16) * 16 >= x + 16 BY <1>1 DEF CeilDiv
<1>3. hash_table_bytes(n) = IF n = 0 THEN 0 ELSE CeilDiv(x + 16, 16) * 16
  BY ZenonT(60) DEF hash_table_bytes, HASH_GROUP, x
<1> QED BY <1>1, <1>2, <1>3 DEF HASH_GROUP, x

\* More entries never take fewer bytes.
LEMMA TableBytesGrow ==
    ASSUME NEW m \in Nat, NEW n \in Nat, m <= n
    PROVE  hash_table_bytes(m) <= hash_table_bytes(n)
<1> DEFINE x == Buckets(m) * (SlotBytes + 1)
           y == Buckets(n) * (SlotBytes + 1)
<1>1. x \in Nat /\ y \in Nat /\ x <= y
  <2>1. Buckets(m) \in Nat /\ Buckets(n) \in Nat /\ Buckets(m) <= Buckets(n)
    BY ZenonT(60), BucketsAre, BucketsGrow
  <2>2. SlotBytes + 1 \in Nat BY SMTT(60), ShardBookAssumption
  <2> QED BY ZenonT(60), <2>1, <2>2, ProductGrows
<1>2. CASE m = 0 BY <1>2, TableBytes DEF hash_table_bytes
<1>3. CASE m # 0
  <2> HIDE DEF x, y
  <2>1. n # 0 BY <1>3
  <2>2. CeilDiv(x + 16, 16) * 16 <= CeilDiv(y + 16, 16) * 16 BY <1>1 DEF CeilDiv
  <2> QED BY ZenonT(60), <1>3, <2>1, <2>2 DEF hash_table_bytes, HASH_GROUP, x, y
<1> QED BY ZenonT(60), <1>2, <1>3

\* The entries b buckets take.
Takes(b) == IF b < 8 THEN b - 1 ELSE (b \div 8) * 7

\* Of four buckets three are filled, of any other number seven eighths.
LEMMA BucketRoom ==
    ASSUME NEW b \in PowersOfTwo, b >= 4
    PROVE  \/ b = 4 /\ Takes(b) = 3
           \/ \E q \in Nat \ {0} : b = 8 * q /\ Takes(b) = 7 * q
<1>1. CASE b = 4 BY <1>1 DEF Takes
<1>2. ASSUME NEW q \in Nat \ {0}, b = 8 * q PROVE Takes(b) = 7 * q
  <2>1. ~(b < 8) /\ b \div 8 = q BY <1>2
  <2> QED BY <2>1 DEF Takes
<1> QED BY ZenonT(60), <1>1, <1>2, PowerEighths

\* The entries a table of n's buckets takes are n or more, need the same buckets, and so
\* the same bytes.
LEMMA SlotsAre ==
    ASSUME NEW n \in Nat
    PROVE  /\ SlotsFor(n) \in Nat
           /\ SlotsFor(n) >= n
           /\ SlotsFor(SlotsFor(n)) = SlotsFor(n)
           /\ hash_table_bytes(SlotsFor(n)) = hash_table_bytes(n)
<1>1. CASE n = 0 BY <1>1 DEF SlotsFor
<1>2. CASE n # 0
  <2> DEFINE b == Buckets(n)
             s == Takes(b)
             k == Larger(CeilDiv(8 * s, 7), 4)
  <2>1. b \in PowersOfTwo /\ b \in Nat /\ b >= 4 /\ 7 * b >= 8 * n BY ZenonT(60), BucketsAre
  <2>2. SlotsFor(n) = s BY ZenonT(60), <1>2 DEF SlotsFor, Takes
  <2> HIDE DEF b
  <2>3. \/ b = 4 /\ s = 3
        \/ \E q \in Nat \ {0} : b = 8 * q /\ s = 7 * q
    BY ZenonT(60), <2>1, BucketRoom
  <2> HIDE DEF s
  <2>4. s \in Nat \ {0} /\ s >= n /\ k = b
    <3>1. CASE b = 4 /\ s = 3 BY <2>1, <3>1 DEF Larger, CeilDiv
    <3>2. ASSUME NEW q \in Nat \ {0}, b = 8 * q, s = 7 * q PROVE s \in Nat \ {0} /\ s >= n /\ k = b
      <4>1. CeilDiv(8 * s, 7) = 8 * q BY <3>2 DEF CeilDiv
      <4> QED BY <2>1, <3>2, <4>1 DEF Larger
    <3> QED BY ZenonT(60), <2>3, <3>1, <3>2
  <2> HIDE DEF k
  <2>5. next_power_of_two[b] = b BY ZenonT(60), <2>1, PowerOfItself
  <2>6. Buckets(s) = b BY ZenonT(60), <2>4, <2>5 DEF Buckets, k
  <2>7. SlotsFor(s) = s BY ZenonT(60), <2>4, <2>6 DEF SlotsFor, Takes, s
  <2>8. hash_table_bytes(s) = hash_table_bytes(n) BY ZenonT(60), <1>2, <2>4, <2>6 DEF hash_table_bytes, b
  <2> QED BY ZenonT(60), <2>2, <2>4, <2>7, <2>8
<1> QED BY ZenonT(60), <1>1, <1>2

\* A larger table takes no fewer.
LEMMA SlotsGrow ==
    ASSUME NEW m \in Nat, NEW n \in Nat, m <= n
    PROVE  SlotsFor(m) <= SlotsFor(n)
<1> DEFINE a == Buckets(m)
           b == Buckets(n)
<1>1. /\ a \in PowersOfTwo /\ a \in Nat /\ a >= 4
      /\ b \in PowersOfTwo /\ b \in Nat /\ b >= 4
      /\ a <= b
  BY ZenonT(60), BucketsAre, BucketsGrow
<1> HIDE DEF a, b
<1>2. /\ (a = 4 /\ Takes(a) = 3) \/ \E q \in Nat \ {0} : a = 8 * q /\ Takes(a) = 7 * q
      /\ (b = 4 /\ Takes(b) = 3) \/ \E q \in Nat \ {0} : b = 8 * q /\ Takes(b) = 7 * q
  BY ZenonT(60), <1>1, BucketRoom
<1>3. Takes(a) <= Takes(b) BY SMTT(60), <1>1, <1>2
<1>4. CASE m = 0 BY <1>4, SlotsAre DEF SlotsFor
<1>5. CASE m # 0
  <2>1. n # 0 BY <1>5
  <2> QED BY ZenonT(60), <1>3, <1>5, <2>1 DEF SlotsFor, Takes, a, b
<1> QED BY ZenonT(60), <1>4, <1>5

\* What the map moves to when it is full is paid for by the peak the growth was asked for:
\* twice the slots on record, or one, cover one slot more than it has.
LEMMA LargerIsPaid ==
    ASSUME NEW s \in Nat, NEW m \in Nat, s <= m
    PROVE  hash_table_bytes(s + 1) <= hash_table_bytes(IF m = 0 THEN 1 ELSE 2 * m)
<1> DEFINE w == IF m = 0 THEN 1 ELSE 2 * m
<1>1. s + 1 \in Nat /\ w \in Nat /\ s + 1 <= w BY SMT
<1> HIDE DEF w
<1>2. hash_table_bytes(s + 1) <= hash_table_bytes(w) BY ZenonT(60), <1>1, TableBytesGrow
<1> QED BY ZenonT(60), <1>2 DEF w

-----------------------------------------------------------------------------
\* The loop of ring_target_bytes.

\* A full ring grows.
LEMMA GrownIs ==
    ASSUME NEW c \in Nat
    PROVE  /\ RingGrown(c) \in Nat /\ RingGrown(c) > c
           /\ RingGrown(c) >= 2 * c /\ RingGrown(c) >= 4
           /\ RingGrown(c) = 4 \/ RingGrown(c) = 2 * c
BY DEF RingGrown, Larger, RING_MIN_CAPACITY

\* The functions that are what the loop is to compute for e entries, of the rings that lack
\* no more than k of them.
Loops(e, k) ==
    {f \in [Nat -> Nat] :
        \A c \in Nat : c + k >= e => f[c] = IF c < e THEN f[RingGrown(c)] ELSE c}

\* There is one for every k: a ring that lacks more lacks less once it has grown.
LEMMA LoopsExist ==
    ASSUME NEW e \in Nat, NEW k \in Nat
    PROVE  \E f : f \in Loops(e, k)
<1> DEFINE Bad == {j \in Nat : ~ \E f : f \in Loops(e, j)}
<1>1. SUFFICES ASSUME Bad # {} PROVE FALSE BY ZenonT(60)
<1>2. PICK j \in Bad : \A i \in Bad : j <= i
  <2>1. Bad \in SUBSET Nat BY ZenonT(60)
  <2> HIDE DEF Bad
  <2> QED BY ZenonT(60), <1>1, <2>1, Least
<1>3. j \in Nat /\ ~ \E f : f \in Loops(e, j) BY ZenonT(60), <1>2
<1>4. CASE j = 0
  <2> DEFINE f == [c \in Nat |-> c]
  <2>1. f \in [Nat -> Nat] BY ZenonT(60)
  <2>2. ASSUME NEW c \in Nat, c + 0 >= e PROVE f[c] = IF c < e THEN f[RingGrown(c)] ELSE c
    <3>1. ~(c < e) BY <2>2
    <3> QED BY ZenonT(60), <3>1
  <2>3. f \in Loops(e, 0) BY ZenonT(60), <2>1, <2>2 DEF Loops
  <2> QED BY ZenonT(60), <1>3, <1>4, <2>3
<1>5. CASE j # 0
  <2>1. j - 1 \in Nat /\ ~(j <= j - 1) BY <1>3, <1>5
  <2>2. PICK f : f \in Loops(e, j - 1) BY ZenonT(60), <1>2, <2>1
  <2>3. /\ f \in [Nat -> Nat]
        /\ \A c \in Nat : c + (j - 1) >= e => f[c] = IF c < e THEN f[RingGrown(c)] ELSE c
    BY ZenonT(60), <2>2 DEF Loops
  <2> DEFINE g == [c \in Nat |-> IF c + (j - 1) >= e THEN f[c] ELSE f[RingGrown(c)]]
  <2>4. g \in [Nat -> Nat]
    <3>1. \A c \in Nat : f[c] \in Nat /\ f[RingGrown(c)] \in Nat BY ZenonT(60), <2>3, GrownIs
    <3> QED BY ZenonT(60), <3>1
  <2>5. ASSUME NEW c \in Nat, c + j >= e PROVE g[c] = IF c < e THEN g[RingGrown(c)] ELSE c
    <3>1. RingGrown(c) \in Nat /\ RingGrown(c) > c BY ZenonT(60), GrownIs
    <3>2. RingGrown(c) + (j - 1) >= e BY <1>3, <2>5, <3>1
    <3>3. g[RingGrown(c)] = f[RingGrown(c)] BY ZenonT(60), <3>1, <3>2
    <3>4. CASE c + (j - 1) >= e BY ZenonT(60), <2>3, <3>3, <3>4
    <3>5. CASE ~(c + (j - 1) >= e)
      <4>1. c < e BY <1>3, <2>1, <3>5
      <4> QED BY ZenonT(60), <3>3, <3>5, <4>1
    <3> QED BY ZenonT(60), <3>4, <3>5
  <2>6. g \in Loops(e, j) BY ZenonT(60), <2>4, <2>5 DEF Loops
  <2> QED BY ZenonT(60), <1>3, <2>6
<1> QED BY ZenonT(60), <1>4, <1>5

\* One turn of the loop.
LEMMA TargetTurn ==
    ASSUME NEW c \in Nat, NEW e \in Nat
    PROVE  RingTarget(c, e) = IF c < e THEN RingTarget(RingGrown(c), e) ELSE c
<1> DEFINE Loop(f) == f = [n \in Nat |-> IF n < e THEN f[RingGrown(n)] ELSE n]
           g == CHOOSE f : Loop(f)
<1>1. \E f : Loop(f)
  <2>1. PICK f : f \in Loops(e, e) BY ZenonT(60), LoopsExist
  <2>2. \A n \in Nat : n + e >= e BY SMT
  <2>3. /\ f \in [Nat -> Nat]
        /\ \A n \in Nat : f[n] = IF n < e THEN f[RingGrown(n)] ELSE n
    BY ZenonT(60), <2>1, <2>2 DEF Loops
  <2>4. f = [n \in Nat |-> f[n]] BY ZenonT(60), <2>3
  <2>5. Loop(f) BY ZenonT(60), <2>3, <2>4
  <2> QED BY ZenonT(60), <2>5
<1>2. Loop(g) BY ZenonT(60), <1>1
<1>3. \A n \in Nat : RingTarget(n, e) = g[n] BY DEF RingTarget
<1> HIDE DEF g
<1>4. \A n \in Nat : g[n] = IF n < e THEN g[RingGrown(n)] ELSE n BY ZenonT(60), <1>2
<1>5. RingGrown(c) \in Nat BY ZenonT(60), GrownIs
<1> QED BY ZenonT(60), <1>3, <1>4, <1>5

\* What the loop stops at holds what is asked for.  When it turns at all it is at least what
\* the first growth gives, and at most twice what is asked for, or that.
LEMMA TargetIs ==
    ASSUME NEW c \in Nat, NEW e \in Nat
    PROVE  /\ RingTarget(c, e) \in Nat
           /\ RingTarget(c, e) >= e
           /\ c < e => RingTarget(c, e) >= RingGrown(c)
           /\ c < e => RingTarget(c, e) <= Larger(RingGrown(c), 2 * e)
<1> DEFINE G(n) == RingTarget(n, e)
           Good(n) == /\ G(n) \in Nat
                      /\ G(n) >= e
                      /\ n < e => G(n) >= RingGrown(n)
                      /\ n < e => G(n) <= Larger(RingGrown(n), 2 * e)
           Bad == {j \in Nat : \E n \in Nat : n + j >= e /\ ~Good(n)}
<1>1. SUFFICES ASSUME Bad # {} PROVE FALSE
  <2>1. e \in Nat /\ c + e >= e BY SMT
  <2> QED BY ZenonT(60), <2>1
<1>2. PICK j \in Bad : \A i \in Bad : j <= i
  <2>1. Bad \in SUBSET Nat BY ZenonT(60)
  <2> HIDE DEF Bad
  <2> QED BY ZenonT(60), <1>1, <2>1, Least
<1>3. PICK n \in Nat : n + j >= e /\ ~Good(n) BY ZenonT(60), <1>2
<1>4. j \in Nat BY ZenonT(60), <1>2
<1>5. G(n) = IF n < e THEN G(RingGrown(n)) ELSE n BY ZenonT(60), TargetTurn
<1> DEFINE f == RingGrown(n)
<1>6. f \in Nat /\ f > n /\ f >= 4 /\ f >= 2 * n /\ (f = 4 \/ f = 2 * n) BY ZenonT(60), GrownIs
<1>7. RingGrown(f) = 2 * f BY <1>6 DEF RingGrown, Larger, RING_MIN_CAPACITY
<1>8. n < e
  <2> HIDE DEF G, f
  <2> QED BY <1>3, <1>5
<1>9. Good(f)
  <2>1. j - 1 \in Nat /\ ~(j <= j - 1) /\ f + (j - 1) >= e BY <1>3, <1>4, <1>6, <1>8
  <2> QED BY ZenonT(60), <1>2, <1>6, <2>1
<1>10. ~(f < e) => G(f) = f BY ZenonT(60), <1>6, TargetTurn
<1> HIDE DEF G, f
<1>11. G(n) = G(f) BY ZenonT(60), <1>5, <1>8 DEF f
<1>12. G(f) \in Nat /\ G(f) >= e /\ G(f) >= f
  <2>1. CASE f < e BY <1>6, <1>7, <1>9, <2>1 DEF f
  <2>2. CASE ~(f < e) BY <1>6, <1>9, <1>10, <2>2
  <2> QED BY ZenonT(60), <2>1, <2>2
<1>13. G(f) <= Larger(f, 2 * e)
  <2>1. CASE f < e BY <1>6, <1>7, <1>9, <2>1 DEF f, Larger
  <2>2. CASE ~(f < e) BY <1>6, <1>10, <2>2 DEF Larger
  <2> QED BY ZenonT(60), <2>1, <2>2
<1> QED BY ZenonT(60), <1>3, <1>11, <1>12, <1>13 DEF f

\* More entries never take a smaller ring.
LEMMA TargetGrows ==
    ASSUME NEW c \in Nat, NEW d \in Nat, NEW e \in Nat, d <= e
    PROVE  RingTarget(c, d) <= RingTarget(c, e)
<1> DEFINE G(n) == RingTarget(n, d)
           H(n) == RingTarget(n, e)
           Bad == {j \in Nat : \E n \in Nat : n + j >= e /\ ~(G(n) <= H(n))}
<1>1. SUFFICES ASSUME Bad # {} PROVE FALSE
  <2>1. e \in Nat /\ c + e >= e BY SMT
  <2> QED BY ZenonT(60), <2>1
<1>2. PICK j \in Bad : \A i \in Bad : j <= i
  <2>1. Bad \in SUBSET Nat BY ZenonT(60)
  <2> HIDE DEF Bad
  <2> QED BY ZenonT(60), <1>1, <2>1, Least
<1>3. PICK n \in Nat : n + j >= e /\ ~(G(n) <= H(n)) BY ZenonT(60), <1>2
<1>4. j \in Nat BY ZenonT(60), <1>2
<1> DEFINE f == RingGrown(n)
<1>5. f \in Nat /\ f > n BY ZenonT(60), GrownIs
<1>6. /\ G(n) = IF n < d THEN G(f) ELSE n
      /\ H(n) = IF n < e THEN H(f) ELSE n
  BY ZenonT(60), TargetTurn
<1>7. H(n) \in Nat /\ H(n) >= e /\ (n < e => H(n) >= f) BY ZenonT(60), TargetIs
<1> HIDE DEF f, G, H
<1>8. n < d /\ n < e BY <1>3, <1>5, <1>6, <1>7
<1>9. j - 1 \in Nat /\ ~(j <= j - 1) /\ f + (j - 1) >= e BY <1>3, <1>4, <1>5, <1>8
<1>10. G(f) <= H(f) BY ZenonT(60), <1>2, <1>5, <1>9
<1> QED BY ZenonT(60), <1>3, <1>6, <1>8, <1>10

\* What a ring is charged covers the ring it has; when a push will grow it, also the ring
\* that push makes beside it; and it is never more than a few words for each entry.
LEMMA RingCost ==
    ASSUME NEW c \in Nat, NEW e \in Nat
    PROVE  /\ ring_target_bytes(c, e) \in Nat
           /\ ring_target_bytes(c, e) >= ring_bytes(c)
           /\ e > c => ring_target_bytes(c, e) >= ring_bytes(c) + ring_bytes(RingGrown(c))
           /\ ring_target_bytes(c, e) <= ring_bytes(c) + 24 * Larger(e, 2)
<1> DEFINE f == RingGrown(c)
           g == RingTarget(c, e)
<1>1. /\ f \in Nat /\ f >= 2 * c /\ f >= 4 /\ (f = 4 \/ f = 2 * c) BY ZenonT(60), GrownIs
<1>2. g \in Nat /\ (c < e => g >= f /\ g <= Larger(f, 2 * e)) BY ZenonT(60), TargetIs
<1>3. ring_target_bytes(c, e) = IF e <= c THEN 8 * c ELSE 8 * g + 8 * (g \div 2)
  BY ZenonT(60) DEF ring_target_bytes, ring_bytes
<1> HIDE DEF f, g
<1>4. CASE e <= c BY <1>3, <1>4 DEF ring_bytes, Larger
<1>5. CASE e > c
  <2>1. g <= 2 * Larger(e, 2) /\ g >= f BY <1>1, <1>2, <1>5 DEF Larger
  <2>2. g \div 2 \in Nat /\ g \div 2 >= c /\ 2 * (g \div 2) <= g BY <1>1, <1>2, <2>1
  <2>3. ring_target_bytes(c, e) = 8 * g + 8 * (g \div 2) BY <1>3, <1>5
  <2> QED BY <1>1, <1>2, <2>1, <2>2, <2>3 DEF ring_bytes, Larger, f
<1> QED BY <1>4, <1>5

\* More entries never cost less.
LEMMA RingCostGrows ==
    ASSUME NEW c \in Nat, NEW d \in Nat, NEW e \in Nat, d <= e
    PROVE  ring_target_bytes(c, d) <= ring_target_bytes(c, e)
<1>1. CASE d <= c BY ZenonT(60), <1>1, RingCost DEF ring_target_bytes
<1>2. CASE d > c
  <2> DEFINE g == RingTarget(c, d)
             h == RingTarget(c, e)
  <2>1. g \in Nat /\ h \in Nat /\ g <= h BY ZenonT(60), TargetIs, TargetGrows
  <2>2. ~(d <= c) /\ ~(e <= c) BY <1>2
  <2>3. /\ ring_target_bytes(c, d) = 8 * g + 8 * (g \div 2)
        /\ ring_target_bytes(c, e) = 8 * h + 8 * (h \div 2)
    BY ZenonT(60), <2>2 DEF ring_target_bytes, ring_bytes
  <2> HIDE DEF g, h
  <2> QED BY <2>1, <2>3
<1> QED BY <1>1, <1>2

\* A push that grows the ring leaves it charged for no more than before.
LEMMA PushedCost ==
    ASSUME NEW c \in Nat, NEW e \in Nat, c < e
    PROVE  ring_target_bytes(RingGrown(c), e) <= ring_target_bytes(c, e)
<1> DEFINE f == RingGrown(c)
           g == RingTarget(c, e)
<1>1. f \in Nat BY ZenonT(60), GrownIs
<1>2. ring_target_bytes(c, e) = 8 * g + 8 * (g \div 2)
  BY DEF ring_target_bytes, ring_bytes
<1>3. ring_target_bytes(f, e) =
          IF e <= f THEN 8 * f ELSE 8 * RingTarget(f, e) + 8 * (RingTarget(f, e) \div 2)
  BY ZenonT(60) DEF ring_target_bytes, ring_bytes
<1>4. g = RingTarget(f, e) BY ZenonT(60), TargetTurn
<1>5. g \in Nat /\ g >= f BY ZenonT(60), TargetIs
<1> HIDE DEF f, g
<1>6. CASE e <= f BY <1>1, <1>2, <1>3, <1>5, <1>6 DEF f
<1>7. CASE ~(e <= f)
  <2>1. ring_target_bytes(f, e) = ring_target_bytes(c, e) BY ZenonT(60), <1>2, <1>3, <1>4, <1>7
  <2>2. ring_target_bytes(c, e) \in Nat BY ZenonT(60), RingCost
  <2> QED BY <2>1, <2>2 DEF f
<1> QED BY ZenonT(60), <1>6, <1>7

-----------------------------------------------------------------------------
\* The inductive invariant, of a shard.  Its map holds what it holds within its buckets,
\* the slots on record cover them, and both are sizes a table has; the ring has room for
\* the pages; every allocation so far was covered.
Shards ==
    [slots : Nat, left : Nat, mapSlots : Nat, ringCap : Nat,
     ready : Nat, loading : Nat, book : Nat, covered : BOOLEAN, moved : BOOLEAN]

\* The table alone: it may have outgrown what is on record.
Fits(sh) ==
    /\ sh \in Shards
    /\ sh.ready + sh.loading <= MaxPages
    /\ sh.ready + sh.loading + sh.left <= sh.slots
    /\ SlotsFor(sh.slots) = sh.slots
    /\ SlotsFor(sh.mapSlots) = sh.mapSlots

Sound(sh) == Fits(sh) /\ sh.slots <= sh.mapSlots /\ sh.ready <= sh.ringCap /\ sh.covered

\* The charge covers the footprint.
Paid(sh) == bookkeeping_footprint(sh) <= sh.book

\* Nothing is kept for no entries, but what is on record of a map used up.
Emptied(sh) == sh.slots = 0 /\ (sh.mapSlots = 0 => sh.ringCap = 0 /\ sh.book = 0)

SameCounts(x, sh) == x.ready = sh.ready /\ x.loading = sh.loading /\ x.moved = sh.moved

\* The footprint, as numbers.
LEMMA Footprint ==
    ASSUME NEW sh, Fits(sh)
    PROVE  /\ sh.slots \in Nat /\ sh.mapSlots \in Nat
           /\ sh.ringCap \in Nat
           /\ Len(sh) \in Nat /\ Len(sh) + 1 \in Nat
           /\ hash_table_bytes(sh.slots) \in Nat
           /\ hash_table_bytes(sh.mapSlots) \in Nat
           /\ hash_table_bytes(Len(sh)) \in Nat
           /\ ring_bytes(sh.ringCap) \in Nat
           /\ ring_target_bytes(sh.ringCap, Len(sh)) \in Nat
           /\ ring_target_bytes(sh.ringCap, Len(sh)) >= ring_bytes(sh.ringCap)
           /\ bookkeeping_footprint(sh) =
                  hash_table_bytes(sh.mapSlots) + ring_target_bytes(sh.ringCap, Len(sh))
           /\ bookkeeping_footprint(sh) \in Nat
           /\ Allocated(sh) = hash_table_bytes(sh.slots) + ring_bytes(sh.ringCap)
<1>1. /\ sh.slots \in Nat /\ sh.mapSlots \in Nat /\ sh.ringCap \in Nat
      /\ Len(sh) \in Nat /\ Len(sh) + 1 \in Nat
  BY SMTT(40), ShardBookAssumption DEF Fits, Shards, Len
<1>2. /\ hash_table_bytes(sh.slots) \in Nat
      /\ hash_table_bytes(sh.mapSlots) \in Nat
      /\ hash_table_bytes(Len(sh)) \in Nat
  BY ZenonT(60), <1>1, TableBytes
<1>3. /\ ring_target_bytes(sh.ringCap, Len(sh)) \in Nat
      /\ ring_target_bytes(sh.ringCap, Len(sh)) >= ring_bytes(sh.ringCap)
  BY ZenonT(60), <1>1, RingCost
<1>4. bookkeeping_footprint(sh) = hash_table_bytes(sh.mapSlots) + ring_target_bytes(sh.ringCap, Len(sh))
  BY ZenonT(60) DEF bookkeeping_footprint, Len
<1>5. ring_bytes(sh.ringCap) \in Nat BY <1>1 DEF ring_bytes
<1> QED BY SMTT(60), <1>1, <1>2, <1>3, <1>4, <1>5 DEF Allocated

\* The shard with its charge made `want`.
Recharged(sh, want) == [sh EXCEPT !.book = want]

\* Settling: the charge becomes what is wanted, or stays when that is more; and what
\* is wanted is always got when it is not more.
LEMMA Settling ==
    ASSUME NEW sh, NEW want, NEW r \in Settle(sh, want)
    PROVE  \/ r[1] = TRUE /\ r[2] = Recharged(sh, want)
           \/ r[1] = FALSE /\ r[2] = sh /\ want > sh.book
<1>1. CASE r = <<TRUE, [sh EXCEPT !.book = want]>> BY ZenonT(60), <1>1 DEF Recharged
<1>2. CASE want > sh.book /\ r = <<FALSE, sh>> BY ZenonT(60), <1>2
<1> QED BY ZenonT(60), <1>1, <1>2 DEF Settle

\* Only the charge changes.
LEMMA RechargedIs ==
    ASSUME NEW sh, NEW want \in Nat, Fits(sh)
    PROVE  /\ Fits(Recharged(sh, want))
           /\ SameCounts(Recharged(sh, want), sh)
           /\ Sound(sh) => Sound(Recharged(sh, want))
           /\ Recharged(sh, want).book = want
           /\ Recharged(sh, want).slots = sh.slots
           /\ Recharged(sh, want).mapSlots = sh.mapSlots
           /\ Recharged(sh, want).ringCap = sh.ringCap
           /\ bookkeeping_footprint(Recharged(sh, want)) = bookkeeping_footprint(sh)
           /\ Allocated(Recharged(sh, want)) = Allocated(sh)
           /\ Len(Recharged(sh, want)) = Len(sh)
           /\ MapCapacity(Recharged(sh, want)) = MapCapacity(sh)
BY ZenonT(60) DEF Recharged, Fits, Shards, SameCounts, Sound, bookkeeping_footprint, Allocated, Len, MapCapacity

\* An allocation that is covered leaves no trace.
LEMMA Covered ==
    ASSUME NEW sh, sh \in Shards, sh.covered, NEW more, NEW extra,
           Allocated(sh) + more <= sh.book + extra
    PROVE  Allocate(sh, more, extra) = sh
<1>1. sh.covered = TRUE BY ZenonT(60) DEF Shards
<1>2. Allocate(sh, more, extra) = [sh EXCEPT !.covered = TRUE] BY ZenonT(60), <1>1 DEF Allocate
<1> QED BY ZenonT(60), <1>1, <1>2 DEF Shards

\* The map shrunk to `fit` slots, with what is on record made `on`.
Refitted(sh, fit, on) == [sh EXCEPT !.slots = fit, !.left = fit - Len(sh), !.mapSlots = on]

\* Such a shard is as sound as before, with the same entries.
LEMMA RefittedIs ==
    ASSUME NEW sh, Sound(sh), NEW on \in {sh.mapSlots, SlotsFor(Len(sh))}
    PROVE  LET fit == SlotsFor(Len(sh)) IN
           fit < sh.slots =>
               /\ Sound(Refitted(sh, fit, on))
               /\ SameCounts(Refitted(sh, fit, on), sh)
               /\ Refitted(sh, fit, on).slots = fit
               /\ Refitted(sh, fit, on).mapSlots = on
               /\ Refitted(sh, fit, on).ringCap = sh.ringCap
               /\ Refitted(sh, fit, on).book = sh.book
               /\ Len(Refitted(sh, fit, on)) = Len(sh)
<1> DEFINE fit == SlotsFor(Len(sh))
           y == Refitted(sh, fit, on)
<1>0. Len(sh) \in Nat /\ Len(sh) = sh.ready + sh.loading
  BY ShardBookAssumption DEF Sound, Fits, Shards, Len
<1>1. fit \in Nat /\ fit >= Len(sh) /\ SlotsFor(fit) = fit BY ZenonT(60), <1>0, SlotsAre
<1> HIDE DEF fit
<1> SUFFICES ASSUME fit < sh.slots
             PROVE  /\ Sound(y) /\ SameCounts(y, sh) /\ y.slots = fit /\ y.mapSlots = on
                    /\ y.ringCap = sh.ringCap /\ y.book = sh.book /\ Len(y) = Len(sh)
  BY ZenonT(60) DEF fit
<1>2. on \in Nat /\ SlotsFor(on) = on /\ fit <= on
  BY <1>1 DEF Sound, Fits, Shards, fit
<1>3. /\ y.slots = fit /\ y.left = fit - Len(sh) /\ y.mapSlots = on
      /\ y.ringCap = sh.ringCap /\ y.book = sh.book /\ y.ready = sh.ready
      /\ y.loading = sh.loading /\ y.covered = sh.covered /\ y.moved = sh.moved
  BY ZenonT(60) DEF Refitted, Sound, Fits, Shards
<1>4. y \in Shards
  <2>1. fit \in Nat /\ fit - Len(sh) \in Nat BY <1>0, <1>1
  <2> QED BY ZenonT(60), <1>2, <2>1 DEF Refitted, Sound, Fits, Shards
<1> HIDE DEF y
<1> QED BY <1>0, <1>1, <1>2, <1>3, <1>4 DEF Sound, Fits, Shards, SameCounts, Len

\* The first half of release_bookkeeping keeps a shard sound and paid for.  It gives an
\* empty map back, and what was charged for it then pays for the ring's shrinking.
LEMMA MapReleased ==
    ASSUME NEW sh, Sound(sh), NEW x \in ReleaseMap(sh)
    PROVE  /\ Sound(x) /\ SameCounts(x, sh) /\ x.ringCap = sh.ringCap
           /\ Paid(sh) => Paid(x)
           /\ Paid(sh) /\ Len(sh) = 0 /\ sh.mapSlots > 0 =>
                  x.slots = 0 /\ (x.mapSlots = 0 => x.book >= ring_bytes(x.ringCap) + 32)
<1> DEFINE n == Len(sh)
           fit == SlotsFor(n)
           during == bookkeeping_footprint(sh) + hash_table_bytes(n)
           w == Recharged(sh, during)
           y == MapShrink(w)
<1>1. Fits(sh) BY ZenonT(60) DEF Sound
<1>2. CASE ~(sh.mapSlots > 2 * n)
  <2>1. x = sh BY ZenonT(60), <1>2 DEF ReleaseMap
  <2>2. ~(n = 0 /\ sh.mapSlots > 0) BY <1>1, <1>2 DEF Fits, Shards
  <2> QED BY ZenonT(60), <2>1, <2>2 DEF SameCounts
<1>3. CASE sh.mapSlots > 2 * n /\ x = sh /\ during > sh.book
  <2>1. n = 0 => hash_table_bytes(n) = 0 BY ZenonT(60) DEF hash_table_bytes
  <2>2. ~(n = 0 /\ Paid(sh)) BY <1>1, <1>3, <2>1, Footprint DEF Paid, Fits, Shards
  <2> QED BY ZenonT(60), <1>3, <2>2 DEF SameCounts
<1>4. CASE /\ sh.mapSlots > 2 * n
           /\ x = IF MapCapacity(y) # MapCapacity(w)
                    THEN [y EXCEPT !.mapSlots = MapCapacity(y)] ELSE y
  <2>0. n \in Nat BY SMTT(60), <1>1, ShardBookAssumption DEF Fits, Shards, Len
  <2>1. fit \in Nat /\ fit >= n /\ SlotsFor(fit) = fit
        /\ hash_table_bytes(fit) = hash_table_bytes(n)
    BY ZenonT(60), <2>0, SlotsAre
  <2>2. during \in Nat /\ hash_table_bytes(n) \in Nat BY <1>1, Footprint
  <2>3. Sound(w) /\ Fits(w) /\ SameCounts(w, sh) /\ Len(w) = n /\ w.book = during
        /\ w.slots = sh.slots /\ w.mapSlots = sh.mapSlots /\ w.ringCap = sh.ringCap
        /\ Allocated(w) = Allocated(sh) /\ bookkeeping_footprint(w) = bookkeeping_footprint(sh)
    BY ZenonT(60), <1>1, <2>2, RechargedIs DEF Sound
  <2>4. hash_table_bytes(sh.slots) <= hash_table_bytes(sh.mapSlots)
    BY ZenonT(60), <1>1, Footprint, TableBytesGrow DEF Sound
  <2>5. Allocated(w) + hash_table_bytes(fit) <= w.book + 0
    BY <1>1, <2>1, <2>2, <2>3, <2>4, Footprint
  <2>6. Allocate(w, hash_table_bytes(fit), 0) = w
    BY ZenonT(60), <2>3, <2>5, Covered DEF Sound, Fits
  <2> HIDE DEF w, during
  <2>7. y = IF fit < w.slots THEN [w EXCEPT !.slots = fit, !.left = fit - n] ELSE w
    BY ZenonT(60), <2>3, <2>6 DEF MapShrink
  <2>8. PICK on \in {w.mapSlots, fit} :
            x = IF fit < w.slots THEN Refitted(w, fit, on) ELSE w
    <3>1. CASE ~(fit < w.slots) BY ZenonT(60), <1>4, <2>7, <3>1
    <3>2. CASE fit < w.slots
      <4>1. y = [w EXCEPT !.slots = fit, !.left = fit - n] BY ZenonT(60), <2>7, <3>2
      <4>2. y = Refitted(w, fit, w.mapSlots) BY ZenonT(60), <2>3, <4>1 DEF Refitted, Fits, Shards
      <4>3. y.left = fit - n /\ y.ready = w.ready /\ y.loading = w.loading
        BY ZenonT(60), <2>3, <4>1 DEF Fits, Shards
      <4>4. MapCapacity(y) = fit
        BY <2>0, <2>1, <2>3, <4>3 DEF MapCapacity, Len, Fits, Shards
      <4>5. [y EXCEPT !.mapSlots = fit] = Refitted(w, fit, fit)
        BY ZenonT(60), <2>3, <4>1 DEF Refitted, Fits, Shards
      <4> QED BY ZenonT(60), <1>4, <3>2, <4>2, <4>4, <4>5
    <3> QED BY ZenonT(60), <3>1, <3>2
  <2>9. /\ Sound(x) /\ SameCounts(x, w) /\ x.ringCap = w.ringCap /\ Len(x) = n /\ x.book = w.book
        /\ x.mapSlots \in {w.mapSlots, fit}
        /\ x.slots = IF fit < w.slots THEN fit ELSE w.slots
    <3>1. CASE ~(fit < w.slots) BY ZenonT(60), <2>3, <2>8, <3>1 DEF SameCounts
    <3>2. CASE fit < w.slots BY <2>3, <2>8, <3>2, RefittedIs
    <3> QED BY ZenonT(60), <3>1, <3>2
  <2>10. x.mapSlots = sh.mapSlots \/ x.mapSlots = fit BY ZenonT(60), <2>3, <2>9
  <2>11. Paid(x)
    <3>1. hash_table_bytes(x.mapSlots) <= hash_table_bytes(sh.mapSlots) + hash_table_bytes(n)
      BY <1>1, <2>1, <2>2, <2>10, Footprint
    <3>2. bookkeeping_footprint(x) =
            hash_table_bytes(x.mapSlots) + ring_target_bytes(sh.ringCap, n)
      BY ZenonT(60), <2>3, <2>9, Footprint DEF Sound
    <3>3. x.book = bookkeeping_footprint(sh) + hash_table_bytes(n) BY ZenonT(60), <2>3, <2>9 DEF during
    <3>4. hash_table_bytes(x.mapSlots) \in Nat BY ZenonT(60), <2>9, Footprint DEF Sound
    <3> QED BY <1>1, <2>2, <3>1, <3>2, <3>3, <3>4, Footprint DEF Paid
  <2>12. ASSUME n = 0, sh.mapSlots > 0
         PROVE  x.slots = 0 /\ x.book >= ring_bytes(x.ringCap) + 32
    <3>1. fit = 0 BY ZenonT(60), <2>12 DEF SlotsFor
    <3>2. x.slots = 0 BY <1>1, <2>3, <2>9, <3>1 DEF Fits, Shards
    <3>3. hash_table_bytes(sh.mapSlots) >= Buckets(sh.mapSlots) * (SlotBytes + 1) + 16
      BY ZenonT(60), <1>1, <2>12, Footprint, TableBytes DEF HASH_GROUP
    <3>4. Buckets(sh.mapSlots) \in Nat /\ Buckets(sh.mapSlots) >= 4 BY ZenonT(60), <1>1, Footprint, BucketsAre
    <3>5. Buckets(sh.mapSlots) * (SlotBytes + 1) >= 4 * (SlotBytes + 1)
      BY <3>4, ProductGrows, ShardBookAssumption
    <3>6. Buckets(sh.mapSlots) * (SlotBytes + 1) \in Nat BY <3>4, ProductGrows, ShardBookAssumption
    <3>7. hash_table_bytes(sh.mapSlots) >= 32
      BY <1>1, <3>3, <3>5, <3>6, Footprint, ShardBookAssumption
    <3>8. x.book = bookkeeping_footprint(sh) + hash_table_bytes(n) BY <2>3, <2>9 DEF during
    <3>9. x.book >= ring_bytes(sh.ringCap) + 32 BY <1>1, <2>2, <3>7, <3>8, Footprint
    <3> QED BY ZenonT(60), <2>3, <2>9, <3>2, <3>9
  <2> QED BY ZenonT(60), <2>3, <2>9, <2>11, <2>12 DEF SameCounts
<1>5. QED
  <2>1. CASE sh.mapSlots > 2 * n
    <3>1. PICK r \in Settle(sh, during) :
            x = IF r[1] THEN (IF MapCapacity(MapShrink(r[2])) # MapCapacity(r[2])
                                THEN [MapShrink(r[2]) EXCEPT !.mapSlots = MapCapacity(MapShrink(r[2]))]
                                ELSE MapShrink(r[2]))
                        ELSE r[2]
      BY ZenonT(60), <2>1 DEF ReleaseMap
    <3>2. CASE r[1] = TRUE /\ r[2] = w BY ZenonT(60), <1>4, <2>1, <3>1, <3>2
    <3>3. CASE r[1] = FALSE /\ r[2] = sh /\ during > sh.book BY ZenonT(60), <1>3, <2>1, <3>1, <3>3
    <3>4. \/ r[1] = TRUE /\ r[2] = w
          \/ r[1] = FALSE /\ r[2] = sh /\ during > sh.book
      BY ZenonT(60), Settling
    <3> QED BY ZenonT(60), <3>2, <3>3, <3>4
  <2> QED BY ZenonT(60), <1>2, <2>1

\* The second half: the ring.  An empty shard's is given back when the map's charge has
\* just become free.
LEMMA RingReleased ==
    ASSUME NEW sh, Sound(sh), NEW x \in ReleaseRing(sh)
    PROVE  /\ Sound(x) /\ SameCounts(x, sh) /\ x.slots = sh.slots /\ x.mapSlots = sh.mapSlots
           /\ Paid(sh) => Paid(x)
           /\ Len(sh) = 0 /\ sh.mapSlots = 0 /\ sh.book >= ring_bytes(sh.ringCap) + 32 =>
                  x.ringCap = 0
<1> DEFINE keep == sh.ready + sh.loading
           after == ring_bytes(next_power_of_two[Larger(keep, 4)])
           want == bookkeeping_footprint(sh) + after
           w == Recharged(sh, want)
<1>1. Fits(sh) /\ sh \in Shards BY ZenonT(60) DEF Sound, Fits
<1>2. keep \in Nat /\ Len(sh) = keep
  BY SMTT(60), <1>1, ShardBookAssumption DEF Fits, Shards, Len
<1>3. after \in Nat /\ after >= ring_bytes(keep) /\ (keep = 0 => after = 32)
  <2>1. Larger(keep, 4) \in Nat /\ Larger(keep, 4) >= keep BY SMTT(40), <1>2 DEF Larger
  <2>2. /\ next_power_of_two[Larger(keep, 4)] \in Nat
        /\ next_power_of_two[Larger(keep, 4)] >= Larger(keep, 4)
    BY ZenonT(60), <2>1, PowerReaches
  <2>3. keep = 0 => next_power_of_two[Larger(keep, 4)] = 4
    <3>1. next_power_of_two[4] = 2 * next_power_of_two[2]
      <4>1. 4 \in Nat /\ ~(4 <= 1) /\ Half(4) = 2 BY DEF Half, CeilDiv
      <4> QED BY ZenonT(60), <4>1, PowerIs
    <3>2. next_power_of_two[2] = 2 * next_power_of_two[1] /\ next_power_of_two[1] = 1
      <4>1. 2 \in Nat /\ ~(2 <= 1) /\ Half(2) = 1 /\ 1 \in Nat /\ 1 <= 1 BY DEF Half, CeilDiv
      <4> QED BY ZenonT(60), <4>1, PowerIs
    <3> QED BY <3>1, <3>2 DEF Larger
  <2> QED BY SMTT(60), <1>2, <2>1, <2>2, <2>3 DEF ring_bytes
<1>4. CASE ~(sh.ringCap > 2 * keep)
  <2>1. x = sh BY ZenonT(60), <1>4 DEF ReleaseRing
  <2>2. Len(sh) = 0 => sh.ringCap = 0 BY <1>1, <1>2, <1>4 DEF Shards
  <2> QED BY ZenonT(60), <2>1, <2>2 DEF SameCounts
<1>5. CASE sh.ringCap > 2 * keep /\ x = sh /\ want > sh.book
  <2>1. ~(Len(sh) = 0 /\ sh.mapSlots = 0 /\ sh.book >= ring_bytes(sh.ringCap) + 32)
    <3> SUFFICES ASSUME Len(sh) = 0, sh.mapSlots = 0, sh.book >= ring_bytes(sh.ringCap) + 32
                 PROVE  FALSE
      BY ZenonT(60)
    <3>1. bookkeeping_footprint(sh) = ring_bytes(sh.ringCap)
      BY <1>1 DEF bookkeeping_footprint, hash_table_bytes, ring_target_bytes, ring_bytes, Len, Shards
    <3> QED BY <1>1, <1>2, <1>3, <1>5, <3>1, Footprint DEF Shards
  <2> QED BY ZenonT(60), <1>5, <2>1 DEF SameCounts
<1>6. CASE /\ sh.ringCap > 2 * keep
           /\ x = [Allocate(w, ring_bytes(keep), 0) EXCEPT !.ringCap = keep]
  <2>1. want \in Nat /\ ring_bytes(keep) \in Nat BY <1>1, <1>2, <1>3, Footprint DEF ring_bytes
  <2>2. /\ Sound(w) /\ Fits(w) /\ w \in Shards /\ SameCounts(w, sh) /\ Len(w) = keep
        /\ w.book = want /\ w.slots = sh.slots /\ w.mapSlots = sh.mapSlots
        /\ w.ringCap = sh.ringCap /\ Allocated(w) = Allocated(sh)
    <3>1. /\ Sound(w) /\ Fits(w) /\ SameCounts(w, sh) /\ Len(w) = Len(sh)
          /\ w.book = want /\ w.slots = sh.slots /\ w.mapSlots = sh.mapSlots
          /\ w.ringCap = sh.ringCap /\ Allocated(w) = Allocated(sh)
      <4> HIDE DEF want
      <4> QED BY ZenonT(60), <1>1, <2>1, RechargedIs
    <3>2. w \in Shards BY ZenonT(60), <3>1 DEF Fits
    <3> QED BY ZenonT(60), <1>2, <3>1, <3>2
  <2>3. hash_table_bytes(sh.slots) <= hash_table_bytes(sh.mapSlots)
    BY ZenonT(60), <1>1, Footprint, TableBytesGrow DEF Sound
  <2>4. Allocated(w) + ring_bytes(keep) <= w.book + 0
    BY <1>1, <1>3, <2>1, <2>2, <2>3, Footprint
  <2>5. Allocate(w, ring_bytes(keep), 0) = w BY ZenonT(60), <2>2, <2>4, Covered DEF Sound
  <2>6. x = [w EXCEPT !.ringCap = keep] BY ZenonT(60), <1>6, <2>5
  <2> HIDE DEF w
  <2>7. /\ x \in Shards /\ x.ringCap = keep /\ x.slots = w.slots /\ x.mapSlots = w.mapSlots
        /\ x.left = w.left /\ x.ready = w.ready /\ x.loading = w.loading
        /\ x.book = w.book /\ x.covered = w.covered /\ x.moved = w.moved
    BY ZenonT(60), <1>2, <2>2, <2>6 DEF Shards
  <2>8. Sound(x)
    BY SMTT(60), <1>1, <1>2, <2>2, <2>7 DEF Sound, Fits, Shards, SameCounts
  <2>9. Paid(x)
    <3>1. ring_target_bytes(keep, keep) = ring_bytes(keep) BY <1>2 DEF ring_target_bytes
    <3>2. bookkeeping_footprint(x) = hash_table_bytes(sh.mapSlots) + ring_bytes(keep)
      BY ZenonT(60), <2>2, <2>7, <3>1 DEF bookkeeping_footprint, SameCounts
    <3> QED BY <1>1, <1>3, <2>1, <2>2, <2>7, <3>2, Footprint DEF Paid
  <2> QED BY ZenonT(60), <1>2, <2>2, <2>7, <2>8, <2>9 DEF SameCounts
<1> QED
  <2>1. CASE sh.ringCap > 2 * keep
    <3>1. PICK r \in Settle(sh, want) :
            x = IF r[1] THEN [Allocate(r[2], ring_bytes(keep), 0) EXCEPT !.ringCap = keep] ELSE r[2]
      BY ZenonT(60), <2>1 DEF ReleaseRing
    <3>2. CASE r[1] = TRUE /\ r[2] = w BY ZenonT(60), <1>6, <2>1, <3>1, <3>2
    <3>3. CASE r[1] = FALSE /\ r[2] = sh /\ want > sh.book BY ZenonT(60), <1>5, <2>1, <3>1, <3>3
    <3>4. \/ r[1] = TRUE /\ r[2] = w
          \/ r[1] = FALSE /\ r[2] = sh /\ want > sh.book
      BY ZenonT(60), Settling
    <3> QED BY ZenonT(60), <3>2, <3>3, <3>4
  <2> QED BY ZenonT(60), <1>4, <2>1

\* settle_bookkeeping: a shard that is paid for is charged its footprint exactly.
LEMMA Settled ==
    ASSUME NEW sh, Sound(sh), NEW r \in settle_bookkeeping(sh)
    PROVE  /\ Sound(r[2]) /\ SameCounts(r[2], sh)
           /\ r[2].slots = sh.slots /\ r[2].mapSlots = sh.mapSlots /\ r[2].ringCap = sh.ringCap
           /\ \/ r[1] = TRUE /\ r[2].book = bookkeeping_footprint(r[2])
              \/ r[1] = FALSE /\ r[2] = sh /\ ~Paid(sh)
<1> DEFINE want == bookkeeping_footprint(sh)
<1>1. Fits(sh) /\ want \in Nat /\ sh.book \in Nat BY ZenonT(60), Footprint DEF Sound, Fits, Shards
<1>2. \/ r[1] = TRUE /\ r[2] = Recharged(sh, want)
      \/ r[1] = FALSE /\ r[2] = sh /\ want > sh.book
  BY ZenonT(60), Settling DEF settle_bookkeeping
<1>3. CASE r[1] = TRUE /\ r[2] = Recharged(sh, want) BY <1>1, <1>3, RechargedIs
<1>4. CASE r[1] = FALSE /\ r[2] = sh /\ want > sh.book BY <1>1, <1>4 DEF Paid, SameCounts
<1> QED BY ZenonT(60), <1>2, <1>3, <1>4

\* release_bookkeeping keeps a shard sound.  One that was paid for is charged its footprint
\* exactly, and keeps nothing when it has nothing left.
LEMMA Released ==
    ASSUME NEW sh, Sound(sh), NEW x \in release_bookkeeping(sh)
    PROVE  /\ Sound(x) /\ SameCounts(x, sh)
           /\ Paid(sh) => x.book = bookkeeping_footprint(x)
           /\ Paid(sh) /\ Len(sh) = 0 /\ sh.mapSlots > 0 => Emptied(x)
<1>a. PICK v \in ReleaseMap(sh) :
        x \in UNION {{r[2] : r \in settle_bookkeeping(y)} : y \in ReleaseRing(v)}
  BY ZenonT(60) DEF release_bookkeeping
<1>b. PICK y \in ReleaseRing(v) : x \in {r[2] : r \in settle_bookkeeping(y)} BY ZenonT(60), <1>a
<1>1. PICK r \in settle_bookkeeping(y) : x = r[2] BY ZenonT(60), <1>b
<1>2. /\ Sound(v) /\ SameCounts(v, sh) /\ v.ringCap = sh.ringCap
      /\ Paid(sh) => Paid(v)
      /\ Paid(sh) /\ Len(sh) = 0 /\ sh.mapSlots > 0 =>
             v.slots = 0 /\ (v.mapSlots = 0 => v.book >= ring_bytes(v.ringCap) + 32)
  BY ZenonT(60), <1>1, MapReleased
<1>3. /\ Sound(y) /\ SameCounts(y, v) /\ y.slots = v.slots /\ y.mapSlots = v.mapSlots
      /\ Paid(v) => Paid(y)
      /\ Len(v) = 0 /\ v.mapSlots = 0 /\ v.book >= ring_bytes(v.ringCap) + 32 => y.ringCap = 0
  BY ZenonT(60), <1>1, <1>2, RingReleased
<1>4. /\ Sound(x) /\ SameCounts(x, y)
      /\ x.slots = y.slots /\ x.mapSlots = y.mapSlots /\ x.ringCap = y.ringCap
      /\ Paid(y) => x.book = bookkeeping_footprint(x)
  BY ZenonT(60), <1>1, <1>3, Settled
<1>5. Sound(x) /\ SameCounts(x, sh) BY ZenonT(60), <1>2, <1>3, <1>4 DEF SameCounts
<1>6. Len(v) = Len(sh) /\ Len(x) = Len(sh) BY ZenonT(60), <1>2, <1>5 DEF Len, SameCounts
<1>7. ASSUME Paid(sh), Len(sh) = 0, sh.mapSlots > 0 PROVE Emptied(x)
  <2>1. x.slots = 0 BY ZenonT(60), <1>2, <1>3, <1>4, <1>7
  <2>2. ASSUME x.mapSlots = 0 PROVE x.ringCap = 0 /\ x.book = 0
    <3>1. x.ringCap = 0 BY ZenonT(60), <1>2, <1>3, <1>4, <1>6, <1>7, <2>2
    <3>2. x.book = bookkeeping_footprint(x) BY ZenonT(60), <1>2, <1>3, <1>4, <1>7
    <3>3. bookkeeping_footprint(x) = 0
      BY <1>6, <1>7, <2>2, <3>1
      DEF bookkeeping_footprint, hash_table_bytes, ring_target_bytes, ring_bytes, Len
    <3> QED BY ZenonT(60), <3>1, <3>2, <3>3
  <2> QED BY ZenonT(60), <2>1, <2>2 DEF Emptied
<1> QED BY ZenonT(60), <1>2, <1>3, <1>4, <1>5, <1>7

-----------------------------------------------------------------------------
\* An entry leaves the map, and the buckets stay.
LEMMA MapRemoved ==
    ASSUME NEW sh, Sound(sh), NEW field,
           \/ field = "loading" /\ sh.loading > 0
           \/ field = "ready" /\ sh.ready > 0,
           NEW x \in MapRemove(sh, field)
    PROVE  /\ Sound(x) /\ x.moved = sh.moved /\ x.book = sh.book
           /\ x.slots = sh.slots /\ x.mapSlots = sh.mapSlots /\ x.ringCap = sh.ringCap
           /\ x.loading = IF field = "loading" THEN sh.loading - 1 ELSE sh.loading
           /\ x.ready = IF field = "loading" THEN sh.ready ELSE sh.ready - 1
           /\ sh.mapSlots > 0
           /\ Paid(sh) => Paid(x)
<1> DEFINE y == Removed(sh, field)
<1>0. Fits(sh) /\ sh \in Shards BY ZenonT(60) DEF Sound, Fits
<1>1. PICK l \in {sh.left, sh.left + 1} : x = [y EXCEPT !.left = l] BY ZenonT(60) DEF MapRemove
<1>2. /\ y \in Shards /\ y.moved = sh.moved /\ y.book = sh.book /\ y.covered = sh.covered
      /\ y.slots = sh.slots /\ y.mapSlots = sh.mapSlots /\ y.ringCap = sh.ringCap
      /\ y.loading = IF field = "loading" THEN sh.loading - 1 ELSE sh.loading
      /\ y.ready = IF field = "loading" THEN sh.ready ELSE sh.ready - 1
  BY <1>0 DEF Removed, Shards
<1> HIDE DEF y
<1>3. l \in Nat BY <1>0, <1>1 DEF Shards
<1>4. /\ x \in Shards /\ x.moved = y.moved /\ x.book = y.book /\ x.covered = y.covered
      /\ x.slots = y.slots /\ x.mapSlots = y.mapSlots /\ x.ringCap = y.ringCap
      /\ x.loading = y.loading /\ x.ready = y.ready /\ x.left = l
  BY ZenonT(60), <1>1, <1>2, <1>3 DEF Shards
<1>5. x.ready + x.loading + 1 = sh.ready + sh.loading BY <1>0, <1>2, <1>4 DEF Shards
<1>6. Sound(x)
  <2>1. x.ready + x.loading <= MaxPages /\ x.ready + x.loading + x.left <= x.slots
    BY <1>0, <1>1, <1>2, <1>4, <1>5, ShardBookAssumption DEF Fits, Shards
  <2>2. x.ready <= x.ringCap BY <1>0, <1>2, <1>4 DEF Sound, Shards
  <2> QED BY <1>0, <1>2, <1>4, <2>1, <2>2 DEF Sound, Fits
<1>7. sh.mapSlots > 0 BY <1>0, <1>2, <1>4, <1>5 DEF Sound, Fits, Shards
<1>8. Paid(sh) => Paid(x)
  <2>1. Len(x) <= Len(sh) BY <1>0, <1>4, <1>5 DEF Len, Shards
  <2>2. ring_target_bytes(sh.ringCap, Len(x)) <= ring_target_bytes(sh.ringCap, Len(sh))
    BY ZenonT(60), <1>0, <1>2, <1>4, <1>6, <2>1, RingCostGrows, Footprint DEF Sound
  <2>3. bookkeeping_footprint(x) =
          hash_table_bytes(sh.mapSlots) + ring_target_bytes(sh.ringCap, Len(x))
        /\ ring_target_bytes(sh.ringCap, Len(x)) \in Nat
    BY ZenonT(60), <1>2, <1>4, <1>6, Footprint DEF Sound
  <2> QED BY <1>0, <1>2, <1>4, <2>2, <2>3, Footprint DEF Paid, Shards
<1> QED BY ZenonT(60), <1>2, <1>4, <1>6, <1>7, <1>8

\* evict_one keeps a shard sound, charged for its footprint exactly, and bare when its
\* last page has gone.
LEMMA Evicted ==
    ASSUME NEW sh, Sound(sh), sh.ready > 0, NEW x \in evict_one(sh)
    PROVE  /\ Sound(x) /\ x.moved = sh.moved
           /\ x.ready = sh.ready - 1 /\ x.loading = sh.loading
           /\ Paid(sh) => x.book = bookkeeping_footprint(x)
           /\ Paid(sh) /\ Len(x) = 0 => Emptied(x)
<1>1. PICK y \in MapRemove(sh, "ready") : x \in release_bookkeeping(y) BY ZenonT(60) DEF evict_one
<1>2. /\ Sound(y) /\ y.moved = sh.moved /\ y.mapSlots = sh.mapSlots /\ sh.mapSlots > 0
      /\ y.loading = sh.loading /\ y.ready = sh.ready - 1 /\ (Paid(sh) => Paid(y))
  BY <1>1, MapRemoved
<1>3. /\ Sound(x) /\ SameCounts(x, y)
      /\ Paid(y) => x.book = bookkeeping_footprint(x)
      /\ Paid(y) /\ Len(y) = 0 /\ y.mapSlots > 0 => Emptied(x)
  BY ZenonT(60), <1>1, <1>2, Released
<1>4. Len(x) = Len(y) BY ZenonT(60), <1>3 DEF SameCounts, Len
<1> QED BY ZenonT(60), <1>2, <1>3, <1>4 DEF SameCounts

\* The map with s slots, none of them used up by entries that have gone.
Room(sh, s) == [sh EXCEPT !.slots = s, !.left = s - Len(sh)]

\* Such a table fits the shard.
LEMMA RoomIs ==
    ASSUME NEW sh, Fits(sh), NEW s \in Nat, SlotsFor(s) = s, Len(sh) <= s
    PROVE  /\ Fits(Room(sh, s)) /\ SameCounts(Room(sh, s), sh)
           /\ Room(sh, s).slots = s /\ Room(sh, s).left = s - Len(sh)
           /\ Room(sh, s).mapSlots = sh.mapSlots /\ Room(sh, s).ringCap = sh.ringCap
           /\ Room(sh, s).book = sh.book /\ Room(sh, s).covered = sh.covered
<1> DEFINE y == Room(sh, s)
           l == s - Len(sh)
<1>0. Len(sh) \in Nat /\ Len(sh) = sh.ready + sh.loading /\ s \in Nat /\ l \in Nat
  BY DEF Fits, Shards, Len
<1>1. y = [sh EXCEPT !.slots = s, !.left = l] BY ZenonT(60) DEF Room
<1> HIDE DEF l, y
<1>2. /\ y \in Shards /\ y.slots = s /\ y.left = l /\ y.mapSlots = sh.mapSlots
      /\ y.ringCap = sh.ringCap /\ y.book = sh.book /\ y.covered = sh.covered
      /\ y.ready = sh.ready /\ y.loading = sh.loading /\ y.moved = sh.moved
  BY ZenonT(60), <1>0, <1>1 DEF Fits, Shards
<1>3. y.ready + y.loading + y.left = s BY SMTT(60), <1>0, <1>2 DEF l, Fits, Shards
<1> QED BY <1>0, <1>2, <1>3 DEF Fits, SameCounts, y, l

\* The slots of the table the map moves to when it is full.
LEMMA LargerSlots ==
    ASSUME NEW sh, Fits(sh)
    PROVE  /\ Larger(Len(sh) + 1, sh.slots + 1) = sh.slots + 1
           /\ sh.slots + 1 \in Nat
           /\ SlotsFor(sh.slots + 1) \in Nat
           /\ SlotsFor(sh.slots + 1) > sh.slots
           /\ Len(sh) < SlotsFor(sh.slots + 1)
           /\ SlotsFor(SlotsFor(sh.slots + 1)) = SlotsFor(sh.slots + 1)
           /\ hash_table_bytes(SlotsFor(sh.slots + 1)) = hash_table_bytes(sh.slots + 1)
<1>1. Len(sh) \in Nat /\ Len(sh) <= sh.slots /\ sh.slots \in Nat
  BY DEF Fits, Shards, Len
<1>2. sh.slots + 1 \in Nat BY <1>1
<1>3. Larger(Len(sh) + 1, sh.slots + 1) = sh.slots + 1 BY <1>1 DEF Larger
<1>4. /\ SlotsFor(sh.slots + 1) \in Nat
      /\ SlotsFor(sh.slots + 1) >= sh.slots + 1
      /\ SlotsFor(SlotsFor(sh.slots + 1)) = SlotsFor(sh.slots + 1)
      /\ hash_table_bytes(SlotsFor(sh.slots + 1)) = hash_table_bytes(sh.slots + 1)
  BY ZenonT(60), <1>2, SlotsAre
<1> QED BY <1>1, <1>2, <1>3, <1>4

\* map.insert has room for the entry: as it was, after a rehash in place, or in a larger
\* table.  A marker's table is covered by what was reserved for it.
LEMMA Reserved ==
    ASSUME NEW sh, Sound(sh), Len(sh) < MaxPages, NEW field \in {"loading", "ready"}, NEW extra \in Nat,
           field = "loading" /\ sh.left = 0 =>
               Allocated(sh) + hash_table_bytes(sh.slots + 1) <= sh.book + extra
    PROVE  /\ Fits(MapReserve(sh, field, extra)) /\ MapReserve(sh, field, extra).left > 0
           /\ MapReserve(sh, field, extra).covered
           /\ MapReserve(sh, field, extra).ready = sh.ready
           /\ MapReserve(sh, field, extra).loading = sh.loading
           /\ MapReserve(sh, field, extra).mapSlots = sh.mapSlots
           /\ MapReserve(sh, field, extra).ringCap = sh.ringCap
           /\ MapReserve(sh, field, extra).book = sh.book
           /\ \/ /\ MapReserve(sh, field, extra).slots = sh.slots
                 /\ MapReserve(sh, field, extra).moved = sh.moved
              \/ /\ sh.left = 0
                 /\ sh.slots + 1 \in Nat
                 /\ MapReserve(sh, field, extra).slots = SlotsFor(sh.slots + 1)
                 /\ MapReserve(sh, field, extra).left = SlotsFor(sh.slots + 1) - Len(sh)
                 /\ field = "loading" => MapReserve(sh, field, extra).moved = sh.moved
                 /\ field = "ready" =>
                        MapReserve(sh, field, extra).moved =
                            (sh.moved \/ Allocated(sh) + hash_table_bytes(sh.slots + 1) > sh.book)
<1> DEFINE x == MapReserve(sh, field, extra)
           n == Len(sh)
           larger == SlotsFor(Larger(n + 1, sh.slots + 1))
           more == hash_table_bytes(larger)
           grown == IF field = "loading" THEN Allocate(sh, more, extra)
                    ELSE [sh EXCEPT !.moved = @ \/ Allocated(sh) + more > sh.book]
<1>0. Fits(sh) /\ sh \in Shards /\ n = sh.ready + sh.loading /\ n \in Nat
  BY DEF Sound, Fits, Shards, Len
<1>1. CASE sh.left > 0
  <2>1. x = sh BY ZenonT(60), <1>1 DEF MapReserve
  <2> QED BY ZenonT(60), <1>0, <1>1, <2>1 DEF Sound
<1>2. CASE ~(sh.left > 0) /\ n + 1 <= sh.slots \div 2
  <2>1. x = [sh EXCEPT !.left = sh.slots - n] BY ZenonT(60), <1>2 DEF MapReserve
  <2>2. x = Room(sh, sh.slots) BY ZenonT(60), <1>0, <2>1 DEF Room, Shards
  <2>3. sh.slots \in Nat /\ n <= sh.slots /\ SlotsFor(sh.slots) = sh.slots
        /\ sh.slots - n > 0
    BY <1>0, <1>2 DEF Fits, Shards
  <2> HIDE DEF x
  <2> QED BY <1>0, <2>2, <2>3, RoomIs DEF Sound, SameCounts, x
<1>3. CASE ~(sh.left > 0) /\ ~(n + 1 <= sh.slots \div 2)
  <2>1. /\ larger = SlotsFor(sh.slots + 1) /\ larger \in Nat /\ n < larger
        /\ SlotsFor(larger) = larger /\ more = hash_table_bytes(sh.slots + 1)
        /\ sh.slots + 1 \in Nat
    BY ZenonT(60), <1>0, <1>3, LargerSlots
  <2>2. sh.left = 0 BY <1>0, <1>3 DEF Shards
  <2>3. x = [grown EXCEPT !.slots = larger, !.left = larger - n] BY ZenonT(60), <1>3 DEF MapReserve
  <2> HIDE DEF larger, more, x
  <2>4. /\ Fits(grown) /\ grown.covered /\ grown.ready = sh.ready /\ grown.loading = sh.loading
        /\ grown.mapSlots = sh.mapSlots /\ grown.ringCap = sh.ringCap /\ grown.book = sh.book
        /\ field = "loading" => grown.moved = sh.moved
        /\ field = "ready" => grown.moved = (sh.moved \/ Allocated(sh) + more > sh.book)
    <3>1. CASE field = "loading"
      <4>1. grown = sh BY ZenonT(60), <1>0, <2>1, <2>2, <3>1, Covered DEF Sound
      <4> QED BY ZenonT(60), <1>0, <3>1, <4>1 DEF Sound
    <3>2. CASE field = "ready"
      <4> DEFINE m == (sh.moved \/ Allocated(sh) + more > sh.book)
      <4>1. grown = [sh EXCEPT !.moved = m] BY ZenonT(60), <3>2
      <4>2. m \in BOOLEAN BY ZenonT(60)
      <4> HIDE DEF m, grown
      <4>3. /\ grown \in Shards /\ grown.moved = m /\ grown.slots = sh.slots /\ grown.left = sh.left
            /\ grown.mapSlots = sh.mapSlots /\ grown.ringCap = sh.ringCap /\ grown.book = sh.book
            /\ grown.ready = sh.ready /\ grown.loading = sh.loading /\ grown.covered = sh.covered
        BY ZenonT(60), <1>0, <4>1, <4>2 DEF Shards
      <4> QED BY ZenonT(60), <1>0, <3>2, <4>3 DEF Sound, Fits, m
    <3> QED BY ZenonT(60), <3>1, <3>2
  <2> HIDE DEF grown
  <2>5. Len(grown) = n BY ZenonT(60), <1>0, <2>4 DEF Len
  <2>6. x = Room(grown, larger) BY ZenonT(60), <2>3, <2>5 DEF Room
  <2>7. Len(grown) <= larger /\ larger - n > 0 BY <1>0, <2>1, <2>5
  <2>8. /\ Fits(x) /\ SameCounts(x, grown) /\ x.slots = larger /\ x.left = larger - n
        /\ x.mapSlots = grown.mapSlots /\ x.ringCap = grown.ringCap
        /\ x.book = grown.book /\ x.covered = grown.covered
    <3> DEFINE y == Room(grown, larger)
    <3>1. /\ Fits(y) /\ SameCounts(y, grown) /\ y.slots = larger /\ y.left = larger - Len(grown)
          /\ y.mapSlots = grown.mapSlots /\ y.ringCap = grown.ringCap
          /\ y.book = grown.book /\ y.covered = grown.covered
      BY ZenonT(60), <2>1, <2>4, <2>7, RoomIs
    <3> HIDE DEF y
    <3> QED BY ZenonT(60), <2>5, <2>6, <3>1 DEF y
  <2> QED BY ZenonT(60), <2>1, <2>2, <2>4, <2>7, <2>8 DEF SameCounts, x
<1> QED BY ZenonT(60), <1>1, <1>2, <1>3

\* map.insert: the entry is in, and note_table, which reads the capacity, sees the whole
\* of a table that has just been made.
LEMMA MapInserted ==
    ASSUME NEW sh, Sound(sh), Len(sh) < MaxPages, NEW field \in {"loading", "ready"}, NEW extra \in Nat,
           field = "loading" /\ sh.left = 0 =>
               Allocated(sh) + hash_table_bytes(sh.slots + 1) <= sh.book + extra,
           NEW x \in MapInsert(sh, field, extra)
    PROVE  /\ Fits(x) /\ x.covered /\ x.book = sh.book
           /\ x.mapSlots = sh.mapSlots /\ x.ringCap = sh.ringCap
           /\ x.loading = IF field = "loading" THEN sh.loading + 1 ELSE sh.loading
           /\ x.ready = IF field = "loading" THEN sh.ready ELSE sh.ready + 1
           /\ Larger(x.mapSlots, MapCapacity(x)) = Larger(sh.mapSlots, x.slots)
           /\ \/ x.slots = sh.slots /\ x.moved = sh.moved
              \/ /\ sh.left = 0
                 /\ sh.slots + 1 \in Nat
                 /\ x.slots = SlotsFor(sh.slots + 1)
                 /\ field = "loading" => x.moved = sh.moved
                 /\ field = "ready" =>
                        x.moved = (sh.moved \/ Allocated(sh) + hash_table_bytes(sh.slots + 1) > sh.book)
<1> DEFINE room == MapReserve(sh, field, extra)
           y == Entered(room, field)
<1>0. Fits(sh) /\ sh \in Shards /\ Len(sh) = sh.ready + sh.loading /\ Len(sh) \in Nat
      /\ sh.slots <= sh.mapSlots
  BY DEF Sound, Fits, Shards, Len
<1>1. /\ Fits(room) /\ room.left > 0 /\ room.covered
      /\ room.ready = sh.ready /\ room.loading = sh.loading
      /\ room.mapSlots = sh.mapSlots /\ room.ringCap = sh.ringCap /\ room.book = sh.book
      /\ \/ room.slots = sh.slots /\ room.moved = sh.moved
         \/ /\ sh.left = 0
            /\ sh.slots + 1 \in Nat
            /\ room.slots = SlotsFor(sh.slots + 1)
            /\ room.left = SlotsFor(sh.slots + 1) - Len(sh)
            /\ field = "loading" => room.moved = sh.moved
            /\ field = "ready" =>
                   room.moved = (sh.moved \/ Allocated(sh) + hash_table_bytes(sh.slots + 1) > sh.book)
  BY Reserved
<1>2. PICK l \in {room.left - 1} \cup (IF Tombstones(room) > 0 THEN {room.left} ELSE {}) :
        x = [y EXCEPT !.left = l]
  BY ZenonT(60) DEF MapInsert
<1> HIDE DEF room
<1>3. Tombstones(room) = room.slots - Len(sh) - room.left BY ZenonT(60), <1>0, <1>1 DEF Tombstones, Len
<1>4. room \in Shards /\ room.left \in Nat /\ room.slots \in Nat BY ZenonT(60), <1>1 DEF Fits, Shards
<1>5. l \in Nat /\ Len(sh) + 1 + l <= room.slots
      /\ (room.left = room.slots - Len(sh) => Len(sh) + 1 + l = room.slots)
  <2>1. Len(sh) + room.left <= room.slots BY <1>0, <1>1 DEF Fits
  <2>2. CASE l = room.left - 1 BY <1>0, <1>1, <1>4, <2>1, <2>2
  <2>3. CASE Tombstones(room) > 0 /\ l = room.left BY <1>0, <1>3, <1>4, <2>1, <2>3
  <2> QED BY ZenonT(60), <1>2, <2>2, <2>3
<1>6. /\ y \in Shards /\ y.left = room.left /\ y.slots = room.slots /\ y.mapSlots = room.mapSlots
      /\ y.ringCap = room.ringCap /\ y.book = room.book /\ y.covered = room.covered
      /\ y.moved = room.moved
      /\ y.loading = IF field = "loading" THEN room.loading + 1 ELSE room.loading
      /\ y.ready = IF field = "loading" THEN room.ready ELSE room.ready + 1
  BY <1>4 DEF Entered, Shards
<1> HIDE DEF y
<1>7. /\ x \in Shards /\ x.left = l /\ x.slots = room.slots /\ x.mapSlots = sh.mapSlots
      /\ x.ringCap = sh.ringCap /\ x.book = sh.book /\ x.covered = room.covered
      /\ x.moved = room.moved
      /\ x.loading = IF field = "loading" THEN sh.loading + 1 ELSE sh.loading
      /\ x.ready = IF field = "loading" THEN sh.ready ELSE sh.ready + 1
  BY ZenonT(60), <1>1, <1>2, <1>5, <1>6 DEF Shards
<1>8. x.ready + x.loading = Len(sh) + 1 BY <1>0, <1>7 DEF Shards
<1>9. Fits(x)
  <2>1. x.ready + x.loading <= MaxPages /\ x.ready + x.loading + x.left <= x.slots
    BY <1>0, <1>5, <1>7, <1>8, ShardBookAssumption
  <2> QED BY ZenonT(60), <1>0, <1>1, <1>7, <2>1 DEF Fits
<1>10. Larger(x.mapSlots, MapCapacity(x)) = Larger(sh.mapSlots, x.slots)
  <2>1. MapCapacity(x) = Len(sh) + 1 + l BY ZenonT(60), <1>7, <1>8 DEF MapCapacity, Len
  <2>2. sh.mapSlots \in Nat BY ZenonT(60), <1>0 DEF Shards
  <2>3. CASE room.slots = sh.slots BY <1>0, <1>4, <1>5, <1>7, <2>1, <2>2, <2>3 DEF Larger
  <2>4. CASE room.left = room.slots - Len(sh) BY ZenonT(60), <1>5, <1>7, <2>1, <2>4
  <2> QED BY ZenonT(60), <1>1, <2>3, <2>4
<1> QED BY ZenonT(60), <1>1, <1>7, <1>9, <1>10

\* The marker goes in, with note_table and the reservation absorbed.
Marked(x, c) == [note_table(x) EXCEPT !.book = @ + c]

\* What was reserved covers the shard with one entry more, whatever has happened to it
\* since: the reservation was looked at again.
LEMMA MarkerIn ==
    ASSUME NEW sh, Sound(sh), Len(sh) < MaxPages, NEW c \in Nat, c >= growth_for_one_more(sh),
           NEW x \in MapInsert(sh, "loading", c)
    PROVE  /\ Sound(Marked(x, c)) /\ Paid(Marked(x, c))
           /\ Marked(x, c).ready = sh.ready /\ Marked(x, c).loading = sh.loading + 1
           /\ Marked(x, c).moved = sh.moved
<1> DEFINE y == Marked(x, c)
           next == hash_table_bytes(IF sh.mapSlots = 0 THEN 1 ELSE 2 * sh.mapSlots)
           ring == ring_target_bytes(sh.ringCap, Len(sh) + 1)
           table == hash_table_bytes(sh.mapSlots)
<1>0. /\ Fits(sh) /\ sh \in Shards /\ Len(sh) = sh.ready + sh.loading /\ Len(sh) \in Nat
      /\ sh.slots \in Nat /\ sh.mapSlots \in Nat /\ sh.slots <= sh.mapSlots
      /\ sh.book \in Nat /\ sh.left \in Nat
  BY SMTT(60) DEF Sound, Fits, Shards, Len
<1>1. /\ next \in Nat /\ hash_table_bytes(sh.slots + 1) \in Nat
      /\ hash_table_bytes(sh.slots + 1) <= next
  <2>1. (IF sh.mapSlots = 0 THEN 1 ELSE 2 * sh.mapSlots) \in Nat /\ sh.slots + 1 \in Nat
    BY <1>0
  <2> QED BY ZenonT(60), <1>0, <2>1, TableBytes, LargerIsPaid
<1>2. ring \in Nat /\ ring >= ring_bytes(sh.ringCap) BY ZenonT(60), <1>0, Footprint, RingCost
<1>3. table \in Nat /\ hash_table_bytes(sh.slots) \in Nat /\ hash_table_bytes(sh.slots) <= table
  BY ZenonT(60), <1>0, Footprint, TableBytesGrow
<1>4. (IF sh.left > 0 THEN table ELSE table + next) + ring <= sh.book + c
  <2>1. hash_table_peak_bytes(sh.mapSlots, MapCapacity(sh), Len(sh)) =
          IF sh.left > 0 THEN table ELSE table + next
    BY <1>0 DEF hash_table_peak_bytes, MapCapacity
  <2>2. growth_for_one_more(sh) = Minus((IF sh.left > 0 THEN table ELSE table + next) + ring, sh.book)
    BY ZenonT(60), <1>0, <2>1 DEF growth_for_one_more
  <2> HIDE DEF table, next, ring
  <2> QED BY SMTT(60), <1>0, <1>1, <1>2, <1>3, <2>2 DEF Minus
<1>5. sh.left = 0 => Allocated(sh) + hash_table_bytes(sh.slots + 1) <= sh.book + c
  <2>1. Allocated(sh) = hash_table_bytes(sh.slots) + ring_bytes(sh.ringCap) /\ ring_bytes(sh.ringCap) \in Nat
    BY ZenonT(60), <1>0, Footprint
  <2> HIDE DEF table, next, ring
  <2> QED BY <1>0, <1>1, <1>2, <1>3, <1>4, <2>1
<1>6. /\ Fits(x) /\ x.covered /\ x.book = sh.book /\ x.mapSlots = sh.mapSlots
      /\ x.ringCap = sh.ringCap /\ x.loading = sh.loading + 1 /\ x.ready = sh.ready
      /\ Larger(x.mapSlots, MapCapacity(x)) = Larger(sh.mapSlots, x.slots)
      /\ x.moved = sh.moved
      /\ \/ x.slots = sh.slots
         \/ sh.left = 0 /\ sh.slots + 1 \in Nat /\ x.slots = SlotsFor(sh.slots + 1)
  BY <1>5, MapInserted
<1> DEFINE on == Larger(sh.mapSlots, x.slots)
<1>7. /\ y = [x EXCEPT !.mapSlots = on, !.book = sh.book + c]
  BY ZenonT(60), <1>6 DEF Marked, note_table, Fits, Shards
<1>8. on \in Nat /\ SlotsFor(on) = on /\ x.slots <= on /\ x.slots \in Nat /\ x.ready <= x.ringCap
  <2>1. /\ x.slots \in Nat /\ SlotsFor(x.slots) = x.slots
        /\ SlotsFor(sh.mapSlots) = sh.mapSlots /\ x.ready <= x.ringCap
    BY <1>0, <1>6 DEF Sound, Fits, Shards
  <2>2. on = sh.mapSlots \/ on = x.slots BY ZenonT(60) DEF Larger
  <2>3. x.slots <= on BY <1>0, <2>1 DEF Larger
  <2> QED BY SMTT(60), <1>0, <2>1, <2>2, <2>3
<1>9. hash_table_bytes(on) <= IF sh.left > 0 THEN table ELSE table + next
  <2>1. CASE on = sh.mapSlots BY <1>1, <1>3, <2>1
  <2>2. CASE on = x.slots /\ x.slots # sh.slots
    <3>1. hash_table_bytes(on) = hash_table_bytes(sh.slots + 1) BY ZenonT(60), <1>6, <2>2, SlotsAre
    <3> QED BY <1>0, <1>1, <1>3, <1>6, <2>2, <3>1
  <2> QED BY ZenonT(60), <1>0, <1>6, <1>8, <2>1, <2>2 DEF Larger
<1> HIDE DEF on, y
<1>10. /\ y \in Shards /\ y.mapSlots = on /\ y.book = sh.book + c /\ y.slots = x.slots /\ y.left = x.left
       /\ y.ringCap = x.ringCap /\ y.ready = x.ready /\ y.loading = x.loading
       /\ y.covered = x.covered /\ y.moved = x.moved
  <2>1. on \in Nat /\ sh.book + c \in Nat BY <1>0, <1>8
  <2> QED BY ZenonT(60), <1>6, <1>7, <2>1 DEF Fits, Shards
<1>11. Sound(y) BY <1>6, <1>8, <1>10 DEF Sound, Fits
<1>12. Paid(y)
  <2>1. bookkeeping_footprint(y) = hash_table_bytes(on) + ring
    <3>1. y.ready + y.loading = Len(sh) + 1 BY <1>0, <1>6, <1>10 DEF Shards
    <3> QED BY ZenonT(60), <1>6, <1>10, <3>1 DEF bookkeeping_footprint
  <2>2. hash_table_bytes(on) \in Nat BY ZenonT(60), <1>11, <1>10, Footprint DEF Sound
  <2> HIDE DEF table, next, ring
  <2> QED BY <1>0, <1>1, <1>2, <1>3, <1>4, <1>9, <1>10, <2>1, <2>2 DEF Paid
<1> QED BY ZenonT(60), <1>6, <1>10, <1>11, <1>12 DEF y

\* A table larger than the one on record is more than the charge has to spare: what it
\* holds for the ring is a few words for each entry, and a slot is larger.
LEMMA TooSmall ==
    ASSUME NEW sh, Sound(sh), sh.slots = sh.mapSlots, sh.slots + 1 \in Nat,
           sh.book = bookkeeping_footprint(sh)
    PROVE  Allocated(sh) + hash_table_bytes(sh.slots + 1) > sh.book
<1> DEFINE b == Buckets(sh.slots + 1)
           n == Len(sh)
           k == b * (SlotBytes + 1)
<1>0. /\ Fits(sh) /\ n \in Nat /\ n <= sh.slots /\ sh.slots \in Nat /\ sh.slots + 1 \in Nat
  BY DEF Sound, Fits, Shards, Len
<1>1. b \in Nat /\ b >= 4 /\ 7 * b >= 8 * (sh.slots + 1) BY ZenonT(60), <1>0, BucketsAre
<1>2. hash_table_bytes(sh.slots + 1) \in Nat /\ hash_table_bytes(sh.slots + 1) >= k + 16
  BY <1>0, TableBytes DEF HASH_GROUP
<1> HIDE DEF b
<1>3. k \in Nat /\ k >= 25 * b
  <2>1. k = (SlotBytes + 1) * b /\ 25 \in Nat /\ SlotBytes + 1 \in Nat /\ 25 <= SlotBytes + 1
    BY <1>1, ShardBookAssumption
  <2> QED BY ZenonT(60), <1>1, <2>1, ProductGrows
<1> HIDE DEF k
<1>4. b >= Larger(n, 2) BY <1>0, <1>1 DEF Larger
<1>5. ring_target_bytes(sh.ringCap, n) <= ring_bytes(sh.ringCap) + 24 * Larger(n, 2)
  BY ZenonT(60), <1>0, Footprint, RingCost
<1>6. Larger(n, 2) \in Nat BY ZenonT(60), <1>0 DEF Larger
<1>7. /\ sh.book = hash_table_bytes(sh.slots) + ring_target_bytes(sh.ringCap, n)
      /\ Allocated(sh) = hash_table_bytes(sh.slots) + ring_bytes(sh.ringCap)
      /\ ring_target_bytes(sh.ringCap, n) \in Nat /\ ring_bytes(sh.ringCap) \in Nat
      /\ hash_table_bytes(sh.slots) \in Nat
  BY ZenonT(60), <1>0, Footprint
<1> QED BY SMTT(60), <1>1, <1>2, <1>3, <1>4, <1>5, <1>6, <1>7

\* The push.  It is paid for, unless a page has moved the map.
LEMMA Pushed ==
    ASSUME NEW y, Fits(y), y.covered, y.ready <= y.ringCap + 1,
           ~y.moved => y.slots <= y.mapSlots /\ Paid(y)
    PROVE  /\ Fits(RingPush(y)) /\ SameCounts(RingPush(y), y) /\ RingPush(y).covered
           /\ RingPush(y).ready <= RingPush(y).ringCap
           /\ RingPush(y).slots = y.slots /\ RingPush(y).mapSlots = y.mapSlots
           /\ RingPush(y).left = y.left
           /\ ~y.moved => Paid(RingPush(y))
<1> DEFINE z == RingPush(y)
           c == y.ringCap
           f == RingGrown(c)
           grown == IF y.moved THEN y ELSE Allocate(y, ring_bytes(f), 0)
<1>0. /\ y \in Shards /\ c \in Nat /\ y.ready \in Nat /\ y.loading \in Nat /\ y.book \in Nat
      /\ Len(y) = y.ready + y.loading
  BY DEF Fits, Shards, Len
<1>1. CASE ~(y.ready > c)
  <2>1. z = y BY ZenonT(60), <1>1 DEF RingPush
  <2> QED BY <1>0, <1>1, <2>1 DEF SameCounts
<1>2. CASE y.ready > c
  <2>1. f \in Nat /\ f > c /\ c < Len(y)
    BY <1>0, <1>2 DEF RingGrown, Larger, RING_MIN_CAPACITY
  <2>2. c \in Nat /\ Len(y) \in Nat BY ZenonT(60), Footprint
  <2>3. ASSUME ~y.moved PROVE Allocated(y) + ring_bytes(f) <= y.book + 0
    <3>1. hash_table_bytes(y.slots) <= hash_table_bytes(y.mapSlots)
      BY ZenonT(60), <2>3, Footprint, TableBytesGrow
    <3>2. ring_target_bytes(c, Len(y)) >= ring_bytes(c) + ring_bytes(f)
      BY ZenonT(60), <1>0, <2>1, <2>2, RingCost
    <3>3. ring_bytes(f) \in Nat BY <2>1 DEF ring_bytes
    <3>4. hash_table_bytes(y.mapSlots) + ring_target_bytes(c, Len(y)) <= y.book
      BY ZenonT(60), <2>3, Footprint DEF Paid
    <3> HIDE DEF f, c
    <3> QED BY <1>0, <3>1, <3>2, <3>3, <3>4, Footprint DEF c
  <2>4. grown = y BY ZenonT(60), <1>0, <2>3, Covered
  <2>5. z = [y EXCEPT !.ringCap = f] BY ZenonT(60), <1>0, <1>2, <2>4 DEF RingPush, Shards
  <2> HIDE DEF z, f
  <2>6. /\ z \in Shards /\ z.ringCap = f /\ z.slots = y.slots /\ z.left = y.left
        /\ z.mapSlots = y.mapSlots /\ z.ready = y.ready /\ z.loading = y.loading
        /\ z.book = y.book /\ z.covered = y.covered /\ z.moved = y.moved
    BY ZenonT(60), <1>0, <2>1, <2>5 DEF Shards
  <2>7. Fits(z) /\ z.ready <= z.ringCap BY <1>0, <2>1, <2>6 DEF Fits
  <2>8. ASSUME ~y.moved PROVE Paid(z)
    <3>1. ring_target_bytes(f, Len(y)) <= ring_target_bytes(c, Len(y))
      BY ZenonT(60), <2>1, <2>2, PushedCost DEF f
    <3>2. bookkeeping_footprint(z) = hash_table_bytes(y.mapSlots) + ring_target_bytes(f, Len(y))
      BY ZenonT(60), <1>0, <2>6 DEF bookkeeping_footprint
    <3>3. ring_target_bytes(f, Len(y)) \in Nat BY ZenonT(60), <2>1, <2>2, RingCost
    <3>4. hash_table_bytes(y.mapSlots) + ring_target_bytes(c, Len(y)) <= y.book
      BY <2>8, Footprint DEF Paid
    <3> QED BY <1>0, <2>6, <3>1, <3>2, <3>3, <3>4, Footprint DEF Paid
  <2> QED BY ZenonT(60), <2>6, <2>7, <2>8 DEF SameCounts, z
<1> QED BY ZenonT(60), <1>1, <1>2

\* A page replaces its marker: map.remove, map.insert, clock.push_back, note_table.
LEMMA PageIn ==
    ASSUME NEW sh, Sound(sh), sh.loading > 0,
           ~sh.moved => sh.book = bookkeeping_footprint(sh),
           NEW v \in MapRemove(sh, "loading"), NEW y \in MapInsert(v, "ready", 0)
    PROVE  /\ Sound(note_table(RingPush(y)))
           /\ note_table(RingPush(y)).ready = sh.ready + 1
           /\ note_table(RingPush(y)).loading = sh.loading - 1
           /\ ~note_table(RingPush(y)).moved => ~sh.moved /\ Paid(note_table(RingPush(y)))
<1> DEFINE p == RingPush(y)
           z == note_table(p)
<1>0. /\ Fits(sh) /\ sh \in Shards /\ Len(sh) = sh.ready + sh.loading /\ sh.ready <= sh.ringCap
      /\ sh.slots <= sh.mapSlots
  BY ZenonT(60) DEF Sound, Fits, Len
<1>1. /\ Sound(v) /\ v.moved = sh.moved /\ v.book = sh.book /\ v.slots = sh.slots
      /\ v.mapSlots = sh.mapSlots /\ v.ringCap = sh.ringCap
      /\ v.loading = sh.loading - 1 /\ v.ready = sh.ready
  BY ZenonT(60), MapRemoved
<1>2. Len(v) = Len(sh) - 1 /\ Len(v) < MaxPages /\ Len(sh) \in Nat
  BY <1>0, <1>1, ShardBookAssumption DEF Len, Fits, Shards
<1>3. Allocated(v) = Allocated(sh) BY ZenonT(60), <1>1 DEF Allocated
<1>4. /\ Fits(y) /\ y.covered /\ y.book = sh.book /\ y.mapSlots = sh.mapSlots
      /\ y.ringCap = sh.ringCap /\ y.loading = sh.loading - 1 /\ y.ready = sh.ready + 1
      /\ Larger(y.mapSlots, MapCapacity(y)) = Larger(sh.mapSlots, y.slots)
      /\ \/ y.slots = sh.slots /\ y.moved = sh.moved
         \/ /\ sh.slots + 1 \in Nat
            /\ y.slots = SlotsFor(sh.slots + 1)
            /\ y.moved = (sh.moved \/ Allocated(sh) + hash_table_bytes(sh.slots + 1) > sh.book)
  BY <1>1, <1>2, <1>3, MapInserted
<1>5. ~y.moved => ~sh.moved BY ZenonT(60), <1>4
<1>6. ASSUME ~y.moved PROVE y.slots <= y.mapSlots
  <2>1. CASE y.slots = sh.slots BY ZenonT(60), <1>0, <1>4, <2>1
  <2>2. CASE /\ sh.slots + 1 \in Nat
             /\ y.slots = SlotsFor(sh.slots + 1)
             /\ ~(Allocated(sh) + hash_table_bytes(sh.slots + 1) > sh.book)
    <3>1. sh.slots # sh.mapSlots BY ZenonT(60), <1>5, <1>6, <2>2, TooSmall
    <3>2. sh.mapSlots \in Nat /\ sh.slots + 1 <= sh.mapSlots /\ SlotsFor(sh.mapSlots) = sh.mapSlots
      BY <1>0, <3>1 DEF Fits, Shards
    <3> QED BY ZenonT(60), <1>4, <2>2, <3>2, SlotsGrow
  <2> QED BY ZenonT(60), <1>4, <1>6, <2>1, <2>2
<1>7. ~y.moved => Paid(y)
  <2>1. y.ready + y.loading = Len(sh) BY <1>0, <1>4 DEF Shards
  <2>2. bookkeeping_footprint(y) = bookkeeping_footprint(sh)
    BY ZenonT(60), <1>0, <1>4, <2>1 DEF bookkeeping_footprint
  <2>3. bookkeeping_footprint(sh) \in Nat BY ZenonT(60), <1>0, Footprint
  <2> QED BY <1>4, <1>5, <2>2, <2>3 DEF Paid
<1>8. y.ready <= y.ringCap + 1 BY SMTT(40), <1>0, <1>4 DEF Shards
<1>9. /\ Fits(p) /\ SameCounts(p, y) /\ p.covered /\ p.ready <= p.ringCap
      /\ p.slots = y.slots /\ p.mapSlots = y.mapSlots /\ p.left = y.left
      /\ ~y.moved => Paid(p)
  BY ZenonT(60), <1>4, <1>6, <1>7, <1>8, Pushed
<1> HIDE DEF p
<1> DEFINE on == Larger(sh.mapSlots, y.slots)
<1>10. z = [p EXCEPT !.mapSlots = on]
  BY ZenonT(60), <1>4, <1>9 DEF note_table, MapCapacity, Len, SameCounts
<1>11. on \in Nat /\ SlotsFor(on) = on /\ y.slots <= on /\ (~y.moved => on = sh.mapSlots)
  <2>a. Fits(sh) /\ Fits(y) BY ZenonT(60), <1>0, <1>4
  <2>1. /\ y.slots \in Nat /\ SlotsFor(y.slots) = y.slots
        /\ sh.mapSlots \in Nat /\ SlotsFor(sh.mapSlots) = sh.mapSlots
    BY <2>a DEF Fits, Shards
  <2>2. on = sh.mapSlots \/ on = y.slots BY ZenonT(60) DEF Larger
  <2>3. y.slots <= on BY SMTT(40), <2>1 DEF Larger
  <2>4. ~y.moved => on = sh.mapSlots BY ZenonT(60), <1>4, <1>6, <2>1 DEF Larger
  <2> QED BY ZenonT(60), <2>1, <2>2, <2>3, <2>4
<1> HIDE DEF on, z
<1>12. /\ z \in Shards /\ z.mapSlots = on /\ z.slots = p.slots /\ z.left = p.left
       /\ z.ringCap = p.ringCap /\ z.ready = p.ready /\ z.loading = p.loading /\ z.book = p.book
       /\ z.covered = p.covered /\ z.moved = p.moved
  <2>1. on \in Nat BY <1>11
  <2> QED BY ZenonT(60), <1>9, <1>10, <2>1 DEF Fits, Shards
<1>13. Sound(z) BY <1>9, <1>11, <1>12 DEF Sound, Fits
<1>14. ~z.moved => ~sh.moved /\ Paid(z)
  <2>1. ASSUME ~z.moved PROVE Paid(z)
    <3>1. ~y.moved BY ZenonT(60), <1>9, <1>12, <2>1 DEF SameCounts
    <3>2. bookkeeping_footprint(z) = bookkeeping_footprint(p)
      BY ZenonT(60), <1>4, <1>9, <1>11, <1>12, <3>1 DEF bookkeeping_footprint
    <3> QED BY ZenonT(60), <1>9, <1>12, <3>1, <3>2 DEF Paid
  <2> QED BY ZenonT(60), <1>5, <1>9, <1>12, <2>1 DEF SameCounts
<1> QED BY ZenonT(60), <1>4, <1>9, <1>12, <1>13, <1>14 DEF SameCounts, z, p

-----------------------------------------------------------------------------
Labels == {"idle", "reserved", "load", "capacity", "settle", "resettle"}
Loads == {t \in Threads : pc[t] = "load"}

\* Every marker is a thread's that is loading.  Unless a page has moved the map, the
\* charge covers the footprint all the time and is the footprint between critical
\* sections, and a shard with no entries keeps nothing.
IInv ==
    /\ pc \in [Threads -> Labels]
    /\ charge \in [Threads -> Nat]
    /\ Sound(shard)
    /\ shard.loading = Cardinality(Loads)
    /\ ~shard.moved => Paid(shard)
    /\ ~shard.moved /\ Unlocked => shard.book = bookkeeping_footprint(shard)
    /\ ~shard.moved /\ Len(shard) = 0 => Emptied(shard)

\* What the steps before, at and after a load do to the number of loads.
LEMMA LoadsAre ==
    ASSUME NEW t \in Threads, pc \in [Threads -> Labels], NEW label \in Labels, Goto(t, label)
    PROVE  /\ pc' \in [Threads -> Labels]
           /\ pc'[t] = label /\ \A u \in Threads \ {t} : pc'[u] = pc[u]
           /\ Cardinality(Loads) \in Nat
           /\ pc[t] # "load" /\ label # "load" => Loads' = Loads
           /\ pc[t] # "load" /\ label = "load" => Cardinality(Loads') = Cardinality(Loads) + 1
           /\ pc[t] = "load" /\ label # "load" =>
                  Cardinality(Loads) > 0 /\ Cardinality(Loads') = Cardinality(Loads) - 1
<1>0. /\ pc' \in [Threads -> Labels]
      /\ pc'[t] = label /\ \A u \in Threads \ {t} : pc'[u] = pc[u]
  BY ZenonT(60) DEF Goto
<1>1. IsFiniteSet(Loads)
  BY ZenonT(60), FS_Subset, ShardBookAssumption DEF Loads
<1>2. Cardinality(Loads) \in Nat BY ZenonT(60), <1>1, FS_CardinalityType
<1>3. pc[t] # "load" /\ label # "load" => Loads' = Loads BY ZenonT(60), <1>0 DEF Loads
<1>4. ASSUME pc[t] # "load", label = "load" PROVE Cardinality(Loads') = Cardinality(Loads) + 1
  <2>1. Loads' = Loads \cup {t} /\ t \notin Loads BY <1>0, <1>4 DEF Loads
  <2> QED BY ZenonT(60), <1>1, <2>1, FS_AddElement
<1>5. ASSUME pc[t] = "load", label # "load"
      PROVE  Cardinality(Loads) > 0 /\ Cardinality(Loads') = Cardinality(Loads) - 1
  <2>1. Loads' = Loads \ {t} /\ t \in Loads BY ZenonT(60), <1>0, <1>5 DEF Loads
  <2>2. Cardinality(Loads') = Cardinality(Loads) - 1 BY ZenonT(60), <1>1, <2>1, FS_RemoveElement
  <2>3. IsFiniteSet(Loads') BY ZenonT(60), <1>1, <2>1, FS_RemoveElement
  <2>4. Cardinality(Loads') \in Nat BY ZenonT(60), <2>3, FS_CardinalityType
  <2> QED BY <1>2, <2>2, <2>4
<1> QED BY ZenonT(60), <1>0, <1>2, <1>3, <1>4, <1>5

\* Nothing for no entries costs nothing, so settling leaves it so.
LEMMA NothingSettles ==
    ASSUME NEW sh, Sound(sh), Len(sh) = 0, Emptied(sh),
           NEW x, Sound(x), x.slots = sh.slots, x.mapSlots = sh.mapSlots, x.ringCap = sh.ringCap,
           SameCounts(x, sh), x.book = bookkeeping_footprint(x)
    PROVE  Emptied(x)
<1>1. Len(x) = 0 BY ZenonT(60) DEF SameCounts, Len
<1>2. CASE x.mapSlots = 0
  <2>1. x.ringCap = 0 BY ZenonT(60), <1>2 DEF Emptied
  <2>2. hash_table_bytes(0) = 0 BY ZenonT(60) DEF hash_table_bytes
  <2>3. ring_target_bytes(0, 0) = 0 BY DEF ring_target_bytes, ring_bytes
  <2> QED BY <1>1, <1>2, <2>1, <2>2, <2>3 DEF Emptied, bookkeeping_footprint, Len
<1>3. CASE x.mapSlots # 0 BY ZenonT(60), <1>3 DEF Emptied
<1> QED BY ZenonT(60), <1>2, <1>3

\* An empty shard.
LEMMA InitHolds == Init => IInv
<1> SUFFICES ASSUME Init PROVE IInv BY ZenonT(60)
<1>1. /\ shard \in Shards /\ shard.slots = 0 /\ shard.left = 0 /\ shard.mapSlots = 0
      /\ shard.ringCap = 0 /\ shard.ready = 0 /\ shard.loading = 0 /\ shard.book = 0
      /\ shard.covered = TRUE /\ shard.moved = FALSE
  BY ZenonT(60) DEF Init, Shards
<1>2. Sound(shard)
  <2>1. SlotsFor(0) = 0 BY ZenonT(60) DEF SlotsFor
  <2>2. MaxPages \in Nat BY ShardBookAssumption
  <2> QED BY <1>1, <2>1, <2>2 DEF Sound, Fits
<1>3. bookkeeping_footprint(shard) = 0
  <2>1. hash_table_bytes(0) = 0 BY ZenonT(60) DEF hash_table_bytes
  <2>2. ring_target_bytes(0, 0) = 0 BY DEF ring_target_bytes, ring_bytes
  <2> QED BY <1>1, <2>1, <2>2 DEF bookkeeping_footprint
<1>4. Cardinality(Loads) = 0
  <2>1. Loads = {} BY ZenonT(60) DEF Init, Loads
  <2> QED BY ZenonT(60), <2>1, FS_EmptySet
<1>5. pc \in [Threads -> Labels] /\ charge \in [Threads -> Nat] BY ZenonT(60) DEF Init, Labels
<1> QED BY SMTT(60), <1>1, <1>2, <1>3, <1>4, <1>5 DEF IInv, Paid, Emptied

\* What one more entry may still ask for is a number of bytes.
LEMMA GrowthIs ==
    ASSUME NEW sh, Sound(sh)
    PROVE  growth_for_one_more(sh) \in Nat
<1>a. Fits(sh) BY ZenonT(60) DEF Sound
<1>0. Fits(sh) /\ sh.book \in Nat /\ sh.mapSlots \in Nat
  BY <1>a DEF Fits, Shards
<1>1. /\ hash_table_bytes(sh.mapSlots) \in Nat
      /\ hash_table_bytes(IF sh.mapSlots = 0 THEN 1 ELSE 2 * sh.mapSlots) \in Nat
  <2>1. /\ sh.mapSlots \in Nat
        /\ (IF sh.mapSlots = 0 THEN 1 ELSE 2 * sh.mapSlots) \in Nat
    BY <1>0
  <2> QED BY ZenonT(60), <2>1, TableBytes
<1>2. ring_target_bytes(sh.ringCap, sh.ready + sh.loading + 1) \in Nat
  <2>1. sh.ringCap \in Nat /\ sh.ready + sh.loading + 1 \in Nat BY ZenonT(60), <1>0, Footprint DEF Len
  <2> QED BY ZenonT(60), <2>1, RingCost
<1>3. hash_table_peak_bytes(sh.mapSlots, MapCapacity(sh), Len(sh)) \in Nat
  BY <1>1 DEF hash_table_peak_bytes
<1> QED BY <1>0, <1>2, <1>3 DEF growth_for_one_more, Minus

\* An entry is one of the counts.
LEMMA Entries0 ==
    ASSUME NEW sh, Sound(sh)
    PROVE  sh.ready \in Nat /\ sh.loading \in Nat /\ Len(sh) = sh.ready + sh.loading
BY ZenonT(60) DEF Sound, Fits, Shards, Len

\* A step that leaves the shard alone and goes from and to a label outside the critical
\* sections, with no load.
LEMMA AskingStep ==
    ASSUME IInv, NEW t \in Threads, Ask(t) \/ GiveUp(t)
    PROVE  IInv'
<1>1. PICK label \in {"idle", "reserved"} : Goto(t, label) BY ZenonT(60) DEF Ask, GiveUp
<1>2. pc[t] # "load" /\ Unlocked /\ shard' = shard BY ZenonT(60) DEF Ask, GiveUp
<1>3. label \in Labels /\ label # "load" BY ZenonT(60) DEF Labels
<1>4. pc \in [Threads -> Labels] /\ charge \in [Threads -> Nat] BY ZenonT(60) DEF IInv
<1>5. pc' \in [Threads -> Labels] /\ Loads' = Loads BY ZenonT(60), <1>1, <1>2, <1>3, <1>4, LoadsAre
<1>6. growth_for_one_more(shard) \in Nat
  BY ZenonT(60), GrowthIs DEF IInv
<1>7. charge' \in [Threads -> Nat]
  <2>1. LoadingSlotBytes + growth_for_one_more(shard) \in Nat BY <1>6, ShardBookAssumption
  <2> QED BY <1>4, <2>1 DEF Ask, GiveUp
<1> QED BY ZenonT(60), <1>2, <1>5, <1>7 DEF IInv

\* The marker goes in.
LEMMA InsertStep ==
    ASSUME IInv, NEW t \in Threads, Insert(t)
    PROVE  IInv'
<1>1. PICK x \in MapInsert(shard, "loading", charge[t]) :
        \E r \in settle_bookkeeping(Marked(x, charge[t])) : shard' = r[2]
  BY ZenonT(60) DEF Insert, Marked
<1>2. PICK r \in settle_bookkeeping(Marked(x, charge[t])) : shard' = r[2] BY ZenonT(60), <1>1
<1> DEFINE y == Marked(x, charge[t])
<1>3. charge[t] \in Nat BY ZenonT(60) DEF IInv
<1>4. /\ Sound(y) /\ Paid(y) /\ y.ready = shard.ready /\ y.loading = shard.loading + 1
      /\ y.moved = shard.moved
  BY ZenonT(60), <1>3, MarkerIn DEF IInv, Insert
<1> HIDE DEF y
<1>5. /\ Sound(shard') /\ SameCounts(shard', y) /\ shard'.book = bookkeeping_footprint(shard')
  BY ZenonT(60), <1>2, <1>4, Settled DEF y
<1>6. pc[t] # "load" /\ Goto(t, "load") /\ pc \in [Threads -> Labels] /\ "load" \in Labels
  BY ZenonT(60) DEF Insert, IInv, Labels
<1>7. pc' \in [Threads -> Labels] /\ Cardinality(Loads') = Cardinality(Loads) + 1
  BY ZenonT(60), <1>6, LoadsAre
<1>8. charge' \in [Threads -> Nat] BY ZenonT(60) DEF Insert, IInv
<1>9. shard'.loading = Cardinality(Loads') BY ZenonT(60), <1>4, <1>5, <1>7 DEF IInv, SameCounts
<1>10. Len(shard') # 0
  BY <1>4, <1>5, Entries0 DEF IInv, SameCounts
<1>11. Paid(shard') BY <1>5, Footprint DEF Paid, Sound
<1> QED BY ZenonT(60), <1>5, <1>7, <1>8, <1>9, <1>10, <1>11 DEF IInv

\* The marker goes again.
LEMMA AbandonStep ==
    ASSUME IInv, NEW t \in Threads, Abandon(t)
    PROVE  IInv'
<1>1. PICK x \in MapRemove(shard, "loading") : shard' \in release_bookkeeping(x) BY ZenonT(60) DEF Abandon
<1>2. pc[t] = "load" /\ Goto(t, "idle") /\ pc \in [Threads -> Labels] /\ "idle" \in Labels
  BY ZenonT(60) DEF Abandon, IInv, Labels
<1>3. /\ pc' \in [Threads -> Labels] /\ Cardinality(Loads') = Cardinality(Loads) - 1
      /\ Cardinality(Loads) > 0
  BY ZenonT(60), <1>2, LoadsAre
<1>4. Sound(shard) /\ shard.loading > 0 BY ZenonT(60), <1>3 DEF IInv
<1>5. /\ Sound(x) /\ x.moved = shard.moved /\ x.mapSlots = shard.mapSlots /\ shard.mapSlots > 0
      /\ x.loading = shard.loading - 1 /\ x.ready = shard.ready /\ (Paid(shard) => Paid(x))
  BY ZenonT(60), <1>1, <1>4, MapRemoved
<1>6. /\ Sound(shard') /\ SameCounts(shard', x)
      /\ Paid(x) => shard'.book = bookkeeping_footprint(shard')
      /\ Paid(x) /\ Len(x) = 0 /\ x.mapSlots > 0 => Emptied(shard')
  BY ZenonT(60), <1>1, <1>5, Released
<1>7. Len(shard') = Len(x) BY ZenonT(60), <1>6 DEF SameCounts, Len
<1>8. charge' \in [Threads -> Nat] BY ZenonT(60) DEF Abandon, IInv
<1>9. shard'.loading = Cardinality(Loads') BY ZenonT(60), <1>3, <1>5, <1>6 DEF IInv, SameCounts
<1>10. ASSUME ~shard'.moved
       PROVE  /\ Paid(shard') /\ shard'.book = bookkeeping_footprint(shard')
              /\ Len(shard') = 0 => Emptied(shard')
  <2>1. Paid(x) BY ZenonT(60), <1>5, <1>6, <1>10 DEF IInv, SameCounts
  <2>2. shard'.book = bookkeeping_footprint(shard') BY ZenonT(60), <1>6, <2>1
  <2>3. Paid(shard') BY <1>6, <2>2, Footprint DEF Paid, Sound
  <2> QED BY ZenonT(60), <1>5, <1>6, <1>7, <2>1, <2>2, <2>3
<1> QED BY ZenonT(60), <1>3, <1>6, <1>8, <1>9, <1>10 DEF IInv

\* The page comes.
LEMMA PublishStep ==
    ASSUME IInv, NEW t \in Threads, Publish(t)
    PROVE  IInv'
<1>1. PICK x \in MapRemove(shard, "loading") :
        \E y \in MapInsert(x, "ready", 0) : shard' = note_table(RingPush(y))
  BY ZenonT(60) DEF Publish
<1>2. PICK y \in MapInsert(x, "ready", 0) : shard' = note_table(RingPush(y)) BY ZenonT(60), <1>1
<1>3. /\ pc[t] = "load" /\ Goto(t, "capacity") /\ pc \in [Threads -> Labels]
      /\ "capacity" \in Labels
  BY ZenonT(60) DEF Publish, IInv, Labels
<1>4. /\ pc' \in [Threads -> Labels] /\ Cardinality(Loads') = Cardinality(Loads) - 1
      /\ Cardinality(Loads) > 0 /\ pc'[t] = "capacity"
  BY ZenonT(60), <1>3, LoadsAre
<1>5. Sound(shard) /\ shard.loading > 0 BY ZenonT(60), <1>4 DEF IInv
<1>6. ~shard.moved => shard.book = bookkeeping_footprint(shard) BY ZenonT(60) DEF IInv, Publish
<1>7. /\ Sound(shard') /\ shard'.ready = shard.ready + 1 /\ shard'.loading = shard.loading - 1
      /\ ~shard'.moved => ~shard.moved /\ Paid(shard')
  BY ZenonT(60), <1>1, <1>2, <1>5, <1>6, PageIn
<1>8. charge' \in [Threads -> Nat] BY ZenonT(60) DEF Publish, IInv
<1>9. shard'.loading = Cardinality(Loads') BY ZenonT(60), <1>4, <1>7 DEF IInv
<1>10. Len(shard') # 0 BY <1>5, <1>7, Entries0
<1>11. ~Unlocked' BY ZenonT(60), <1>4 DEF Unlocked
<1> QED BY ZenonT(60), <1>4, <1>7, <1>8, <1>9, <1>10, <1>11 DEF IInv

\* A page goes, for the capacity, for the charge or for another shard.
LEMMA EvictStep ==
    ASSUME IInv, shard.ready > 0, shard' \in evict_one(shard), UNCHANGED <<pc, charge>>
    PROVE  IInv'
<1>1. Sound(shard) BY ZenonT(60) DEF IInv
<1>2. /\ Sound(shard') /\ shard'.moved = shard.moved
      /\ shard'.ready = shard.ready - 1 /\ shard'.loading = shard.loading
      /\ Paid(shard) => shard'.book = bookkeeping_footprint(shard')
      /\ Paid(shard) /\ Len(shard') = 0 => Emptied(shard')
  BY ZenonT(60), <1>1, Evicted
<1>3. Loads' = Loads BY ZenonT(60) DEF Loads
<1>4. ~shard'.moved => Paid(shard) BY ZenonT(60), <1>2 DEF IInv
<1>5. ~shard'.moved => Paid(shard') BY <1>2, <1>4, Footprint DEF Paid, Sound
<1> QED BY ZenonT(60), <1>2, <1>3, <1>4, <1>5 DEF IInv

\* The charge is settled: it always can be, unless a page has moved the map.
LEMMA SettleStep ==
    ASSUME IInv, NEW t \in Threads, PublishSettle(t) \/ PublishResettle(t)
    PROVE  IInv'
<1>0. /\ Sound(shard) /\ pc \in [Threads -> Labels] /\ charge' = charge /\ pc[t] # "load"
      /\ {"idle", "resettle"} \subseteq Labels
  BY ZenonT(60) DEF IInv, PublishSettle, PublishResettle, Labels
<1>1. PICK r \in settle_bookkeeping(shard) :
        \/ r[1] /\ shard' = r[2] /\ Goto(t, "idle")
        \/ ~r[1] /\ shard.ready > 0 /\ shard' \in evict_one(shard) /\ UNCHANGED pc
        \/ ~r[1] /\ shard' = shard /\ Goto(t, "resettle")
        \/ ~r[1] /\ shard' \in release_bookkeeping(shard) /\ Goto(t, "idle")
  <2>1. CASE PublishSettle(t)
    <3>1. PICK r \in settle_bookkeeping(shard) :
            CASE r[1] -> shard' = r[2] /\ Goto(t, "idle")
              [] ~r[1] /\ shard.ready > 0 -> shard' \in evict_one(shard) /\ UNCHANGED pc
              [] ~r[1] /\ shard.ready = 0 -> Goto(t, "resettle") /\ UNCHANGED shard
      BY ZenonT(60), <2>1 DEF PublishSettle
    <3>2. r[1] \in BOOLEAN BY ZenonT(60), <1>0, Settled
    <3>3. shard.ready > 0 \/ shard.ready = 0 BY <1>0, Entries0
    <3> QED BY ZenonT(60), <3>1, <3>2, <3>3
  <2>2. CASE PublishResettle(t) BY ZenonT(60), <2>2 DEF PublishResettle
  <2> QED BY ZenonT(60), <2>1, <2>2
<1>2. /\ Sound(r[2]) /\ SameCounts(r[2], shard)
      /\ r[2].slots = shard.slots /\ r[2].mapSlots = shard.mapSlots /\ r[2].ringCap = shard.ringCap
      /\ \/ r[1] = TRUE /\ r[2].book = bookkeeping_footprint(r[2])
         \/ r[1] = FALSE /\ r[2] = shard /\ ~Paid(shard)
  BY ZenonT(60), <1>0, Settled
<1>3. charge' \in [Threads -> Nat] BY ZenonT(60), <1>0 DEF IInv
<1>4. CASE r[1] /\ shard' = r[2] /\ Goto(t, "idle")
  <2>1. pc' \in [Threads -> Labels] /\ Loads' = Loads BY ZenonT(60), <1>0, <1>4, LoadsAre
  <2>2. shard'.book = bookkeeping_footprint(shard') BY ZenonT(60), <1>2, <1>4
  <2>3. Paid(shard') BY <1>2, <1>4, <2>2, Footprint DEF Paid, Sound
  <2>4. ASSUME ~shard'.moved, Len(shard') = 0 PROVE Emptied(shard')
    <3>1. Emptied(shard) /\ Len(shard) = 0 BY ZenonT(60), <1>2, <1>4, <2>4 DEF IInv, SameCounts, Len
    <3> QED BY ZenonT(60), <1>0, <1>2, <1>4, <2>2, <3>1, NothingSettles
  <2>5. shard'.loading = Cardinality(Loads') BY ZenonT(60), <1>2, <1>4, <2>1 DEF IInv, SameCounts
  <2> QED BY ZenonT(60), <1>2, <1>3, <1>4, <2>1, <2>2, <2>3, <2>4, <2>5 DEF IInv
<1>5. CASE ~r[1] /\ shard.ready > 0 /\ shard' \in evict_one(shard) /\ UNCHANGED pc
  BY ZenonT(60), <1>0, <1>5, EvictStep
<1>6. CASE ~r[1] /\ shard' = shard /\ Goto(t, "resettle")
  <2>1. /\ pc' \in [Threads -> Labels] /\ Loads' = Loads /\ pc'[t] = "resettle"
    BY ZenonT(60), <1>0, <1>6, LoadsAre
  <2>2. ~Unlocked' BY ZenonT(60), <2>1 DEF Unlocked
  <2> QED BY ZenonT(60), <1>3, <1>6, <2>1, <2>2 DEF IInv
<1>7. CASE ~r[1] /\ shard' \in release_bookkeeping(shard) /\ Goto(t, "idle")
  <2>1. pc' \in [Threads -> Labels] /\ Loads' = Loads BY ZenonT(60), <1>0, <1>7, LoadsAre
  <2>2. Sound(shard') /\ SameCounts(shard', shard) BY ZenonT(60), <1>0, <1>7, Released
  <2>3. shard.moved BY ZenonT(60), <1>2, <1>7 DEF IInv
  <2> QED BY ZenonT(60), <1>3, <2>1, <2>2, <2>3 DEF IInv, SameCounts
<1> QED BY ZenonT(60), <1>1, <1>4, <1>5, <1>6, <1>7

\* The capacity is met.
LEMMA CapacityDoneStep ==
    ASSUME IInv, NEW t \in Threads, CapacityDone(t)
    PROVE  IInv'
<1>1. /\ pc[t] # "load" /\ Goto(t, "settle") /\ pc \in [Threads -> Labels] /\ "settle" \in Labels
      /\ shard' = shard /\ charge' = charge
  BY ZenonT(60) DEF CapacityDone, IInv, Labels
<1>2. pc' \in [Threads -> Labels] /\ Loads' = Loads /\ pc'[t] = "settle" BY ZenonT(60), <1>1, LoadsAre
<1>3. ~Unlocked' BY ZenonT(60), <1>2 DEF Unlocked
<1> QED BY ZenonT(60), <1>1, <1>2, <1>3 DEF IInv

\* Every step keeps the invariant.
LEMMA NextHolds == IInv /\ [Next]_vars => IInv'
<1> SUFFICES ASSUME IInv, [Next]_vars PROVE IInv' BY ZenonT(60)
<1>1. CASE Next
  <2>1. CASE Reclaim BY ZenonT(60), <2>1, EvictStep DEF Reclaim
  <2>2. ASSUME NEW t \in Threads,
               \/ Ask(t) \/ GiveUp(t) \/ Insert(t) \/ Abandon(t) \/ Publish(t)
               \/ CapacityEvict(t) \/ CapacityDone(t) \/ PublishSettle(t) \/ PublishResettle(t)
        PROVE  IInv'
    <3>1. CASE CapacityEvict(t) BY ZenonT(60), <3>1, EvictStep DEF CapacityEvict
    <3> QED BY ZenonT(60), <2>2, <3>1, AskingStep, InsertStep, AbandonStep, PublishStep, CapacityDoneStep,
               SettleStep
  <2> QED BY ZenonT(60), <1>1, <2>1, <2>2 DEF Next
<1>2. CASE UNCHANGED vars BY ZenonT(60), <1>2 DEF vars, IInv, Loads, Unlocked
<1> QED BY ZenonT(60), <1>1, <1>2

\* The invariant holds throughout.
LEMMA IInvHolds == Spec => []IInv
<1> QED BY InitHolds, NextHolds, PTL DEF Spec

\* ShardBook's ReservedBeforeAllocated for any number of threads: a marker going in never
\* moves the map, and neither the ring's growth nor either's shrinking allocates, before
\* what is charged covers the old allocation and the new one (insert_loading,
\* release_bookkeeping).
THEOREM ReservationsPrecedeAllocations == Spec => []ReservedBeforeAllocated
<1>1. IInv => ReservedBeforeAllocated BY ZenonT(60) DEF IInv, Sound, ReservedBeforeAllocated
<1> QED BY <1>1, IInvHolds, PTL

\* ShardBook's BookCoversFootprint for any number of threads: between critical sections
\* map_slots never understates the buckets, and the charge never falls short of the
\* footprint settle_bookkeeping would ask for, unless a page has moved the map.
THEOREM ChargeCoversFootprint == Spec => []BookCoversFootprint
<1>1. IInv => BookCoversFootprint
  <2> SUFFICES ASSUME IInv, Unlocked
               PROVE  /\ shard.slots <= shard.mapSlots
                      /\ ~shard.moved => shard.book >= bookkeeping_footprint(shard)
    BY ZenonT(60) DEF BookCoversFootprint
  <2>1. Sound(shard) BY ZenonT(60) DEF IInv
  <2>2. bookkeeping_footprint(shard) \in Nat /\ shard.book \in Nat
    BY ZenonT(60), <2>1, Footprint DEF Sound, Fits, Shards
  <2> QED BY <2>1, <2>2 DEF IInv, Sound
<1> QED BY <1>1, IInvHolds, PTL

\* ShardBook's EmptyShardGivesAllBack for any number of threads: when the last entry goes,
\* release_bookkeeping gives the map back, and the ring and the charge with it, but for a
\* map whose capacity reads zero before it is rebuilt and after.
THEOREM EmptyShardsKeepNothing == Spec => []EmptyShardGivesAllBack
<1>1. IInv => EmptyShardGivesAllBack
  <2> SUFFICES ASSUME IInv, Len(shard) = 0, ~shard.moved
               PROVE  /\ shard.slots = 0
                      /\ shard.mapSlots = 0 => Allocated(shard) = 0 /\ shard.book = 0
    BY ZenonT(60) DEF EmptyShardGivesAllBack
  <2>1. Emptied(shard) BY ZenonT(60) DEF IInv
  <2>2. hash_table_bytes(0) = 0 /\ ring_bytes(0) = 0 BY DEF hash_table_bytes, ring_bytes
  <2> QED BY <2>1, <2>2 DEF Emptied, Allocated
<1> QED BY <1>1, IInvHolds, PTL
=============================================================================
