-------------------------- MODULE PageStoreLedger ---------------------------
(***************************************************************************)
(* The page store's books, for any number of threads, any file, any sizes, *)
(* any budget and any bound on guards and buffers: what is reserved is the *)
(* sum of what is held, and it fits the limit.                             *)
(*                                                                         *)
(* First sums over finite sets, as the community modules define them: a    *)
(* fold that takes the elements one by one in an order nobody states.      *)
(* Bytes held are such sums, and the proofs about them need to know what   *)
(* one element more, one less or one changed does to a sum.  Then          *)
(* sequences that hold nothing twice, as the order of a directory's chunks *)
(* is, the books as such sums, and most steps of a call, which keep them.  *)
(*                                                                         *)
(* Induction is by least counterexample: a set of sizes that is not empty  *)
(* has a least member.  That needs sets and no operator as a parameter.    *)
(*                                                                         *)
(* That the reservations cover the memory is not inductive.  A byte moves  *)
(* from one holder to another: a call's reservation into a buffer, a chunk *)
(* or an entry of the cache, and a buffer from a call to the cache, a root *)
(* or a guard.  The sum stays under the limit because the call that makes  *)
(* the move has the byte: Shape says what a call holds at each of its      *)
(* labels, and Owners that a load has the marker of its page to itself.    *)
(***************************************************************************)
EXTENDS PageStore, Sequences, FiniteSetsExt, FiniteSetTheorems, SequenceTheorems, TLAPS

\* A set of natural numbers that is not empty has a least member.
LEMMA Least ==
    ASSUME NEW T \in SUBSET Nat, T # {}
    PROVE  \E n \in T : \A m \in T : n <= m
<1>1. PICK n \in T : \A m \in T : ~(<<m, n>> \in OpToRel(<, Nat))
  BY ZenonT(60), WFMin, NatLessThanWellFounded
<1>2. \A m \in T : ~(m < n)
  BY ZenonT(60), <1>1 DEF OpToRel
<1> QED  BY <1>2

-----------------------------------------------------------------------------
\* The fold's recursion is well defined.

\* The element the fold takes first.
First(s) == CHOOSE x \in s : TRUE

\* What the fold is, given what it is on smaller sets.
Folded(f, g, s) == IF s = {} THEN 0 ELSE f[First(s)] + g[s \ {First(s)}]

\* The subsets of S of at most n elements.
UpTo(S, n) == {s \in SUBSET S : Cardinality(s) <= n}

\* The fold exists on the small subsets.
Exists(f, S, n) == \E g : g = [s \in UpTo(S, n) |-> Folded(f, g, s)]

\* The element taken first is one of the set.
LEMMA FirstIn ==
    ASSUME NEW s, s # {}
    PROVE  First(s) \in s
BY ZenonT(60) DEF First

\* A subset of a finite set, and the subset without one of its elements.
LEMMA Smaller ==
    ASSUME NEW S, IsFiniteSet(S), NEW s \in SUBSET S, NEW x \in s
    PROVE  /\ IsFiniteSet(s) /\ IsFiniteSet(s \ {x})
           /\ Cardinality(s) \in Nat /\ Cardinality(s \ {x}) \in Nat
           /\ Cardinality(s \ {x}) = Cardinality(s) - 1
<1>1. IsFiniteSet(s)
  BY ZenonT(60), FS_Subset
<1> QED  BY ZenonT(60), <1>1, FS_RemoveElement, FS_CardinalityType

\* The fold exists on the empty set.
LEMMA ExistsNone ==
    ASSUME NEW f, NEW S, IsFiniteSet(S)
    PROVE  Exists(f, S, 0)
<1> DEFINE g == [s \in UpTo(S, 0) |-> 0]
<1>1. \A s \in UpTo(S, 0) : s = {}
  <2> TAKE s \in UpTo(S, 0)
  <2>1. IsFiniteSet(s) /\ Cardinality(s) <= 0
    BY ZenonT(60), FS_Subset DEF UpTo
  <2> QED  BY <2>1, FS_CardinalityType, FS_EmptySet
<1>2. \A s \in UpTo(S, 0) : Folded(f, g, s) = 0
  BY ZenonT(60), <1>1 DEF Folded
<1>3. g = [s \in UpTo(S, 0) |-> Folded(f, g, s)]
  BY ZenonT(60), <1>2
<1> QED  BY ZenonT(60), <1>3 DEF Exists

\* Where it exists on the subsets of at most n elements it exists on those of n + 1.
LEMMA ExistsMore ==
    ASSUME NEW f, NEW S, IsFiniteSet(S), NEW n \in Nat, Exists(f, S, n)
    PROVE  Exists(f, S, n + 1)
<1>1. PICK g : g = [s \in UpTo(S, n) |-> Folded(f, g, s)]
  BY ZenonT(60) DEF Exists
<1> DEFINE h == [s \in UpTo(S, n + 1) |-> Folded(f, g, s)]
<1>2. \A s \in UpTo(S, n) : s \in UpTo(S, n + 1) /\ h[s] = g[s]
  <2> TAKE s \in UpTo(S, n)
  <2>1. s \in UpTo(S, n + 1)
    <3>1. Cardinality(s) \in Nat
      BY ZenonT(60), FS_Subset, FS_CardinalityType DEF UpTo
    <3> QED  BY <3>1 DEF UpTo
  <2>2. g[s] = Folded(f, g, s)
    BY ZenonT(60), <1>1
  <2>3. h[s] = Folded(f, g, s)
    BY ZenonT(60), <2>1
  <2> QED  BY ZenonT(60), <2>1, <2>2, <2>3
<1> HIDE DEF h
<1>3. \A s \in UpTo(S, n + 1) : Folded(f, g, s) = Folded(f, h, s)
  <2> TAKE s \in UpTo(S, n + 1)
  <2>1. CASE s = {}
    BY ZenonT(60), <2>1 DEF Folded
  <2>2. CASE s # {}
    <3>1. First(s) \in s
      BY ZenonT(60), <2>2, FirstIn
    <3>2. s \ {First(s)} \in UpTo(S, n)
      BY <3>1, Smaller DEF UpTo
    <3> QED  BY ZenonT(60), <3>2, <1>2 DEF Folded
  <2> QED  BY ZenonT(60), <2>1, <2>2
<1>4. h = [s \in UpTo(S, n + 1) |-> Folded(f, h, s)]
  BY ZenonT(60), <1>3 DEF h
<1> QED  BY ZenonT(60), <1>4 DEF Exists

\* The fold exists on every subset: there is no least size at which it does not.
LEMMA ExistsAll ==
    ASSUME NEW f, NEW S, IsFiniteSet(S), NEW n \in Nat
    PROVE  Exists(f, S, n)
<1> DEFINE Bad == {m \in Nat : ~Exists(f, S, m)}
<1>1. CASE Bad = {}
  BY ZenonT(60), <1>1
<1>2. CASE Bad # {}
  <2>1. PICK m \in Bad : \A k \in Bad : m <= k
    BY ZenonT(60), <1>2, Least
  <2>2. m # 0
    BY ZenonT(60), <2>1, ExistsNone
  <2>3. m - 1 \in Nat /\ (m - 1) + 1 = m /\ m - 1 \notin Bad
    BY <2>1, <2>2
  <2>4. Exists(f, S, m)
    BY ZenonT(60), <2>3, ExistsMore
  <2> QED  BY ZenonT(60), <2>1, <2>4
<1> QED  BY ZenonT(60), <1>1, <1>2

\* The fold over S, of every subset of S.
Fold(f, S) == CHOOSE g : g = [s \in SUBSET S |-> Folded(f, g, s)]

\* The fold is what its recursion says.
LEMMA FoldIs ==
    ASSUME NEW f, NEW S, IsFiniteSet(S)
    PROVE  \A s \in SUBSET S : Fold(f, S)[s] = Folded(f, Fold(f, S), s)
<1>1. UpTo(S, Cardinality(S)) = SUBSET S
  BY ZenonT(60), FS_Subset DEF UpTo
<1>2. \E g : g = [s \in SUBSET S |-> Folded(f, g, s)]
  <2>1. Exists(f, S, Cardinality(S))
    BY ZenonT(60), ExistsAll, FS_CardinalityType
  <2>2. PICK g : g = [s \in UpTo(S, Cardinality(S)) |-> Folded(f, g, s)]
    BY ZenonT(60), <2>1 DEF Exists
  <2>3. g = [s \in SUBSET S |-> Folded(f, g, s)]
    BY ZenonT(60), <1>1, <2>2
  <2> QED  BY ZenonT(60), <2>3
<1>3. Fold(f, S) = [s \in SUBSET S |-> Folded(f, Fold(f, S), s)]
  BY ZenonT(60), <1>2 DEF Fold
<1> QED  BY ZenonT(60), <1>3

\* The sum is the fold over its set.
LEMMA SumIsFold ==
    ASSUME NEW f, NEW S
    PROVE  SumFunctionOnSet(f, S) = Fold(f, S)[S]
BY ZenonT(60) DEF SumFunctionOnSet, FoldFunctionOnSet, MapThenFoldSet, Fold, Folded, First

\* The fold over a smaller set is the fold over the larger one.
LEMMA FoldAgrees ==
    ASSUME NEW f, NEW S, IsFiniteSet(S), NEW T \in SUBSET S
    PROVE  Fold(f, T)[T] = Fold(f, S)[T]
<1>1. IsFiniteSet(T)
  BY ZenonT(60), FS_Subset
<1> DEFINE Bad == {s \in SUBSET T : Fold(f, T)[s] # Fold(f, S)[s]}
           Sizes == {Cardinality(s) : s \in Bad}
<1>2. \A s \in SUBSET T : /\ Fold(f, T)[s] = Folded(f, Fold(f, T), s)
                          /\ Fold(f, S)[s] = Folded(f, Fold(f, S), s)
  <2>1. \A s \in SUBSET T : Fold(f, T)[s] = Folded(f, Fold(f, T), s)
    BY ZenonT(60), <1>1, FoldIs
  <2>2. \A s \in SUBSET S : Fold(f, S)[s] = Folded(f, Fold(f, S), s)
    BY ZenonT(60), FoldIs
  <2> QED  BY ZenonT(60), <2>1, <2>2
<1>3. CASE Bad # {}
  <2>1. Sizes \in SUBSET Nat /\ Sizes # {}
    BY <1>1, <1>3, FS_Subset, FS_CardinalityType
  <2>2. PICK s \in Bad : \A u \in Bad : Cardinality(s) <= Cardinality(u)
    <3>1. PICK n \in Sizes : \A m \in Sizes : n <= m
      BY ZenonT(60), <2>1, Least
    <3> QED  BY ZenonT(60), <3>1
  <2>3. s # {}
    BY <1>2 DEF Folded
  <2>4. First(s) \in s
    BY ZenonT(60), <2>3, FirstIn
  <2>5. s \ {First(s)} \in SUBSET T /\ s \ {First(s)} \notin Bad
    <3>1. s \ {First(s)} \in SUBSET T
      BY ZenonT(60)
    <3>2. /\ Cardinality(s) \in Nat /\ Cardinality(s \ {First(s)}) \in Nat
          /\ Cardinality(s \ {First(s)}) = Cardinality(s) - 1
      BY ZenonT(60), <1>1, <2>4, Smaller
    <3> QED  BY <2>2, <3>1, <3>2
  <2>6. Folded(f, Fold(f, T), s) = Folded(f, Fold(f, S), s)
    BY ZenonT(60), <2>5 DEF Folded
  <2> QED  BY ZenonT(60), <1>2, <2>6
<1> QED  BY ZenonT(60), <1>3

\* The sum as the fold builds it.
LEMMA SumStep ==
    ASSUME NEW f, NEW S, IsFiniteSet(S)
    PROVE  /\ S = {} => SumFunctionOnSet(f, S) = 0
           /\ S # {} => SumFunctionOnSet(f, S) =
                          f[First(S)] + SumFunctionOnSet(f, S \ {First(S)})
<1>1. Fold(f, S)[S] = Folded(f, Fold(f, S), S)
  BY ZenonT(60), FoldIs
<1>2. S # {} => Fold(f, S)[S \ {First(S)}] = Fold(f, S \ {First(S)})[S \ {First(S)}]
  BY ZenonT(60), FoldAgrees
<1> QED  BY ZenonT(60), <1>1, <1>2, SumIsFold DEF Folded

-----------------------------------------------------------------------------
\* Sums of natural numbers.

\* A family of subsets of a finite set that is not empty has a smallest member.
LEMMA Smallest ==
    ASSUME NEW S, IsFiniteSet(S), NEW Bad \in SUBSET SUBSET S, Bad # {}
    PROVE  \E s \in Bad : \A u \in SUBSET S : Cardinality(u) < Cardinality(s) => u \notin Bad
<1> DEFINE Sizes == {Cardinality(s) : s \in Bad}
<1>1. \A s \in SUBSET S : Cardinality(s) \in Nat
  BY ZenonT(60), FS_Subset, FS_CardinalityType
<1>2. Sizes \in SUBSET Nat /\ Sizes # {}
  BY ZenonT(60), <1>1
<1>3. PICK n \in Sizes : \A m \in Sizes : n <= m
  BY ZenonT(60), <1>2, Least
<1>4. PICK s \in Bad : n = Cardinality(s)
  BY ZenonT(60), <1>3
<1> QED  BY SMTT(60), <1>1, <1>3, <1>4

\* A sum over nothing.
LEMMA SumEmpty ==
    ASSUME NEW f
    PROVE  SumFunctionOnSet(f, {}) = 0
BY ZenonT(60), SumStep, FS_EmptySet

\* A sum of natural numbers is one.
LEMMA SumType ==
    ASSUME NEW f, NEW S, IsFiniteSet(S), \A x \in S : f[x] \in Nat
    PROVE  SumFunctionOnSet(f, S) \in Nat
<1> DEFINE Bad == {s \in SUBSET S : SumFunctionOnSet(f, s) \notin Nat}
<1>1. CASE Bad # {}
  <2>1. PICK s \in Bad : \A u \in SUBSET S : Cardinality(u) < Cardinality(s) => u \notin Bad
    <3>1. Bad \in SUBSET SUBSET S
      BY ZenonT(60)
    <3> HIDE DEF Bad
    <3> QED  BY ZenonT(60), <1>1, <3>1, Smallest
  <2>2. s # {}
    BY SumEmpty
  <2>3. First(s) \in s
    BY ZenonT(60), <2>2, FirstIn
  <2>4. Cardinality(s \ {First(s)}) < Cardinality(s) /\ IsFiniteSet(s)
    BY SMTT(60), <2>3, Smaller
  <2>5. SumFunctionOnSet(f, s \ {First(s)}) \in Nat
    BY ZenonT(60), <2>1, <2>4
  <2>6. SumFunctionOnSet(f, s) = f[First(s)] + SumFunctionOnSet(f, s \ {First(s)})
    BY ZenonT(60), <2>2, <2>4, SumStep
  <2> QED  BY <2>3, <2>5, <2>6
<1> QED  BY ZenonT(60), <1>1

\* Nothing but zeros add up to zero.
LEMMA SumZero ==
    ASSUME NEW f, NEW S, IsFiniteSet(S), \A x \in S : f[x] = 0
    PROVE  SumFunctionOnSet(f, S) = 0
<1> DEFINE Bad == {s \in SUBSET S : SumFunctionOnSet(f, s) # 0}
<1>1. CASE Bad # {}
  <2>1. PICK s \in Bad : \A u \in SUBSET S : Cardinality(u) < Cardinality(s) => u \notin Bad
    <3>1. Bad \in SUBSET SUBSET S
      BY ZenonT(60)
    <3> HIDE DEF Bad
    <3> QED  BY ZenonT(60), <1>1, <3>1, Smallest
  <2>2. s # {}
    BY ZenonT(60), SumEmpty
  <2>3. First(s) \in s
    BY ZenonT(60), <2>2, FirstIn
  <2>4. Cardinality(s \ {First(s)}) < Cardinality(s) /\ IsFiniteSet(s)
    <3>1. s \in SUBSET S
      BY ZenonT(60), <2>1
    <3> QED  BY ONLY IsFiniteSet(S), <2>3, <3>1, Smaller
  <2>5. SumFunctionOnSet(f, s \ {First(s)}) = 0
    BY ZenonT(60), <2>1, <2>4
  <2>6. SumFunctionOnSet(f, s) = f[First(s)] + SumFunctionOnSet(f, s \ {First(s)})
    BY ZenonT(60), <2>2, <2>4, SumStep
  <2> QED  BY <2>3, <2>5, <2>6
<1> QED  BY ZenonT(60), <1>1

\* Any element may be the first.
LEMMA SumRemove ==
    ASSUME NEW f, NEW S, IsFiniteSet(S), \A x \in S : f[x] \in Nat, NEW x \in S
    PROVE  SumFunctionOnSet(f, S) = f[x] + SumFunctionOnSet(f, S \ {x})
<1> DEFINE Holds(s) == \A y \in s : SumFunctionOnSet(f, s) = f[y] + SumFunctionOnSet(f, s \ {y})
           Bad == {s \in SUBSET S : ~Holds(s)}
<1>1. CASE Bad # {}
  <2>1. PICK s \in Bad : \A u \in SUBSET S : Cardinality(u) < Cardinality(s) => u \notin Bad
    <3>1. Bad \in SUBSET SUBSET S
      BY ZenonT(60)
    <3> HIDE DEF Bad
    <3> QED  BY ZenonT(60), <1>1, <3>1, Smallest
  <2>2. PICK y \in s : SumFunctionOnSet(f, s) # f[y] + SumFunctionOnSet(f, s \ {y})
    BY ZenonT(60), <2>1
  <2> DEFINE z == First(s)
  <2>3. z \in s
    BY ZenonT(60), <2>2, FirstIn
  <2> HIDE DEF z
  <2>4. IsFiniteSet(s) /\ Cardinality(s \ {z}) < Cardinality(s) /\ Cardinality(s \ {y}) < Cardinality(s)
    BY SMTT(60), <2>2, <2>3, Smaller
  <2>5. SumFunctionOnSet(f, s) = f[z] + SumFunctionOnSet(f, s \ {z})
    BY ZenonT(60), <2>2, <2>4, SumStep DEF z
  <2>6. y # z
    BY ZenonT(60), <2>2, <2>5
  <2>7. SumFunctionOnSet(f, s \ {z}) = f[y] + SumFunctionOnSet(f, (s \ {z}) \ {y})
    BY ZenonT(60), <2>1, <2>2, <2>4, <2>6
  <2>8. SumFunctionOnSet(f, s \ {y}) = f[z] + SumFunctionOnSet(f, (s \ {y}) \ {z})
    BY ZenonT(60), <2>1, <2>3, <2>4, <2>6
  <2>9. SumFunctionOnSet(f, (s \ {z}) \ {y}) = SumFunctionOnSet(f, (s \ {y}) \ {z})
    <3>1. (s \ {z}) \ {y} = (s \ {y}) \ {z}
      BY ZenonT(60)
    <3> QED  BY ZenonT(60), <3>1
  <2>10. SumFunctionOnSet(f, (s \ {y}) \ {z}) \in Nat /\ f[y] \in Nat /\ f[z] \in Nat
    <3>1. IsFiniteSet((s \ {y}) \ {z}) /\ \A w \in (s \ {y}) \ {z} : f[w] \in Nat
      BY ZenonT(60), <2>4, FS_RemoveElement
    <3> QED  BY ZenonT(60), <3>1, <2>2, <2>3, SumType
  <2> QED  BY <2>2, <2>5, <2>7, <2>8, <2>9, <2>10
<1> QED  BY ZenonT(60), <1>1

\* One element more.
LEMMA SumAdd ==
    ASSUME NEW f, NEW S, IsFiniteSet(S), NEW x, x \notin S,
           f[x] \in Nat, \A y \in S : f[y] \in Nat
    PROVE  SumFunctionOnSet(f, S \cup {x}) = SumFunctionOnSet(f, S) + f[x]
<1>1. IsFiniteSet(S \cup {x}) /\ (S \cup {x}) \ {x} = S
  BY ZenonT(60), FS_AddElement
<1>2. \A y \in S \cup {x} : f[y] \in Nat
  BY ZenonT(60)
<1>3. SumFunctionOnSet(f, S \cup {x}) = f[x] + SumFunctionOnSet(f, (S \cup {x}) \ {x})
  BY <1>1, <1>2, SumRemove
<1>4. SumFunctionOnSet(f, S) \in Nat
  BY ZenonT(60), SumType
<1>5. SumFunctionOnSet(f, (S \cup {x}) \ {x}) = SumFunctionOnSet(f, S)
  BY ZenonT(60), <1>1
<1> QED  BY <1>3, <1>4, <1>5

\* Pointwise comparison, over a set that may be larger on one side.
LEMMA SumLe ==
    ASSUME NEW f, NEW g, NEW S, IsFiniteSet(S), NEW T \in SUBSET S,
           \A x \in T : f[x] \in Nat, \A x \in S : g[x] \in Nat, \A x \in T : f[x] <= g[x]
    PROVE  SumFunctionOnSet(f, T) <= SumFunctionOnSet(g, S)
<1> DEFINE Bad == {s \in SUBSET S : ~(SumFunctionOnSet(f, s \cap T) <= SumFunctionOnSet(g, s))}
<1>1. CASE Bad # {}
  <2>1. PICK s \in Bad : \A u \in SUBSET S : Cardinality(u) < Cardinality(s) => u \notin Bad
    <3>1. Bad \in SUBSET SUBSET S
      BY ZenonT(60)
    <3> HIDE DEF Bad
    <3> QED  BY ZenonT(60), <1>1, <3>1, Smallest
  <2>2. s # {}
    <3>1. SumFunctionOnSet(f, {} \cap T) = 0 /\ SumFunctionOnSet(g, {}) = 0
      <4>1. {} \cap T = {}
        BY ZenonT(60)
      <4> QED  BY ZenonT(60), <4>1, SumEmpty
    <3> QED  BY <3>1
  <2>3. PICK x \in s : TRUE
    BY ZenonT(60), <2>2
  <2>4. IsFiniteSet(s) /\ IsFiniteSet(s \ {x}) /\ Cardinality(s \ {x}) < Cardinality(s)
    BY SMTT(60), Smaller
  <2>5. SumFunctionOnSet(f, (s \ {x}) \cap T) <= SumFunctionOnSet(g, s \ {x})
    BY ZenonT(60), <2>1, <2>4
  <2>6. SumFunctionOnSet(g, s) = g[x] + SumFunctionOnSet(g, s \ {x})
    BY <2>4, SumRemove
  <2>7. IsFiniteSet(s \cap T) /\ IsFiniteSet((s \ {x}) \cap T)
    BY ZenonT(60), <2>4, FS_Intersection
  <2>8. SumFunctionOnSet(g, s \ {x}) \in Nat /\ SumFunctionOnSet(f, (s \ {x}) \cap T) \in Nat
    <3>1. \A y \in s \ {x} : g[y] \in Nat
      BY ZenonT(60)
    <3>2. \A y \in (s \ {x}) \cap T : f[y] \in Nat
      BY ZenonT(60)
    <3> QED  BY ZenonT(60), <2>4, <2>7, <3>1, <3>2, SumType
  <2>9. CASE x \in T
    <3>1. x \in s \cap T /\ (s \cap T) \ {x} = (s \ {x}) \cap T
      BY ZenonT(60), <2>9
    <3>2. SumFunctionOnSet(f, s \cap T) = f[x] + SumFunctionOnSet(f, (s \ {x}) \cap T)
      BY <2>7, <3>1, SumRemove
    <3> QED  BY <2>5, <2>6, <2>8, <2>9, <3>2
  <2>10. CASE x \notin T
    <3>1. s \cap T = (s \ {x}) \cap T
      BY ZenonT(60), <2>10
    <3>2. SumFunctionOnSet(f, s \cap T) = SumFunctionOnSet(f, (s \ {x}) \cap T)
      BY ZenonT(60), <3>1
    <3>3. SumFunctionOnSet(f, s \cap T) <= SumFunctionOnSet(g, s)
      BY <2>5, <2>6, <2>8, <3>2
    <3> QED  BY ZenonT(60), <3>3
  <2> QED  BY ZenonT(60), <2>9, <2>10
<1>2. SumFunctionOnSet(f, S \cap T) <= SumFunctionOnSet(g, S)
  BY ZenonT(60), <1>1
<1> QED  BY ZenonT(60), <1>2

\* A sum whose elements all have a bound.
LEMMA SumAtMost ==
    ASSUME NEW f, NEW c \in Nat, NEW S, IsFiniteSet(S), \A x \in S : f[x] \in Nat /\ f[x] <= c
    PROVE  SumFunctionOnSet(f, S) <= c * Cardinality(S)
<1> DEFINE Bad == {s \in SUBSET S : ~(SumFunctionOnSet(f, s) <= c * Cardinality(s))}
<1>1. CASE Bad # {}
  <2>1. PICK s \in Bad : \A u \in SUBSET S : Cardinality(u) < Cardinality(s) => u \notin Bad
    <3>1. Bad \in SUBSET SUBSET S
      BY ZenonT(60)
    <3> HIDE DEF Bad
    <3> QED  BY ZenonT(60), <1>1, <3>1, Smallest
  <2>2. s # {}
    <3>1. SumFunctionOnSet(f, {}) = 0 /\ Cardinality({}) = 0 /\ 0 <= c * 0
      BY SumEmpty, FS_EmptySet
    <3> QED  BY ZenonT(60), <3>1
  <2>3. PICK x \in s : TRUE
    BY ZenonT(60), <2>2
  <2>4. /\ IsFiniteSet(s) /\ IsFiniteSet(s \ {x}) /\ Cardinality(s) \in Nat
        /\ Cardinality(s \ {x}) \in Nat /\ Cardinality(s \ {x}) = Cardinality(s) - 1
    BY ZenonT(60), Smaller
  <2>5. SumFunctionOnSet(f, s \ {x}) <= c * Cardinality(s \ {x})
    <3>1. Cardinality(s \ {x}) < Cardinality(s)
      BY <2>4
    <3> QED  BY ZenonT(60), <2>1, <3>1
  <2>6. SumFunctionOnSet(f, s) = f[x] + SumFunctionOnSet(f, s \ {x})
    BY <2>4, SumRemove
  <2>7. SumFunctionOnSet(f, s \ {x}) \in Nat
    BY ZenonT(60), <2>4, SumType
  <2>8. \A n \in Nat : c * (n + 1) = c * n + c
    OBVIOUS
  <2>9. c * Cardinality(s) = c * Cardinality(s \ {x}) + c /\ c * Cardinality(s \ {x}) \in Nat
    <3>1. Cardinality(s) = Cardinality(s \ {x}) + 1
      BY <2>4
    <3> QED  BY <2>4, <2>8, <3>1
  <2>10. SumFunctionOnSet(f, s) <= c * Cardinality(s)
    BY <2>5, <2>6, <2>7, <2>9
  <2> QED  BY ZenonT(60), <2>10
<1> QED  BY ZenonT(60), <1>1

\* A sum only depends on what is summed.
LEMMA SumSame ==
    ASSUME NEW f, NEW g, NEW S, IsFiniteSet(S),
           \A x \in S : f[x] \in Nat, \A x \in S : g[x] = f[x]
    PROVE  SumFunctionOnSet(g, S) = SumFunctionOnSet(f, S)
<1>1. SumFunctionOnSet(g, S) <= SumFunctionOnSet(f, S)
  BY SumLe
<1>2. SumFunctionOnSet(f, S) <= SumFunctionOnSet(g, S)
  BY SumLe
<1>3. SumFunctionOnSet(f, S) \in Nat /\ SumFunctionOnSet(g, S) \in Nat
  BY ZenonT(60), SumType
<1> QED  BY <1>1, <1>2, <1>3

\* One element changes.
LEMMA SumChanged ==
    ASSUME NEW f, NEW g, NEW S, IsFiniteSet(S), NEW x \in S,
           \A y \in S : f[y] \in Nat, g[x] \in Nat, \A y \in S \ {x} : g[y] = f[y]
    PROVE  SumFunctionOnSet(g, S) + f[x] = SumFunctionOnSet(f, S) + g[x]
<1>1. IsFiniteSet(S \ {x})
  BY ZenonT(60), FS_RemoveElement
<1>2. SumFunctionOnSet(g, S \ {x}) = SumFunctionOnSet(f, S \ {x})
  BY ZenonT(60), <1>1, SumSame
<1>3. SumFunctionOnSet(f, S) = f[x] + SumFunctionOnSet(f, S \ {x})
  BY SumRemove
<1>4. SumFunctionOnSet(g, S) = g[x] + SumFunctionOnSet(g, S \ {x})
  BY SumRemove
<1>5. SumFunctionOnSet(f, S \ {x}) \in Nat
  BY ZenonT(60), <1>1, SumType
<1> QED  BY <1>2, <1>3, <1>4, <1>5

\* At most one element more.
LEMMA SumOneMore ==
    ASSUME NEW f, NEW S, IsFiniteSet(S), NEW x, f[x] \in Nat, \A y \in S : f[y] \in Nat,
           NEW T \in SUBSET (S \cup {x})
    PROVE  SumFunctionOnSet(f, T) <= SumFunctionOnSet(f, S) + f[x]
<1>1. IsFiniteSet(S \cup {x}) /\ IsFiniteSet(T)
  BY ZenonT(60), FS_AddElement, FS_Subset
<1>2. SumFunctionOnSet(f, T) <= SumFunctionOnSet(f, S \cup {x})
  BY <1>1, SumLe
<1>3. SumFunctionOnSet(f, S) \in Nat /\ SumFunctionOnSet(f, T) \in Nat
  BY ZenonT(60), <1>1, SumType
<1>4. CASE x \in S
  <2>1. S \cup {x} = S
    BY ZenonT(60), <1>4
  <2> QED  BY <1>2, <1>3, <2>1
<1>5. CASE x \notin S
  BY ZenonT(60), <1>2, <1>3, <1>5, SumAdd
<1> QED  BY ZenonT(60), <1>4, <1>5

\* A number of equal parts: fewer, and one more.
LEMMA Times ==
    ASSUME NEW c \in Nat, NEW S, IsFiniteSet(S), NEW T
    PROVE  /\ c * Cardinality(S) \in Nat
           /\ T \subseteq S => c * Cardinality(T) \in Nat /\ c * Cardinality(T) <= c * Cardinality(S)
           /\ \A x : T \subseteq S \cup {x} =>
                c * Cardinality(T) \in Nat /\ c * Cardinality(T) <= c * Cardinality(S) + c
<1>1. Cardinality(S) \in Nat
  BY ZenonT(60), FS_CardinalityType
<1>2. \A m, n \in Nat : m <= n => c * m \in Nat /\ c * m <= c * n
  OBVIOUS
<1>3. \A n \in Nat : c * (n + 1) = c * n + c
  OBVIOUS
<1>4. ASSUME T \subseteq S PROVE Cardinality(T) \in Nat /\ Cardinality(T) <= Cardinality(S)
  BY ZenonT(60), <1>4, FS_Subset, FS_CardinalityType
<1>5. ASSUME NEW x, T \subseteq S \cup {x}
      PROVE  Cardinality(T) \in Nat /\ Cardinality(T) <= Cardinality(S) + 1
  <2>1. IsFiniteSet(S \cup {x}) /\ Cardinality(S \cup {x}) <= Cardinality(S) + 1
    BY <1>1, FS_AddElement
  <2>2. IsFiniteSet(T) /\ Cardinality(T) <= Cardinality(S \cup {x})
    BY ZenonT(60), <1>5, <2>1, FS_Subset
  <2>3. Cardinality(T) \in Nat /\ Cardinality(S \cup {x}) \in Nat
    BY ZenonT(60), <2>1, <2>2, FS_CardinalityType
  <2> QED  BY <1>1, <2>1, <2>2, <2>3
<1>6. \A m \in Nat : m <= Cardinality(S) + 1 => c * m \in Nat /\ c * m <= c * Cardinality(S) + c
  BY <1>1, <1>2, <1>3
<1> QED  BY <1>1, <1>2, <1>4, <1>5, <1>6

-----------------------------------------------------------------------------
\* Sequences that hold nothing twice.

\* No element twice.
Distinct(s) == \A i, j \in 1..Len(s) : s[i] = s[j] => i = j

\* A sequence without its i-th element.
Less(s, i) == SubSeq(s, 1, i - 1) \o SubSeq(s, i + 1, Len(s))

\* What a sequence holds.
LEMMA InRange ==
    ASSUME NEW S, NEW s \in Seq(S)
    PROVE  \A x : x \in Range(s) <=> \E i \in 1..Len(s) : s[i] = x
<1>1. DOMAIN s = 1..Len(s)
  BY ZenonT(60), LenProperties
<1> QED  BY ZenonT(60), <1>1 DEF Range

\* A sequence without one of its elements.
LEMMA LessIs ==
    ASSUME NEW S, NEW s \in Seq(S), NEW i \in 1..Len(s)
    PROVE  /\ Less(s, i) \in Seq(S)
           /\ Len(Less(s, i)) = Len(s) - 1
           /\ \A j \in 1..(Len(s) - 1) : Less(s, i)[j] = IF j < i THEN s[j] ELSE s[j + 1]
<1> DEFINE a == SubSeq(s, 1, i - 1)
           b == SubSeq(s, i + 1, Len(s))
<1>0. Len(s) \in Nat /\ \A j \in 1..Len(s) : s[j] \in S
  BY ZenonT(60), LenProperties, ElementOfSeq
<1>1. a \in Seq(S) /\ Len(a) = i - 1 /\ \A j \in 1..(i - 1) : a[j] = s[j]
  <2>1. \A j \in 1..(i - 1) : s[j] \in S
    BY <1>0
  <2>2. /\ a \in Seq(S) /\ Len(a) = (IF 1 <= i - 1 THEN (i - 1) - 1 + 1 ELSE 0)
        /\ \A j \in 1..((i - 1) - 1 + 1) : a[j] = s[1 + j - 1]
    BY <1>0, <2>1, SubSeqProperties
  <2> QED  BY <1>0, <2>2
<1>2. b \in Seq(S) /\ Len(b) = Len(s) - i /\ \A j \in 1..(Len(s) - i) : b[j] = s[i + j]
  <2>1. \A j \in (i + 1)..Len(s) : s[j] \in S
    BY <1>0
  <2>2. /\ b \in Seq(S) /\ Len(b) = (IF i + 1 <= Len(s) THEN Len(s) - (i + 1) + 1 ELSE 0)
        /\ \A j \in 1..(Len(s) - (i + 1) + 1) : b[j] = s[(i + 1) + j - 1]
    BY <1>0, <2>1, SubSeqProperties
  <2> QED  BY <1>0, <2>2
<1>3. Less(s, i) = a \o b
  BY ZenonT(60) DEF Less
<1> HIDE DEF a, b
<1>4. /\ a \o b \in Seq(S) /\ Len(a \o b) = Len(a) + Len(b)
      /\ \A j \in 1..(Len(a) + Len(b)) : (a \o b)[j] = IF j <= Len(a) THEN a[j] ELSE b[j - Len(a)]
  BY ZenonT(60), <1>1, <1>2, ConcatProperties
<1>5. ASSUME NEW j \in 1..(Len(s) - 1)
      PROVE  (a \o b)[j] = IF j < i THEN s[j] ELSE s[j + 1]
  <2>1. (a \o b)[j] = IF j <= i - 1 THEN a[j] ELSE b[j - (i - 1)]
    BY <1>0, <1>1, <1>2, <1>4
  <2>2. CASE j < i
    BY <1>0, <1>1, <2>1, <2>2
  <2>3. CASE ~(j < i)
    <3>1. j - (i - 1) \in 1..(Len(s) - i) /\ i + (j - (i - 1)) = j + 1
      BY <1>0, <2>3
    <3> QED  BY <1>0, <1>2, <2>1, <2>3, <3>1
  <2> QED  BY ZenonT(60), <2>2, <2>3
<1> QED  BY SMTT(60), <1>0, <1>1, <1>2, <1>3, <1>4, <1>5

\* Without one of its elements a sequence has the others.
LEMMA LessKeeps ==
    ASSUME NEW S, NEW s \in Seq(S), NEW i \in 1..Len(s)
    PROVE  /\ \A x : x \in Range(Less(s, i)) => x \in Range(s)
           /\ \A x : x \in Range(s) /\ x # s[i] => x \in Range(Less(s, i))
           /\ Distinct(s) => Distinct(Less(s, i)) /\ s[i] \notin Range(Less(s, i))
<1> DEFINE r == Less(s, i)
           from(j) == IF j < i THEN j ELSE j + 1
<1>1. Len(s) \in Nat
  BY ZenonT(60), LenProperties
<1>2. r \in Seq(S) /\ Len(r) = Len(s) - 1 /\ \A j \in 1..(Len(s) - 1) : r[j] = s[from(j)]
  BY ZenonT(60), LessIs
<1>3. /\ \A j \in 1..(Len(s) - 1) : from(j) \in 1..Len(s) /\ from(j) # i
      /\ \A j, k \in 1..(Len(s) - 1) : from(j) = from(k) => j = k
      /\ \A k \in 1..Len(s) : k # i => \E j \in 1..(Len(s) - 1) : from(j) = k
  <2>1. \A k \in 1..Len(s) : k # i => \E j \in 1..(Len(s) - 1) : from(j) = k
    <3> TAKE k \in 1..Len(s)
    <3> HAVE k # i
    <3>1. CASE k < i
      <4>1. k \in 1..(Len(s) - 1) /\ from(k) = k
        BY <1>1, <3>1
      <4> QED  BY ZenonT(60), <4>1
    <3>2. CASE k > i
      <4>1. k - 1 \in 1..(Len(s) - 1) /\ from(k - 1) = k
        BY <1>1, <3>2
      <4> QED  BY ZenonT(60), <4>1
    <3> QED  BY <1>1, <3>1, <3>2
  <2> QED  BY <1>1, <2>1
<1> HIDE DEF r, from
<1>7. /\ \A x : x \in Range(s) <=> \E k \in 1..Len(s) : s[k] = x
      /\ \A x : x \in Range(r) <=> \E k \in 1..Len(r) : r[k] = x
  BY ZenonT(60), <1>2, InRange
<1>4. \A x : x \in Range(r) => x \in Range(s)
  BY ZenonT(60), <1>2, <1>3, <1>7
<1>5. \A x : x \in Range(s) /\ x # s[i] => x \in Range(r)
  <2> TAKE x
  <2> HAVE x \in Range(s) /\ x # s[i]
  <2>1. PICK k \in 1..Len(s) : s[k] = x
    BY ZenonT(60), <1>7
  <2>2. PICK j \in 1..(Len(s) - 1) : from(j) = k
    BY ZenonT(60), <1>3, <2>1
  <2> QED  BY ZenonT(60), <1>2, <2>1, <2>2, <1>7
<1>6. ASSUME Distinct(s) PROVE Distinct(r) /\ s[i] \notin Range(r)
  <2>1. \A j, k \in 1..(Len(s) - 1) : r[j] = r[k] => j = k
    BY <1>2, <1>3, <1>6 DEF Distinct
  <2>2. \A j \in 1..(Len(s) - 1) : r[j] # s[i]
    BY ZenonT(60), <1>2, <1>3, <1>6 DEF Distinct
  <2> QED  BY ZenonT(60), <1>2, <1>7, <2>1, <2>2 DEF Distinct
<1> QED  BY ZenonT(60), <1>4, <1>5, <1>6 DEF r

\* A sequence with one more element at its end.
LEMMA AppendKeeps ==
    ASSUME NEW S, NEW s \in Seq(S), NEW e \in S
    PROVE  /\ Append(s, e) \in Seq(S)
           /\ \A x : x \in Range(Append(s, e)) <=> x \in Range(s) \/ x = e
           /\ Distinct(s) /\ e \notin Range(s) => Distinct(Append(s, e))
<1> DEFINE r == Append(s, e)
<1>1. Len(s) \in Nat
  BY ZenonT(60), LenProperties
<1>2. /\ r \in Seq(S) /\ Len(r) = Len(s) + 1 /\ r[Len(s) + 1] = e
      /\ \A j \in 1..Len(s) : r[j] = s[j]
  BY AppendProperties
<1> HIDE DEF r
<1>3. \A j \in 1..(Len(s) + 1) : j \in 1..Len(s) \/ j = Len(s) + 1
  BY <1>1
<1>4. 1..Len(s) \subseteq 1..(Len(s) + 1) /\ Len(s) + 1 \in 1..(Len(s) + 1)
  BY <1>1
<1>7. /\ \A x : x \in Range(s) <=> \E k \in 1..Len(s) : s[k] = x
      /\ \A x : x \in Range(r) <=> \E k \in 1..Len(r) : r[k] = x
  BY ZenonT(60), <1>2, InRange
<1>5. \A x : x \in Range(r) <=> x \in Range(s) \/ x = e
  BY ZenonT(60), <1>2, <1>3, <1>4, <1>7
<1>6. Distinct(s) /\ e \notin Range(s) => Distinct(r)
  BY <1>2, <1>3, <1>7 DEF Distinct
<1> QED  BY ZenonT(60), <1>2, <1>5, <1>6 DEF r

\* A sequence with c where t was.
Put(s, t, c) == [i \in DOMAIN s |-> IF s[i] = t THEN c ELSE s[i]]

\* It has c for t, and the rest of s; it repeats nothing when s does not and c is new.
LEMMA PutKeeps ==
    ASSUME NEW S, NEW s \in Seq(S), NEW t, NEW c \in S
    PROVE  /\ Put(s, t, c) \in Seq(S)
           /\ \A x : x \in Range(Put(s, t, c)) => x = c \/ (x \in Range(s) /\ x # t)
           /\ \A x : x \in Range(s) /\ x # t => x \in Range(Put(s, t, c))
           /\ t \in Range(s) => c \in Range(Put(s, t, c))
           /\ Distinct(s) /\ c \notin Range(s) => Distinct(Put(s, t, c))
<1> DEFINE r == Put(s, t, c)
<1>1. Len(s) \in Nat /\ DOMAIN s = 1..Len(s) /\ \A i \in 1..Len(s) : s[i] \in S
  BY ZenonT(60), LenProperties, ElementOfSeq
<1>2. r \in [1..Len(s) -> S] /\ \A i \in 1..Len(s) : r[i] = IF s[i] = t THEN c ELSE s[i]
  BY ZenonT(60), <1>1 DEF Put
<1> HIDE DEF r
<1>3. r \in Seq(S) /\ Len(r) = Len(s)
  <2>1. r \in Seq(S)
    BY <1>1, <1>2, IsASeq
  <2> QED  BY <1>1, <1>2, <2>1, LenProperties, SMT
<1>8. /\ \A x : x \in Range(s) <=> \E k \in 1..Len(s) : s[k] = x
      /\ \A x : x \in Range(r) <=> \E k \in 1..Len(r) : r[k] = x
  BY ZenonT(60), <1>3, InRange
<1>4. \A x : x \in Range(r) => x = c \/ (x \in Range(s) /\ x # t)
  BY ZenonT(60), <1>2, <1>3, <1>8
<1>5. \A x : x \in Range(s) /\ x # t => x \in Range(r)
  BY ZenonT(60), <1>2, <1>3, <1>8
<1>6. t \in Range(s) => c \in Range(r)
  BY ZenonT(60), <1>2, <1>3, <1>8
<1>7. Distinct(s) /\ c \notin Range(s) => Distinct(r)
  BY <1>2, <1>3, <1>8 DEF Distinct
<1> QED  BY ZenonT(60), <1>3, <1>4, <1>5, <1>6, <1>7 DEF r

-----------------------------------------------------------------------------
Kinds == {"slot", "stored", "scratch", "probe", "working", "exact", "chunk", "query"}

\* The labels of a reservation, of a walk through the directory, of a load, and the rest.
Reclaiming == {"try", "evict", "chunk", "roots", "again"}
Resolving == {"offset", "chunktry", "chunkread", "insert"}
Loading == Resolving \cup {"length", "bounded", "read", "payload", "probe", "decode", "copy",
                           "drop", "validate", "publish"}
Labels == Reclaiming \cup Loading
            \cup {"idle", "query", "look", "claim", "pinned", "retain", "fail", "refused"}

\* What is left of Drops after one, two, three and four of them.
Drops1 == <<<<"chg", "scratch">>, <<"mem", "stored">>, <<"chg", "stored">>>>
Drops2 == <<<<"mem", "stored">>, <<"chg", "stored">>>>
Drops3 == <<<<"chg", "stored">>>>
Leftover == {Drops, Drops1, Drops2, Drops3, <<>>}

Thread ==
    [pc : Labels, page : Nat, tree : {None} \cup {<<r>> : r \in Trees}, ord : Nat,
     chg : SUBSET Kinds, mem : SUBSET Kinds, pin : Buffers \cup {None}, want : Kinds,
     by : {"reserve", "chunk"}, to : Labels, freed : Nat, rounds : Nat, left : Leftover,
     owns : BOOLEAN]

Typed ==
    /\ db \in Databases
    /\ cache \in [Pages -> Buffers \cup {None}]
    /\ inflight \in SUBSET Pages
    /\ recency \in Seq(Chunks \cup Threads)
    /\ roots \in [Trees -> Buffers \cup {None}]
    /\ table \in [slots : Nat, book : Nat] /\ table.book = RootBytes * table.slots
    /\ alive \in SUBSET Trees
    /\ guards \in [Threads -> SUBSET Buffers]
    /\ th \in [Threads -> Thread]

\* What each reservation is for: where reserve goes on once it has it.
Goals == {<<"slot", "claim">>, <<"stored", "read">>, <<"scratch", "payload">>,
          <<"probe", "probe">>, <<"working", "decode">>, <<"exact", "copy">>,
          <<"query", "query">>}
Decoding_kinds == {"scratch", "probe", "working", "exact"}

\* The reservation a label needs the call to have.
Needs(x) ==
    CASE x.pc = "claim" -> {"slot"}
      [] x.pc = "query" -> {"query"}
      [] x.pc \in {"chunkread", "insert"} -> {"chunk"}
      [] x.pc = "read" -> {"stored"}
      [] x.pc = "payload" -> {"scratch"}
      [] x.pc \in {"copy", "drop"} -> {"exact"}
      [] x.pc = "validate" -> IF Filtered THEN {"exact"} ELSE {"stored"}
      [] OTHER -> {}

\* What a call holds, for its label and for the label a reservation of its goes on at.
Shape(x) ==
    /\ x.mem \subseteq x.chg
    /\ x.mem \cap {"slot", "probe", "working"} = {}
    /\ Needs(x) \subseteq x.chg
    /\ x.pc = "idle" => x.chg \subseteq {"query"} /\ ~x.owns
    /\ x.pc \in {"payload", "probe", "decode", "copy", "drop"} => Filtered
    /\ x.pc = "drop" =>
        /\ x.left # <<>>
        /\ x.left = Drops1 => "scratch" \notin x.mem
        /\ x.left = Drops3 => "stored" \notin x.mem
    /\ x.pc \in Resolving => x.to \in {"length", "bounded"} /\ x.ord \in Pages
    /\ x.pc \in Reclaiming /\ x.by = "chunk" =>
        /\ x.to \in {"length", "bounded"} /\ x.ord \in Pages
        /\ x.want = "chunk" /\ x.pc \notin {"try", "again"}
    /\ x.pc \in Reclaiming /\ x.by = "reserve" =>
        /\ <<x.want, x.to>> \in Goals
        /\ x.want \in Decoding_kinds => Filtered
        /\ x.pc # "try" => x.rounds > 0
    /\ x.pc \in Loading \/ (x.pc \in Reclaiming /\ x.want \notin {"slot", "query"}) => x.owns
    /\ x.pc \in {"publish", "pinned", "retain"} => x.pin # None
    /\ x.pc = "retain" => x.tree # None
    /\ x.page \in Pages \/ /\ x.chg \subseteq {"query"}
                           /\ \/ x.pc = "idle"
                              \/ x.want = "query" /\ x.pc \in Reclaiming \cup {"query", "refused", "fail"}

\* Each marker has one owner, and there is a buffer left for what it loads.
Owned(t) ==
    th[t].owns =>
        /\ th[t].page \in inflight
        /\ th[t].pc # "publish" => \E g \in 1..Generations : <<th[t].page, g>> \notin Live
Owners ==
    \A t, u \in Threads : th[t].owns /\ th[u].owns /\ t # u => th[t].page # th[u].page

Ledger == Typed /\ (\A t \in Threads : Shape(th[t]) /\ Owned(t)) /\ Owners

IInv == Ledger /\ InUse <= Limit

-----------------------------------------------------------------------------
\* The sums, of a database and a set or an array: the same before and after a step.
BytesIn(d, p) == IF d.filtered THEN d.decoded[p] ELSE d.stored[p]

SizeIn(d, p, kind) ==
    CASE kind = "slot" -> SlotBytes
      [] kind = "stored" -> d.stored[p]
      [] kind = "scratch" -> IF Hinted THEN d.decoded[p] ELSE MaxDecodedBytes
      [] kind = "probe" -> ProbeBytes
      [] kind = "working" -> WorkingBytes
      [] kind = "exact" -> d.decoded[p]
      [] kind = "chunk" -> ChunkBytes
      [] kind = "query" -> d.query

HeldIn(d, p, kinds) == SumFunctionOnSet([k \in kinds |-> SizeIn(d, p, k)], kinds)
LiveSum(d, S) == SumFunctionOnSet([b \in S |-> BytesIn(d, b[1])], S)
ChunkSum(S) == ChunkBytes * Cardinality(S)
SlotSum(S) == SlotBytes * Cardinality(S)
ChargeSum(d, T) == SumFunctionOnSet([t \in Threads |-> HeldIn(d, T[t].page, T[t].chg)], Threads)
MemSum(d, T) == SumFunctionOnSet([t \in Threads |-> HeldIn(d, T[t].page, T[t].mem)], Threads)

\* The names the model has for them.
LEMMA Names ==
    /\ \A p : BufferBytes(p) = BytesIn(db, p)
    /\ \A p, k : Size(p, k) = SizeIn(db, p, k)
    /\ \A p, ks : Held(p, ks) = HeldIn(db, p, ks)
    /\ Private("chg") = ChargeSum(db, th)
    /\ Private("mem") = MemSum(db, th)
<1>1. \A p : BufferBytes(p) = BytesIn(db, p)
  BY ZenonT(60) DEF BufferBytes, BytesIn, Filtered, DecodedBytes, StoredBytes
<1>2. \A p, k : Size(p, k) = SizeIn(db, p, k)
  BY ZenonT(60) DEF Size, SizeIn, DecodedBytes, StoredBytes, QueryBytes
<1>3. \A p, ks : Held(p, ks) = HeldIn(db, p, ks)
  BY ZenonT(60) DEF Held, HeldIn, SumFunction, Size, SizeIn, DecodedBytes, StoredBytes, QueryBytes
<1>4. Private("chg") = ChargeSum(db, th)
  BY ZenonT(60) DEF Private, ChargeSum, Held, HeldIn, SumFunction, Size, SizeIn, DecodedBytes, StoredBytes, QueryBytes
<1>5. Private("mem") = MemSum(db, th)
  BY ZenonT(60) DEF Private, MemSum, Held, HeldIn, SumFunction, Size, SizeIn, DecodedBytes, StoredBytes, QueryBytes
<1> QED  BY ZenonT(60), <1>1, <1>2, <1>3, <1>4, <1>5

\* What is charged and what there is, as sums.
LEMMA Totals ==
    /\ InUse = db.open + LiveSum(db, Live) + ChunkSum(Resident) + SlotSum(Cached \cup inflight)
                 + table.book + ChargeSum(db, th)
    /\ Memory = db.open + LiveSum(db, Live) + ChunkSum(Resident) + SlotSum(Cached \cup inflight)
                  + RootBytes * table.slots + MemSum(db, th)
BY ZenonT(60) DEF InUse, Memory, Shared, OpenBytes, LiveSum, ChunkSum, SlotSum, ChargeSum, MemSum, BufferBytes,
       BytesIn, Filtered, Private, Held, HeldIn, SumFunction, Size, SizeIn, DecodedBytes,
       StoredBytes, QueryBytes

\* The same after a step.
LEMMA TotalsNext ==
    InUse' = db'.open + LiveSum(db', Live') + ChunkSum(Resident') + SlotSum(Cached' \cup inflight')
               + table'.book + ChargeSum(db', th')
BY ZenonT(60) DEF InUse, Memory, Shared, OpenBytes, LiveSum, ChunkSum, SlotSum, ChargeSum, MemSum, BufferBytes,
       BytesIn, Filtered, Private, Held, HeldIn, SumFunction, Size, SizeIn, DecodedBytes,
       StoredBytes, QueryBytes

\* What the assumptions say of the file that is open.
LEMMA Sizes ==
    ASSUME NEW d \in Databases
    PROVE  /\ \A p \in DOMAIN d.stored : BytesIn(d, p) \in Nat \ {0}
           /\ \A p \in DOMAIN d.stored, k \in Kinds : SizeIn(d, p, k) \in Nat
           /\ \A p : SizeIn(d, p, "query") = d.query /\ d.query \in Nat
           /\ \A p \in DOMAIN d.stored :
                 BytesIn(d, p) = SizeIn(d, p, IF d.filtered THEN "exact" ELSE "stored")
           /\ d.open \in Nat /\ d.limit \in Nat /\ d.open <= d.limit
<1>1. \A p \in DOMAIN d.stored : d.stored[p] \in Nat \ {0} /\ d.decoded[p] \in Nat \ {0}
  <2> TAKE p \in DOMAIN d.stored
  <2>1. d.stored[p] \in Nat \ {0} /\ d.decoded[p] \in 1..MaxDecodedBytes /\ MaxDecodedBytes \in Nat
    BY ZenonT(60), PageStoreAssumption
  <2> QED  BY <2>1
<1>2. /\ ChunkBytes \in Nat /\ MaxDecodedBytes \in Nat /\ WorkingBytes \in Nat
      /\ ProbeBytes \in Nat /\ SlotBytes \in Nat /\ d.query \in Nat
      /\ d.open \in Nat /\ d.limit \in Nat /\ d.open <= d.limit
  BY ZenonT(60), PageStoreAssumption
<1>3. ASSUME NEW p \in DOMAIN d.stored, NEW k \in Kinds PROVE SizeIn(d, p, k) \in Nat
  BY ZenonT(60), <1>1, <1>2 DEF SizeIn, Kinds
<1>4. \A p \in DOMAIN d.stored : BytesIn(d, p) \in Nat \ {0}
  BY ZenonT(60), <1>1 DEF BytesIn
<1>5. \A p : SizeIn(d, p, "query") = d.query
  BY ZenonT(60) DEF SizeIn
<1>6. \A p \in DOMAIN d.stored :
         BytesIn(d, p) = SizeIn(d, p, IF d.filtered THEN "exact" ELSE "stored")
  BY ZenonT(60) DEF SizeIn, BytesIn
<1> QED  BY ZenonT(60), <1>2, <1>3, <1>4, <1>5, <1>6

\* The kinds of reservation a call for the page p may have.
Fits(d, p, ks) == ks \in SUBSET Kinds /\ (p \in DOMAIN d.stored \/ ks \subseteq {"query"})

\* A call holds finitely many kinds of bytes.
LEMMA KindsFinite ==
    ASSUME NEW ks \in SUBSET Kinds
    PROVE  IsFiniteSet(ks)
<1> DEFINE Pair(j, k) == {j} \cup {k}
<1>1. \A j, k : IsFiniteSet(Pair(j, k))
  BY ZenonT(60), FS_Singleton, FS_Union
<1>2. IsFiniteSet(Pair("slot", "stored") \cup Pair("scratch", "probe"))
  <2> HIDE DEF Pair
  <2> QED  BY ZenonT(60), <1>1, FS_Union
<1>3. IsFiniteSet(Pair("working", "exact") \cup Pair("chunk", "query"))
  <2> HIDE DEF Pair
  <2> QED  BY ZenonT(60), <1>1, FS_Union
<1>4. Kinds = (Pair("slot", "stored") \cup Pair("scratch", "probe"))
                 \cup (Pair("working", "exact") \cup Pair("chunk", "query"))
  BY ZenonT(60) DEF Kinds
<1>5. IsFiniteSet(Kinds)
  <2> HIDE DEF Pair
  <2> QED  BY ZenonT(60), <1>2, <1>3, <1>4, FS_Union
<1> QED  BY ZenonT(60), <1>5, FS_Subset

\* What a call holds is a number of bytes.
LEMMA HeldNat ==
    ASSUME NEW d \in Databases, NEW p, NEW ks, Fits(d, p, ks)
    PROVE  /\ \A k \in ks : SizeIn(d, p, k) \in Nat
           /\ HeldIn(d, p, ks) \in Nat
<1>1. \A k \in ks : SizeIn(d, p, k) \in Nat
  BY ZenonT(60), Sizes DEF Fits
<1>2. IsFiniteSet(ks)
  BY ZenonT(60), KindsFinite DEF Fits
<1> QED  BY ZenonT(60), <1>1, <1>2, SumType DEF HeldIn

\* Fewer reservations are no more bytes; those of a query do not depend on the page.
LEMMA HeldFewer ==
    ASSUME NEW d \in Databases, NEW p, NEW ks, Fits(d, p, ks), NEW q, NEW js \in SUBSET ks,
           q = p \/ js \subseteq {"query"}
    PROVE  HeldIn(d, q, js) <= HeldIn(d, p, ks)
<1> DEFINE f == [k \in js |-> SizeIn(d, q, k)]
           g == [k \in ks |-> SizeIn(d, p, k)]
<1>1. \A k \in ks : g[k] \in Nat
  BY ZenonT(60), HeldNat
<1>2. \A k \in js : f[k] = g[k]
  BY ZenonT(60), Sizes
<1>3. IsFiniteSet(ks)
  BY ZenonT(60), KindsFinite DEF Fits
<1>4. SumFunctionOnSet(f, js) <= SumFunctionOnSet(g, ks)
  <2> HIDE DEF f, g
  <2> QED  BY <1>1, <1>2, <1>3, SumLe
<1> QED  BY ZenonT(60), <1>4 DEF HeldIn

\* One reservation more.
LEMMA HeldMore ==
    ASSUME NEW d \in Databases, NEW p, NEW ks, NEW k, Fits(d, p, ks \cup {k})
    PROVE  HeldIn(d, p, ks \cup {k}) <= HeldIn(d, p, ks) + SizeIn(d, p, k)
<1> DEFINE f == [j \in ks \cup {k} |-> SizeIn(d, p, j)]
           g == [j \in ks |-> SizeIn(d, p, j)]
<1>1. \A j \in ks \cup {k} : f[j] \in Nat
  BY ZenonT(60), HeldNat
<1>2. IsFiniteSet(ks)
  BY ZenonT(60), KindsFinite DEF Fits
<1>3. SumFunctionOnSet(f, ks) = SumFunctionOnSet(g, ks)
  <2>1. \A j \in ks : g[j] \in Nat /\ f[j] = g[j]
    BY ZenonT(60), <1>1
  <2> HIDE DEF f, g
  <2> QED  BY ZenonT(60), <1>2, <2>1, SumSame
<1>4. f[k] = SizeIn(d, p, k)
  BY ZenonT(60)
<1>5. SumFunctionOnSet(f, ks \cup {k}) <= SumFunctionOnSet(f, ks) + f[k]
  <2> HIDE DEF f
  <2> QED  BY ZenonT(60), <1>1, <1>2, SumOneMore
<1> QED  BY ZenonT(60), <1>3, <1>4, <1>5 DEF HeldIn

\* One reservation less.
LEMMA HeldOneLess ==
    ASSUME NEW d \in Databases, NEW p, NEW ks, NEW k \in ks, Fits(d, p, ks)
    PROVE  HeldIn(d, p, ks) = SizeIn(d, p, k) + HeldIn(d, p, ks \ {k})
<1> DEFINE f == [j \in ks |-> SizeIn(d, p, j)]
           g == [j \in ks \ {k} |-> SizeIn(d, p, j)]
<1>1. \A j \in ks : f[j] \in Nat
  BY ZenonT(60), HeldNat
<1>2. IsFiniteSet(ks) /\ IsFiniteSet(ks \ {k})
  BY ZenonT(60), KindsFinite, FS_RemoveElement DEF Fits
<1>3. SumFunctionOnSet(f, ks \ {k}) = SumFunctionOnSet(g, ks \ {k})
  <2>1. \A j \in ks \ {k} : g[j] \in Nat /\ f[j] = g[j]
    BY ZenonT(60), <1>1
  <2> HIDE DEF f, g
  <2> QED  BY <1>2, <2>1, SumSame
<1>4. f[k] = SizeIn(d, p, k)
  BY ZenonT(60)
<1>5. SumFunctionOnSet(f, ks) = f[k] + SumFunctionOnSet(f, ks \ {k})
  <2> HIDE DEF f
  <2> QED  BY <1>1, <1>2, SumRemove
<1> QED  BY ZenonT(60), <1>3, <1>4, <1>5 DEF HeldIn

\* One call's reservations change.
LEMMA ChargeChanged ==
    ASSUME NEW d \in Databases, NEW T, NEW U, NEW t \in Threads,
           \A u \in Threads : Fits(d, T[u].page, T[u].chg), Fits(d, U[t].page, U[t].chg),
           \A u \in Threads : u # t => U[u] = T[u]
    PROVE  /\ ChargeSum(d, U) + HeldIn(d, T[t].page, T[t].chg)
                = ChargeSum(d, T) + HeldIn(d, U[t].page, U[t].chg)
           /\ ChargeSum(d, T) \in Nat /\ ChargeSum(d, U) \in Nat
<1> DEFINE f == [u \in Threads |-> HeldIn(d, T[u].page, T[u].chg)]
           g == [u \in Threads |-> HeldIn(d, U[u].page, U[u].chg)]
<1>1. \A u \in Threads : f[u] \in Nat
  BY ZenonT(60), HeldNat
<1>2. g[t] \in Nat /\ \A u \in Threads \ {t} : g[u] = f[u]
  BY ZenonT(60), HeldNat
<1>3. IsFiniteSet(Threads)
  BY ZenonT(60), PageStoreAssumption
<1>4. f[t] = HeldIn(d, T[t].page, T[t].chg) /\ g[t] = HeldIn(d, U[t].page, U[t].chg)
  BY ZenonT(60)
<1> HIDE DEF f, g
<1>5. SumFunctionOnSet(g, Threads) + f[t] = SumFunctionOnSet(f, Threads) + g[t]
  BY <1>1, <1>2, <1>3, SumChanged
<1>6. SumFunctionOnSet(g, Threads) \in Nat /\ SumFunctionOnSet(f, Threads) \in Nat
  BY ZenonT(60), <1>1, <1>2, <1>3, SumType
<1> QED  BY ZenonT(60), <1>4, <1>5, <1>6 DEF ChargeSum, f, g

\* Fewer buffers, and one buffer more.
LEMMA LiveChanged ==
    ASSUME NEW d \in Databases, NEW S, IsFiniteSet(S), \A b \in S : b[1] \in DOMAIN d.stored,
           NEW T
    PROVE  /\ LiveSum(d, S) \in Nat
           /\ T \subseteq S => LiveSum(d, T) \in Nat /\ LiveSum(d, T) <= LiveSum(d, S)
           /\ \A b : T \subseteq S \cup {b} /\ b[1] \in DOMAIN d.stored =>
                LiveSum(d, T) \in Nat /\ LiveSum(d, T) <= LiveSum(d, S) + BytesIn(d, b[1])
<1> DEFINE f(R) == [b \in R |-> BytesIn(d, b[1])]
<1>1. \A R : \A b \in R : f(R)[b] = BytesIn(d, b[1])
  BY ZenonT(60)
<1>2. \A b : b[1] \in DOMAIN d.stored => BytesIn(d, b[1]) \in Nat
  BY ZenonT(60), Sizes
<1>3. \A R : LiveSum(d, R) = SumFunctionOnSet(f(R), R)
  BY ZenonT(60) DEF LiveSum
<1> HIDE DEF f
<1>4. LiveSum(d, S) \in Nat
  BY <1>1, <1>2, <1>3, SumType
<1>5. ASSUME T \subseteq S PROVE LiveSum(d, T) \in Nat /\ LiveSum(d, T) <= LiveSum(d, S)
  <2>1. IsFiniteSet(T)
    BY ZenonT(60), <1>5, FS_Subset
  <2>2. \A b \in T : f(T)[b] \in Nat /\ f(T)[b] <= f(S)[b]
    BY <1>1, <1>2, <1>5
  <2>3. \A b \in S : f(S)[b] \in Nat
    BY <1>1, <1>2
  <2> QED  BY ZenonT(60), <1>3, <1>5, <2>1, <2>2, <2>3, SumType, SumLe
<1>6. ASSUME NEW b, T \subseteq S \cup {b}, b[1] \in DOMAIN d.stored
      PROVE  LiveSum(d, T) \in Nat /\ LiveSum(d, T) <= LiveSum(d, S) + BytesIn(d, b[1])
  <2> DEFINE R == S \cup {b}
  <2>1. IsFiniteSet(T) /\ IsFiniteSet(R)
    BY ZenonT(60), <1>6, FS_Subset, FS_AddElement
  <2>2. \A c \in R : f(R)[c] \in Nat /\ f(R)[c] = BytesIn(d, c[1])
    BY <1>1, <1>2, <1>6
  <2>3. \A c \in T : f(T)[c] \in Nat /\ f(T)[c] = f(R)[c]
    BY ZenonT(60), <1>1, <1>2, <1>6
  <2>4. \A c \in S : f(S)[c] \in Nat /\ f(R)[c] = f(S)[c]
    BY ZenonT(60), <1>1, <1>2
  <2>5. SumFunctionOnSet(f(R), T) <= SumFunctionOnSet(f(R), S) + f(R)[b]
    BY ZenonT(60), <1>6, <2>2, SumOneMore
  <2>6. SumFunctionOnSet(f(T), T) = SumFunctionOnSet(f(R), T)
    <3>1. \A c \in T : f(R)[c] \in Nat
      BY ZenonT(60), <2>3
    <3> QED  BY ZenonT(60), <2>1, <2>3, <3>1, SumSame
  <2>7. SumFunctionOnSet(f(R), S) = SumFunctionOnSet(f(S), S)
    BY ZenonT(60), <2>4, SumSame
  <2>8. LiveSum(d, T) \in Nat
    BY ZenonT(60), <1>3, <2>1, <2>3, SumType
  <2> QED  BY ZenonT(60), <1>3, <2>2, <2>5, <2>6, <2>7, <2>8
<1> QED  BY ZenonT(60), <1>4, <1>5, <1>6

\* Buffers somebody pins in the next state were pinned before, but for those of X.
LEMMA LiveStep ==
    ASSUME Typed, db' = db, NEW X,
           \A p \in Pages : cache'[p] \in Live \cup X \cup {None},
           \A r \in Trees : roots'[r] \in Live \cup X \cup {None},
           \A u \in Threads : guards'[u] \subseteq Live \cup X,
           \A u \in Threads : th'[u].pin \in Live \cup X \cup {None}
    PROVE  Live' \subseteq Live \cup X
<1>1. Live' = {cache'[p] : p \in {q \in Pages : cache'[q] # None}}
                \cup {roots'[r] : r \in {q \in Trees : roots'[q] # None}}
                \cup (UNION {guards'[t] : t \in Threads})
                \cup {th'[t].pin : t \in {u \in Threads : th'[u].pin # None}}
  BY ZenonT(60) DEF Live, Cached, Retained, Pages, StoredBytes
<1> QED  BY <1>1

\* Who pins a buffer now.
LEMMA LiveNow ==
    ASSUME Typed
    PROVE  /\ Live \in SUBSET Buffers
           /\ \A p \in Pages : cache[p] \in Live \cup {None}
           /\ \A r \in Trees : roots[r] \in Live \cup {None}
           /\ \A u \in Threads : guards[u] \subseteq Live
           /\ \A u \in Threads : th[u].pin \in Live \cup {None}
<1>1. \A u \in Threads : th[u].pin \in Buffers \cup {None}
  BY ZenonT(60) DEF Typed, Thread
<1>2. Live \in SUBSET Buffers
  BY <1>1 DEF Typed, Live, Cached, Retained
<1> QED  BY ZenonT(60), <1>2 DEF Live, Cached, Retained

\* A step of the call t that leaves Shape as it is.
LEMMA ThreadStep ==
    ASSUME Ledger, NEW t \in Threads, NEW y \in Thread, Shape(y),
           db' = db, th' = [th EXCEPT ![t] = y],
           cache' \in [Pages -> Buffers \cup {None}],
           inflight' \in SUBSET Pages,
           recency' \in Seq(Chunks \cup Threads),
           roots' \in [Trees -> Buffers \cup {None}],
           table' \in [slots : Nat, book : Nat], table'.book = RootBytes * table'.slots,
           alive' \in SUBSET Trees,
           guards' \in [Threads -> SUBSET Buffers],
           \A p \in inflight : p \in inflight' \/ (th[t].owns /\ p = th[t].page),
           \A b \in Live' : b \in Live \/ (th[t].owns /\ b[1] = th[t].page),
           y.owns => /\ y.page \in inflight'
                     /\ y.page \notin inflight \/ (th[t].owns /\ y.page = th[t].page)
                     /\ y.pc # "publish" => \E g \in 1..Generations : <<y.page, g>> \notin Live'
    PROVE  Ledger'
<1>1. Typed'
  BY ZenonT(60) DEF Ledger, Typed, Thread, Pages, StoredBytes, Buffers, Generations, Chunks
<1>2. th \in [Threads -> Thread] /\ th'[t] = y /\ \A u \in Threads : u # t => th'[u] = th[u]
  BY ZenonT(60) DEF Ledger, Typed
<1>3. ASSUME NEW u \in Threads PROVE Shape(th[u])'
  <2>1. Shape(th'[u])
    BY ZenonT(60), <1>2 DEF Ledger
  <2> QED  BY <2>1 DEF Shape, Needs, Filtered, Pages, StoredBytes
<1>4. ASSUME NEW u \in Threads PROVE Owned(u)'
  <2>1. CASE u = t
    BY ZenonT(60), <1>2, <2>1 DEF Owned, Generations
  <2>2. CASE u # t
    <3>1. th'[u] = th[u] /\ Owned(u)
      BY ZenonT(60), <1>2, <2>2 DEF Ledger
    <3>2. th[u].owns /\ th[t].owns => th[u].page # th[t].page
      BY ZenonT(60), <2>2 DEF Ledger, Owners
    <3>3. th[u].owns => th[u].page \in inflight'
      BY ZenonT(60), <3>1, <3>2 DEF Owned
    <3>4. ASSUME th[u].owns, th[u].pc # "publish"
          PROVE  \E g \in 1..Generations : <<th[u].page, g>> \notin Live'
      <4>1. PICK g \in 1..Generations : <<th[u].page, g>> \notin Live
        BY ZenonT(60), <3>1, <3>4 DEF Owned
      <4>2. <<th[u].page, g>> \notin Live'
        BY ZenonT(60), <4>1, <3>2, <3>4
      <4> QED  BY ZenonT(60), <4>2
    <3> QED  BY ZenonT(60), <3>1, <3>3, <3>4 DEF Owned, Generations
  <2> QED  BY ZenonT(60), <2>1, <2>2
<1>5. Owners'
  <2> SUFFICES ASSUME NEW u \in Threads, NEW v \in Threads, th'[u].owns, th'[v].owns, u # v
               PROVE  th'[u].page # th'[v].page
    BY ZenonT(60) DEF Owners
  <2>1. CASE u # t /\ v # t
    BY <1>2, <2>1 DEF Ledger, Owners
  <2>2. CASE u = t
    BY <1>2, <2>2 DEF Ledger, Owners, Owned
  <2>3. CASE v = t
    BY <1>2, <2>3 DEF Ledger, Owners, Owned
  <2> QED  BY ZenonT(60), <2>1, <2>2, <2>3
<1> QED  BY ZenonT(60), <1>1, <1>3, <1>4, <1>5 DEF Ledger

\* A step that leaves everything but the call alone.
Alone == UNCHANGED <<db, cache, inflight, recency, roots, table, alive, guards>>

\* Such a step keeps the books in order when the call it leaves is as it should be.
LEMMA QuietLedger ==
    ASSUME Ledger, NEW t \in Threads, NEW y \in Thread, Shape(y),
           Alone, th' = [th EXCEPT ![t] = y],
           y.pin \in Live \cup {None},
           y.owns => th[t].owns /\ y.page = th[t].page
                       /\ (y.pc # "publish" => th[t].pc # "publish")
    PROVE  Ledger' /\ Live' \subseteq Live
<1>1. Typed
  BY ZenonT(60) DEF Ledger
<1>2. Live' \subseteq Live \cup {}
  <2>1. \A u \in Threads : th'[u].pin \in Live \cup {} \cup {None}
    BY ZenonT(60), <1>1, LiveNow DEF Typed
  <2> QED  BY ZenonT(60), <1>1, <2>1, LiveNow, LiveStep DEF Alone
<1>3. y.owns => /\ y.page \in inflight
                /\ y.pc # "publish" => \E g \in 1..Generations : <<y.page, g>> \notin Live'
  BY ZenonT(60), <1>2 DEF Ledger, Owned
<1> QED
  <2>1. Ledger'
    BY ZenonT(60), <1>1, <1>2, <1>3, ThreadStep DEF Alone, Typed
  <2> QED  BY ZenonT(60), <1>2, <2>1

-----------------------------------------------------------------------------
\* All there is is finite.
LEMMA FiniteSets ==
    ASSUME Typed
    PROVE  /\ IsFiniteSet(Pages) /\ IsFiniteSet(Buffers) /\ IsFiniteSet(Chunks)
           /\ IsFiniteSet(Live) /\ IsFiniteSet(Resident) /\ IsFiniteSet(Cached \cup inflight)
           /\ \A b \in Buffers : b[1] \in DOMAIN db.stored
<1>1. IsFiniteSet(Pages) /\ Generations \in Nat
  BY ZenonT(60), PageStoreAssumption DEF Typed, Pages, StoredBytes, Generations
<1>2. IsFiniteSet(1..Generations)
  BY <1>1, FS_Interval
<1>3. IsFiniteSet(Buffers)
  BY ZenonT(60), <1>1, <1>2, FS_Product DEF Buffers
<1>4. IsFiniteSet(Chunks)
  <2> DEFINE f == [p \in Pages |-> p \div EntriesPerChunk]
  <2>1. f \in Surjection(Pages, Chunks)
    BY ZenonT(60) DEF Surjection, Chunks
  <2> QED  BY ZenonT(60), <1>1, <2>1, FS_Surjection
<1>5. Live \in SUBSET Buffers /\ Resident \in SUBSET Chunks /\ Cached \cup inflight \in SUBSET Pages
  BY ZenonT(60), LiveNow DEF Resident, Cached, Typed
<1>6. \A b \in Buffers : b[1] \in DOMAIN db.stored
  BY ZenonT(60) DEF Buffers, Pages, StoredBytes
<1> QED  BY ZenonT(60), <1>1, <1>3, <1>4, <1>5, <1>6, FS_Subset

\* What a call holds fits the page it is for.
LEMMA ThreadFits ==
    ASSUME NEW y \in Thread, Shape(y)
    PROVE  Fits(db, y.page, y.chg) /\ Fits(db, y.page, y.mem)
BY ZenonT(60) DEF Thread, Shape, Fits, Pages, StoredBytes

Numbers ==
    /\ LiveSum(db, Live) \in Nat /\ ChunkSum(Resident) \in Nat
    /\ SlotSum(Cached \cup inflight) \in Nat /\ table.book \in Nat /\ ChargeSum(db, th) \in Nat
    /\ InUse \in Nat /\ Limit \in Nat

\* The parts of the sum are numbers.
LEMMA InUseNat == Ledger => Numbers
<1> HAVE Ledger
<1>1. Typed
  BY ZenonT(60) DEF Ledger
<1>2. db \in Databases /\ table.book \in Nat
  BY ZenonT(60), <1>1 DEF Typed
<1>3. LiveSum(db, Live) \in Nat
  BY ZenonT(60), <1>1, <1>2, FiniteSets, LiveNow, LiveChanged
<1>4. ChunkSum(Resident) \in Nat /\ SlotSum(Cached \cup inflight) \in Nat
  BY ZenonT(60), <1>1, FiniteSets, Times, PageStoreAssumption DEF ChunkSum, SlotSum
<1>5. ChargeSum(db, th) \in Nat
  <2>1. \A u \in Threads : HeldIn(db, th[u].page, th[u].chg) \in Nat
    BY ZenonT(60), <1>2, ThreadFits, HeldNat DEF Ledger, Typed
  <2> DEFINE f == [u \in Threads |-> HeldIn(db, th[u].page, th[u].chg)]
  <2>2. \A u \in Threads : f[u] \in Nat
    BY ZenonT(60), <2>1
  <2>3. SumFunctionOnSet(f, Threads) \in Nat
    <3> HIDE DEF f
    <3> QED  BY ZenonT(60), <2>2, SumType, PageStoreAssumption
  <2> QED  BY ZenonT(60), <2>3 DEF ChargeSum
<1>6. db.open \in Nat /\ db.limit \in Nat
  BY ZenonT(60), <1>2, Sizes
<1>7. InUse \in Nat
  BY <1>2, <1>3, <1>4, <1>5, <1>6, Totals
<1> QED  BY ZenonT(60), <1>2, <1>3, <1>4, <1>5, <1>6, <1>7 DEF Numbers, Limit

\* The same after a step.
LEMMA InUseNatNext == Ledger' => Numbers'
BY InUseNat, PTL

\* A step of the call t pays what others have more of from what it has less of, and what
\* there is more of in all has been seen to fit.
LEMMA Balance ==
    ASSUME IInv, Ledger', db' = db, NEW t \in Threads,
           \A u \in Threads : u # t => th'[u] = th[u],
           NEW l \in Nat, LiveSum(db, Live') <= LiveSum(db, Live) + l,
           NEW c \in Nat, ChunkSum(Resident') <= ChunkSum(Resident) + c,
           NEW s \in Nat, SlotSum(Cached' \cup inflight') <= SlotSum(Cached \cup inflight) + s,
           NEW n \in Nat, InUse + n <= Limit,
           HeldIn(db, th'[t].page, th'[t].chg) + l + c + s + table'.book
             <= HeldIn(db, th[t].page, th[t].chg) + table.book + n
    PROVE  IInv'
<1> DEFINE held == HeldIn(db, th[t].page, th[t].chg)
           heldNext == HeldIn(db, th'[t].page, th'[t].chg)
<1>1. Ledger /\ Typed /\ Typed' /\ db \in Databases
  BY ZenonT(60) DEF IInv, Ledger, Typed
<1>2. Numbers
  BY ZenonT(60), <1>1, InUseNat
<1>3. /\ LiveSum(db, Live') \in Nat /\ ChunkSum(Resident') \in Nat
      /\ SlotSum(Cached' \cup inflight') \in Nat /\ table'.book \in Nat /\ ChargeSum(db, th') \in Nat
      /\ Limit' = Limit
  BY ZenonT(60), InUseNatNext DEF Numbers, Limit
<1>4. \A u \in Threads : Fits(db, th[u].page, th[u].chg)
  BY ZenonT(60), <1>1, ThreadFits DEF Ledger, Typed
<1>5. Fits(db, th'[t].page, th'[t].chg)
  <2>1. th'[t] \in Thread /\ Shape(th'[t])
    BY ZenonT(60), <1>1 DEF Ledger, Typed, Thread, Shape, Needs, Pages, Buffers, StoredBytes, Generations, Filtered
  <2> QED  BY ZenonT(60), <2>1, ThreadFits
<1>6. ChargeSum(db, th') + held = ChargeSum(db, th) + heldNext
  BY <1>1, <1>4, <1>5, ChargeChanged
<1>7. held \in Nat /\ heldNext \in Nat
  BY ZenonT(60), <1>1, <1>4, <1>5, HeldNat
<1>8. db.open \in Nat
  BY ZenonT(60), <1>1, Sizes
<1>9. InUse' = db.open + LiveSum(db, Live') + ChunkSum(Resident')
                 + SlotSum(Cached' \cup inflight') + table'.book + ChargeSum(db, th')
  BY ZenonT(60), TotalsNext
<1>10. InUse = db.open + LiveSum(db, Live) + ChunkSum(Resident)
                 + SlotSum(Cached \cup inflight) + table.book + ChargeSum(db, th)
  BY ZenonT(60), Totals
<1> HIDE DEF held, heldNext
<1>11. InUse' <= Limit
  <2>1. heldNext + l + c + s + table'.book <= held + table.book + n
    BY ZenonT(60) DEF held, heldNext
  <2> QED  BY SMTT(40), <1>2, <1>3, <1>6, <1>7, <1>8, <1>9, <1>10, <2>1 DEF Numbers
<1> QED  BY ZenonT(60), <1>3, <1>11 DEF IInv

-----------------------------------------------------------------------------
\* The steps of a call: those that leave all but the call alone, those of a load and of
\* reserve, and those that move bytes between the call and what it shares.

\* A step that leaves everything but the call alone, and in which the call has no more
\* than it had, or one reservation more that has been seen to fit.
LEMMA Quiet ==
    ASSUME IInv, NEW t \in Threads, NEW y \in Thread, Shape(y),
           Alone, th' = [th EXCEPT ![t] = y],
           y.pin \in Live \cup {None},
           y.owns => th[t].owns /\ y.page = th[t].page
                       /\ (y.pc # "publish" => th[t].pc # "publish"),
           \/ y.chg \subseteq th[t].chg /\ (y.page = th[t].page \/ y.chg \subseteq {"query"})
           \/ \E k \in Kinds : /\ y.page = th[t].page /\ y.chg = th[t].chg \cup {k}
                               /\ TryReserve(Size(y.page, k))
    PROVE  IInv'
<1>1. Ledger /\ Typed /\ db \in Databases /\ db' = db /\ table' = table
  BY ZenonT(60) DEF IInv, Ledger, Typed, Alone
<1>2. Ledger' /\ Live' \in SUBSET Live
  BY ZenonT(60), <1>1, QuietLedger
<1>3. Resident' = Resident /\ Cached' = Cached /\ inflight' = inflight
  BY ZenonT(60) DEF Alone, Resident, Chunks, Cached, Pages, StoredBytes
<1>4. Numbers
  BY ZenonT(60), <1>1, InUseNat
<1>5. /\ LiveSum(db, Live') <= LiveSum(db, Live) + 0
      /\ ChunkSum(Resident') <= ChunkSum(Resident) + 0
      /\ SlotSum(Cached' \cup inflight') <= SlotSum(Cached \cup inflight) + 0
  <2>1. IsFiniteSet(Live) /\ \A b \in Live : b[1] \in DOMAIN db.stored
    BY ZenonT(60), <1>1, FiniteSets, LiveNow
  <2>2. LiveSum(db, Live') <= LiveSum(db, Live)
    BY ZenonT(60), <1>1, <1>2, <2>1, LiveChanged
  <2> QED  BY SMTT(60), <1>1, <1>2, <1>3, <1>4, <2>2 DEF Numbers
<1>6. th'[t] = y /\ \A u \in Threads : u # t => th'[u] = th[u]
  BY ZenonT(60), <1>1 DEF Typed
<1>7. Fits(db, th[t].page, th[t].chg) /\ Fits(db, y.page, y.chg)
  BY ZenonT(60), <1>1, ThreadFits DEF Ledger, Typed
<1> DEFINE held == HeldIn(db, th[t].page, th[t].chg)
           next == HeldIn(db, y.page, y.chg)
<1>8. held \in Nat /\ next \in Nat
  BY ZenonT(60), <1>1, <1>7, HeldNat
<1>9. \E n \in Nat : InUse + n <= Limit /\ next <= held + n
  <2>1. CASE y.chg \subseteq th[t].chg /\ (y.page = th[t].page \/ y.chg \subseteq {"query"})
    <3>1. next <= held
      BY ZenonT(60), <1>1, <1>7, <2>1, HeldFewer
    <3> QED  BY SMTT(40), <1>4, <1>8, <3>1 DEF IInv, Numbers
  <2>2. CASE \E k \in Kinds : /\ y.page = th[t].page /\ y.chg = th[t].chg \cup {k}
                              /\ TryReserve(Size(y.page, k))
    <3>1. PICK k \in Kinds : /\ y.page = th[t].page /\ y.chg = th[t].chg \cup {k}
                             /\ TryReserve(Size(y.page, k))
      BY ZenonT(60), <2>2
    <3>2. next <= held + SizeIn(db, y.page, k) /\ SizeIn(db, y.page, k) \in Nat
      BY ZenonT(60), <1>1, <1>7, <3>1, HeldMore, HeldNat
    <3>3. InUse + SizeIn(db, y.page, k) <= Limit
      BY ZenonT(60), <3>1, Names DEF TryReserve
    <3> QED  BY ZenonT(60), <3>2, <3>3
  <2> QED  BY ZenonT(60), <2>1, <2>2
<1>10. PICK n \in Nat : InUse + n <= Limit /\ next <= held + n
  BY ZenonT(60), <1>9
<1>11. HeldIn(db, th'[t].page, th'[t].chg) + 0 + 0 + 0 + table'.book
         <= HeldIn(db, th[t].page, th[t].chg) + table.book + n
  BY SMTT(40), <1>1, <1>4, <1>6, <1>8, <1>10 DEF Numbers
<1> HIDE DEF held, next
<1> QED  BY ZenonT(60), <1>1, <1>2, <1>5, <1>6, <1>10, <1>11, Balance

\* What is known of a call before its step.
LEMMA Before ==
    ASSUME IInv, NEW t \in Threads
    PROVE  /\ Typed /\ Ledger
           /\ th[t] \in Thread /\ Shape(th[t])
           /\ th[t].pin \in Live \cup {None}
           /\ None \notin Buffers /\ Pages \subseteq Nat
<1>1. Pages \subseteq Nat
  BY ZenonT(60), PageStoreAssumption DEF IInv, Ledger, Typed, Pages, StoredBytes
<1> QED  BY SMTT(40), <1>1, LiveNow DEF IInv, Ledger, Typed, None, Buffers

\* A caller starts a call, or takes or gives back a reservation of its own.
LEMMA CallerSteps ==
    ASSUME IInv, NEW t \in Threads, db' = db,
           \/ \E p \in Pages : CallPage(t, p)
           \/ \E r \in Trees : RootPage(t, r)
           \/ CallReserve(t) \/ QueryReserved(t) \/ QueryDone(t)
    PROVE  IInv'
<1>0. Typed /\ th[t] \in Thread /\ Shape(th[t]) /\ th[t].pin \in Live \cup {None} /\ None \notin Buffers
       /\ Pages \subseteq Nat
  BY ZenonT(60), Before
<1>1. ASSUME NEW p \in Pages, CallPage(t, p) PROVE IInv'
  <2> DEFINE y == [th[t] EXCEPT !.pc = "look", !.page = p]
  <2>1. th' = [th EXCEPT ![t] = y] /\ Alone
    BY ZenonT(60), <1>0, <1>1 DEF CallPage, Alone, Typed, Thread
  <2>2. y \in Thread
    BY ZenonT(60), <1>0 DEF Thread, Labels
  <2>3. Shape(y)
    BY <1>0, <1>1 DEF Shape, Needs, CallPage, Thread, Reclaiming, Loading, Resolving
  <2>4. y.pin \in Live \cup {None} /\ ~y.owns /\ y.chg \subseteq th[t].chg /\ y.chg \subseteq {"query"}
    BY ZenonT(60), <1>0, <1>1 DEF Shape, CallPage, Thread
  <2> QED  BY ZenonT(60), <2>1, <2>2, <2>3, <2>4, Quiet
<1>2. ASSUME NEW r \in Trees, RootPage(t, r) PROVE IInv'
  <2> DEFINE y == [th[t] EXCEPT !.pc = IF roots[r] # None THEN "pinned" ELSE "look",
                                !.pin = roots[r], !.page = RootOf[r],
                                !.tree = IF roots[r] # None THEN None ELSE <<r>>]
  <2>1. th' = [th EXCEPT ![t] = y] /\ Alone
    BY ZenonT(60), <1>0, <1>2 DEF RootPage, Alone, Typed, Thread
  <2>2. RootOf[r] \in Pages /\ roots[r] \in Buffers \cup {None}
    BY SMTT(60), <1>0, PageStoreAssumption DEF Typed, Pages, StoredBytes, Trees
  <2>3. y \in Thread
    <3>1. CASE roots[r] = None
      BY ZenonT(60), <1>0, <2>2, <3>1 DEF Thread, Labels
    <3>2. CASE roots[r] # None
      BY ZenonT(60), <1>0, <2>2, <3>2 DEF Thread, Labels
    <3> QED  BY ZenonT(60), <3>1, <3>2
  <2>4. Shape(y)
    BY ZenonT(60), <1>0, <1>2, <2>2 DEF Shape, Needs, RootPage, Thread, Reclaiming, Loading, Resolving
  <2>5. y.pin \in Live \cup {None} /\ ~y.owns /\ y.chg \subseteq th[t].chg /\ y.chg \subseteq {"query"}
    BY ZenonT(60), <1>0, <1>2, LiveNow DEF Shape, RootPage, Thread
  <2> QED  BY ZenonT(60), <2>1, <2>3, <2>4, <2>5, Quiet
<1>3. ASSUME CallReserve(t) PROVE IInv'
  <2> DEFINE y == [th[t] EXCEPT !.pc = "try", !.want = "query", !.by = "reserve",
                                !.to = "query", !.freed = 0]
  <2>1. th' = [th EXCEPT ![t] = y] /\ Alone
    BY ZenonT(60), <1>0, <1>3 DEF CallReserve, Reserve, Alone, Typed, Thread
  <2>2. y \in Thread
    BY ZenonT(60), <1>0 DEF Thread, Labels, Kinds, Reclaiming
  <2>3. Shape(y)
    BY <1>0, <1>3 DEF Shape, Needs, CallReserve, Thread, Reclaiming, Loading, Resolving, Goals, Decoding_kinds
  <2>4. y.pin \in Live \cup {None} /\ ~y.owns /\ y.chg \subseteq th[t].chg /\ y.chg \subseteq {"query"}
    BY ZenonT(60), <1>0, <1>3 DEF Shape, CallReserve, Thread
  <2> QED  BY ZenonT(60), <2>1, <2>2, <2>3, <2>4, Quiet
<1>4. ASSUME QueryReserved(t) PROVE IInv'
  <2> DEFINE y == [Idle EXCEPT !.chg = {"query"}, !.mem = {"query"}]
  <2>1. th' = [th EXCEPT ![t] = y] /\ Alone
    BY ZenonT(60), <1>0, <1>4 DEF QueryReserved, Alone
  <2>2. y \in Thread
    BY ZenonT(60) DEF Thread, Labels, Kinds, Idle, Leftover
  <2>3. Shape(y)
    BY ZenonT(60) DEF Shape, Needs, Idle, Reclaiming, Loading, Resolving
  <2>4. y.pin = None /\ ~y.owns /\ y.chg = {"query"} /\ "query" \in th[t].chg
    BY ZenonT(60), <1>0, <1>4 DEF Shape, Needs, QueryReserved, Idle
  <2> QED  BY ZenonT(60), <2>1, <2>2, <2>3, <2>4, Quiet
<1>5. ASSUME QueryDone(t) PROVE IInv'
  <2>1. th' = [th EXCEPT ![t] = Idle] /\ Alone
    BY ZenonT(60), <1>0, <1>5 DEF QueryDone, Alone
  <2>2. Idle \in Thread
    BY ZenonT(60) DEF Thread, Labels, Kinds, Idle, Leftover
  <2>3. Shape(Idle)
    BY ZenonT(60) DEF Shape, Needs, Idle, Reclaiming, Loading, Resolving
  <2>4. Idle.pin = None /\ ~Idle.owns /\ Idle.chg = {}
    BY ZenonT(60) DEF Idle
  <2> QED  BY ZenonT(60), <2>1, <2>2, <2>3, <2>4, Quiet
<1> QED  BY ZenonT(60), <1>1, <1>2, <1>3, <1>4, <1>5

\* A step that only lets go of things.
LEMMA Shrinks ==
    ASSUME IInv, Ledger', db' = db, NEW t \in Threads,
           \A u \in Threads : u # t => th'[u] = th[u],
           Live' \subseteq Live, Resident' \subseteq Resident,
           Cached' \cup inflight' \subseteq Cached \cup inflight, table'.book <= table.book,
           th'[t].chg \subseteq th[t].chg,
           th'[t].page = th[t].page \/ th'[t].chg \subseteq {"query"}
    PROVE  IInv'
<1>1. Ledger /\ Typed /\ db \in Databases
  BY ZenonT(60) DEF IInv, Ledger, Typed
<1>2. Numbers /\ table'.book \in Nat
  BY ZenonT(60), <1>1, InUseNat, InUseNatNext DEF Numbers
<1>3. LiveSum(db, Live') <= LiveSum(db, Live) + 0
  <2>1. IsFiniteSet(Live) /\ \A b \in Live : b[1] \in DOMAIN db.stored
    BY ZenonT(60), <1>1, FiniteSets, LiveNow
  <2> QED  BY SMTT(40), <1>1, <1>2, <2>1, LiveChanged DEF Numbers
<1>4. /\ ChunkSum(Resident') <= ChunkSum(Resident) + 0
      /\ SlotSum(Cached' \cup inflight') <= SlotSum(Cached \cup inflight) + 0
  <2>1. IsFiniteSet(Resident) /\ IsFiniteSet(Cached \cup inflight) /\ ChunkBytes \in Nat /\ SlotBytes \in Nat
    BY ZenonT(60), <1>1, FiniteSets, PageStoreAssumption
  <2>2. ChunkSum(Resident') <= ChunkSum(Resident)
    BY ZenonT(60), <2>1, Times DEF ChunkSum
  <2>3. SlotSum(Cached' \cup inflight') <= SlotSum(Cached \cup inflight)
    BY ZenonT(60), <2>1, Times DEF SlotSum
  <2> QED  BY SMTT(60), <1>2, <2>2, <2>3 DEF Numbers
<1>5. Fits(db, th[t].page, th[t].chg)
  BY ZenonT(60), <1>1, ThreadFits DEF Ledger, Typed
<1>6. HeldIn(db, th'[t].page, th'[t].chg) <= HeldIn(db, th[t].page, th[t].chg)
  BY ZenonT(60), <1>1, <1>5, HeldFewer
<1>7. HeldIn(db, th[t].page, th[t].chg) \in Nat /\ HeldIn(db, th'[t].page, th'[t].chg) \in Nat
  <2>1. Fits(db, th'[t].page, th'[t].chg)
    BY ZenonT(60), <1>5 DEF Fits
  <2> QED  BY ZenonT(60), <1>1, <1>5, <2>1, HeldNat
<1>8. HeldIn(db, th'[t].page, th'[t].chg) + 0 + 0 + 0 + table'.book
        <= HeldIn(db, th[t].page, th[t].chg) + table.book + 0
  BY SMTT(60), <1>2, <1>6, <1>7 DEF Numbers
<1>9. InUse + 0 <= Limit
  BY SMTT(40), <1>2 DEF IInv, Numbers
<1> QED  BY ZenonT(60), <1>3, <1>4, <1>8, <1>9, Balance

-----------------------------------------------------------------------------
\* What recency is with its member x gone.
LEMMA WithoutIs ==
    ASSUME Typed, NEW x, x \in Range(recency)
    PROVE  /\ Without(x) \in Seq(Chunks \cup Threads)
           /\ Without(x) = Less(recency, At(x))
           /\ Len(Without(x)) = Len(recency) - 1
           /\ At(x) \in 1..Len(recency) /\ recency[At(x)] = x
           /\ \A j \in 1..(Len(recency) - 1) :
                 Without(x)[j] = IF j < At(x) THEN recency[j] ELSE recency[j + 1]
<1>1. recency \in Seq(Chunks \cup Threads) /\ DOMAIN recency = 1..Len(recency)
  BY ZenonT(60), LenProperties DEF Typed
<1>2. At(x) \in 1..Len(recency) /\ recency[At(x)] = x
  BY ZenonT(60), <1>1 DEF Range, At
<1>3. Without(x) = Less(recency, At(x))
  BY ZenonT(60) DEF Without, Less
<1> QED  BY ZenonT(60), <1>1, <1>2, <1>3, LessIs

\* A step in which nobody pins a buffer that nobody pinned.
LEMMA LiveKept ==
    ASSUME Typed, db' = db,
           \A p \in Pages : cache'[p] \in Live \cup {None},
           \A r \in Trees : roots'[r] \in Live \cup {None},
           \A u \in Threads : guards'[u] \subseteq Live,
           \A u \in Threads : th'[u].pin \in Live \cup {None}
    PROVE  Live' \subseteq Live
<1>1. Live' \subseteq Live \cup {}
  BY ZenonT(60), LiveStep
<1> QED  BY ZenonT(60), <1>1

\* What a call that has returned looks like.
Returned(t) == [Idle EXCEPT !.chg = th[t].chg \cap {"query"}, !.mem = th[t].mem \cap {"query"}]

\* It holds nothing but what its query does.
LEMMA ReturnedIs ==
    ASSUME IInv, NEW t \in Threads
    PROVE  /\ Returned(t) \in Thread /\ Shape(Returned(t))
           /\ Returned(t).pin = None /\ ~Returned(t).owns
           /\ Returned(t).chg \subseteq th[t].chg /\ Returned(t).chg \subseteq {"query"}
<1>1. th[t].mem \subseteq th[t].chg
  BY ZenonT(60), Before DEF Shape
<1>2. Returned(t) \in Thread
  BY ZenonT(60) DEF Returned, Thread, Labels, Kinds, Idle, Leftover
<1>3. Shape(Returned(t))
  BY ZenonT(60), <1>1 DEF Returned, Shape, Needs, Idle, Reclaiming, Loading, Resolving
<1>4. /\ Returned(t).pin = None /\ ~Returned(t).owns
      /\ Returned(t).chg \subseteq th[t].chg /\ Returned(t).chg \subseteq {"query"}
  BY ZenonT(60) DEF Returned, Idle
<1> QED  BY ZenonT(60), <1>2, <1>3, <1>4

\* A guard is dropped, or a call returns one.
LEMMA GuardSteps ==
    ASSUME IInv, NEW t \in Threads, db' = db,
           \/ \E b \in Buffers : DropGuard(t, b)
           \/ Pinned(t) /\ ~RoomToRetain(t)
    PROVE  IInv'
<1>0. Typed /\ Ledger /\ th[t] \in Thread /\ Shape(th[t]) /\ th[t].pin \in Live \cup {None} /\ None \notin Buffers
  BY ZenonT(60), Before
<1>1. ASSUME NEW b \in Buffers, DropGuard(t, b) PROVE IInv'
  <2>1. /\ th' = th /\ th' = [th EXCEPT ![t] = th[t]]
        /\ guards' \in [Threads -> SUBSET Buffers] /\ \A u \in Threads : guards'[u] \subseteq guards[u]
        /\ UNCHANGED <<cache, inflight, recency, roots, table, alive>>
    BY ZenonT(60), <1>0, <1>1 DEF DropGuard, Typed
  <2>2. Live' \subseteq Live
    BY ZenonT(60), <1>0, <2>1, LiveNow, LiveKept
  <2>3. Ledger'
    <3>1. th[t].owns => th[t].page \in inflight
                         /\ (th[t].pc # "publish" => \E g \in 1..Generations : <<th[t].page, g>> \notin Live')
      BY ZenonT(60), <1>0, <2>2 DEF Ledger, Owned
    <3> QED  BY ZenonT(60), <1>0, <2>1, <2>2, <3>1, ThreadStep DEF Typed
  <2>4. Resident' = Resident /\ Cached' = Cached /\ inflight' = inflight
    BY ZenonT(60), <2>1 DEF Resident, Chunks, Cached, Pages, StoredBytes
  <2>5. table'.book <= table.book
    BY SMTT(40), <1>0, <2>1 DEF Typed
  <2> QED  BY ZenonT(60), <2>1, <2>2, <2>3, <2>4, <2>5, Shrinks
<1>2. ASSUME Pinned(t), ~RoomToRetain(t) PROVE IInv'
  <2>1. th[t].pin \in Buffers /\ th[t].pin \in Live
    BY ZenonT(60), <1>0, <1>2 DEF Pinned, Shape, Thread
  <2>2. /\ th' = [th EXCEPT ![t] = Returned(t)]
        /\ guards' = [guards EXCEPT ![t] = @ \cup {th[t].pin}]
        /\ UNCHANGED <<cache, inflight, recency, roots, table, alive>>
    BY ZenonT(60), <1>0, <1>2 DEF Pinned, Return, Returned
  <2>3. guards' \in [Threads -> SUBSET Buffers] /\ \A u \in Threads : guards'[u] \subseteq guards[u] \cup {th[t].pin}
    BY ZenonT(60), <1>0, <2>1, <2>2 DEF Typed
  <2>4. th'[t] = Returned(t) /\ \A u \in Threads : u # t => th'[u] = th[u]
    BY ZenonT(60), <1>0, <2>2 DEF Typed
  <2>5. Live' \subseteq Live
    <3>1. \A u \in Threads : th'[u].pin \in Live \cup {None}
      BY SMTT(40), <1>0, <2>4, ReturnedIs, LiveNow
    <3>2. \A u \in Threads : guards'[u] \subseteq Live
      BY ZenonT(60), <1>0, <2>1, <2>3, LiveNow
    <3> QED  BY ZenonT(60), <1>0, <2>2, <3>1, <3>2, LiveNow, LiveKept
  <2>6. Ledger'
    BY ZenonT(60), <1>0, <2>2, <2>3, <2>5, ReturnedIs, ThreadStep DEF Typed
  <2>7. Resident' = Resident /\ Cached' = Cached /\ inflight' = inflight
    BY ZenonT(60), <2>2 DEF Resident, Chunks, Cached, Pages, StoredBytes
  <2>8. table'.book <= table.book
    BY SMTT(40), <1>0, <2>2 DEF Typed
  <2> QED  BY ZenonT(60), <2>4, <2>5, <2>6, <2>7, <2>8, ReturnedIs, Shrinks
<1> QED  BY ZenonT(60), <1>1, <1>2

\* An error: the marker of the load goes with the call.
LEMMA FailStep ==
    ASSUME IInv, NEW t \in Threads, db' = db, Fail(t)
    PROVE  IInv'
<1>0. Typed /\ Ledger /\ th[t] \in Thread /\ Shape(th[t])
  BY ZenonT(60), Before
<1>1. /\ th' = [th EXCEPT ![t] = Returned(t)]
      /\ inflight' \in SUBSET inflight
      /\ \A p \in inflight : p \in inflight' \/ (th[t].owns /\ p = th[t].page)
      /\ UNCHANGED <<cache, recency, roots, table, alive, guards>>
  BY ZenonT(60), <1>0 DEF Fail, Returned
<1>2. th'[t] = Returned(t) /\ \A u \in Threads : u # t => th'[u] = th[u]
  BY ZenonT(60), <1>0, <1>1 DEF Typed
<1>3. Live' \subseteq Live
  <2>1. \A u \in Threads : th'[u].pin \in Live \cup {None}
    BY SMTT(40), <1>0, <1>2, ReturnedIs, LiveNow
  <2> QED  BY ZenonT(60), <1>0, <1>1, <2>1, LiveNow, LiveKept
<1>4. Ledger'
  BY ZenonT(60), <1>0, <1>1, <1>3, ReturnedIs, ThreadStep DEF Typed
<1>5. Resident' = Resident /\ Cached' = Cached
  BY ZenonT(60), <1>1 DEF Resident, Chunks, Cached, Pages, StoredBytes
<1>6. table'.book <= table.book
  BY <1>0, <1>1 DEF Typed
<1> QED  BY ZenonT(60), <1>1, <1>2, <1>3, <1>4, <1>5, <1>6, ReturnedIs, Shrinks

-----------------------------------------------------------------------------
\* The steps of a load and of reserve.

\* A step of a load that leaves everything but the call alone.
LEMMA LoadSteps ==
    ASSUME IInv, NEW t \in Threads, db' = db,
           \/ Hit(t) \/ Miss(t) \/ ChunkTry(t) \/ Length(t) \/ Bounded(t) \/ Read(t) \/ Payload(t)
           \/ Probe(t) \/ Decode(t) \/ Copy(t) \/ LoadError(t) \/ Unwind(t)
    PROVE  IInv'
<1>0. Typed /\ th[t] \in Thread /\ Shape(th[t]) /\ th[t].pin \in Live \cup {None} /\ None \notin Buffers
       /\ Pages \subseteq Nat
  BY ZenonT(60), Before
<1>1. ASSUME Hit(t) PROVE IInv'
  <2> DEFINE y == [th[t] EXCEPT !.pc = "pinned", !.pin = cache[th[t].page], !.chg = @ \ {"slot"}]
  <2>0. th[t].page \in Pages /\ cache[th[t].page] \in Buffers /\ cache[th[t].page] \in Live
    BY ZenonT(60), <1>0, <1>1, LiveNow DEF Hit, Shape, Reclaiming, Typed
  <2>1. th' = [th EXCEPT ![t] = y] /\ Alone
    BY ZenonT(60), <1>0, <1>1 DEF Hit, Alone, Typed, Thread
  <2>2. y \in Thread
    BY ZenonT(60), <1>0, <1>1, <2>0 DEF Hit, Thread, Labels, Kinds, Reclaiming, Loading, Resolving
  <2>3. Shape(y)
    BY SMTT(60), <1>0, <1>1, <2>0 DEF Hit, Shape, Needs, Thread, Reclaiming, Loading, Resolving, Goals, Decoding_kinds
  <2>4. y.pin \in Live \cup {None} /\ (y.owns => th[t].owns /\ th[t].pc # "publish")
    BY ZenonT(60), <1>0, <1>1, <2>0 DEF Hit, Thread
  <2>5. y.chg \subseteq th[t].chg /\ y.page = th[t].page
    BY ZenonT(60), <1>0, <1>1, <2>0 DEF Hit, Thread
  <2> QED  BY ZenonT(60), <2>1, <2>2, <2>3, <2>4, <2>5, Quiet
<1>2. ASSUME Miss(t) PROVE IInv'
  <2> DEFINE y == [th[t] EXCEPT !.pc = "try", !.want = "slot", !.by = "reserve",
                                !.to = "claim", !.freed = 0]
  <2>1. th' = [th EXCEPT ![t] = y] /\ Alone
    BY ZenonT(60), <1>0, <1>2 DEF Miss, Alone, Typed, Thread, Reserve
  <2>2. y \in Thread
    BY ZenonT(60), <1>0, <1>2 DEF Miss, Thread, Labels, Kinds, Reclaiming, Loading, Resolving
  <2>3. Shape(y)
    BY <1>0, <1>2 DEF Miss, Shape, Needs, Thread, Reclaiming, Loading, Resolving, Goals, Decoding_kinds
  <2>4. y.pin \in Live \cup {None} /\ (y.owns => th[t].owns /\ th[t].pc # "publish")
    BY ZenonT(60), <1>0, <1>2 DEF Miss, Thread
  <2>5. y.chg \subseteq th[t].chg /\ y.page = th[t].page
    BY ZenonT(60), <1>0, <1>2 DEF Miss, Thread
  <2> QED  BY ZenonT(60), <2>1, <2>2, <2>3, <2>4, <2>5, Quiet
<1>3. ASSUME ChunkTry(t), TryReserve(ChunkBytes) PROVE IInv'
  <2> DEFINE y == [th[t] EXCEPT !.pc = "chunkread", !.chg = @ \cup {"chunk"}, !.mem = @ \cup {"chunk"}]
  <2>1. th' = [th EXCEPT ![t] = y] /\ Alone
    BY ZenonT(60), <1>0, <1>3 DEF ChunkTry, Alone, Typed, Thread
  <2>2. y \in Thread
    BY ZenonT(60), <1>0, <1>3 DEF ChunkTry, Thread, Labels, Kinds, Reclaiming, Loading, Resolving
  <2>3. Shape(y)
    BY <1>0, <1>3 DEF ChunkTry, Shape, Needs, Thread, Reclaiming, Loading, Resolving, Goals, Decoding_kinds
  <2>4. y.pin \in Live \cup {None} /\ (y.owns => th[t].owns /\ th[t].pc # "publish")
    BY ZenonT(60), <1>0, <1>3 DEF ChunkTry, Thread
  <2>5. y.page = th[t].page /\ y.chg = th[t].chg \cup {"chunk"} /\ TryReserve(Size(y.page, "chunk"))
        /\ "chunk" \in Kinds
    BY ZenonT(60), <1>0, <1>3 DEF ChunkTry, Thread, Size, Kinds
  <2> QED  BY ZenonT(60), <2>1, <2>2, <2>3, <2>4, <2>5, Quiet
<1>4. ASSUME ChunkTry(t), ~TryReserve(ChunkBytes) PROVE IInv'
  <2> DEFINE y == [th[t] EXCEPT !.pc = "chunk", !.by = "chunk", !.want = "chunk", !.freed = 0]
  <2>1. th' = [th EXCEPT ![t] = y] /\ Alone
    BY ZenonT(60), <1>0, <1>4 DEF ChunkTry, Alone, Typed, Thread
  <2>2. y \in Thread
    BY ZenonT(60), <1>0, <1>4 DEF ChunkTry, Thread, Labels, Kinds, Reclaiming, Loading, Resolving
  <2>3. Shape(y)
    BY <1>0, <1>4 DEF ChunkTry, Shape, Needs, Thread, Reclaiming, Loading, Resolving, Goals, Decoding_kinds
  <2>4. y.pin \in Live \cup {None} /\ (y.owns => th[t].owns /\ th[t].pc # "publish")
    BY ZenonT(60), <1>0, <1>4 DEF ChunkTry, Thread
  <2>5. y.chg \subseteq th[t].chg /\ y.page = th[t].page
    BY ZenonT(60), <1>0, <1>4 DEF ChunkTry, Thread
  <2> QED  BY ZenonT(60), <2>1, <2>2, <2>3, <2>4, <2>5, Quiet
<1>5. ASSUME Length(t), th[t].page + 1 \in Pages PROVE IInv'
  <2> DEFINE y == [th[t] EXCEPT !.pc = "offset", !.ord = th[t].page + 1, !.to = "bounded"]
  <2>1. th' = [th EXCEPT ![t] = y] /\ Alone
    BY ZenonT(60), <1>0, <1>5 DEF Length, Alone, Typed, Thread
  <2>2. y \in Thread
    BY ZenonT(60), <1>0, <1>5 DEF Length, Thread, Labels, Kinds, Reclaiming, Loading, Resolving
  <2>3. Shape(y)
    BY <1>0, <1>5 DEF Length, Shape, Needs, Thread, Reclaiming, Loading, Resolving, Goals, Decoding_kinds
  <2>4. y.pin \in Live \cup {None} /\ (y.owns => th[t].owns /\ th[t].pc # "publish")
    BY ZenonT(60), <1>0, <1>5 DEF Length, Thread
  <2>5. y.chg \subseteq th[t].chg /\ y.page = th[t].page
    BY ZenonT(60), <1>0, <1>5 DEF Length, Thread
  <2> QED  BY ZenonT(60), <2>1, <2>2, <2>3, <2>4, <2>5, Quiet
<1>6. ASSUME Length(t), th[t].page + 1 \notin Pages PROVE IInv'
  <2> DEFINE y == [th[t] EXCEPT !.pc = "bounded"]
  <2>1. th' = [th EXCEPT ![t] = y] /\ Alone
    BY ZenonT(60), <1>0, <1>6 DEF Length, Alone, Typed, Thread, Goto
  <2>2. y \in Thread
    BY ZenonT(60), <1>0, <1>6 DEF Length, Thread, Labels, Kinds, Reclaiming, Loading, Resolving
  <2>3. Shape(y)
    BY <1>0, <1>6 DEF Length, Shape, Needs, Thread, Reclaiming, Loading, Resolving, Goals, Decoding_kinds
  <2>4. y.pin \in Live \cup {None} /\ (y.owns => th[t].owns /\ th[t].pc # "publish")
    BY ZenonT(60), <1>0, <1>6 DEF Length, Thread
  <2>5. y.chg \subseteq th[t].chg /\ y.page = th[t].page
    BY ZenonT(60), <1>0, <1>6 DEF Length, Thread
  <2> QED  BY ZenonT(60), <2>1, <2>2, <2>3, <2>4, <2>5, Quiet
<1>7. ASSUME Bounded(t) PROVE IInv'
  <2> DEFINE y == [th[t] EXCEPT !.pc = "try", !.want = "stored", !.by = "reserve",
                                !.to = "read", !.freed = 0]
  <2>1. th' = [th EXCEPT ![t] = y] /\ Alone
    BY ZenonT(60), <1>0, <1>7 DEF Bounded, Alone, Typed, Thread, Reserve
  <2>2. y \in Thread
    BY ZenonT(60), <1>0, <1>7 DEF Bounded, Thread, Labels, Kinds, Reclaiming, Loading, Resolving
  <2>3. Shape(y)
    BY <1>0, <1>7 DEF Bounded, Shape, Needs, Thread, Reclaiming, Loading, Resolving, Goals, Decoding_kinds
  <2>4. y.pin \in Live \cup {None} /\ (y.owns => th[t].owns /\ th[t].pc # "publish")
    BY ZenonT(60), <1>0, <1>7 DEF Bounded, Thread
  <2>5. y.chg \subseteq th[t].chg /\ y.page = th[t].page
    BY ZenonT(60), <1>0, <1>7 DEF Bounded, Thread
  <2> QED  BY ZenonT(60), <2>1, <2>2, <2>3, <2>4, <2>5, Quiet
<1>8. ASSUME Read(t), Filtered PROVE IInv'
  <2> DEFINE y == [th[t] EXCEPT !.mem = @ \cup {"stored"}, !.pc = "try", !.want = "scratch", !.by = "reserve",
                                !.to = "payload", !.freed = 0]
  <2>1. th' = [th EXCEPT ![t] = y] /\ Alone
    BY ZenonT(60), <1>0, <1>8 DEF Read, Alone, Typed, Thread, Reserve
  <2>2. y \in Thread
    BY ZenonT(60), <1>0, <1>8 DEF Read, Thread, Labels, Kinds, Reclaiming, Loading, Resolving
  <2>3. Shape(y)
    BY <1>0, <1>8 DEF Read, Shape, Needs, Thread, Reclaiming, Loading, Resolving, Goals, Decoding_kinds
  <2>4. y.pin \in Live \cup {None} /\ (y.owns => th[t].owns /\ th[t].pc # "publish")
    BY ZenonT(60), <1>0, <1>8 DEF Read, Thread
  <2>5. y.chg \subseteq th[t].chg /\ y.page = th[t].page
    BY ZenonT(60), <1>0, <1>8 DEF Read, Thread
  <2> QED  BY ZenonT(60), <2>1, <2>2, <2>3, <2>4, <2>5, Quiet
<1>9. ASSUME Read(t), ~Filtered PROVE IInv'
  <2> DEFINE y == [th[t] EXCEPT !.mem = @ \cup {"stored"}, !.pc = "validate"]
  <2>1. th' = [th EXCEPT ![t] = y] /\ Alone
    BY ZenonT(60), <1>0, <1>9 DEF Read, Alone, Typed, Thread
  <2>2. y \in Thread
    BY ZenonT(60), <1>0, <1>9 DEF Read, Thread, Labels, Kinds, Reclaiming, Loading, Resolving
  <2>3. Shape(y)
    BY SMTT(60), <1>0, <1>9 DEF Read, Shape, Needs, Thread, Reclaiming, Loading, Resolving, Goals, Decoding_kinds
  <2>4. y.pin \in Live \cup {None} /\ (y.owns => th[t].owns /\ th[t].pc # "publish")
    BY ZenonT(60), <1>0, <1>9 DEF Read, Thread
  <2>5. y.chg \subseteq th[t].chg /\ y.page = th[t].page
    BY ZenonT(60), <1>0, <1>9 DEF Read, Thread
  <2> QED  BY ZenonT(60), <2>1, <2>2, <2>3, <2>4, <2>5, Quiet
<1>10. ASSUME Payload(t) PROVE IInv'
  <2> DEFINE y == [th[t] EXCEPT !.mem = @ \cup {"scratch"}, !.pc = "try", !.want = "probe", !.by = "reserve",
                                !.to = "probe", !.freed = 0]
  <2>1. th' = [th EXCEPT ![t] = y] /\ Alone
    BY ZenonT(60), <1>0, <1>10 DEF Payload, Alone, Typed, Thread, Reserve
  <2>2. y \in Thread
    BY ZenonT(60), <1>0, <1>10 DEF Payload, Thread, Labels, Kinds, Reclaiming, Loading, Resolving
  <2>3. Shape(y)
    BY <1>0, <1>10 DEF Payload, Shape, Needs, Thread, Reclaiming, Loading, Resolving, Goals, Decoding_kinds
  <2>4. y.pin \in Live \cup {None} /\ (y.owns => th[t].owns /\ th[t].pc # "publish")
    BY ZenonT(60), <1>0, <1>10 DEF Payload, Thread
  <2>5. y.chg \subseteq th[t].chg /\ y.page = th[t].page
    BY ZenonT(60), <1>0, <1>10 DEF Payload, Thread
  <2> QED  BY ZenonT(60), <2>1, <2>2, <2>3, <2>4, <2>5, Quiet
<1>11. ASSUME Probe(t) PROVE IInv'
  <2> DEFINE y == [th[t] EXCEPT !.chg = @ \ {"probe"}, !.pc = "try", !.want = "working", !.by = "reserve",
                                !.to = "decode", !.freed = 0]
  <2>1. th' = [th EXCEPT ![t] = y] /\ Alone
    BY ZenonT(60), <1>0, <1>11 DEF Probe, Alone, Typed, Thread, Reserve
  <2>2. y \in Thread
    BY ZenonT(60), <1>0, <1>11 DEF Probe, Thread, Labels, Kinds, Reclaiming, Loading, Resolving
  <2>3. Shape(y)
    BY <1>0, <1>11 DEF Probe, Shape, Needs, Thread, Reclaiming, Loading, Resolving, Goals, Decoding_kinds
  <2>4. y.pin \in Live \cup {None} /\ (y.owns => th[t].owns /\ th[t].pc # "publish")
    BY ZenonT(60), <1>0, <1>11 DEF Probe, Thread
  <2>5. y.chg \subseteq th[t].chg /\ y.page = th[t].page
    BY ZenonT(60), <1>0, <1>11 DEF Probe, Thread
  <2> QED  BY ZenonT(60), <2>1, <2>2, <2>3, <2>4, <2>5, Quiet
<1>12. ASSUME Decode(t) PROVE IInv'
  <2> DEFINE y == [th[t] EXCEPT !.chg = @ \ {"working"}, !.pc = "try", !.want = "exact", !.by = "reserve",
                                !.to = "copy", !.freed = 0]
  <2>1. th' = [th EXCEPT ![t] = y] /\ Alone
    BY ZenonT(60), <1>0, <1>12 DEF Decode, Alone, Typed, Thread, Reserve
  <2>2. y \in Thread
    BY ZenonT(60), <1>0, <1>12 DEF Decode, Thread, Labels, Kinds, Reclaiming, Loading, Resolving
  <2>3. Shape(y)
    BY <1>0, <1>12 DEF Decode, Shape, Needs, Thread, Reclaiming, Loading, Resolving, Goals, Decoding_kinds
  <2>4. y.pin \in Live \cup {None} /\ (y.owns => th[t].owns /\ th[t].pc # "publish")
    BY ZenonT(60), <1>0, <1>12 DEF Decode, Thread
  <2>5. y.chg \subseteq th[t].chg /\ y.page = th[t].page
    BY ZenonT(60), <1>0, <1>12 DEF Decode, Thread
  <2> QED  BY ZenonT(60), <2>1, <2>2, <2>3, <2>4, <2>5, Quiet
<1>13. ASSUME Copy(t) PROVE IInv'
  <2> DEFINE y == [th[t] EXCEPT !.pc = "drop", !.mem = @ \cup {"exact"}, !.left = Drops]
  <2>1. th' = [th EXCEPT ![t] = y] /\ Alone
    BY ZenonT(60), <1>0, <1>13 DEF Copy, Alone, Typed, Thread
  <2>2. y \in Thread
    BY ZenonT(60), <1>0, <1>13 DEF Copy, Thread, Labels, Kinds, Reclaiming, Loading, Resolving, Leftover, Drops, Drops1, Drops2, Drops3
  <2>3. Shape(y)
    BY SMTT(60), <1>0, <1>13 DEF Copy, Shape, Needs, Thread, Reclaiming, Loading, Resolving, Goals, Decoding_kinds, Leftover, Drops, Drops1, Drops2, Drops3
  <2>4. y.pin \in Live \cup {None} /\ (y.owns => th[t].owns /\ th[t].pc # "publish")
    BY ZenonT(60), <1>0, <1>13 DEF Copy, Thread
  <2>5. y.chg \subseteq th[t].chg /\ y.page = th[t].page
    BY ZenonT(60), <1>0, <1>13 DEF Copy, Thread
  <2> QED  BY ZenonT(60), <2>1, <2>2, <2>3, <2>4, <2>5, Quiet
<1>14. ASSUME LoadError(t) PROVE IInv'
  <2> DEFINE y == [th[t] EXCEPT !.pc = "fail"]
  <2>1. th' = [th EXCEPT ![t] = y] /\ Alone
    BY ZenonT(60), <1>0, <1>14 DEF LoadError, Alone, Typed, Thread, Goto
  <2>2. y \in Thread
    BY SMTT(40), <1>0, <1>14 DEF LoadError, Thread, Labels, Kinds, Reclaiming, Loading, Resolving
  <2>3. Shape(y)
    BY <1>0, <1>14 DEF LoadError, Shape, Needs, Thread, Reclaiming, Loading, Resolving, Goals, Decoding_kinds
  <2>4. y.pin \in Live \cup {None} /\ (y.owns => th[t].owns /\ th[t].pc # "publish")
    BY ZenonT(60), <1>0, <1>14 DEF LoadError, Thread
  <2>5. y.chg \subseteq th[t].chg /\ y.page = th[t].page
    BY ZenonT(60), <1>0, <1>14 DEF LoadError, Thread
  <2> QED  BY ZenonT(60), <2>1, <2>2, <2>3, <2>4, <2>5, Quiet
<1>15. ASSUME Unwind(t) PROVE IInv'
  <2> DEFINE y == [th[t] EXCEPT !.mem = @ \cap {"query"}, !.pc = "fail"]
  <2>1. th' = [th EXCEPT ![t] = y] /\ Alone
    BY ZenonT(60), <1>0, <1>15 DEF Unwind, Alone, Typed, Thread
  <2>2. y \in Thread
    BY ZenonT(60), <1>0, <1>15 DEF Unwind, Thread, Labels, Kinds, Reclaiming, Loading, Resolving
  <2>3. Shape(y)
    BY <1>0, <1>15 DEF Unwind, Shape, Needs, Thread, Reclaiming, Loading, Resolving, Goals, Decoding_kinds
  <2>4. y.pin \in Live \cup {None} /\ (y.owns => th[t].owns /\ th[t].pc # "publish")
    BY ZenonT(60), <1>0, <1>15 DEF Unwind, Thread
  <2>5. y.chg \subseteq th[t].chg /\ y.page = th[t].page
    BY ZenonT(60), <1>0, <1>15 DEF Unwind, Thread
  <2> QED  BY ZenonT(60), <2>1, <2>2, <2>3, <2>4, <2>5, Quiet
<1> QED  BY SMTT(60), <1>1, <1>2, <1>3, <1>4, <1>5, <1>6, <1>7, <1>8, <1>9, <1>10, <1>11, <1>12, <1>13, <1>14, <1>15

\* The drops at the end of a decode: a buffer always goes before its reservation.
LEMMA DropStep ==
    ASSUME IInv, NEW t \in Threads, db' = db, Drop(t)
    PROVE  IInv'
<1>0. Typed /\ th[t] \in Thread /\ Shape(th[t]) /\ th[t].pin \in Live \cup {None}
  BY ZenonT(60), Before
<1>1. th[t].pc = "drop" /\ th[t].page \in Pages /\ th[t].left \in {Drops, Drops1, Drops2, Drops3}
  BY ZenonT(60), <1>0 DEF Drop, Shape, Thread, Leftover, Reclaiming
<1> DEFINE Dropped(field, kind, left, label) ==
             IF field = "mem" THEN [th[t] EXCEPT !.mem = @ \ {kind}, !.left = left, !.pc = label]
             ELSE [th[t] EXCEPT !.chg = @ \ {kind}, !.left = left, !.pc = label]
<1>2. ASSUME NEW field \in {"mem", "chg"}, NEW kind \in {"scratch", "stored"}, NEW left \in Leftover,
             NEW label \in {"drop", "validate"},
             th' = [th EXCEPT ![t] = Dropped(field, kind, left, label)],
             field = "chg" => kind \notin th[t].mem,
             label = "drop" => /\ left # <<>>
                               /\ left = Drops1 => field = "mem" /\ kind = "scratch"
                               /\ left = Drops3 => field = "mem" /\ kind = "stored"
      PROVE  IInv'
  <2> DEFINE y == Dropped(field, kind, left, label)
  <2>1. Alone
    BY ZenonT(60) DEF Drop, Alone
  <2>2. y \in Thread
    BY ZenonT(60), <1>0, <1>2 DEF Thread, Labels, Loading
  <2>3. Shape(y)
    BY <1>0, <1>1, <1>2 DEF Shape, Needs, Thread, Reclaiming, Loading, Resolving
  <2>4. y.pin \in Live \cup {None} /\ (y.owns => th[t].owns /\ th[t].pc # "publish")
          /\ y.chg \subseteq th[t].chg /\ y.page = th[t].page
    BY ZenonT(60), <1>0, <1>1, <1>2 DEF Thread
  <2> QED  BY ZenonT(60), <1>2, <2>1, <2>2, <2>3, <2>4, Quiet
<1>3. CASE th[t].left = Drops
  <2>0. Head(Drops) = <<"mem", "scratch">> /\ Tail(Drops) = Drops1 /\ Len(Drops) = 4
    BY DEF Drops, Drops1
  <2>01. Head(th[t].left)[1] = "mem" /\ Head(th[t].left)[2] = "scratch" /\ Tail(th[t].left) = Drops1
           /\ (IF Len(th[t].left) = 1 THEN "validate" ELSE "drop") = "drop"
    BY <1>3, <2>0
  <2>1. th' = [th EXCEPT ![t] = Dropped("mem", "scratch", Drops1, "drop")]
    BY ZenonT(60), <1>0, <2>01 DEF Drop, Thread, Typed
  <2> QED  BY ZenonT(60), <1>2, <2>1 DEF Leftover, Drops1, Drops3
<1>4. CASE th[t].left = Drops1
  <2>0. Head(Drops1) = <<"chg", "scratch">> /\ Tail(Drops1) = Drops2 /\ Len(Drops1) = 3
    BY DEF Drops1, Drops2
  <2>01. Head(th[t].left)[1] = "chg" /\ Head(th[t].left)[2] = "scratch" /\ Tail(th[t].left) = Drops2
           /\ (IF Len(th[t].left) = 1 THEN "validate" ELSE "drop") = "drop"
    BY SMTT(40), <1>4, <2>0
  <2>1. th' = [th EXCEPT ![t] = Dropped("chg", "scratch", Drops2, "drop")]
    BY ZenonT(60), <1>0, <2>01 DEF Drop, Thread, Typed
  <2>2. "scratch" \notin th[t].mem
    BY ZenonT(60), <1>0, <1>1, <1>4 DEF Shape
  <2>3. Drops2 # Drops1 /\ Drops2 # Drops3 /\ Drops2 # <<>> /\ Drops2 \in Leftover
    BY ZenonT(60) DEF Leftover, Drops1, Drops2, Drops3
  <2> QED  BY ZenonT(60), <1>2, <2>1, <2>2, <2>3
<1>5. CASE th[t].left = Drops2
  <2>0. Head(Drops2) = <<"mem", "stored">> /\ Tail(Drops2) = Drops3 /\ Len(Drops2) = 2
    BY DEF Drops2, Drops3
  <2>01. Head(th[t].left)[1] = "mem" /\ Head(th[t].left)[2] = "stored" /\ Tail(th[t].left) = Drops3
           /\ (IF Len(th[t].left) = 1 THEN "validate" ELSE "drop") = "drop"
    BY <1>5, <2>0
  <2>1. th' = [th EXCEPT ![t] = Dropped("mem", "stored", Drops3, "drop")]
    BY ZenonT(60), <1>0, <2>01 DEF Drop, Thread, Typed
  <2> QED  BY ZenonT(60), <1>2, <2>1 DEF Leftover, Drops1, Drops3
<1>6. CASE th[t].left = Drops3
  <2>0. Head(Drops3) = <<"chg", "stored">> /\ Tail(Drops3) = <<>> /\ Len(Drops3) = 1
    BY DEF Drops3
  <2>01. Head(th[t].left)[1] = "chg" /\ Head(th[t].left)[2] = "stored" /\ Tail(th[t].left) = <<>>
           /\ (IF Len(th[t].left) = 1 THEN "validate" ELSE "drop") = "validate"
    BY SMTT(40), <1>6, <2>0
  <2>1. th' = [th EXCEPT ![t] = Dropped("chg", "stored", <<>>, "validate")]
    BY SMTT(40), <1>0, <2>01 DEF Drop, Thread, Typed
  <2>2. "stored" \notin th[t].mem
    BY ZenonT(60), <1>0, <1>1, <1>6 DEF Shape
  <2> QED  BY ZenonT(60), <1>2, <2>1, <2>2 DEF Leftover
<1> QED  BY ZenonT(60), <1>1, <1>3, <1>4, <1>5, <1>6

\* A reclaim has a number of rounds, and at least one.
LEMMA RoundsNat ==
    ASSUME Typed
    PROVE  Rounds \in Nat \ {0} /\ Cardinality(Cached) \in Nat /\ Cardinality(Resident) \in Nat
<1>1. IsFiniteSet(Cached) /\ IsFiniteSet(Resident)
  BY ZenonT(60), FiniteSets, FS_Subset DEF Cached
<1> QED  BY SMTT(40), <1>1, FS_CardinalityType, PageStoreAssumption DEF Rounds

\* A step of reserve, and of the others that may leave everything but the call alone.
LEMMA ReserveSteps ==
    ASSUME IInv, NEW t \in Threads, db' = db,
           \/ Try(t) \/ Evicted(t) \/ Again(t)
           \/ Lookup(t) /\ ChunkOf(t) \notin Resident
           \/ DropChunk(t) /\ Resident = {}
           \/ Pinned(t) /\ RoomToRetain(t)
    PROVE  IInv'
<1>0. Typed /\ th[t] \in Thread /\ Shape(th[t]) /\ th[t].pin \in Live \cup {None} /\ None \notin Buffers
  BY ZenonT(60), Before
<1>g. ASSUME th[t].pc \in {"try", "again"}, TryReserve(Want(t)), Granted(t), Alone PROVE IInv'
  <2> DEFINE y == [th[t] EXCEPT !.pc = th[t].to, !.chg = @ \cup {th[t].want}, !.freed = 0, !.rounds = 0]
  <2>1. th' = [th EXCEPT ![t] = y]
    BY ZenonT(60), <1>0, <1>g DEF Granted, Typed, Thread
  <2>2. y \in Thread
    BY ZenonT(60), <1>0, <1>g DEF Thread
  <2>3. th[t].by = "reserve" /\ <<th[t].want, th[t].to>> \in Goals
          /\ (th[t].want \in Decoding_kinds => Filtered)
          /\ (th[t].want \notin {"slot", "query"} => th[t].owns)
    BY ZenonT(60), <1>0, <1>g DEF Shape, Reclaiming, Thread
  <2>4. th[t].page \in Pages \/ (th[t].want = "query" /\ th[t].chg \subseteq {"query"})
    BY ZenonT(60), <1>0, <1>g DEF Shape
  <2>5. th[t].mem \subseteq th[t].chg /\ th[t].mem \cap {"slot", "probe", "working"} = {}
    BY ZenonT(60), <1>0 DEF Shape
  <2>6. ASSUME NEW k \in Kinds, NEW l \in Labels, th[t].want = k, th[t].to = l, <<k, l>> \in Goals
        PROVE  Shape(y)
    BY SMTT(60), <1>0, <2>3, <2>4, <2>5, <2>6 DEF Shape, Needs, Thread, Goals, Decoding_kinds, Reclaiming, Loading, Resolving
  <2>7. Shape(y)
    BY ZenonT(60), <1>0, <2>3, <2>6 DEF Thread
  <2>8. /\ y.pin \in Live \cup {None} /\ (y.owns => th[t].owns /\ th[t].pc # "publish")
        /\ y.page = th[t].page /\ y.chg = th[t].chg \cup {th[t].want} /\ th[t].want \in Kinds
        /\ TryReserve(Size(y.page, th[t].want))
    BY ZenonT(60), <1>0, <1>g DEF Thread, Want
  <2> QED  BY ZenonT(60), <1>g, <2>1, <2>2, <2>7, <2>8, Quiet
<1>1. ASSUME Try(t), TryReserve(Want(t)) PROVE IInv'
  BY ZenonT(60), <1>g, <1>1 DEF Try, Alone
<1>2. ASSUME Try(t), ~TryReserve(Want(t)), Want(t) > Limit PROVE IInv'
  <2> DEFINE y == [th[t] EXCEPT !.pc = "refused"]
  <2>1. th' = [th EXCEPT ![t] = y] /\ Alone
    BY ZenonT(60), <1>0, <1>2 DEF Try, Alone, Typed, Thread, Goto
  <2>2. y \in Thread
    BY ZenonT(60), <1>0, <1>2 DEF Try, Thread, Labels, Reclaiming, Loading, Resolving
  <2>3. Shape(y)
    BY <1>0, <1>2 DEF Try, Shape, Needs, Thread, Reclaiming, Loading, Resolving, Goals, Decoding_kinds
  <2>4. /\ y.pin \in Live \cup {None} /\ (y.owns => th[t].owns /\ th[t].pc # "publish")
        /\ y.chg \subseteq th[t].chg /\ y.page = th[t].page
    BY ZenonT(60), <1>0, <1>2 DEF Try, Thread
  <2> QED  BY ZenonT(60), <2>1, <2>2, <2>3, <2>4, Quiet
<1>3. ASSUME Try(t), ~TryReserve(Want(t)), ~(Want(t) > Limit) PROVE IInv'
  <2> DEFINE y == [th[t] EXCEPT !.pc = "evict", !.rounds = Rounds]
  <2>0. Rounds \in Nat /\ Rounds > 0
    BY <1>0, RoundsNat
  <2>1. th' = [th EXCEPT ![t] = y] /\ Alone
    BY ZenonT(60), <1>0, <1>3, <2>0 DEF Try, Alone, Typed, Thread, Goto
  <2>2. y \in Thread
    BY ZenonT(60), <1>0, <1>3, <2>0 DEF Try, Thread, Labels, Reclaiming, Loading, Resolving
  <2>3. Shape(y)
    BY SMTT(60), <1>0, <1>3, <2>0 DEF Try, Shape, Needs, Thread, Reclaiming, Loading, Resolving, Goals, Decoding_kinds
  <2>4. /\ y.pin \in Live \cup {None} /\ (y.owns => th[t].owns /\ th[t].pc # "publish")
        /\ y.chg \subseteq th[t].chg /\ y.page = th[t].page
    BY ZenonT(60), <1>0, <1>3 DEF Try, Thread
  <2> QED  BY ZenonT(60), <2>1, <2>2, <2>3, <2>4, Quiet
<1>4. ASSUME Again(t), TryReserve(Want(t)) PROVE IInv'
  BY ZenonT(60), <1>g, <1>4 DEF Again, Alone
<1>5. ASSUME Again(t), ~TryReserve(Want(t)), th[t].freed = 0 \/ th[t].rounds = 1 PROVE IInv'
  <2> DEFINE y == [th[t] EXCEPT !.pc = "refused"]
  <2>1. th' = [th EXCEPT ![t] = y] /\ Alone
    BY ZenonT(60), <1>0, <1>5 DEF Again, Alone, Typed, Thread, Goto
  <2>2. y \in Thread
    BY ZenonT(60), <1>0, <1>5 DEF Again, Thread, Labels, Reclaiming, Loading, Resolving
  <2>3. Shape(y)
    BY <1>0, <1>5 DEF Again, Shape, Needs, Thread, Reclaiming, Loading, Resolving, Goals, Decoding_kinds
  <2>4. /\ y.pin \in Live \cup {None} /\ (y.owns => th[t].owns /\ th[t].pc # "publish")
        /\ y.chg \subseteq th[t].chg /\ y.page = th[t].page
    BY ZenonT(60), <1>0, <1>5 DEF Again, Thread
  <2> QED  BY ZenonT(60), <2>1, <2>2, <2>3, <2>4, Quiet
<1>6. ASSUME Again(t), ~TryReserve(Want(t)), ~(th[t].freed = 0 \/ th[t].rounds = 1) PROVE IInv'
  <2> DEFINE y == [th[t] EXCEPT !.pc = "evict", !.freed = 0, !.rounds = @ - 1]
  <2>0. th[t].rounds \in Nat /\ th[t].rounds - 1 \in Nat /\ th[t].rounds - 1 > 0
    <3>1. th[t].rounds \in Nat /\ th[t].rounds > 0
      BY ZenonT(60), <1>0, <1>6 DEF Again, Shape, Thread, Reclaiming
    <3> QED  BY SMTT(40), <1>6, <3>1
  <2>1. th' = [th EXCEPT ![t] = y] /\ Alone
    BY ZenonT(60), <1>0, <1>6, <2>0 DEF Again, Alone, Typed, Thread, Goto
  <2>2. y \in Thread
    BY ZenonT(60), <1>0, <1>6, <2>0 DEF Again, Thread, Labels, Reclaiming, Loading, Resolving
  <2>3. Shape(y)
    BY SMTT(60), <1>0, <1>6, <2>0 DEF Again, Shape, Needs, Thread, Reclaiming, Loading, Resolving, Goals, Decoding_kinds
  <2>4. /\ y.pin \in Live \cup {None} /\ (y.owns => th[t].owns /\ th[t].pc # "publish")
        /\ y.chg \subseteq th[t].chg /\ y.page = th[t].page
    BY ZenonT(60), <1>0, <1>6 DEF Again, Thread
  <2> QED  BY ZenonT(60), <2>1, <2>2, <2>3, <2>4, Quiet
<1>7. ASSUME Evicted(t), th[t].freed > 0 PROVE IInv'
  <2> DEFINE y == [th[t] EXCEPT !.pc = IF th[t].by = "chunk" THEN "chunktry" ELSE "again"]
  <2>0. th[t].freed \in Nat /\ th[t].freed # 0
    BY SMTT(40), <1>0, <1>7 DEF Thread
  <2>1. th' = [th EXCEPT ![t] = y] /\ Alone
    BY ZenonT(60), <1>0, <1>7, <2>0 DEF Evicted, Alone, Typed, Thread, Goto, Retry
  <2>2. y \in Thread
    BY SMTT(40), <1>0, <1>7, <2>0 DEF Evicted, Thread, Labels, Reclaiming, Loading, Resolving
  <2>3. Shape(y)
    BY SMTT(40), <1>0, <1>7, <2>0 DEF Evicted, Shape, Needs, Thread, Reclaiming, Loading, Resolving, Goals, Decoding_kinds, Retry
  <2>4. /\ y.pin \in Live \cup {None} /\ (y.owns => th[t].owns /\ th[t].pc # "publish")
        /\ y.chg \subseteq th[t].chg /\ y.page = th[t].page
    BY ZenonT(60), <1>0, <1>7 DEF Evicted, Thread
  <2> QED  BY ZenonT(60), <2>1, <2>2, <2>3, <2>4, Quiet
<1>8. ASSUME Evicted(t), ~(th[t].freed > 0), th[t].by = "reserve" PROVE IInv'
  <2> DEFINE y == [th[t] EXCEPT !.pc = "chunk"]
  <2>0. th[t].freed = 0
    BY <1>0, <1>8 DEF Thread
  <2>1. th' = [th EXCEPT ![t] = y] /\ Alone
    BY ZenonT(60), <1>0, <1>8, <2>0 DEF Evicted, Alone, Typed, Thread, Goto
  <2>2. y \in Thread
    BY ZenonT(60), <1>0, <1>8, <2>0 DEF Evicted, Thread, Labels, Reclaiming, Loading, Resolving
  <2>3. Shape(y)
    BY SMTT(40), <1>0, <1>8, <2>0 DEF Evicted, Shape, Needs, Thread, Reclaiming, Loading, Resolving, Goals, Decoding_kinds
  <2>4. /\ y.pin \in Live \cup {None} /\ (y.owns => th[t].owns /\ th[t].pc # "publish")
        /\ y.chg \subseteq th[t].chg /\ y.page = th[t].page
    BY ZenonT(60), <1>0, <1>8 DEF Evicted, Thread
  <2> QED  BY ZenonT(60), <2>1, <2>2, <2>3, <2>4, Quiet
<1>9. ASSUME Evicted(t), ~(th[t].freed > 0), th[t].by # "reserve" PROVE IInv'
  <2> DEFINE y == [th[t] EXCEPT !.pc = "roots"]
  <2>1. th' = [th EXCEPT ![t] = y] /\ Alone
    BY ZenonT(60), <1>0, <1>9 DEF Evicted, Alone, Typed, Thread, Goto
  <2>2. y \in Thread
    BY ZenonT(60), <1>0, <1>9 DEF Evicted, Thread, Labels, Reclaiming, Loading, Resolving
  <2>3. Shape(y)
    BY ZenonT(60), <1>0, <1>9 DEF Evicted, Shape, Needs, Thread, Reclaiming, Loading, Resolving, Goals, Decoding_kinds
  <2>4. /\ y.pin \in Live \cup {None} /\ (y.owns => th[t].owns /\ th[t].pc # "publish")
        /\ y.chg \subseteq th[t].chg /\ y.page = th[t].page
    BY ZenonT(60), <1>0, <1>9 DEF Evicted, Thread
  <2> QED  BY ZenonT(60), <2>1, <2>2, <2>3, <2>4, Quiet
<1>10. ASSUME Lookup(t), ChunkOf(t) \notin Resident PROVE IInv'
  <2> DEFINE y == [th[t] EXCEPT !.pc = "chunktry"]
  <2>1. th' = [th EXCEPT ![t] = y] /\ Alone
    BY ZenonT(60), <1>0, <1>10 DEF Lookup, Alone, Typed, Thread, Goto
  <2>2. y \in Thread
    BY ZenonT(60), <1>0, <1>10 DEF Lookup, Thread, Labels, Reclaiming, Loading, Resolving
  <2>3. Shape(y)
    BY ZenonT(60), <1>0, <1>10 DEF Lookup, Shape, Needs, Thread, Reclaiming, Loading, Resolving, Goals, Decoding_kinds
  <2>4. /\ y.pin \in Live \cup {None} /\ (y.owns => th[t].owns /\ th[t].pc # "publish")
        /\ y.chg \subseteq th[t].chg /\ y.page = th[t].page
    BY ZenonT(60), <1>0, <1>10 DEF Lookup, Thread
  <2> QED  BY ZenonT(60), <2>1, <2>2, <2>3, <2>4, Quiet
<1>11. ASSUME DropChunk(t), Resident = {} PROVE IInv'
  <2> DEFINE y == [th[t] EXCEPT !.pc = IF th[t].by = "chunk" THEN "evict" ELSE "roots"]
  <2>1. th' = [th EXCEPT ![t] = y] /\ Alone
    BY ZenonT(60), <1>0, <1>11 DEF DropChunk, Alone, Typed, Thread, Goto
  <2>2. y \in Thread
    BY SMTT(60), <1>0, <1>11 DEF DropChunk, Thread, Labels, Reclaiming, Loading, Resolving
  <2>3. Shape(y)
    BY SMTT(60), <1>0, <1>11 DEF DropChunk, Shape, Needs, Thread, Reclaiming, Loading, Resolving, Goals, Decoding_kinds
  <2>4. /\ y.pin \in Live \cup {None} /\ (y.owns => th[t].owns /\ th[t].pc # "publish")
        /\ y.chg \subseteq th[t].chg /\ y.page = th[t].page
    BY ZenonT(60), <1>0, <1>11 DEF DropChunk, Thread
  <2> QED  BY ZenonT(60), <2>1, <2>2, <2>3, <2>4, Quiet
<1>12. ASSUME Pinned(t), RoomToRetain(t), th[t].tree # None PROVE IInv'
  <2> DEFINE y == [th[t] EXCEPT !.pc = "retain"]
  <2>1. th' = [th EXCEPT ![t] = y] /\ Alone
    BY ZenonT(60), <1>0, <1>12 DEF Pinned, Alone, Typed, Thread, Goto
  <2>2. y \in Thread
    BY ZenonT(60), <1>0, <1>12 DEF Pinned, Thread, Labels, Reclaiming, Loading, Resolving
  <2>3. Shape(y)
    BY ZenonT(60), <1>0, <1>12 DEF Pinned, Shape, Needs, Thread, Reclaiming, Loading, Resolving, Goals, Decoding_kinds
  <2>4. /\ y.pin \in Live \cup {None} /\ (y.owns => th[t].owns /\ th[t].pc # "publish")
        /\ y.chg \subseteq th[t].chg /\ y.page = th[t].page
    BY ZenonT(60), <1>0, <1>12 DEF Pinned, Thread
  <2> QED  BY ZenonT(60), <2>1, <2>2, <2>3, <2>4, Quiet
<1> QED  BY ZenonT(60), <1>1, <1>2, <1>3, <1>4, <1>5, <1>6, <1>7, <1>8, <1>9, <1>10, <1>11, <1>12 DEF RoomToRetain

\* Leaving the roots, the guards and the directory alone.
LEMMA CacheSteps ==
    ASSUME IInv, NEW t \in Threads, db' = db,
           Publish(t) \/ \E p \in Pages : EvictPage(t, p)
    PROVE  IInv'
<1>0. Typed /\ Ledger /\ th[t] \in Thread /\ Shape(th[t]) /\ th[t].pin \in Live \cup {None} /\ None \notin Buffers
  BY ZenonT(60), Before
<1>1. ASSUME Publish(t) PROVE IInv'
  <2> DEFINE y == [th[t] EXCEPT !.pc = "pinned", !.owns = FALSE]
  <2>1. /\ th' = [th EXCEPT ![t] = y] /\ inflight' = inflight \ {th[t].page}
        /\ UNCHANGED <<recency, roots, table, alive, guards>>
    BY ZenonT(60), <1>0, <1>1 DEF Publish, Typed, Thread
  <2>2. /\ th[t].pc = "publish" /\ th[t].owns /\ th[t].pin \in Buffers /\ th[t].pin \in Live
        /\ th[t].page \in Pages /\ th[t].page \in inflight
    BY ZenonT(60), <1>0, <1>1 DEF Publish, Shape, Thread, Loading, Reclaiming, Ledger, Owned
  <2>3. /\ cache' \in [Pages -> Buffers \cup {None}]
        /\ \A p \in Pages : cache'[p] \in {None, cache[p], th[t].pin}
        /\ \A p \in Pages : p # th[t].page => cache'[p] \in {None, cache[p]}
    BY ZenonT(60), <1>0, <1>1, <2>2 DEF Publish, Typed
  <2>4. y \in Thread /\ Shape(y)
    <3>1. y \in Thread
      BY ZenonT(60), <1>0 DEF Thread, Labels
    <3>2. Shape(y)
      BY ZenonT(60), <1>0, <2>2 DEF Shape, Needs, Thread, Reclaiming, Loading, Resolving
    <3> QED  BY ZenonT(60), <3>1, <3>2
  <2>5. y.pin = th[t].pin /\ ~y.owns /\ y.chg = th[t].chg /\ y.page = th[t].page
    BY ZenonT(60), <1>0 DEF Thread
  <2>6. th'[t] = y /\ \A u \in Threads : u # t => th'[u] = th[u]
    BY ZenonT(60), <1>0, <2>1 DEF Typed
  <2>7. Live' \subseteq Live
    <3>1. \A u \in Threads : th'[u].pin \in Live \cup {None}
      BY ZenonT(60), <1>0, <2>5, <2>6, LiveNow
    <3>2. \A p \in Pages : cache'[p] \in Live \cup {None}
      BY ZenonT(60), <1>0, <2>2, <2>3, LiveNow
    <3> QED  BY ZenonT(60), <1>0, <2>1, <3>1, <3>2, LiveNow, LiveKept
  <2>8. Ledger'
    <3> HIDE DEF y
    <3> QED  BY ZenonT(60), <1>0, <2>1, <2>2, <2>3, <2>4, <2>5, <2>7, ThreadStep DEF Typed
  <2>9. Resident' = Resident /\ Cached' \cup inflight' \subseteq Cached \cup inflight
    BY ZenonT(60), <2>1, <2>2, <2>3 DEF Resident, Chunks, Cached, Pages, StoredBytes
  <2>10. table'.book <= table.book
    BY SMTT(40), <1>0, <2>1 DEF Typed
  <2> HIDE DEF y
  <2> QED  BY ZenonT(60), <2>5, <2>6, <2>7, <2>8, <2>9, <2>10, Shrinks
<1>2. ASSUME NEW p \in Pages, EvictPage(t, p) PROVE IInv'
  <2> DEFINE y == [th[t] EXCEPT !.freed = @ + BufferBytes(p)]
  <2>1. /\ th' = [th EXCEPT ![t] = y] /\ cache' = [cache EXCEPT ![p] = None]
        /\ UNCHANGED <<inflight, recency, roots, table, alive, guards>>
    BY ZenonT(60), <1>0, <1>2 DEF EvictPage, Typed, Thread
  <2>2. BufferBytes(p) \in Nat /\ th[t].freed + BufferBytes(p) \in Nat
    <3>1. BufferBytes(p) \in Nat
      BY ZenonT(60), <1>0, Sizes, Names DEF Typed, Pages, StoredBytes
    <3> QED  BY SMTT(40), <1>0, <3>1 DEF Thread
  <2>3. y \in Thread
    BY ZenonT(60), <1>0, <2>2 DEF Thread
  <2>4. Shape(y)
    BY <1>0 DEF Shape, Needs, Thread
  <2>5. /\ y.pin = th[t].pin /\ y.owns = th[t].owns /\ y.chg = th[t].chg /\ y.page = th[t].page
        /\ y.pc = th[t].pc
    BY ZenonT(60), <1>0 DEF Thread
  <2>6. th'[t] = y /\ \A u \in Threads : u # t => th'[u] = th[u]
    BY ZenonT(60), <1>0, <2>1 DEF Typed
  <2>7. Live' \subseteq Live
    <3>1. \A u \in Threads : th'[u].pin \in Live \cup {None}
      BY ZenonT(60), <1>0, <2>5, <2>6, LiveNow
    <3>2. \A q \in Pages : cache'[q] \in Live \cup {None}
      BY ZenonT(60), <1>0, <2>1, LiveNow DEF Typed
    <3> QED  BY ZenonT(60), <1>0, <2>1, <3>1, <3>2, LiveNow, LiveKept
  <2>8. Ledger'
    <3>1. th[t].owns => th[t].page \in inflight
                         /\ (th[t].pc # "publish" => \E g \in 1..Generations : <<th[t].page, g>> \notin Live')
      BY ZenonT(60), <1>0, <2>7 DEF Ledger, Owned
    <3>2. cache' \in [Pages -> Buffers \cup {None}]
      BY ZenonT(60), <1>0, <2>1 DEF Typed
    <3> HIDE DEF y
    <3> QED  BY ZenonT(60), <1>0, <2>1, <2>3, <2>4, <2>5, <2>7, <3>1, <3>2, ThreadStep DEF Typed
  <2>9. Resident' = Resident /\ Cached' \cup inflight' \subseteq Cached \cup inflight
    BY ZenonT(60), <1>0, <2>1 DEF Resident, Chunks, Cached, Pages, StoredBytes, Typed
  <2>10. table'.book <= table.book
    BY SMTT(40), <1>0, <2>1 DEF Typed
  <2> HIDE DEF y
  <2> QED  BY ZenonT(60), <2>5, <2>6, <2>7, <2>8, <2>9, <2>10, Shrinks
<1> QED  BY ZenonT(60), <1>1, <1>2

\* The marker goes in: the reservation of the call becomes the entry's.
LEMMA ClaimStep ==
    ASSUME IInv, NEW t \in Threads, db' = db, Claim(t)
    PROVE  IInv'
<1> DEFINE y == [th[t] EXCEPT !.pc = "offset", !.ord = th[t].page, !.to = "length",
                              !.chg = @ \ {"slot"}, !.owns = TRUE]
           p == th[t].page
<1>0. Typed /\ Ledger /\ th[t] \in Thread /\ Shape(th[t]) /\ th[t].pin \in Live \cup {None}
       /\ Pages \subseteq Nat /\ db \in Databases
  BY ZenonT(60), Before DEF Typed
<1>1. /\ th' = [th EXCEPT ![t] = y] /\ inflight' = inflight \cup {p}
      /\ UNCHANGED <<cache, recency, roots, table, alive, guards>>
  BY ZenonT(60), <1>0 DEF Claim, Typed, Thread
<1>2. /\ th[t].pc = "claim" /\ p \in Pages /\ p \notin inflight /\ "slot" \in th[t].chg
      /\ \E g \in 1..Generations : <<p, g>> \notin Live
  BY ZenonT(60), <1>0 DEF Claim, Absent, Shape, Needs, Reclaiming
<1>3. y \in Thread
  BY ZenonT(60), <1>0, <1>2 DEF Thread, Labels, Loading, Resolving
<1>4. Shape(y)
  BY SMTT(60), <1>0, <1>2 DEF Shape, Needs, Thread, Reclaiming, Loading, Resolving
<1>5. /\ y.pin = th[t].pin /\ y.chg = th[t].chg \ {"slot"} /\ y.page = p /\ y.pc = "offset"
  BY ZenonT(60), <1>0 DEF Thread
<1>6. th'[t] = y /\ \A u \in Threads : u # t => th'[u] = th[u]
  BY ZenonT(60), <1>0, <1>1 DEF Typed
<1> HIDE DEF y, p
<1>7. Live' \subseteq Live
  <2>1. \A u \in Threads : th'[u].pin \in Live \cup {None}
    BY ZenonT(60), <1>0, <1>5, <1>6, LiveNow
  <2> QED  BY ZenonT(60), <1>0, <1>1, <2>1, LiveNow, LiveKept
<1>8. Ledger'
  <2>1. inflight' \in SUBSET Pages
    BY ZenonT(60), <1>0, <1>1, <1>2 DEF Typed
  <2>2. \E g \in 1..Generations : <<y.page, g>> \notin Live'
    BY ZenonT(60), <1>2, <1>5, <1>7
  <2> QED  BY ZenonT(60), <1>0, <1>1, <1>2, <1>3, <1>4, <1>5, <1>7, <2>1, <2>2, ThreadStep DEF Typed, p
<1>9. Resident' = Resident /\ Cached' \cup inflight' \subseteq (Cached \cup inflight) \cup {p}
  BY ZenonT(60), <1>1 DEF Resident, Chunks, Cached, Pages, StoredBytes
<1>10. Numbers /\ SlotBytes \in Nat /\ table'.book = table.book
  BY ZenonT(60), <1>0, <1>1, InUseNat, PageStoreAssumption
<1>11. /\ LiveSum(db, Live') <= LiveSum(db, Live) + 0
       /\ ChunkSum(Resident') <= ChunkSum(Resident) + 0
       /\ SlotSum(Cached' \cup inflight') <= SlotSum(Cached \cup inflight) + SlotBytes
  <2>1. IsFiniteSet(Live) /\ (\A b \in Live : b[1] \in DOMAIN db.stored) /\ IsFiniteSet(Cached \cup inflight)
    BY ZenonT(60), <1>0, FiniteSets, LiveNow
  <2>2. LiveSum(db, Live') <= LiveSum(db, Live)
    BY ZenonT(60), <1>0, <1>7, <2>1, LiveChanged
  <2>3. SlotSum(Cached' \cup inflight') <= SlotSum(Cached \cup inflight) + SlotBytes
    BY ZenonT(60), <1>9, <1>10, <2>1, Times DEF SlotSum
  <2> QED  BY SMTT(40), <1>9, <1>10, <2>2, <2>3 DEF Numbers
<1>12. HeldIn(db, th'[t].page, th'[t].chg) + 0 + 0 + SlotBytes + table'.book
         <= HeldIn(db, th[t].page, th[t].chg) + table.book + 0
  <2>1. Fits(db, p, th[t].chg) /\ Fits(db, p, th[t].chg \ {"slot"})
    BY ZenonT(60), <1>0, ThreadFits DEF Fits, p
  <2>2. HeldIn(db, p, th[t].chg) = SizeIn(db, p, "slot") + HeldIn(db, p, th[t].chg \ {"slot"})
    BY SMTT(60), <1>0, <1>2, <2>1, HeldOneLess
  <2>3. SizeIn(db, p, "slot") = SlotBytes
    BY ZenonT(60) DEF SizeIn
  <2>4. HeldIn(db, p, th[t].chg \ {"slot"}) \in Nat
    BY ZenonT(60), <1>0, <2>1, HeldNat
  <2>5. HeldIn(db, th'[t].page, th'[t].chg) = HeldIn(db, p, th[t].chg \ {"slot"})
          /\ HeldIn(db, th[t].page, th[t].chg) = HeldIn(db, p, th[t].chg)
    BY ZenonT(60), <1>5, <1>6 DEF p
  <2> QED  BY SMTT(60), <1>10, <2>2, <2>3, <2>4, <2>5 DEF Numbers
<1>13. InUse + 0 <= Limit
  BY <1>10 DEF IInv, Numbers
<1> QED  BY ZenonT(60), <1>6, <1>8, <1>10, <1>11, <1>12, <1>13, Balance

=============================================================================
