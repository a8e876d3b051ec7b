----------------------------- MODULE TreeProofs -----------------------------
(***************************************************************************)
(* Two promises about a tree, of the writer and of a verification pass.    *)
(*                                                                         *)
(* Rows that append accepted are always built, for every page size, length *)
(* of key and value and number of rows the depth allows.  Two things could *)
(* stop the writer.  A page may outgrow the page size: Fits says no page   *)
(* in the making ever does, Room and Asked that an entry is only added     *)
(* where there is room for it.  The tree may grow too deep: Shrinks counts *)
(* the entries every level was given, of which a page of separators takes  *)
(* two and the leaf one, but for the last page of a level that finish      *)
(* writes, so that each level was given about half the entries of the one  *)
(* below.                                                                  *)
(*                                                                         *)
(* A pass that returns Ok has said all it found: whatever a step of it     *)
(* comes to, Honest says of the report it goes on with.                    *)
(***************************************************************************)
EXTENDS Verify, WellFoundedInduction, SequenceTheorems, TLAPS

\* A set of natural numbers that is not empty has a least member.
LEMMA Least ==
    ASSUME NEW T \in SUBSET Nat, T # {}
    PROVE  \E n \in T : \A m \in T : n <= m
<1>1. PICK n \in T : \A m \in T : ~(<<m, n>> \in OpToRel(<, Nat))
  BY ZenonT(60), WFMin, NatLessThanWellFounded
<1>2. \A m \in T : ~(m < n)
  BY ZenonT(60), <1>1 DEF OpToRel
<1> QED  BY <1>2

-----------------------------------------------------------------------------
\* Lists whose members only matter one by one.

List(s) == s \in Seq({s[i] : i \in DOMAIN s})

\* A list has a length, and its places are counted from one.
LEMMA ListLen ==
    ASSUME NEW s, List(s)
    PROVE  Len(s) \in Nat /\ DOMAIN s = 1..Len(s)
BY ZenonT(60), LenProperties DEF List

\* A sequence is a list.
LEMMA ListOf ==
    ASSUME NEW S, NEW s \in Seq(S)
    PROVE  List(s)
<1>1. Len(s) \in Nat /\ DOMAIN s = 1..Len(s) /\ s \in [1..Len(s) -> S]
  BY ZenonT(60), LenProperties
<1>2. s = [i \in 1..Len(s) |-> s[i]]
  BY ZenonT(60), <1>1
<1>3. [i \in 1..Len(s) |-> s[i]] \in Seq({s[i] : i \in DOMAIN s})
  BY <1>1, IsASeq
<1> QED  BY ZenonT(60), <1>2, <1>3 DEF List

\* What Append makes of it: one member is added at the end.
Longer(s, x, t) ==
    List(t) /\ Len(t) = Len(s) + 1 /\ t[Len(s) + 1] = x /\ \A i \in 1..Len(s) : t[i] = s[i]

\* Append is such a step.
LEMMA ListAppend ==
    ASSUME NEW s, List(s), NEW x
    PROVE  Longer(s, x, Append(s, x))
<1>1. PICK S : s \in Seq(S) /\ x \in S
  <2> DEFINE T == {s[i] : i \in DOMAIN s} \cup {x}
  <2>1. s \in Seq(T) /\ x \in T
    BY ZenonT(60), SeqMonotonic DEF List
  <2> QED  BY ZenonT(60), <2>1
<1>2. Append(s, x) \in Seq(S)
  BY ZenonT(60), <1>1, AppendProperties
<1>3. /\ Len(Append(s, x)) = Len(s) + 1
      /\ \A i \in 1..Len(s) : Append(s, x)[i] = s[i]
      /\ Append(s, x)[Len(s) + 1] = x
  BY <1>1, AppendProperties
<1> QED  BY ZenonT(60), <1>2, <1>3, ListOf DEF Longer

\* What EXCEPT makes of it: one member is changed.
Changed(s, k, x, t) ==
    List(t) /\ Len(t) = Len(s) /\ t[k] = x /\ \A i \in 1..Len(s) : i # k => t[i] = s[i]

\* EXCEPT is such a step.
LEMMA ListExcept ==
    ASSUME NEW s, List(s), NEW k \in 1..Len(s), NEW x
    PROVE  Changed(s, k, x, [s EXCEPT ![k] = x])
<1>1. PICK S : s \in Seq(S) /\ x \in S
  <2> DEFINE T == {s[i] : i \in DOMAIN s} \cup {x}
  <2>1. s \in Seq(T) /\ x \in T
    BY ZenonT(60), SeqMonotonic DEF List
  <2> QED  BY ZenonT(60), <2>1
<1> DEFINE t == [s EXCEPT ![k] = x]
<1>2. t \in Seq(S) /\ Len(t) = Len(s) /\ \A i \in 1..Len(s) : t[i] = IF i = k THEN x ELSE s[i]
  BY <1>1, ExceptSeq
<1> HIDE DEF t
<1>3. Changed(s, k, x, t)
  BY ZenonT(60), <1>2, ListOf DEF Changed
<1> QED  BY ZenonT(60), <1>3 DEF t

\* What SubSeq makes of it: the last member is left out.
Shorter(s, t) ==
    List(t) /\ Len(t) = Len(s) - 1 /\ \A i \in 1..(Len(s) - 1) : t[i] = s[i]

\* SubSeq up to the last but one is such a step.
LEMMA ListFront ==
    ASSUME NEW s, List(s), Len(s) > 0
    PROVE  Shorter(s, SubSeq(s, 1, Len(s) - 1))
<1>1. Len(s) \in Nat /\ DOMAIN s = 1..Len(s)
  BY ZenonT(60), ListLen
<1>2. PICK S : \A i \in 1..(Len(s) - 1) : s[i] \in S
  <2>1. \A i \in 1..(Len(s) - 1) : s[i] \in {s[j] : j \in DOMAIN s}
    BY <1>1
  <2> QED  BY ZenonT(60), <2>1
<1>3. /\ SubSeq(s, 1, Len(s) - 1) \in Seq(S)
      /\ Len(SubSeq(s, 1, Len(s) - 1)) = IF 1 <= Len(s) - 1 THEN Len(s) - 1 - 1 + 1 ELSE 0
      /\ \A i \in 1..(Len(s) - 1 - 1 + 1) : SubSeq(s, 1, Len(s) - 1)[i] = s[1 + i - 1]
  <2>1. 1 \in Int /\ Len(s) - 1 \in Int
    BY <1>1
  <2> QED  BY <1>2, <2>1, SubSeqProperties
<1>4. List(SubSeq(s, 1, Len(s) - 1))
  BY ZenonT(60), <1>3, ListOf
<1>5. Len(s) - 1 - 1 + 1 = Len(s) - 1 /\ \A i \in 1..(Len(s) - 1) : 1 + i - 1 = i
  BY <1>1
<1>6. Len(SubSeq(s, 1, Len(s) - 1)) = Len(s) - 1
  BY <1>1, <1>3
<1> QED  BY ZenonT(60), <1>3, <1>4, <1>5, <1>6 DEF Shorter

-----------------------------------------------------------------------------
\* Powers of two.

\* What the definition by recursion says of the first n of them.
Powers(n) ==
    {f \in [0..n -> Nat] : f[0] = 1 /\ \A k \in 1..n : f[k] = 2 * f[k - 1]}

\* There is one such function for every n.
LEMMA PowersAgree ==
    ASSUME NEW m \in Nat, NEW n \in Nat, NEW f \in Powers(m), NEW g \in Powers(n), NEW k \in 0..m, k <= n
    PROVE  f[k] = g[k]
<1> DEFINE Bad == {i \in Nat : i <= m /\ i <= n /\ f[i] # g[i]}
<1>1. SUFFICES ASSUME Bad # {} PROVE FALSE
  BY SMT
<1>2. PICK i \in Bad : \A j \in Bad : i <= j
  BY ZenonT(60), <1>1, Least
<1>3. i # 0
  BY DEF Powers
<1>4. f[i] = 2 * f[i - 1] /\ g[i] = 2 * g[i - 1]
  BY <1>3 DEF Powers
<1>5. i - 1 \notin Bad /\ i - 1 \in Nat
  BY <1>2, <1>3
<1> QED  BY <1>2, <1>4, <1>5

\* And every n has one.
LEMMA PowersExist ==
    ASSUME NEW n \in Nat
    PROVE  Powers(n) # {}
<1> DEFINE Bad == {i \in Nat : Powers(i) = {}}
<1>1. SUFFICES ASSUME Bad # {} PROVE FALSE
  BY ZenonT(60)
<1>2. PICK i \in Bad : \A j \in Bad : i <= j
  BY ZenonT(60), <1>1, Least
<1>3. i # 0
  <2>1. [k \in 0..0 |-> 1] \in Powers(0)
    BY DEF Powers
  <2> QED  BY ZenonT(60), <2>1
<1>4. PICK f : f \in Powers(i - 1)
  BY <1>2, <1>3
<1> DEFINE g == [k \in 0..i |-> IF k = i THEN 2 * f[i - 1] ELSE f[k]]
<1>5. /\ i - 1 \in Nat /\ 0 \in 0..(i - 1) /\ i - 1 \in 0..(i - 1) /\ 0 # i /\ i \in 0..i /\ 0 \in 0..i
      /\ \A k \in 0..i : k # i => k \in 0..(i - 1)
      /\ \A k \in 1..i : k # i => k \in 1..(i - 1) /\ k - 1 # i
      /\ \A k \in 1..i : k \in 0..i /\ k - 1 \in 0..i /\ k - 1 # i
  BY <1>3
<1>6. f \in [0..(i - 1) -> Nat] /\ f[0] = 1 /\ \A k \in 1..(i - 1) : f[k] = 2 * f[k - 1]
  BY ZenonT(60), <1>4 DEF Powers
<1>7. 2 * f[i - 1] \in Nat
  BY <1>5, <1>6
<1>8. g \in [0..i -> Nat] /\ g[0] = 1
  BY ZenonT(60), <1>5, <1>6, <1>7
<1>9. \A k \in 1..i : g[k] = 2 * g[k - 1]
  BY ZenonT(60), <1>5, <1>6
<1>10. g \in Powers(i)
  BY ZenonT(60), <1>8, <1>9 DEF Powers
<1> QED  BY ZenonT(60), <1>10

\* power_of_two is what its definition says.
LEMMA PowerIs ==
    /\ power_of_two \in [Nat -> Nat]
    /\ power_of_two[0] = 1
    /\ \A k \in Nat : power_of_two[k + 1] = 2 * power_of_two[k]
<1> DEFINE f == [k \in Nat |-> (CHOOSE g : g \in Powers(k))[k]]
<1>1. \A k \in Nat : (CHOOSE g : g \in Powers(k)) \in Powers(k)
  BY ZenonT(60), PowersExist
<1>2. \A k \in Nat : f[k] \in Nat
  BY <1>1 DEF Powers
<1>3. f[0] = 1
  BY ZenonT(60), <1>1 DEF Powers
<1>4. ASSUME NEW k \in Nat, k # 0 PROVE f[k] = 2 * f[k - 1]
  <2> DEFINE g == CHOOSE h : h \in Powers(k)
  <2> DEFINE d == CHOOSE h : h \in Powers(k - 1)
  <2>1. k - 1 \in Nat /\ g \in Powers(k) /\ d \in Powers(k - 1)
    BY <1>1, <1>4
  <2>2. d[k - 1] = g[k - 1]
    <3> HIDE DEF g, d
    <3>1. k - 1 \in 0..(k - 1) /\ k - 1 <= k
      BY <1>4
    <3> QED  BY ZenonT(60), <2>1, <3>1, PowersAgree
  <2>3. g[k] = 2 * g[k - 1]
    <3> HIDE DEF g, d
    <3> QED  BY <2>1, <1>4 DEF Powers
  <2>4. f[k] = g[k] /\ f[k - 1] = d[k - 1]
    BY ZenonT(60), <2>1
  <2> QED  BY ZenonT(60), <2>2, <2>3, <2>4
<1>5. f = [k \in Nat |-> IF k = 0 THEN 1 ELSE 2 * f[k - 1]]
  <2>1. f = [k \in Nat |-> f[k]]
    BY SMT
  <2> HIDE DEF f
  <2>2. \A k \in Nat : f[k] = IF k = 0 THEN 1 ELSE 2 * f[k - 1]
    BY ZenonT(60), <1>3, <1>4
  <2> QED  BY ZenonT(60), <2>1, <2>2
<1> HIDE DEF f
<1>6. power_of_two = [k \in Nat |-> IF k = 0 THEN 1 ELSE 2 * power_of_two[k - 1]]
  BY ZenonT(60), <1>5 DEF power_of_two
<1>7. power_of_two[0] = 1 /\ \A k \in Nat : k # 0 => power_of_two[k] = 2 * power_of_two[k - 1]
  BY ZenonT(60), <1>6
<1>8. \A k \in Nat : power_of_two[k + 1] = 2 * power_of_two[k]
  <2>1. \A k \in Nat : k + 1 \in Nat /\ k + 1 # 0 /\ (k + 1) - 1 = k
    BY SMT
  <2> QED  BY ZenonT(60), <1>7, <2>1
<1>9. \A k \in Nat : power_of_two[k] \in Nat
  <2> DEFINE Bad == {i \in Nat : power_of_two[i] \notin Nat}
  <2>1. SUFFICES ASSUME Bad # {} PROVE FALSE
    BY ZenonT(60)
  <2>2. PICK i \in Bad : \A j \in Bad : i <= j
    BY ZenonT(60), <2>1, Least
  <2>3. i # 0 /\ i - 1 \in Nat /\ i - 1 \notin Bad
    BY <1>7, <2>2
  <2> QED  BY <1>7, <2>2, <2>3
<1> QED  BY ZenonT(60), <1>6, <1>7, <1>8, <1>9

-----------------------------------------------------------------------------
\* The length of a page.

\* There is a complete tree of n to 2 * n nodes.
LEMMA Between ==
    ASSUME NEW n \in Nat
    PROVE  \E k \in 0..n : power_of_two[k] - 1 \in n..(2 * n)
<1> DEFINE Bad == {i \in Nat : ~ \E k \in 0..i : power_of_two[k] - 1 \in i..(2 * i)}
<1>1. SUFFICES ASSUME Bad # {} PROVE FALSE
  BY ZenonT(60)
<1>2. PICK i \in Bad : \A j \in Bad : i <= j
  BY ZenonT(60), <1>1, Least
<1>3. i # 0
  <2>1. 0 \in 0..0 /\ power_of_two[0] - 1 \in 0..(2 * 0)
    BY PowerIs
  <2> QED  BY ZenonT(60), <2>1
<1>4. i - 1 \in Nat /\ i - 1 \notin Bad
  BY <1>2, <1>3
<1>5. PICK k \in 0..(i - 1) : power_of_two[k] - 1 \in (i - 1)..(2 * (i - 1))
  BY ZenonT(60), <1>4
<1>6. k \in Nat /\ k \in 0..i /\ k + 1 \in 0..i /\ power_of_two[k] \in Nat /\ power_of_two[k + 1] = 2 * power_of_two[k]
  BY <1>3, <1>5, PowerIs
<1>7. power_of_two[k] - 1 \in i..(2 * i) \/ power_of_two[k + 1] - 1 \in i..(2 * i)
  BY <1>3, <1>5, <1>6
<1> QED  BY ZenonT(60), <1>6, <1>7

\* complete_size is the size of one.
LEMMA CompleteSize ==
    ASSUME NEW n \in Nat
    PROVE  complete_size(n) \in {power_of_two[k] - 1 : k \in 0..n} \cap n..(2 * n)
<1> DEFINE C == {power_of_two[k] - 1 : k \in 0..n} \cap n..(2 * n)
<1>1. C \in SUBSET Nat
  BY SMT
<1>2. C # {}
  BY ZenonT(60), Between
<1>3. \E m \in C : \A j \in C : m <= j
  BY ZenonT(60), <1>1, <1>2, Least
<1> HIDE DEF C
<1>4. Min(C) \in C
  BY ZenonT(60), <1>3 DEF Min
<1> QED  BY ZenonT(60), <1>4 DEF complete_size, C

\* The sizes for no entry, one and two.
LEMMA SmallSizes ==
    /\ \A n \in Nat : complete_size(n) \in Nat
    /\ complete_size(0) = 0 /\ complete_size(1) = 1 /\ complete_size(2) = 3
<1>1. \A n \in Nat : complete_size(n) \in n..(2 * n)
  BY ZenonT(60), CompleteSize
<1>2. power_of_two[0] = 1 /\ power_of_two[1] = 2 /\ power_of_two[2] = 4
  <2>1. power_of_two[0] = 1 /\ power_of_two[0 + 1] = 2 * power_of_two[0] /\ power_of_two[1 + 1] = 2 * power_of_two[1]
    BY ZenonT(60), PowerIs
  <2> QED  BY <2>1
<1>3. PICK k \in 0..1 : complete_size(1) = power_of_two[k] - 1
  BY ZenonT(60), CompleteSize
<1>4. PICK j \in 0..2 : complete_size(2) = power_of_two[j] - 1
  BY ZenonT(60), CompleteSize
<1>5. complete_size(1) = 1
  BY <1>1, <1>2, <1>3
<1>6. complete_size(2) = 3
  BY <1>1, <1>2, <1>4
<1> QED  BY <1>1, <1>5, <1>6

\* The settings a tree is built with.
Settings == config \in Configs /\ layout = LayoutOf(config)

\* The part of a page before its keys and values.
Fixed(l, n) == PAGE_PREFIX_LEN + digest_area(n) + (IF l = 1 THEN leaf_meta(n) ELSE internal_meta(n))

\* A page's length is the length of that part and of the rest; an empty page fits, and
\* where two separators fit one does.
LEMMA Lengths ==
    ASSUME Settings
    PROVE  /\ \A l, n, p : page_len(l, n, p) = Fixed(l, n) + p
           /\ \A l, n, p : l # 1 => page_len(l, n, p) = page_len(2, n, p)
           /\ \A l : \A n \in Nat : Fixed(l, n) \in Nat
           /\ \A l : Fixed(l, 0) <= config.page_size
           /\ Fixed(2, 1) <= Fixed(2, 2)
           /\ stored_key_len \in Nat /\ config.page_size \in Nat
<1>1. config \in ConfigType /\ config.page_size >= 60
  BY ConfigAssumption DEF Settings, PAGE_PREFIX_LEN
<1>2. config.page_size \in Nat /\ config.key_len \in Nat
  BY ZenonT(60), <1>1 DEF ConfigType
<1>3. stored_key_len \in Nat
  BY <1>2 DEF stored_key_len
<1>4. \A n \in Nat : digest_area(n) \in Nat /\ leaf_meta(n) \in Nat /\ internal_meta(n) \in Nat
  BY SmallSizes DEF digest_area, leaf_meta, internal_meta
<1>5. digest_area(0) = 0 /\ leaf_meta(0) <= 2 /\ internal_meta(0) <= 2
  BY SmallSizes DEF digest_area, leaf_meta, internal_meta
<1>6. digest_area(1) <= digest_area(2) /\ internal_meta(1) <= internal_meta(2)
  BY SmallSizes DEF digest_area, internal_meta
<1>7. \A l, n, p : page_len(l, n, p) = Fixed(l, n) + p
  BY ZenonT(60) DEF page_len, Fixed
<1>8. \A l, n, p : l # 1 => page_len(l, n, p) = page_len(2, n, p)
  BY SMT DEF page_len
<1>9. \A l : \A n \in Nat : Fixed(l, n) \in Nat
  BY <1>4 DEF Fixed, PAGE_PREFIX_LEN
<1>10. \A l : Fixed(l, 0) <= config.page_size
  BY <1>1, <1>2, <1>4, <1>5 DEF Fixed, PAGE_PREFIX_LEN
<1>11. Fixed(2, 1) <= Fixed(2, 2)
  BY <1>4, <1>6 DEF Fixed, PAGE_PREFIX_LEN
<1> QED  BY ZenonT(60), <1>2, <1>3, <1>7, <1>8, <1>9, <1>10, <1>11

-----------------------------------------------------------------------------
\* The inductive invariant, for a tree whose rows append checked.

\* What is known of a record whose fields only matter one by one.
LevelRecord(lv) ==
    lv = [entries |-> lv.entries, payload |-> lv.payload, first |-> lv.first, prev |-> lv.prev, extras |-> lv.extras]

FrameRecord(f) ==
    f = [level |-> f.level, page |-> f.page, asked |-> f.asked, promote |-> f.promote, then |-> f.then]

Size(l) == Len(levels[l].entries)

\* No entries yet, in a page or in the making, so that the key was not looked at.
Untouched == Len(levels) = 1 /\ Size(1) = 0 /\ pc \in {"ready", "finish", "rotate", "built"}

\* finish was called.
Ending == pc \in {"finish", "built"} \/ (pc = "rotate" /\ frames[1].then \in {"finish", "built"})

\* A row is on its way to the leaf.
Pushing == pc = "add" \/ (pc = "rotate" /\ frames[1].then = "add")

\* Pages in the making, one per level.
Levels(lvs) ==
    /\ List(lvs) /\ Len(lvs) \in 1..MAX_LEVELS
    /\ \A l \in 1..Len(lvs) : LevelRecord(lvs[l]) /\ List(lvs[l].entries) /\ lvs[l].payload \in Nat

Types ==
    /\ Settings /\ Levels(levels)
    /\ pc \in {"ready", "add", "rotate", "finish", "built"}
    /\ rows \subseteq Keys
    /\ Pushing => row.key \in Keys /\ row.len \in Nat /\ \A r \in rows : r < row.key

\* Every page in the making fits, and a page of one separator is no longer than that.
FitIn(lvs) ==
    \A l \in 1..Len(lvs) :
        /\ page_len(l, Len(lvs[l].entries), lvs[l].payload) <= config.page_size
        /\ Len(lvs[l].entries) = 0 => lvs[l].payload = 0
        /\ l > 1 /\ Len(lvs[l].entries) = 1 => lvs[l].payload = stored_key_len + ORDINAL_LEN

Fits == FitIn(levels)

\* A row about to be added has room on the leaf, if only for a reference to its value.
Room ==
    pc = "add" => \/ inline_needs(row.len) <= config.page_size
                  \/ inline_needs(ORDINAL_LEN) <= config.page_size
                  \/ Size(1) = 0

\* The calls of rotate climb a level at a time from the one push or finish made.  One that
\* waits has asked; all but the outermost write a page of two separators or more.
Stack ==
    /\ List(frames) /\ (pc = "rotate" <=> Len(frames) > 0)
    /\ \A i \in 1..Len(frames) :
          /\ FrameRecord(frames[i])
          /\ frames[i].level = frames[1].level + i - 1
          /\ frames[i].level \in 1..Len(levels)
          /\ frames[i].then = frames[1].then
          /\ frames[i].promote => Size(frames[i].level) > 0
          /\ i > 1 => frames[i].promote /\ Size(frames[i].level) > 1
          /\ i < Len(frames) => frames[i].asked = TRUE

Outermost ==
    pc = "rotate" =>
        \/ frames[1].promote = TRUE /\ frames[1].then \in {"add", "ready"} /\ frames[1].level = 1
        \/ /\ frames[1].promote = TRUE /\ frames[1].then = "finish"
           /\ frames[1].level < Len(levels)
           /\ \A l \in 1..(frames[1].level - 1) : Size(l) = 0
        \/ /\ frames[1].promote = FALSE /\ frames[1].then = "built" /\ frames[1].page = None
           /\ Len(frames) = 1 /\ frames[1].level = Len(levels)

\* A call whose parent was written for it finds the parent empty.
Asked ==
    LET f == frames[Len(frames)]
    IN  pc = "rotate" /\ f.asked => f.level < Len(levels) /\ Size(f.level + 1) = 0

\* p[l] bounds the entries level l was ever given.
Shrinks(p, l) ==
    \/ l = 1 /\ p[2] + Size(1) <= p[1]
    \/ l > 1 /\ p[l + 1] + p[l + 1] + Size(l) <= p[l]
    \/ /\ l > 1 /\ Ending
       /\ \A k \in 1..l : Size(k) = 0
       /\ p[l + 1] + p[l + 1] <= p[l] + 1

Given(p) ==
    /\ p[1] = 0 \/ \E r \in rows : p[1] <= r
    /\ Size(Len(levels)) <= p[Len(levels)]
    /\ \A l \in 1..(Len(levels) - 1) : Shrinks(p, l)

Tapers == \E p \in [1..Len(levels) -> 0..MaxKey] : Given(p)

Good ==
    /\ Types /\ Fits /\ Room /\ Stack /\ Outermost /\ Asked /\ Tapers
    /\ check_key_fits \/ Untouched

\* What push and begin_page refuse, rows that append accepted or not.
Refused == pc = "failed" /\ (row.len > MAX_I32 \/ ~HasRoom)

Inv == config.table => Good \/ Refused

-----------------------------------------------------------------------------
\* What the invariant says of the next state.

\* The lengths of pages depend on the settings alone.
LEMMA Kept ==
    ASSUME config' = config, layout' = layout
    PROVE  /\ Fits' <=> FitIn(levels')
           /\ check_key_fits' <=> check_key_fits
           /\ Settings' <=> Settings
BY DEF Fits, FitIn, check_key_fits, Settings, page_len, digest_area, leaf_meta, internal_meta, stored_key_len,
                LayoutOf, choose_layout

\* A list of one member, and of none.
LEMMA Single ==
    ASSUME NEW x
    PROVE  List(<<x>>) /\ Len(<<x>>) = 1 /\ <<x>>[1] = x /\ List(<<>>) /\ Len(<<>>) = 0
<1>1. <<x>> \in Seq({x}) /\ <<>> \in Seq({x})
  BY SMT
<1>2. List(<<x>>) /\ List(<<>>)
  BY ZenonT(60), <1>1, ListOf
<1> QED  BY <1>2

\* A page with its first key noted, with an entry added, and an empty one.
LEMMA NamedIs ==
    ASSUME NEW lv, LevelRecord(lv), NEW k
    PROVE  /\ LevelRecord(Named(lv, k))
           /\ Named(lv, k).entries = lv.entries /\ Named(lv, k).payload = lv.payload
<1> QED  BY DEF LevelRecord, Named

\* Adding an entry appends it and counts the key's bytes and the value's.
LEMMA WithIs ==
    ASSUME NEW lv, LevelRecord(lv), NEW k, NEW e, NEW n
    PROVE  /\ LevelRecord(With(lv, k, e, n))
           /\ With(lv, k, e, n).entries = Append(lv.entries, e)
           /\ With(lv, k, e, n).payload = lv.payload + stored_key_len + n
<1> DEFINE nm == Named(lv, k)
<1>1. LevelRecord(nm) /\ nm.entries = lv.entries /\ nm.payload = lv.payload
  BY ZenonT(60), NamedIs
<1>2. With(lv, k, e, n) = [nm EXCEPT !.entries = Append(nm.entries, e), !.payload = nm.payload + stored_key_len + n]
  BY ZenonT(60) DEF With
<1> HIDE DEF nm
<1>3. With(lv, k, e, n) = [entries |-> Append(nm.entries, e), payload |-> nm.payload + stored_key_len + n,
                           first |-> nm.first, prev |-> nm.prev, extras |-> nm.extras]
  BY ZenonT(60), <1>1, <1>2 DEF LevelRecord
<1> QED  BY <1>1, <1>3 DEF LevelRecord

\* A page that was written starts again empty, and so does a new level.
LEMMA EmptyIs ==
    ASSUME NEW lv, NEW page
    PROVE  /\ LevelRecord(reset(lv, page)) /\ reset(lv, page).entries = <<>> /\ reset(lv, page).payload = 0
           /\ LevelRecord(NewLevel) /\ NewLevel.entries = <<>> /\ NewLevel.payload = 0
<1> QED  BY DEF LevelRecord, reset, NewLevel

\* Taking the extras leaves the entries.
LEMMA ExtrasIs ==
    ASSUME NEW lv, LevelRecord(lv), NEW x
    PROVE  /\ LevelRecord([lv EXCEPT !.extras = x])
           /\ [lv EXCEPT !.extras = x].entries = lv.entries /\ [lv EXCEPT !.extras = x].payload = lv.payload
<1>1. [lv EXCEPT !.extras = x] = [entries |-> lv.entries, payload |-> lv.payload, first |-> lv.first,
                                  prev |-> lv.prev, extras |-> x]
  BY DEF LevelRecord
<1> QED  BY <1>1 DEF LevelRecord

\* Adding a row does what adding an entry does.
LEMMA WithRowIs ==
    ASSUME NEW lv, LevelRecord(lv), NEW k, NEW e, NEW n
    PROVE  /\ LevelRecord(WithRow(lv, k, e, n))
           /\ WithRow(lv, k, e, n).entries = Append(lv.entries, e)
           /\ WithRow(lv, k, e, n).payload = lv.payload + stored_key_len + n
<1> DEFINE w == With(lv, k, e, n)
<1>1. LevelRecord(w) /\ w.entries = Append(lv.entries, e) /\ w.payload = lv.payload + stored_key_len + n
  BY WithIs
<1>2. WithRow(lv, k, e, n) = [w EXCEPT !.extras = Append(w.extras, k)]
  BY ZenonT(60) DEF WithRow
<1> HIDE DEF w
<1>3. PICK x : WithRow(lv, k, e, n) = [w EXCEPT !.extras = x]
  BY ZenonT(60), <1>2
<1> DEFINE z == [w EXCEPT !.extras = x]
<1>4. LevelRecord(z) /\ z.entries = w.entries /\ z.payload = w.payload
  BY ZenonT(60), <1>1, ExtrasIs
<1>5. WithRow(lv, k, e, n) = z
  BY ZenonT(60), <1>3
<1> HIDE DEF z
<1> QED  BY ZenonT(60), <1>1, <1>4, <1>5

\* A call that wrote its page, and one that waits for its parent to be written.
LEMMA FrameIs ==
    ASSUME NEW f, FrameRecord(f), NEW x
    PROVE  LET g == [f EXCEPT !.page = x]
               h == [f EXCEPT !.asked = TRUE]
           IN  /\ FrameRecord(g) /\ g.level = f.level /\ g.then = f.then /\ g.asked = f.asked /\ g.promote = f.promote
               /\ FrameRecord(h) /\ h.level = f.level /\ h.then = f.then /\ h.asked = TRUE /\ h.promote = f.promote
               /\ h.page = f.page
<1>1. [f EXCEPT !.page = x] =
          [level |-> f.level, page |-> x, asked |-> f.asked, promote |-> f.promote, then |-> f.then]
  BY DEF FrameRecord
<1>2. ASSUME NEW b
      PROVE  [f EXCEPT !.asked = b] =
                 [level |-> f.level, page |-> f.page, asked |-> b, promote |-> f.promote, then |-> f.then]
  BY DEF FrameRecord
<1>3. [f EXCEPT !.asked = TRUE] =
          [level |-> f.level, page |-> f.page, asked |-> TRUE, promote |-> f.promote, then |-> f.then]
  BY ZenonT(60), <1>2
<1> QED  BY <1>1, <1>3 DEF FrameRecord

\* A call of rotate from push or finish, and no call.
LEMMA Started ==
    ASSUME NEW l \in 1..Len(levels'), NEW promote \in BOOLEAN, NEW then,
           frames' = <<Rotate(l, promote, then)>>, pc' = "rotate", Len(levels') \in Nat,
           promote => Len(levels'[l].entries) > 0
    PROVE  /\ Stack' /\ Len(frames') = 1 /\ frames'[1].level = l
           /\ frames'[1].then = then /\ frames'[1].promote = promote
           /\ frames'[1].asked = FALSE /\ frames'[1].page = None
<1>1. List(frames') /\ Len(frames') = 1 /\ frames'[1] = Rotate(l, promote, then)
  BY ZenonT(60), Single
<1>2. /\ frames'[1].level = l /\ frames'[1].then = then /\ frames'[1].promote = promote
      /\ frames'[1].asked = FALSE /\ frames'[1].page = None /\ FrameRecord(frames'[1])
  BY <1>1 DEF Rotate, FrameRecord
<1>3. l = l + 1 - 1
  BY SMT
<1>4. ASSUME NEW i \in 1..Len(frames') PROVE i = 1 /\ ~(i > 1) /\ ~(i < Len(frames'))
  BY <1>1
<1>5. Stack'
  <2>1. pc' = "rotate" <=> Len(frames') > 0
    BY <1>1
  <2> QED  BY ZenonT(60), <1>1, <1>2, <1>3, <1>4, <2>1 DEF Stack, Size
<1> QED  BY ZenonT(60), <1>1, <1>2, <1>5

\* No call of rotate, so nothing to say of one.
LEMMA NotStarted ==
    ASSUME frames' = <<>>, pc' # "rotate"
    PROVE  Stack' /\ Outermost' /\ Asked'
<1>1. List(frames') /\ Len(frames') = 0
  BY ZenonT(60), Single
<1>2. 1..Len(frames') = {} /\ ~(Len(frames') > 0)
  BY <1>1
<1>3. Stack'
  BY ZenonT(60), <1>1, <1>2 DEF Stack
<1> QED  BY ZenonT(60), <1>3 DEF Outermost, Asked

-----------------------------------------------------------------------------
\* The invariant holds at the start.

\* An empty leaf, no call under way and no row.
LEMMA InitGood ==
    ASSUME Init
    PROVE  Good
<1>1. Settings
  BY ZenonT(60) DEF Init, Settings
<1>2. List(levels) /\ Len(levels) = 1 /\ levels[1] = NewLevel
  BY ZenonT(60), Single DEF Init
<1>3. LevelRecord(levels[1]) /\ levels[1].entries = <<>> /\ levels[1].payload = 0
  BY ZenonT(60), <1>2, EmptyIs
<1>4. List(levels[1].entries) /\ Len(levels[1].entries) = 0
  BY ZenonT(60), <1>3, Single
<1>5. \A l \in 1..Len(levels) : l = 1
  BY <1>2
<1>6. Levels(levels)
  <2>1. 1 \in 1..MAX_LEVELS /\ 0 \in Nat
    BY SizeAssumption
  <2> QED  BY ZenonT(60), <1>2, <1>3, <1>4, <1>5, <2>1 DEF Levels
<1>7. Types
  BY ZenonT(60), <1>1, <1>6 DEF Types, Init, Pushing
<1>8. Fits
  <2>1. page_len(1, 0, 0) = Fixed(1, 0) + 0 /\ Fixed(1, 0) <= config.page_size /\ Fixed(1, 0) \in Nat
    <3>1. 0 \in Nat
      BY SMT
    <3> QED  BY SMTT(60), <1>1, <3>1, Lengths
  <2>2. page_len(1, 0, 0) <= config.page_size /\ ~(1 > 1)
    BY <2>1
  <2> QED  BY ZenonT(60), <1>3, <1>4, <1>5, <2>2 DEF Fits, FitIn
<1>9. Room
  BY ZenonT(60) DEF Init, Room
<1>10. List(frames) /\ Len(frames) = 0
  BY ZenonT(60), Single DEF Init
<1>11. 1..Len(frames) = {} /\ ~(Len(frames) > 0)
  BY <1>10
<1>12. Stack /\ Outermost /\ Asked
  BY ZenonT(60), <1>10, <1>11 DEF Init, Stack, Outermost, Asked
<1>13. Tapers
  <2> DEFINE p == [l \in 1..Len(levels) |-> 0]
  <2>1. p \in [1..Len(levels) -> 0..MaxKey] /\ p[1] = 0
    BY <1>2, SizeAssumption
  <2>2. Given(p)
    BY <1>2, <1>4, <2>1 DEF Given, Size
  <2> QED  BY ZenonT(60), <2>1, <2>2 DEF Tapers
<1>14. Untouched
  BY ZenonT(60), <1>2, <1>4 DEF Untouched, Size, Init
<1> QED  BY ZenonT(60), <1>7, <1>8, <1>9, <1>12, <1>13, <1>14 DEF Good

-----------------------------------------------------------------------------
\* Every action keeps it.

\* It speaks of these variables alone.
LEMMA Same ==
    ASSUME config' = config, layout' = layout, levels' = levels, frames' = frames, rows' = rows, row' = row, pc' = pc
    PROVE  Good' <=> Good
BY DEF Good, Types, Settings, Levels, Pushing, Fits, FitIn, Room, inline_needs, needs, page_len, digest_area, leaf_meta,
       internal_meta, stored_key_len, Stack, Outermost, Asked, Tapers, Given, Shrinks, Size, Ending, check_key_fits,
       Untouched, LayoutOf, choose_layout

\* The levels and the rows stay, and finish is not called: so does what bounds the levels.
LEMMA TapersKept ==
    ASSUME Tapers, levels' = levels, rows' = rows, Ending => Ending'
    PROVE  Tapers'
<1>1. PICK p \in [1..Len(levels) -> 0..MaxKey] : Given(p)
  BY ZenonT(60) DEF Tapers
<1>2. \A l \in 1..(Len(levels) - 1) : Shrinks(p, l) => Shrinks(p, l)'
  BY ZenonT(60) DEF Shrinks, Size
<1>3. Given(p)'
  BY ZenonT(60), <1>1, <1>2 DEF Given, Size
<1> QED  BY ZenonT(60), <1>1, <1>3 DEF Tapers

\* push: the key was checked, so no row is refused for it; a leaf without room is written
\* first, and one that is not has room for the value or for a reference to it.
LEMMA PushKeeps ==
    ASSUME Good, config.table, NEW k \in Keys, NEW len \in config.values, ~(len > MAX_I32), Push(k, len)
    PROVE  Good'
<1>1. /\ config' = config /\ layout' = layout /\ levels' = levels /\ rows' = rows /\ pc = "ready"
      /\ check_key_fits /\ row' = [key |-> k, len |-> len] /\ \A r \in rows : r < k
  BY ZenonT(60) DEF Push
<1>2. Settings /\ Levels(levels) /\ rows \subseteq Keys
  BY ZenonT(60) DEF Good, Types
<1>3. Len(levels) \in Nat /\ 1 \in 1..Len(levels) /\ List(levels[1].entries)
  <2>1. Len(levels) \in 1..MAX_LEVELS
    BY ZenonT(60), <1>2 DEF Levels
  <2>2. Len(levels) \in Nat /\ 1 \in 1..Len(levels)
    BY <2>1, SizeAssumption
  <2> QED  BY ZenonT(60), <1>2, <2>2 DEF Levels
<1>4. Len(levels[1].entries) \in Nat
  BY ZenonT(60), <1>3, ListLen
<1>5. ~(page_len(1, 1, stored_key_len + ORDINAL_LEN) > config.page_size)
  <2>1. /\ page_len(1, 1, stored_key_len + ORDINAL_LEN) = Fixed(1, 1) + (stored_key_len + ORDINAL_LEN)
        /\ Fixed(1, 1) \in Nat /\ stored_key_len \in Nat /\ config.page_size \in Nat
    <3>1. 1 \in Nat
      BY SMT
    <3> QED  BY <1>2, <3>1, Lengths
  <2>2. page_len(1, 1, stored_key_len + ORDINAL_LEN) <= config.page_size
    BY ZenonT(60), <1>1 DEF check_key_fits
  <2> QED  BY <2>1, <2>2 DEF ORDINAL_LEN
<1> DEFINE crowded == /\ inline_needs(len) > config.page_size
                      /\ inline_needs(ORDINAL_LEN) > config.page_size
                      /\ levels[1].entries # <<>>
<1>6. \/ crowded /\ pc' = "rotate" /\ frames' = <<Rotate(1, TRUE, "add")>>
      \/ ~crowded /\ pc' = "add" /\ frames' = <<>>
  BY ZenonT(60), <1>5 DEF Push
<1>7. row'.key = k /\ row'.len = len /\ len \in Nat
  <2>1. config.values \in SUBSET Nat
    BY <1>2, ConfigAssumption DEF Settings, ConfigType
  <2> QED  BY <1>1, <2>1
<1>8. Types'
  <2>1. Settings' /\ Levels(levels')
    BY ZenonT(60), <1>1, <1>2, Kept
  <2>2. pc' \in {"ready", "add", "rotate", "finish", "built"}
    BY ZenonT(60), <1>6
  <2> QED  BY ZenonT(60), <1>1, <1>2, <1>7, <2>1, <2>2 DEF Types, Levels
<1>9. Fits' /\ check_key_fits'
  BY ZenonT(60), <1>1, Kept DEF Good, Fits
<1>10. Tapers'
  <2>1. ~Ending
    BY ZenonT(60), <1>1 DEF Ending
  <2> QED  BY ZenonT(60), <1>1, <2>1, TapersKept DEF Good
<1>11. CASE crowded /\ pc' = "rotate" /\ frames' = <<Rotate(1, TRUE, "add")>>
  <2>1. Len(levels'[1].entries) > 0
    <3>1. levels[1].entries # <<>>
      BY ZenonT(60), <1>11
    <3>2. Len(levels[1].entries) # 0
      BY <1>3, <1>4, <3>1 DEF List
    <3> QED  BY <1>1, <1>4, <3>2
  <2>2. /\ Stack' /\ Len(frames') = 1 /\ frames'[1].level = 1
        /\ frames'[1].then = "add" /\ frames'[1].promote = TRUE /\ frames'[1].asked = FALSE
    BY ZenonT(60), <1>1, <1>3, <1>11, <2>1, Started
  <2>3. Outermost' /\ Asked' /\ Room'
    BY ZenonT(60), <1>11, <2>2 DEF Outermost, Asked, Room
  <2> QED  BY ZenonT(60), <1>8, <1>9, <1>10, <2>2, <2>3 DEF Good
<1>12. CASE ~crowded /\ pc' = "add" /\ frames' = <<>>
  <2>1. Stack' /\ Outermost' /\ Asked'
    BY ZenonT(60), <1>12, NotStarted
  <2>2. \/ inline_needs(len) <= config.page_size
        \/ inline_needs(ORDINAL_LEN) <= config.page_size
        \/ Len(levels[1].entries) = 0
    <3>1. ASSUME NEW n \in Nat, ~(inline_needs(n) > config.page_size)
          PROVE  inline_needs(n) <= config.page_size
      <4> DEFINE m == Len(levels[1].entries) + 1
      <4> DEFINE x == levels[1].payload + stored_key_len + n
      <4>1. m \in Nat /\ x \in Nat /\ config.page_size \in Nat
        <5>1. levels[1].payload \in Nat /\ stored_key_len \in Nat /\ config.page_size \in Nat
          BY ZenonT(60), <1>2, <1>3, Lengths DEF Levels
        <5> QED  BY SMTT(60), <5>1, <1>4, <3>1
      <4>2. inline_needs(n) = page_len(1, m, x)
        BY ZenonT(60) DEF inline_needs, needs
      <4> HIDE DEF m, x
      <4>3. page_len(1, m, x) = Fixed(1, m) + x /\ Fixed(1, m) \in Nat
        BY ZenonT(60), <4>1, <1>2, Lengths
      <4> QED  BY <3>1, <4>1, <4>2, <4>3
    <3>2. ORDINAL_LEN \in Nat
      BY DEF ORDINAL_LEN
    <3>3. levels[1].entries = <<>> => Len(levels[1].entries) = 0
      BY SMT
    <3> QED  BY ZenonT(60), <1>7, <1>12, <3>1, <3>2, <3>3
  <2>3. Room'
    <3>1. inline_needs(len)' = inline_needs(len) /\ inline_needs(ORDINAL_LEN)' = inline_needs(ORDINAL_LEN)
      BY <1>1 DEF inline_needs, needs, page_len, digest_area, leaf_meta, internal_meta, stored_key_len, ORDINAL_LEN
    <3>2. inline_needs(row.len)' = inline_needs(len)'
      BY <1>7 DEF inline_needs, needs
    <3> QED  BY ZenonT(60), <1>1, <2>2, <3>1, <3>2 DEF Room, Size
  <2> QED  BY ZenonT(60), <1>8, <1>9, <1>10, <2>1, <2>3 DEF Good
<1> QED  BY ZenonT(60), <1>6, <1>11, <1>12

\* The start of finish changes nothing but that it was called.
LEMMA FinishKeeps ==
    ASSUME Good, config.table, Finish
    PROVE  Good'
<1>1. /\ config' = config /\ layout' = layout /\ levels' = levels /\ rows' = rows /\ frames' = frames
      /\ pc = "ready" /\ pc' = "finish"
  BY ZenonT(60) DEF Finish
<1>2. Types' /\ Fits' /\ Room'
  <2>1. Settings' /\ Fits'
    BY ZenonT(60), <1>1, Kept DEF Good, Types, Fits
  <2> QED  BY ZenonT(60), <1>1, <2>1 DEF Good, Types, Levels, Pushing, Room
<1>3. Tapers'
  BY ZenonT(60), <1>1, TapersKept DEF Good, Ending
<1>4. Stack' /\ Outermost' /\ Asked'
  <2>1. ~(Len(frames) > 0) /\ List(frames)
    BY ZenonT(60), <1>1 DEF Good, Stack
  <2>2. frames = <<>>
    BY <2>1 DEF List
  <2> QED  BY ZenonT(60), <1>1, <2>2, NotStarted
<1>5. check_key_fits' \/ Untouched'
  BY ZenonT(60), <1>1, Kept DEF Good, Untouched, Size
<1> QED  BY ZenonT(60), <1>2, <1>3, <1>4, <1>5 DEF Good

\* finish picks the lowest level below the top that has entries, or the top.
LEMMA FinishLevelKeeps ==
    ASSUME Good, config.table, FinishLevel
    PROVE  Good'
<1> DEFINE left == {l \in 1..(Len(levels) - 1) : levels[l].entries # <<>>}
<1> DEFINE top == levels[Len(levels)]
<1>1. /\ config' = config /\ layout' = layout /\ levels' = levels /\ rows' = rows /\ pc = "finish"
  BY ZenonT(60) DEF FinishLevel
<1>2. \/ left # {} /\ frames' = <<Rotate(Min(left), TRUE, "finish")>> /\ pc' = "rotate"
      \/ left = {} /\ frames' = <<Rotate(Len(levels), FALSE, "built")>> /\ pc' = "rotate"
      \/ frames' = <<>> /\ pc' = "built"
  BY ZenonT(60) DEF FinishLevel
<1>3. Settings /\ Levels(levels) /\ Len(levels) \in Nat /\ Len(levels) \in 1..Len(levels)
  <2>1. Settings /\ Levels(levels)
    BY ZenonT(60) DEF Good, Types
  <2>2. Len(levels) \in 1..MAX_LEVELS
    BY ZenonT(60), <2>1 DEF Levels
  <2> QED  BY <2>1, <2>2, SizeAssumption
<1>4. \A l \in 1..Len(levels) : Len(levels[l].entries) \in Nat /\ (levels[l].entries = <<>> <=> Len(levels[l].entries) = 0)
  <2>1. \A l \in 1..Len(levels) : List(levels[l].entries)
    BY ZenonT(60), <1>3 DEF Levels
  <2>2. ASSUME NEW x, List(x) PROVE Len(x) \in Nat /\ (x = <<>> <=> Len(x) = 0)
    BY <2>2 DEF List
  <2> QED  BY ZenonT(60), <2>1, <2>2
<1>5. left # {} => Min(left) \in left /\ \A l \in left : Min(left) <= l
  <2>1. left \in SUBSET Nat
    BY SMT
  <2>2. left # {} => \E m \in left : \A l \in left : m <= l
    BY ZenonT(60), <2>1, Least
  <2> HIDE DEF left
  <2> QED  BY ZenonT(60), <2>2 DEF Min
<1>6. Pushing' <=> FALSE
  <2>1. pc' = "rotate" => frames'[1].then \in {"finish", "built"}
    BY <1>2, Single DEF Rotate
  <2> QED  BY ZenonT(60), <1>2, <2>1 DEF Pushing
<1>7. Types' /\ Fits' /\ Room'
  <2>1. Settings' /\ Fits'
    BY ZenonT(60), <1>1, Kept DEF Good, Types, Fits
  <2>2. pc' \in {"rotate", "built"}
    BY ZenonT(60), <1>2
  <2> QED  BY ZenonT(60), <1>1, <1>6, <2>1, <2>2 DEF Good, Types, Levels, Room
<1>8. Tapers'
  <2>1. Ending'
    <3>1. pc' = "rotate" => frames'[1].then \in {"finish", "built"}
      BY <1>2, Single DEF Rotate
    <3> QED  BY ZenonT(60), <1>2, <3>1 DEF Ending
  <2> QED  BY ZenonT(60), <1>1, <2>1, TapersKept DEF Good
<1>9. check_key_fits' \/ Untouched'
  BY ZenonT(60), <1>1, <1>2, Kept DEF Good, Untouched, Size
<1>10. Stack' /\ Outermost' /\ Asked'
  <2>1. CASE left # {} /\ frames' = <<Rotate(Min(left), TRUE, "finish")>> /\ pc' = "rotate"
    <3> DEFINE m == Min(left)
    <3>1. m \in 1..(Len(levels) - 1) /\ levels[m].entries # <<>>
      BY ZenonT(60), <2>1, <1>5
    <3>2. \A l \in 1..(Len(levels) - 1) : levels[l].entries # <<>> => m <= l
      BY ZenonT(60), <2>1, <1>5
    <3>3. frames' = <<Rotate(m, TRUE, "finish")>>
      BY ZenonT(60), <2>1
    <3> HIDE DEF m
    <3>4. m \in 1..Len(levels') /\ m < Len(levels') /\ Len(levels'[m].entries) > 0 /\ Len(levels') \in Nat
      BY SMTT(60), <1>1, <1>3, <1>4, <3>1
    <3>5. \A l \in 1..(m - 1) : Size(l)' = 0
      BY SMTT(60), <1>1, <1>3, <1>4, <3>1, <3>2 DEF Size
    <3>6. /\ Stack' /\ Len(frames') = 1 /\ frames'[1].level = m
          /\ frames'[1].then = "finish" /\ frames'[1].promote = TRUE /\ frames'[1].asked = FALSE
      BY ZenonT(60), <2>1, <3>3, <3>4, Started
    <3> QED  BY ZenonT(60), <3>4, <3>5, <3>6 DEF Outermost, Asked
  <2>2. CASE left = {} /\ frames' = <<Rotate(Len(levels), FALSE, "built")>> /\ pc' = "rotate"
    <3>1. /\ Stack' /\ Len(frames') = 1 /\ frames'[1].level = Len(levels')
          /\ frames'[1].then = "built" /\ frames'[1].promote = FALSE /\ frames'[1].asked = FALSE
          /\ frames'[1].page = None
      BY ZenonT(60), <1>1, <1>3, <2>2, Started
    <3> QED  BY ZenonT(60), <3>1 DEF Outermost, Asked
  <2>3. CASE frames' = <<>> /\ pc' = "built"
    BY ZenonT(60), <2>3, NotStarted
  <2> QED  BY ZenonT(60), <1>2, <2>1, <2>2, <2>3
<1> QED  BY ZenonT(60), <1>7, <1>8, <1>9, <1>10 DEF Good

\* What the next three proofs use of the invariant.
LEMMA Basics ==
    ASSUME Good
    PROVE  /\ Settings /\ Levels(levels) /\ List(levels) /\ Len(levels) \in Nat
           /\ 1 \in 1..Len(levels) /\ Len(levels) \in 1..Len(levels)
           /\ \A l \in 1..Len(levels) :
                 /\ LevelRecord(levels[l]) /\ List(levels[l].entries) /\ levels[l].payload \in Nat
                 /\ Size(l) \in Nat /\ (levels[l].entries = <<>> <=> Size(l) = 0)
           /\ stored_key_len \in Nat /\ config.page_size \in Nat /\ MAX_LEVELS \in Nat /\ Len(levels) <= MAX_LEVELS
<1>1. Settings /\ Levels(levels)
  BY ZenonT(60) DEF Good, Types
<1>2. List(levels) /\ Len(levels) \in 1..MAX_LEVELS
  BY ZenonT(60), <1>1 DEF Levels
<1>3. /\ Len(levels) \in Nat /\ 1 \in 1..Len(levels) /\ Len(levels) \in 1..Len(levels)
      /\ MAX_LEVELS \in Nat /\ Len(levels) <= MAX_LEVELS
  BY <1>2, SizeAssumption
<1>4. \A l \in 1..Len(levels) : LevelRecord(levels[l]) /\ List(levels[l].entries) /\ levels[l].payload \in Nat
  BY ZenonT(60), <1>1 DEF Levels
<1>5. ASSUME NEW x, List(x) PROVE Len(x) \in Nat /\ (x = <<>> <=> Len(x) = 0)
  BY <1>5 DEF List
<1>6. stored_key_len \in Nat /\ config.page_size \in Nat
  BY ZenonT(60), <1>1, Lengths
<1> QED  BY ZenonT(60), <1>1, <1>2, <1>3, <1>4, <1>5, <1>6 DEF Size

\* A page that is not too long fits, and so does a shorter one.
LEMMA NotOver ==
    ASSUME Settings, NEW l, NEW n \in Nat, NEW x \in Nat, NEW y \in Nat
    PROVE  /\ ~(page_len(l, n, x) > config.page_size) <=> page_len(l, n, x) <= config.page_size
           /\ page_len(l, n, x) <= config.page_size /\ y <= x => page_len(l, n, y) <= config.page_size
<1>1. /\ page_len(l, n, x) = Fixed(l, n) + x /\ page_len(l, n, y) = Fixed(l, n) + y
      /\ Fixed(l, n) \in Nat /\ config.page_size \in Nat
  BY Lengths
<1> QED  BY <1>1

\* The entry that is added fits on the leaf: its value does, or a reference takes its place.
LEMMA AddFits ==
    ASSUME Good, config.table, pc = "add",
           NEW n \in Nat,
           \/ n = ORDINAL_LEN /\ (inline_needs(row.len) > config.page_size \/ row.len >= OVERFLOW_SENTINEL)
           \/ n = row.len /\ ~(inline_needs(row.len) > config.page_size)
    PROVE  page_len(1, Size(1) + 1, levels[1].payload + stored_key_len + n) <= config.page_size
<1> DEFINE x(m) == levels[1].payload + stored_key_len + m
<1>1. Settings /\ Size(1) \in Nat /\ levels[1].payload \in Nat /\ stored_key_len \in Nat /\ row.len \in Nat
  BY ZenonT(60), Basics DEF Good, Types, Pushing
<1>2. Size(1) + 1 \in Nat /\ x(row.len) \in Nat /\ x(ORDINAL_LEN) \in Nat
  BY <1>1 DEF ORDINAL_LEN
<1>3. /\ inline_needs(row.len) = page_len(1, Size(1) + 1, x(row.len))
      /\ inline_needs(ORDINAL_LEN) = page_len(1, Size(1) + 1, x(ORDINAL_LEN))
  BY ZenonT(60) DEF inline_needs, needs, Size
<1>4. CASE n = row.len /\ ~(inline_needs(row.len) > config.page_size)
  BY ZenonT(60), <1>1, <1>2, <1>3, <1>4, NotOver
<1>5. CASE n = ORDINAL_LEN /\ (inline_needs(row.len) > config.page_size \/ row.len >= OVERFLOW_SENTINEL)
  <2>1. CASE inline_needs(row.len) <= config.page_size
    <3>1. ~(inline_needs(row.len) > config.page_size)
      <4> HIDE DEF x
      <4> QED  BY ZenonT(60), <1>1, <1>2, <1>3, <2>1, NotOver
    <3>2. x(ORDINAL_LEN) <= x(row.len)
      BY <1>1, <1>5, <3>1 DEF ORDINAL_LEN, OVERFLOW_SENTINEL
    <3> HIDE DEF x
    <3>3. page_len(1, Size(1) + 1, x(ORDINAL_LEN)) <= config.page_size
      BY ZenonT(60), <1>1, <1>2, <1>3, <2>1, <3>2, NotOver
    <3> QED  BY ZenonT(60), <1>5, <3>3 DEF x
  <2>2. CASE inline_needs(ORDINAL_LEN) <= config.page_size
    BY ZenonT(60), <1>3, <1>5, <2>2
  <2>3. CASE Size(1) = 0
    <3>1. levels[1].payload = 0
      BY ZenonT(60), <2>3, Basics DEF Good, Fits, FitIn, Size
    <3>2. check_key_fits
      BY ZenonT(60) DEF Good, Untouched
    <3>3. Size(1) + 1 = 1 /\ x(ORDINAL_LEN) = stored_key_len + ORDINAL_LEN
      BY <1>1, <2>3, <3>1 DEF ORDINAL_LEN
    <3> QED  BY ZenonT(60), <1>5, <3>2, <3>3 DEF check_key_fits
  <2> QED  BY ZenonT(60), <2>1, <2>2, <2>3 DEF Good, Room
<1> QED  BY ZenonT(60), <1>4, <1>5

\* The levels after AddEntry.
LEMMA AddLevels ==
    ASSUME Good, config.table, AddEntry
    PROVE  /\ FitIn(levels') /\ Levels(levels') /\ Len(levels') = Len(levels)
           /\ Len(levels'[1].entries) = Size(1) + 1
           /\ \A l \in 1..Len(levels) : l # 1 => levels'[l] = levels[l]
<1>1. PICK e, n : /\ levels' = [levels EXCEPT ![1] = WithRow(levels[1], row.key, e, n)]
                  /\ \/ n = ORDINAL_LEN /\ (inline_needs(row.len) > config.page_size \/ row.len >= OVERFLOW_SENTINEL)
                     \/ n = row.len /\ ~(inline_needs(row.len) > config.page_size)
  <2> DEFINE outgrown == inline_needs(row.len) > config.page_size \/ row.len >= OVERFLOW_SENTINEL
  <2> DEFINE n == IF outgrown THEN ORDINAL_LEN ELSE row.len
  <2> DEFINE e == Entry(row.key, IF outgrown THEN None ELSE row.key,
                        IF outgrown THEN Len(pages) + 1 ELSE None, None)
  <2>1. levels' = [levels EXCEPT ![1] = WithRow(levels[1], row.key, e, n)]
    BY ZenonT(60) DEF AddEntry, overflows
  <2>2. \/ n = ORDINAL_LEN /\ (inline_needs(row.len) > config.page_size \/ row.len >= OVERFLOW_SENTINEL)
        \/ n = row.len /\ ~(inline_needs(row.len) > config.page_size)
    BY ZenonT(60)
  <2> HIDE DEF e, n
  <2> QED  BY ZenonT(60), <2>1, <2>2
<1>2. pc = "add" /\ row.len \in Nat
  BY ZenonT(60) DEF AddEntry, Good, Types, Pushing
<1>3. n \in Nat
  BY <1>1, <1>2 DEF ORDINAL_LEN
<1>4. /\ LevelRecord(levels[1]) /\ List(levels[1].entries) /\ levels[1].payload \in Nat
      /\ Len(levels) \in Nat /\ stored_key_len \in Nat /\ Size(1) \in Nat
      /\ List(levels) /\ 1 \in 1..Len(levels) /\ Levels(levels)
  BY ZenonT(60), Basics
<1> DEFINE w == WithRow(levels[1], row.key, e, n)
<1>5. LevelRecord(w) /\ w.entries = Append(levels[1].entries, e) /\ w.payload = levels[1].payload + stored_key_len + n
  BY SMTT(60), <1>4, WithRowIs
<1>6. levels' = [levels EXCEPT ![1] = w]
  BY ZenonT(60), <1>1
<1> HIDE DEF w
<1>7. /\ List(levels') /\ Len(levels') = Len(levels)
      /\ \A l \in 1..Len(levels) : l # 1 => levels'[l] = levels[l]
      /\ levels'[1] = w
  <2>1. Changed(levels, 1, w, [levels EXCEPT ![1] = w])
    BY ZenonT(60), <1>4, ListExcept
  <2>2. Changed(levels, 1, w, levels')
    BY ZenonT(60), <1>6, <2>1
  <2> QED  BY ZenonT(60), <2>2 DEF Changed
<1>8. LevelRecord(levels'[1]) /\ levels'[1].entries = w.entries /\ levels'[1].payload = w.payload
  BY ZenonT(60), <1>5, <1>7
<1>9. List(levels'[1].entries) /\ Len(levels'[1].entries) = Size(1) + 1
  <2>1. Longer(levels[1].entries, e, levels'[1].entries)
    BY ZenonT(60), <1>4, <1>5, <1>8, ListAppend
  <2> QED  BY ZenonT(60), <2>1 DEF Longer, Size
<1>10. levels'[1].payload \in Nat /\ ~(Size(1) + 1 = 0)
  BY SMTT(60), <1>3, <1>4, <1>5, <1>8
<1>11. Levels(levels')
  BY ZenonT(60), <1>4, <1>7, <1>8, <1>9, <1>10 DEF Levels
<1>12. page_len(1, Len(levels'[1].entries), levels'[1].payload) <= config.page_size
  BY ZenonT(60), <1>1, <1>2, <1>3, <1>5, <1>8, <1>9, AddFits
<1>13. FitIn(levels')
  <2>1. ~(1 > 1)
    BY SMT
  <2> QED  BY ZenonT(60), <1>7, <1>9, <1>10, <1>12, <2>1 DEF FitIn, Good, Fits
<1> QED  BY ZenonT(60), <1>7, <1>9, <1>11, <1>13

\* The row counts for the leaf, whose entries and the bound on them grow by one.
LEMMA AddKeeps ==
    ASSUME Good, config.table, AddEntry
    PROVE  Good'
<1>1. /\ config' = config /\ layout' = layout /\ pc = "add" /\ rows' = rows \cup {row.key}
      /\ \/ pc' = "rotate" /\ frames' = <<Rotate(1, TRUE, "ready")>>
         \/ pc' = "ready" /\ frames' = <<>>
  BY ZenonT(60) DEF AddEntry
<1>2. /\ FitIn(levels') /\ Levels(levels') /\ Len(levels') = Len(levels)
      /\ Len(levels'[1].entries) = Size(1) + 1
      /\ \A l \in 1..Len(levels) : l # 1 => levels'[l] = levels[l]
  BY ZenonT(60), AddLevels
<1>3. row.key \in Keys /\ rows \subseteq Keys /\ \A r \in rows : r < row.key
  BY ZenonT(60), <1>1 DEF Good, Types, Pushing
<1>4. Settings /\ Len(levels) \in Nat /\ 1 \in 1..Len(levels) /\ Size(1) \in Nat /\ check_key_fits
  BY ZenonT(60), <1>1, Basics DEF Good, Untouched
<1>5. Settings' /\ Fits' /\ check_key_fits'
  BY ZenonT(60), <1>1, <1>2, <1>4, Kept
<1>6. pc' = "rotate" => frames'[1].then = "ready"
  BY <1>1, Single DEF Rotate
<1>7. Types' /\ Room'
  <2>1. ~Pushing'
    BY ZenonT(60), <1>1, <1>6 DEF Pushing
  <2> QED  BY ZenonT(60), <1>1, <1>2, <1>3, <1>5, <2>1 DEF Types, Room, Levels
<1>8. Stack' /\ Outermost' /\ Asked'
  <2>1. CASE pc' = "rotate" /\ frames' = <<Rotate(1, TRUE, "ready")>>
    <3>1. 1 \in 1..Len(levels') /\ Len(levels') \in Nat /\ Len(levels'[1].entries) > 0
      BY <1>2, <1>4
    <3>2. /\ Stack' /\ Len(frames') = 1 /\ frames'[1].level = 1
          /\ frames'[1].then = "ready" /\ frames'[1].promote = TRUE /\ frames'[1].asked = FALSE
      BY ZenonT(60), <2>1, <3>1, Started
    <3> QED  BY ZenonT(60), <3>2 DEF Outermost, Asked
  <2>2. CASE pc' = "ready" /\ frames' = <<>>
    BY ZenonT(60), <2>2, NotStarted
  <2> QED  BY ZenonT(60), <1>1, <2>1, <2>2
<1>9. Tapers'
  <2>1. PICK p \in [1..Len(levels) -> 0..MaxKey] : Given(p)
    BY ZenonT(60) DEF Good, Tapers
  <2> DEFINE q == [p EXCEPT ![1] = p[1] + 1]
  <2>2. p[1] \in Nat /\ p[1] + 1 <= row.key
    <3>1. CASE p[1] = 0
      BY <3>1, <1>3 DEF Keys
    <3>2. CASE \E r \in rows : p[1] <= r
      <4>1. PICK r \in rows : p[1] <= r
        BY ZenonT(60), <3>2
      <4> QED  BY <4>1, <1>3, <1>4, <2>1 DEF Keys
    <3> QED  BY ZenonT(60), <2>1, <3>1, <3>2 DEF Given
  <2>3. row.key \in Nat /\ row.key <= MaxKey /\ MaxKey \in Nat
    BY <1>3, SizeAssumption DEF Keys
  <2>4. q \in [1..Len(levels) -> 0..MaxKey] /\ q[1] = p[1] + 1
    BY <1>4, <2>1, <2>2, <2>3
  <2>5. \A l \in 1..Len(levels) : l # 1 => q[l] = p[l]
    BY <2>1
  <2> HIDE DEF q
  <2>6. q[1] <= row.key /\ row.key \in rows'
    BY ZenonT(60), <1>1, <2>2, <2>4
  <2>7. Len(levels'[Len(levels')].entries) <= q[Len(levels')]
    <3>1. Size(Len(levels)) <= p[Len(levels)]
      BY ZenonT(60), <2>1 DEF Given
    <3>2. CASE Len(levels) = 1
      BY SMTT(60), <1>2, <1>4, <2>2, <2>4, <3>1, <3>2
    <3>3. CASE Len(levels) # 1
      BY <1>2, <1>4, <2>5, <3>1, <3>3 DEF Size
    <3> QED  BY ZenonT(60), <3>2, <3>3
  <2>8. ASSUME NEW l \in 1..(Len(levels) - 1) PROVE Shrinks(q, l)'
    <3>1. ~Ending
      BY ZenonT(60), <1>1 DEF Ending
    <3>2. \/ l = 1 /\ p[2] + Size(1) <= p[1]
          \/ l > 1 /\ p[l + 1] + p[l + 1] + Size(l) <= p[l]
      BY ZenonT(60), <2>1, <3>1 DEF Given, Shrinks
    <3>3. CASE l = 1 /\ p[2] + Size(1) <= p[1]
      <4>1. q[2] = p[2] /\ p[2] \in Nat
        BY SMTT(60), <1>4, <2>1, <2>5, <3>3
      <4>2. q[2] + Len(levels'[1].entries) <= q[1]
        BY <1>2, <1>4, <2>2, <2>4, <3>3, <4>1
      <4> QED  BY ZenonT(60), <3>3, <4>2 DEF Shrinks, Size
    <3>4. CASE l > 1 /\ p[l + 1] + p[l + 1] + Size(l) <= p[l]
      <4>1. l \in 1..Len(levels) /\ l # 1 /\ l + 1 \in 1..Len(levels) /\ l + 1 # 1
        BY <1>4, <3>4
      <4>2. q[l] = p[l] /\ q[l + 1] = p[l + 1] /\ levels'[l] = levels[l]
        BY ZenonT(60), <1>2, <2>5, <4>1
      <4> QED  BY ZenonT(60), <3>4, <4>2 DEF Shrinks, Size
    <3> QED  BY ZenonT(60), <3>2, <3>3, <3>4
  <2>9. Given(q)'
    BY ZenonT(60), <1>2, <2>6, <2>7, <2>8 DEF Given, Size
  <2> QED  BY ZenonT(60), <1>2, <2>4, <2>9 DEF Tapers
<1> QED  BY ZenonT(60), <1>5, <1>7, <1>8, <1>9 DEF Good

\* Steps that leave the entries of every level as they are.
LEMMA SameCounts ==
    ASSUME Good, config' = config, layout' = layout, rows' = rows, Ending => Ending',
           List(levels'), Len(levels') = Len(levels),
           \A l \in 1..Len(levels) : /\ LevelRecord(levels'[l]) /\ levels'[l].entries = levels[l].entries
                                     /\ levels'[l].payload = levels[l].payload
    PROVE  /\ Settings' /\ Levels(levels') /\ Fits' /\ Tapers' /\ (check_key_fits' <=> check_key_fits)
           /\ \A l \in 1..Len(levels) : Size(l)' = Size(l)
<1>1. \A l \in 1..Len(levels) : Size(l)' = Size(l)
  BY ZenonT(60) DEF Size
<1>2. Settings /\ Levels(levels) /\ Fits /\ Len(levels) \in Nat /\ Len(levels) \in 1..Len(levels)
  BY ZenonT(60), Basics DEF Good
<1>3. Levels(levels')
  BY ZenonT(60), <1>2 DEF Levels
<1>4. FitIn(levels')
  BY ZenonT(60), <1>2 DEF Fits, FitIn
<1>5. Settings' /\ Fits' /\ (check_key_fits' <=> check_key_fits)
  BY ZenonT(60), <1>2, <1>4, Kept
<1>6. PICK p \in [1..Len(levels) -> 0..MaxKey] : Given(p)
  BY ZenonT(60) DEF Good, Tapers
<1>7. ASSUME NEW l \in 1..(Len(levels) - 1) PROVE Shrinks(p, l)'
  <2>1. l \in 1..Len(levels) /\ 1 \in 1..Len(levels) /\ \A k \in 1..l : k \in 1..Len(levels)
    BY <1>2
  <2>2. Shrinks(p, l)
    BY ZenonT(60), <1>6 DEF Given
  <2> QED  BY ZenonT(60), <1>1, <2>1, <2>2 DEF Shrinks
<1>8. Given(p)'
  BY ZenonT(60), <1>1, <1>2, <1>6, <1>7 DEF Given
<1>9. Tapers'
  BY ZenonT(60), <1>6, <1>8 DEF Tapers
<1> QED  BY ZenonT(60), <1>1, <1>3, <1>5, <1>9

\* The call that is running.
LEMMA Running ==
    ASSUME Good, pc = "rotate"
    PROVE  /\ List(frames) /\ Len(frames) \in Nat /\ Len(frames) \in 1..Len(frames) /\ 1 \in 1..Len(frames)
           /\ innermost = frames[Len(frames)]
           /\ \A i \in 1..Len(frames) : FrameRecord(frames[i]) /\ frames[i].level \in 1..Len(levels)
<1>1. List(frames) /\ Len(frames) > 0
  BY ZenonT(60) DEF Good, Stack
<1>2. Len(frames) \in Nat
  BY ZenonT(60), <1>1, ListLen
<1>3. Len(frames) \in 1..Len(frames) /\ 1 \in 1..Len(frames)
  BY <1>1, <1>2
<1> QED  BY ZenonT(60), <1>1, <1>2, <1>3 DEF Good, Stack, innermost

\* flush_page: the page is no longer than the page size, so it is written.  Its entries stay
\* until they are promoted, but for the root's.
LEMMA FlushKeeps ==
    ASSUME Good, config.table, FlushPage
    PROVE  Good'
<1> DEFINE n == Len(frames)
<1> DEFINE f == frames[n]
<1> DEFINE l == f.level
<1> DEFINE page == Len(pages) + 1
<1>1. pc = "rotate" /\ config' = config /\ layout' = layout /\ rows' = rows /\ row' = row
  BY ZenonT(60) DEF FlushPage
<1>2. /\ List(frames) /\ n \in Nat /\ n \in 1..n /\ 1 \in 1..n /\ innermost = f
      /\ \A i \in 1..n : FrameRecord(frames[i]) /\ frames[i].level \in 1..Len(levels)
  BY ZenonT(60), <1>1, Running
<1>3. /\ Settings /\ Levels(levels) /\ List(levels) /\ Len(levels) \in Nat
      /\ \A k \in 1..Len(levels) : LevelRecord(levels[k]) /\ Size(k) \in Nat /\ levels[k].payload \in Nat
  BY ZenonT(60), Basics
<1>4. ~(page_len(l, Len(levels[l].entries), levels[l].payload) > config.page_size)
  <2>1. page_len(l, Size(l), levels[l].payload) <= config.page_size /\ Size(l) \in Nat /\ levels[l].payload \in Nat
    BY ZenonT(60), <1>2, <1>3 DEF Good, Fits, FitIn, Size
  <2>2. ~(page_len(l, Size(l), levels[l].payload) > config.page_size)
    <3> HIDE DEF l
    <3> QED  BY ZenonT(60), <1>3, <2>1, NotOver
  <2> QED  BY ZenonT(60), <2>2 DEF Size
<1>5. CASE f.promote
  <2> DEFINE v == [levels[l] EXCEPT !.extras = <<>>]
  <2> DEFINE g == [f EXCEPT !.page = page]
  <2>1. /\ frames' = [frames EXCEPT ![n].page = page] /\ levels' = [levels EXCEPT ![l].extras = <<>>] /\ pc' = pc
    BY ZenonT(60), <1>2, <1>4, <1>5 DEF FlushPage
  <2>2. LevelRecord(v) /\ v.entries = levels[l].entries /\ v.payload = levels[l].payload
    BY ZenonT(60), <1>2, <1>3, ExtrasIs
  <2>3. /\ FrameRecord(g) /\ g.level = f.level /\ g.then = f.then /\ g.asked = f.asked /\ g.promote = f.promote
    BY ZenonT(60), <1>2, FrameIs
  <2>4. levels' = [levels EXCEPT ![l] = v] /\ frames' = [frames EXCEPT ![n] = g]
    BY ZenonT(60), <2>1
  <2>5. n \in 1..Len(frames) /\ l \in 1..Len(levels) /\ \A i \in 1..n : i # n \/ i = n
    BY ZenonT(60), <1>2
  <2> HIDE DEF v, g
  <2>6. Changed(levels, l, v, levels') /\ Changed(frames, n, g, frames')
    <3>1. Changed(levels, l, v, [levels EXCEPT ![l] = v])
      BY ZenonT(60), <1>3, <2>5, ListExcept
    <3>2. Changed(frames, n, g, [frames EXCEPT ![n] = g])
      BY ZenonT(60), <1>2, <2>5, ListExcept
    <3> QED  BY ZenonT(60), <2>4, <3>1, <3>2
  <2>7. /\ List(levels') /\ Len(levels') = Len(levels)
        /\ \A k \in 1..Len(levels) : /\ LevelRecord(levels'[k]) /\ levels'[k].entries = levels[k].entries
                                     /\ levels'[k].payload = levels[k].payload
    BY ZenonT(60), <1>3, <2>2, <2>6 DEF Changed
  <2>8. /\ List(frames') /\ Len(frames') = n
        /\ \A i \in 1..n : /\ FrameRecord(frames'[i]) /\ frames'[i].level = frames[i].level
                           /\ frames'[i].then = frames[i].then /\ frames'[i].asked = frames[i].asked
                           /\ frames'[i].promote = frames[i].promote
    BY ZenonT(60), <1>2, <2>3, <2>6 DEF Changed
  <2>9. (Ending => Ending') /\ (Pushing' <=> Pushing)
    BY ZenonT(60), <1>1, <1>2, <2>1, <2>8 DEF Ending, Pushing
  <2>10. /\ Settings' /\ Levels(levels') /\ Fits' /\ Tapers' /\ (check_key_fits' <=> check_key_fits)
         /\ \A k \in 1..Len(levels) : Size(k)' = Size(k)
    BY ZenonT(60), <1>1, <2>7, <2>9, SameCounts
  <2>11. Types' /\ Room'
    BY ZenonT(60), <1>1, <2>1, <2>9, <2>10 DEF Good, Types, Room
  <2>12. Stack'
    <3>1. pc' = "rotate" <=> Len(frames') > 0
      BY <1>1, <1>2, <2>1, <2>8
    <3> QED  BY ZenonT(60), <1>2, <2>7, <2>8, <2>10, <3>1 DEF Good, Stack
  <2>13. Outermost'
    <3>1. frames[1].promote # FALSE
      BY ZenonT(60), <1>1, <1>2, <1>5 DEF Good, Outermost
    <3>2. frames'[1].promote = frames[1].promote /\ frames'[1].then = frames[1].then /\ frames'[1].level = frames[1].level
      BY ZenonT(60), <1>2, <2>8
    <3>3. \A k \in 1..(frames[1].level - 1) : k \in 1..Len(levels)
      BY <1>2, <1>3
    <3> QED  BY ZenonT(60), <1>1, <2>7, <2>10, <3>1, <3>2, <3>3 DEF Good, Outermost
  <2>14. Asked'
    <3>1. frames'[Len(frames')].asked = f.asked /\ frames'[Len(frames')].level = f.level
      BY ZenonT(60), <1>2, <2>8
    <3>2. f.level < Len(levels) => f.level + 1 \in 1..Len(levels)
      BY <1>2, <1>3
    <3> QED  BY ZenonT(60), <1>1, <2>7, <2>10, <3>1, <3>2 DEF Good, Asked
  <2>15. check_key_fits' \/ Untouched'
    <3>1. 1 \in 1..Len(levels)
      BY ZenonT(60), Basics
    <3> QED  BY ZenonT(60), <1>1, <2>1, <2>7, <2>10, <3>1 DEF Good, Untouched
  <2> QED  BY ZenonT(60), <2>10, <2>11, <2>12, <2>13, <2>14, <2>15 DEF Good
<1>6. CASE ~f.promote
  <2> DEFINE v == reset(levels[l], page)
  <2>1. levels' = [levels EXCEPT ![l] = v] /\ frames' = <<>> /\ pc' = "built"
    BY ZenonT(60), <1>2, <1>4, <1>6 DEF FlushPage
  <2>2. l = Len(levels) /\ frames[1].then = "built"
    <3>1. frames[1].promote = TRUE => frames[1] # f
      BY ZenonT(60), <1>6
    <3>2. frames[1] # f => n > 1
      BY <1>2
    <3>3. n > 1 => f.promote
      BY ZenonT(60), <1>2 DEF Good, Stack
    <3>4. frames[1].promote # TRUE
      BY ZenonT(60), <1>6, <3>1, <3>2, <3>3
    <3> QED  BY ZenonT(60), <1>1, <3>4 DEF Good, Outermost
  <2>3. LevelRecord(v) /\ v.entries = <<>> /\ v.payload = 0
    BY ZenonT(60), EmptyIs
  <2> HIDE DEF v
  <2>4. Changed(levels, l, v, levels')
    <3>1. Changed(levels, l, v, [levels EXCEPT ![l] = v])
      BY ZenonT(60), <1>2, <1>3, ListExcept
    <3> QED  BY ZenonT(60), <2>1, <3>1
  <2>5. Stack' /\ Outermost' /\ Asked' /\ Room' /\ Ending' /\ ~Pushing'
    BY ZenonT(60), <2>1, NotStarted DEF Room, Ending, Pushing
  <2>6. List(v.entries) /\ Len(v.entries) = 0 /\ 0 \in Nat
    BY ZenonT(60), <2>3, Single
  <2>7. Levels(levels')
    BY ZenonT(60), <1>3, <2>3, <2>4, <2>6 DEF Levels, Changed
  <2>8. FitIn(levels')
    <3>1. page_len(l, 0, 0) = Fixed(l, 0) + 0 /\ Fixed(l, 0) <= config.page_size /\ Fixed(l, 0) \in Nat
      <4>1. Settings /\ 0 \in Nat
        BY ZenonT(60), <1>3, <2>6
      <4> QED  BY SMTT(60), <4>1, Lengths
    <3>2. page_len(l, 0, 0) <= config.page_size
      BY <3>1
    <3>3. /\ page_len(l, Len(levels'[l].entries), levels'[l].payload) <= config.page_size
          /\ levels'[l].payload = 0 /\ ~(Len(levels'[l].entries) = 1)
      <4>1. levels'[l] = v /\ ~(0 = 1)
        BY <2>4 DEF Changed
      <4> QED  BY ZenonT(60), <2>3, <2>6, <3>2, <4>1
    <3>4. \A k \in 1..Len(levels) : k # l => levels'[k] = levels[k]
      BY ZenonT(60), <2>4 DEF Changed
    <3>5. FitIn(levels) /\ Len(levels') = Len(levels)
      BY ZenonT(60), <2>4 DEF Good, Fits, Changed
    <3> QED  BY ZenonT(60), <3>3, <3>4, <3>5 DEF FitIn
  <2>9. Settings' /\ Fits' /\ (check_key_fits' <=> check_key_fits)
    BY ZenonT(60), <1>1, <1>3, <2>8, Kept
  <2>10. Types'
    BY ZenonT(60), <1>1, <2>1, <2>5, <2>7, <2>9 DEF Good, Types
  <2>11. PICK p \in [1..Len(levels) -> 0..MaxKey] : Given(p)
    BY ZenonT(60) DEF Good, Tapers
  <2>12. Tapers'
    <3>1. Len(levels') = Len(levels) /\ Size(Len(levels))' = 0
      BY ZenonT(60), <2>2, <2>4, <2>6 DEF Changed, Size
    <3>2. 0 <= p[Len(levels)]
      BY SMTT(60), <1>2, <1>3, <2>2, <2>11
    <3>3. ASSUME NEW k \in 1..(Len(levels) - 1) PROVE Shrinks(p, k)'
      <4>1. k \in 1..Len(levels) /\ k # Len(levels) /\ \A j \in 1..k : j \in 1..Len(levels) /\ j # Len(levels)
        BY <1>3
      <4>2. Size(k)' = Size(k) /\ \A j \in 1..k : Size(j)' = Size(j)
        BY ZenonT(60), <2>2, <2>4, <4>1 DEF Changed, Size
      <4>3. k = 1 => Size(1)' = Size(1)
        BY ZenonT(60), <4>2
      <4> QED  BY ZenonT(60), <2>5, <2>11, <4>2, <4>3 DEF Given, Shrinks
    <3>4. Given(p)'
      BY ZenonT(60), <1>1, <2>11, <3>1, <3>2, <3>3 DEF Given
    <3> QED  BY ZenonT(60), <2>11, <3>1, <3>4 DEF Tapers
  <2>13. check_key_fits' \/ Untouched'
    <3>1. Untouched => Len(levels') = 1 /\ Size(1)' = 0
      BY ZenonT(60), <2>2, <2>4, <2>6 DEF Untouched, Changed, Size
    <3> QED  BY ZenonT(60), <2>1, <2>9, <3>1 DEF Good, Untouched
  <2> QED  BY ZenonT(60), <2>5, <2>9, <2>10, <2>12, <2>13 DEF Good
<1> QED  BY ZenonT(60), <1>5, <1>6

-----------------------------------------------------------------------------
\* Promote.

\* The levels once the one above the page exists, and that level; whether there may be one,
\* and whether it has no room for the page.
Grown == IF innermost.level = Len(levels) THEN Append(levels, NewLevel) ELSE levels
Above == Grown[innermost.level + 1]
Deep == innermost.level = Len(levels) /\ Len(levels) >= MAX_LEVELS
Full == ~innermost.asked /\ internal_needs(Named(Above, levels[innermost.level].first)) > config.page_size

\* A stack that is not empty has one call or more.
LEMMA OneOrMore ==
    ASSUME NEW n \in Nat, n \in 1..n
    PROVE  n = 1 \/ n > 1
BY SMTT(60)

\* The page that is promoted has entries, and the key was checked.
LEMMA Promoting ==
    ASSUME Good, Promote
    PROVE  /\ pc = "rotate" /\ config' = config /\ layout' = layout /\ rows' = rows /\ row' = row
           /\ innermost.then = frames[1].then /\ innermost.level = frames[1].level + Len(frames) - 1
           /\ innermost.level \in 1..Len(levels) /\ innermost \in {frames[i] : i \in 1..Len(frames)}
           /\ frames[1].promote = TRUE /\ frames[1].then \in {"add", "ready", "finish"}
           /\ Size(innermost.level) > 0 /\ (Len(frames) > 1 => Size(innermost.level) > 1)
           /\ (Len(frames) = 1 => innermost = frames[1])
           /\ check_key_fits
<1>1. pc = "rotate" /\ config' = config /\ layout' = layout /\ rows' = rows /\ row' = row /\ innermost.page # None
  BY ZenonT(60) DEF Promote
<1>2. /\ List(frames) /\ Len(frames) \in Nat /\ Len(frames) \in 1..Len(frames) /\ 1 \in 1..Len(frames)
      /\ innermost = frames[Len(frames)]
  BY ZenonT(60), <1>1, Running
<1>3. /\ innermost.then = frames[1].then /\ innermost.level = frames[1].level + Len(frames) - 1
      /\ innermost.level \in 1..Len(levels)
      /\ innermost.promote => Size(innermost.level) > 0
      /\ Len(frames) > 1 => innermost.promote /\ Size(innermost.level) > 1
  BY ZenonT(60), <1>2 DEF Good, Stack
<1>4. Len(frames) = 1 => innermost = frames[1]
  BY ZenonT(60), <1>2
<1>5. frames[1].promote = TRUE /\ frames[1].then \in {"add", "ready", "finish"}
  BY ZenonT(60), <1>1, <1>4 DEF Good, Outermost
<1>6. Len(frames) = 1 \/ Len(frames) > 1
  BY ZenonT(60), <1>2, OneOrMore
<1>7. innermost.promote
  BY ZenonT(60), <1>3, <1>4, <1>5, <1>6
<1>8. Size(innermost.level) > 0
  BY ZenonT(60), <1>3, <1>7
<1>9. ~Untouched
  <2>1. Len(levels) = 1 => innermost.level = 1
    BY <1>3
  <2>2. ~(0 > 0)
    BY SMT
  <2> QED  BY ZenonT(60), <1>8, <2>1, <2>2 DEF Untouched
<1> QED  BY ZenonT(60), <1>1, <1>2, <1>3, <1>4, <1>5, <1>8, <1>9 DEF Good

\* The three outcomes of Promote.
LEMMA PromoteIs ==
    ASSUME Promote
    PROVE  \/ Deep
           \/ /\ ~Deep /\ Full
              /\ frames' = Append([frames EXCEPT ![Len(frames)].asked = TRUE],
                                  Rotate(innermost.level + 1, TRUE, innermost.then))
              /\ levels' = [Grown EXCEPT ![innermost.level + 1] = Named(Above, levels[innermost.level].first)]
              /\ pc' = pc
           \/ /\ ~Deep /\ ~Full
              /\ levels' = [Grown EXCEPT ![innermost.level + 1] =
                                With(@, levels[innermost.level].first,
                                     Entry(levels[innermost.level].first, None, None, innermost.page), ORDINAL_LEN),
                            ![innermost.level] = reset(@, innermost.page)]
              /\ frames' = SubSeq(frames, 1, Len(frames) - 1)
              /\ pc' = IF frames' = <<>> THEN innermost.then ELSE pc
BY ZenonT(60) DEF Promote, Deep, Full, Above, Grown

\* There is a level above: the counts halve from each level to the next, so that one as
\* deep as MAX_LEVELS would take more rows than there are.
LEMMA NotDeep ==
    ASSUME Good, Promote, MAX_LEVELS >= 2, MaxKey <= power_of_two[MAX_LEVELS - 2]
    PROVE  ~Deep
<1> SUFFICES ASSUME Deep PROVE FALSE
  OBVIOUS
<1> DEFINE m == Len(levels)
<1>1. m \in Nat /\ m = MAX_LEVELS /\ m >= 2 /\ innermost.level = m /\ m \in 1..m
  <2>1. Len(levels) \in Nat /\ MAX_LEVELS \in Nat /\ Len(levels) <= MAX_LEVELS /\ Len(levels) \in 1..Len(levels)
    BY ZenonT(60), Basics
  <2> QED  BY <2>1 DEF Deep
<1>2. Size(m) > 1
  <2>1. Len(frames) # 1
    <3>1. SUFFICES ASSUME innermost = frames[1] PROVE FALSE
      BY ZenonT(60), Promoting
    <3>2. pc = "rotate" /\ frames[1].promote = TRUE
      BY ZenonT(60), Promoting
    <3>3. frames[1].level = 1 \/ frames[1].level < m
      BY ZenonT(60), <3>2 DEF Good, Outermost
    <3> QED  BY <1>1, <3>1, <3>3
  <2>2. Len(frames) \in Nat /\ Len(frames) \in 1..Len(frames)
    BY ZenonT(60), Promoting, Running
  <2>3. Len(frames) > 1
    BY ZenonT(60), <2>1, <2>2, OneOrMore
  <2> QED  BY ZenonT(60), <1>1, <2>3, Promoting
<1>3. PICK p \in [1..m -> 0..MaxKey] : Given(p)
  BY ZenonT(60) DEF Good, Tapers
<1>4. \A l \in 1..m : p[l] \in Nat /\ p[l] <= MaxKey /\ Size(l) \in Nat
  <2>1. \A l \in 1..m : Size(l) \in Nat
    BY ZenonT(60), Basics
  <2> QED  BY <1>3, <2>1, SizeAssumption
<1> HIDE DEF m
<1>5. p[m] >= 2
  <2>1. Size(m) <= p[m]
    BY ZenonT(60), <1>3 DEF Given, m
  <2> QED  BY <1>1, <1>2, <1>4, <2>1
<1>6. \A i \in Nat : i <= m - 2 => p[m - i] >= power_of_two[i] + 1
  <2> DEFINE Bad == {i \in Nat : i <= m - 2 /\ ~(p[m - i] >= power_of_two[i] + 1)}
  <2>1. SUFFICES ASSUME Bad # {} PROVE FALSE
    BY ZenonT(60)
  <2>2. PICK i \in Bad : \A j \in Bad : i <= j
    BY ZenonT(60), <2>1, Least
  <2>3. i \in Nat /\ i <= m - 2 /\ ~(p[m - i] >= power_of_two[i] + 1)
    BY ZenonT(60), <2>2
  <2>4. i # 0
    <3>1. m - 0 = m /\ p[m] >= 1 + 1
      BY <1>1, <1>5
    <3>2. power_of_two[0] = 1
      BY ZenonT(60), PowerIs
    <3> QED  BY ZenonT(60), <2>3, <3>1, <3>2
  <2>5. i - 1 \in Nat /\ i - 1 \notin Bad /\ i - 1 <= m - 2
    BY SMTT(60), <1>1, <2>2, <2>3, <2>4
  <2>6. p[m - (i - 1)] >= power_of_two[i - 1] + 1
    BY ZenonT(60), <2>5
  <2> HIDE DEF Bad
  <2> DEFINE l == m - i
  <2>7. l \in 1..(m - 1) /\ l > 1 /\ l \in 1..m /\ l + 1 \in 1..m /\ m - (i - 1) = l + 1 /\ l # 1
    BY SMTT(60), <1>1, <2>3, <2>4
  <2>8. power_of_two[i] = 2 * power_of_two[i - 1] /\ power_of_two[i - 1] \in Nat
    <3>1. power_of_two[(i - 1) + 1] = 2 * power_of_two[i - 1] /\ power_of_two[i - 1] \in Nat
      BY ZenonT(60), <2>5, PowerIs
    <3>2. (i - 1) + 1 = i
      BY <2>3
    <3> QED  BY ZenonT(60), <3>1, <3>2
  <2> HIDE DEF l
  <2>9. p[l + 1] + p[l + 1] + Size(l) <= p[l] \/ p[l + 1] + p[l + 1] <= p[l] + 1
    BY ZenonT(60), <1>3, <2>7 DEF Given, Shrinks, m
  <2>10. p[l] \in Nat /\ p[l + 1] \in Nat /\ Size(l) \in Nat /\ p[l + 1] >= power_of_two[i - 1] + 1
    BY ZenonT(60), <1>4, <2>6, <2>7
  <2>11. p[l] >= power_of_two[i] + 1
    BY SMTT(60), <2>8, <2>9, <2>10
  <2> QED  BY ZenonT(60), <2>3, <2>11 DEF l
<1>7. p[2] >= power_of_two[m - 2] + 1
  <2>1. m - 2 \in Nat /\ m - 2 <= m - 2 /\ m - (m - 2) = 2
    BY <1>1
  <2> QED  BY ZenonT(60), <1>6, <2>1
<1>8. p[2] + Size(1) <= p[1]
  <2>1. 1 \in 1..(m - 1) /\ ~(1 > 1)
    BY <1>1
  <2> QED  BY ZenonT(60), <1>3, <2>1 DEF Given, Shrinks, m
<1>9. 1 \in 1..m /\ 2 \in 1..m /\ m - 2 \in Nat
  BY <1>1
<1>10. p[1] \in Nat /\ p[2] \in Nat /\ Size(1) \in Nat /\ p[1] <= MaxKey /\ power_of_two[m - 2] \in Nat
  BY ZenonT(60), <1>4, <1>9, PowerIs
<1>11. MaxKey <= power_of_two[m - 2] /\ MaxKey \in Nat
  BY ZenonT(60), <1>1, SizeAssumption
<1> QED  BY SMTT(60), <1>7, <1>8, <1>10, <1>11

\* A page of separators with at most one of them has room for another.
LEMMA ParentRoom ==
    ASSUME Settings, check_key_fits, NEW lv, NEW k, LevelRecord(lv), Len(lv.entries) \in Nat, lv.payload \in Nat,
           Len(lv.entries) = 0 => lv.payload = 0,
           Len(lv.entries) = 1 => lv.payload = stored_key_len + ORDINAL_LEN
    PROVE  /\ internal_needs(Named(lv, k)) =
                  page_len(2, Len(lv.entries) + 1, lv.payload + stored_key_len + ORDINAL_LEN)
           /\ internal_needs(Named(lv, k)) > config.page_size => Len(lv.entries) > 1
<1> DEFINE c == Len(lv.entries)
<1> DEFINE x == lv.payload + stored_key_len + ORDINAL_LEN
<1>1. internal_needs(Named(lv, k)) = page_len(2, c + 1, x)
  BY ZenonT(60), NamedIs DEF internal_needs, needs
<1>2. c \in Nat /\ x \in Nat /\ stored_key_len \in Nat /\ config.page_size \in Nat /\ 2 \in Nat /\ 1 \in Nat /\ c + 1 \in Nat
  <2>1. stored_key_len \in Nat /\ config.page_size \in Nat
    BY ZenonT(60), Lengths
  <2> QED  BY SMTT(60), <2>1 DEF ORDINAL_LEN
<1>3. /\ page_len(2, c + 1, x) = Fixed(2, c + 1) + x
      /\ page_len(2, 2, 2 * (stored_key_len + ORDINAL_LEN)) = Fixed(2, 2) + 2 * (stored_key_len + ORDINAL_LEN)
      /\ Fixed(2, 1) \in Nat /\ Fixed(2, 2) \in Nat /\ Fixed(2, 1) <= Fixed(2, 2)
  <2> HIDE DEF c, x
  <2> QED  BY SMTT(60), <1>2, Lengths
<1>4. page_len(2, 2, 2 * (stored_key_len + ORDINAL_LEN)) <= config.page_size
  BY ZenonT(60) DEF check_key_fits
<1>5. CASE c = 0
  <2>1. c + 1 = 1 /\ x = stored_key_len + ORDINAL_LEN
    BY <1>2, <1>5 DEF ORDINAL_LEN
  <2> HIDE DEF c, x
  <2>2. page_len(2, c + 1, x) = Fixed(2, 1) + (stored_key_len + ORDINAL_LEN)
    BY ZenonT(60), <1>3, <2>1
  <2>3. ~(page_len(2, c + 1, x) > config.page_size)
    BY <1>2, <1>3, <1>4, <2>2 DEF ORDINAL_LEN
  <2> QED  BY ZenonT(60), <1>1, <2>3 DEF c, x
<1>6. CASE c = 1
  <2>1. c + 1 = 2 /\ x = 2 * (stored_key_len + ORDINAL_LEN)
    BY <1>2, <1>6 DEF ORDINAL_LEN
  <2> HIDE DEF c, x
  <2>2. page_len(2, c + 1, x) <= config.page_size
    BY ZenonT(60), <1>4, <2>1
  <2>3. ~(page_len(2, c + 1, x) > config.page_size)
    BY <1>2, <1>3, <1>4, <2>1, <2>2 DEF ORDINAL_LEN
  <2> QED  BY ZenonT(60), <1>1, <2>3 DEF c, x
<1>7. c = 0 \/ c = 1 \/ c > 1
  <2> HIDE DEF c
  <2> QED  BY <1>2
<1> QED  BY ZenonT(60), <1>1, <1>5, <1>6, <1>7

\* The level above is a page in the making, which may be new.
LEMMA AboveIs ==
    ASSUME Good, Promote
    PROVE  /\ List(Grown) /\ Len(Grown) \in Nat /\ innermost.level + 1 \in 1..Len(Grown)
           /\ innermost.level \in 1..Len(Grown) /\ innermost.level # innermost.level + 1
           /\ innermost.level + 1 # 1 /\ innermost.level + 1 > 1
           /\ Len(Grown) = IF innermost.level = Len(levels) THEN Len(levels) + 1 ELSE Len(levels)
           /\ \A i \in 1..Len(levels) : Grown[i] = levels[i]
           /\ LevelRecord(Above) /\ List(Above.entries) /\ Len(Above.entries) \in Nat /\ Above.payload \in Nat
           /\ Len(Above.entries) = IF innermost.level = Len(levels) THEN 0 ELSE Size(innermost.level + 1)
           /\ Len(Above.entries) = 0 => Above.payload = 0
           /\ Len(Above.entries) = 1 => Above.payload = stored_key_len + ORDINAL_LEN
           /\ \A i \in 1..Len(Grown) : i = innermost.level + 1 \/ i \in 1..Len(levels)
<1> DEFINE l == innermost.level
<1> DEFINE m == Len(levels)
<1>1. l \in 1..m
  BY ZenonT(60), Promoting
<1>2. m \in Nat /\ List(levels)
  BY ZenonT(60), Basics
<1>3. l \in Nat /\ l # l + 1 /\ l + 1 # 1 /\ l + 1 > 1 /\ (l # m => l + 1 \in 1..m)
  <2> HIDE DEF l, m
  <2> QED  BY <1>1, <1>2
<1>4. CASE l = m
  <2>1. Grown = Append(levels, NewLevel)
    BY ZenonT(60), <1>4 DEF Grown
  <2>2. Longer(levels, NewLevel, Grown)
    BY ZenonT(60), <1>2, <2>1, ListAppend
  <2>3. List(Grown) /\ Len(Grown) = m + 1 /\ Above = NewLevel /\ \A i \in 1..m : Grown[i] = levels[i]
    BY ZenonT(60), <1>4, <2>2 DEF Longer, Above
  <2>4. /\ LevelRecord(Above) /\ Above.entries = <<>> /\ Above.payload = 0
    BY ZenonT(60), <2>3, EmptyIs
  <2>5. List(Above.entries) /\ Len(Above.entries) = 0
    BY ZenonT(60), <2>4, Single
  <2>6. 0 \in Nat /\ 0 # 1
    BY SMT
  <2>7. /\ m + 1 \in Nat /\ l + 1 \in 1..(m + 1) /\ l \in 1..(m + 1)
        /\ \A i \in 1..(m + 1) : i = l + 1 \/ i \in 1..m
    <3> HIDE DEF l, m
    <3> QED  BY <1>1, <1>2, <1>4
  <2> QED  BY ZenonT(60), <1>3, <1>4, <2>3, <2>4, <2>5, <2>6, <2>7
<1>5. CASE l # m
  <2>1. Grown = levels /\ Above = levels[l + 1]
    BY ZenonT(60), <1>5 DEF Grown, Above
  <2>2. /\ LevelRecord(levels[l + 1]) /\ List(levels[l + 1].entries) /\ levels[l + 1].payload \in Nat
        /\ Size(l + 1) \in Nat
    BY ZenonT(60), <1>3, <1>5, Basics
  <2>3. /\ Size(l + 1) = 0 => levels[l + 1].payload = 0
        /\ Size(l + 1) = 1 => levels[l + 1].payload = stored_key_len + ORDINAL_LEN
    BY ZenonT(60), <1>3, <1>5 DEF Good, Fits, FitIn, Size
  <2> QED  BY ZenonT(60), <1>1, <1>2, <1>3, <1>5, <2>1, <2>2, <2>3 DEF Size
<1> QED  BY ZenonT(60), <1>4, <1>5

\* A level above without room has two separators or more, and is written first.
LEMMA FullKeeps ==
    ASSUME Good, config.table, Promote, Full,
           frames' = Append([frames EXCEPT ![Len(frames)].asked = TRUE], Rotate(innermost.level + 1, TRUE, innermost.then)),
           levels' = [Grown EXCEPT ![innermost.level + 1] = Named(Above, levels[innermost.level].first)],
           pc' = pc
    PROVE  Good'
<1> DEFINE n == Len(frames)
<1> DEFINE l == innermost.level
<1> DEFINE v == Named(Above, levels[l].first)
<1> DEFINE h == [frames[n] EXCEPT !.asked = TRUE]
<1> DEFINE waiting == [frames EXCEPT ![n] = h]
<1> DEFINE call == Rotate(l + 1, TRUE, innermost.then)
<1>1. /\ pc = "rotate" /\ config' = config /\ layout' = layout /\ rows' = rows /\ row' = row
      /\ innermost.then = frames[1].then /\ l = frames[1].level + n - 1 /\ l \in 1..Len(levels)
      /\ frames[1].promote = TRUE /\ check_key_fits
  BY ZenonT(60), Promoting
<1>2. /\ List(frames) /\ n \in Nat /\ n \in 1..n /\ 1 \in 1..n /\ innermost = frames[n]
      /\ \A i \in 1..n : FrameRecord(frames[i]) /\ frames[i].level \in 1..Len(levels)
  BY ZenonT(60), <1>1, Running
<1>3. /\ Settings /\ List(levels) /\ Len(levels) \in Nat
      /\ \A k \in 1..Len(levels) : LevelRecord(levels[k])
  BY ZenonT(60), Basics
<1>4. Len(Above.entries) > 1
  BY ZenonT(60), <1>1, <1>3, AboveIs, ParentRoom DEF Full
<1>5. l # Len(levels)
  <2>1. ~(0 > 1)
    BY SMT
  <2> QED  BY ZenonT(60), <1>4, <2>1, AboveIs
<1>6. /\ l + 1 \in 1..Len(levels) /\ Grown = levels /\ Above = levels[l + 1] /\ Size(l + 1) > 1 /\ Size(l + 1) > 0
      /\ l < Len(levels)
  <2>1. l + 1 \in 1..Len(levels) /\ l < Len(levels)
    <3> HIDE DEF l
    <3> QED  BY <1>1, <1>3, <1>5
  <2>2. Grown = levels /\ Above = levels[l + 1]
    BY ZenonT(60), <1>5 DEF Grown, Above
  <2>3. Size(l + 1) > 1
    BY ZenonT(60), <1>4, <2>2 DEF Size
  <2>4. Size(l + 1) \in Nat
    BY ZenonT(60), <2>1, Basics
  <2>5. Size(l + 1) > 0
    BY SMTT(60), <2>3, <2>4
  <2> QED  BY ZenonT(60), <2>1, <2>2, <2>3, <2>5
<1>7. LevelRecord(v) /\ v.entries = levels[l + 1].entries /\ v.payload = levels[l + 1].payload
  BY ZenonT(60), <1>3, <1>6, NamedIs
<1>8. levels' = [levels EXCEPT ![l + 1] = v]
  BY ZenonT(60), <1>6
<1>9. /\ FrameRecord(h) /\ h.level = frames[n].level /\ h.then = frames[n].then /\ h.asked = TRUE
      /\ h.promote = frames[n].promote
  BY ZenonT(60), <1>2, FrameIs
<1>10. frames' = Append(waiting, call)
  BY ZenonT(60)
<1>11. /\ call.level = l + 1 /\ call.promote = TRUE /\ call.then = frames[1].then /\ call.asked = FALSE
       /\ FrameRecord(call)
  <2>1. /\ call.level = l + 1 /\ call.promote = TRUE /\ call.then = innermost.then /\ call.asked = FALSE
        /\ FrameRecord(call)
    <3> HIDE DEF l
    <3> QED  BY DEF Rotate, FrameRecord
  <2> QED  BY ZenonT(60), <1>1, <2>1
<1> HIDE DEF v, h, call
<1>12. Changed(levels, l + 1, v, levels')
  <2> DEFINE k == l + 1
  <2>1. k \in 1..Len(levels)
    BY ZenonT(60), <1>6
  <2> HIDE DEF k
  <2>2. Changed(levels, k, v, [levels EXCEPT ![k] = v])
    BY ZenonT(60), <1>3, <2>1, ListExcept
  <2> QED  BY ZenonT(60), <1>8, <2>2 DEF k
<1>13. Changed(frames, n, h, waiting)
  BY ZenonT(60), <1>2, ListExcept
<1> HIDE DEF waiting
<1>14. Longer(waiting, call, frames')
  <2>1. List(waiting)
    BY ZenonT(60), <1>13 DEF Changed
  <2> QED  BY ZenonT(60), <1>10, <2>1, ListAppend
<1>15. /\ List(levels') /\ Len(levels') = Len(levels)
       /\ \A k \in 1..Len(levels) : /\ LevelRecord(levels'[k]) /\ levels'[k].entries = levels[k].entries
                                    /\ levels'[k].payload = levels[k].payload
  BY ZenonT(60), <1>3, <1>7, <1>12 DEF Changed
<1>16. /\ List(frames') /\ Len(frames') = n + 1 /\ frames'[n + 1] = call
       /\ \A i \in 1..n : frames'[i] = IF i = n THEN h ELSE frames[i]
  BY ZenonT(60), <1>13, <1>14 DEF Changed, Longer
<1>17. \A i \in 1..n : /\ FrameRecord(frames'[i]) /\ frames'[i].level = frames[i].level
                       /\ frames'[i].then = frames[i].then /\ frames'[i].promote = frames[i].promote
  BY ZenonT(60), <1>2, <1>9, <1>16
<1>18. (Ending => Ending') /\ (Pushing' <=> Pushing)
  BY ZenonT(60), <1>1, <1>2, <1>17 DEF Ending, Pushing
<1>19. /\ Settings' /\ Levels(levels') /\ Fits' /\ Tapers' /\ (check_key_fits' <=> check_key_fits)
       /\ \A k \in 1..Len(levels) : Size(k)' = Size(k)
  BY ZenonT(60), <1>1, <1>15, <1>18, SameCounts
<1>20. Types' /\ Room'
  BY ZenonT(60), <1>1, <1>18, <1>19 DEF Good, Types, Room
<1>21. Stack'
  <2>1. n + 1 \in Nat /\ n + 1 > 0 /\ l + 1 = frames[1].level + (n + 1) - 1 /\ ~(n + 1 < n + 1)
    <3>1. n \in Nat /\ l \in Nat /\ frames[1].level \in Nat /\ l = frames[1].level + n - 1
      <4>1. l \in 1..Len(levels) /\ frames[1].level \in 1..Len(levels) /\ l = frames[1].level + n - 1 /\ n \in Nat
        BY ZenonT(60), <1>1, <1>2
      <4> HIDE DEF l, n
      <4> QED  BY <1>3, <4>1
    <3> HIDE DEF l, n
    <3> QED  BY SMTT(60), <3>1
  <2>2. ASSUME NEW i \in 1..(n + 1)
        PROVE  i = n + 1 \/ (i \in 1..n /\ i < n) \/ (i \in 1..n /\ i = n)
    <3> HIDE DEF n
    <3> QED  BY <1>2
  <2>3. pc' = "rotate" <=> Len(frames') > 0
    BY ZenonT(60), <1>1, <1>16, <2>1
  <2>4. ASSUME NEW i \in 1..n
        PROVE  /\ frames'[i].level = frames'[1].level + i - 1 /\ frames'[i].level \in 1..Len(levels')
               /\ frames'[i].then = frames'[1].then /\ (frames'[i].promote => Len(levels'[frames'[i].level].entries) > 0)
               /\ i > 1 => frames'[i].promote /\ Len(levels'[frames'[i].level].entries) > 1
    <3>1. /\ frames[i].level = frames[1].level + i - 1 /\ frames[i].level \in 1..Len(levels)
          /\ frames[i].then = frames[1].then /\ (frames[i].promote => Size(frames[i].level) > 0)
          /\ i > 1 => frames[i].promote /\ Size(frames[i].level) > 1
      BY ZenonT(60) DEF Good, Stack
    <3>2. Len(levels'[frames[i].level].entries) = Size(frames[i].level)
      BY ZenonT(60), <1>15, <3>1 DEF Size
    <3>3. /\ frames'[i].level = frames[i].level /\ frames'[i].then = frames[i].then /\ frames'[i].promote = frames[i].promote
          /\ frames'[1].level = frames[1].level /\ frames'[1].then = frames[1].then
      BY ZenonT(60), <1>2, <1>17
    <3> QED  BY ZenonT(60), <1>15, <3>1, <3>2, <3>3
  <2>5. ASSUME NEW i \in 1..n PROVE frames'[i].asked = TRUE
    <3>1. CASE i = n
      BY ZenonT(60), <3>1, <1>2, <1>9, <1>16
    <3>2. CASE i < n
      <4>1. frames'[i] = frames[i]
        <5>1. i # n
          <6> HIDE DEF n
          <6> QED  BY <1>2, <3>2
        <5> QED  BY ZenonT(60), <1>16, <5>1
      <4> QED  BY ZenonT(60), <3>2, <4>1 DEF Good, Stack
    <3>3. i = n \/ i < n
      <4> HIDE DEF n
      <4> QED  BY <1>2
    <3> QED  BY ZenonT(60), <3>1, <3>2, <3>3
  <2>6. /\ frames'[n + 1].level = frames'[1].level + (n + 1) - 1 /\ frames'[n + 1].level \in 1..Len(levels')
        /\ frames'[n + 1].then = frames'[1].then /\ FrameRecord(frames'[n + 1])
        /\ frames'[n + 1].promote /\ Len(levels'[frames'[n + 1].level].entries) > 1 /\ Len(levels'[frames'[n + 1].level].entries) > 0
    BY ZenonT(60), <1>2, <1>6, <1>11, <1>15, <1>16, <1>17, <2>1 DEF Size
  <2>7. ASSUME NEW i \in 1..Len(frames')
        PROVE  /\ FrameRecord(frames'[i])
               /\ frames'[i].level = frames'[1].level + i - 1
               /\ frames'[i].level \in 1..Len(levels')
               /\ frames'[i].then = frames'[1].then
               /\ frames'[i].promote => Len(levels'[frames'[i].level].entries) > 0
               /\ i > 1 => frames'[i].promote /\ Len(levels'[frames'[i].level].entries) > 1
               /\ i < Len(frames') => frames'[i].asked = TRUE
    BY ZenonT(60), <1>16, <1>17, <2>1, <2>2, <2>4, <2>5, <2>6
  <2> QED  BY ZenonT(60), <1>16, <2>3, <2>7 DEF Stack, Size
<1>22. Outermost'
  <2>1. frames'[1].promote = frames[1].promote /\ frames'[1].then = frames[1].then /\ frames'[1].level = frames[1].level
    BY ZenonT(60), <1>2, <1>17
  <2>2. \A k \in 1..(frames[1].level - 1) : k \in 1..Len(levels)
    BY <1>2, <1>3
  <2> QED  BY ZenonT(60), <1>1, <1>15, <1>19, <2>1, <2>2 DEF Good, Outermost
<1>23. Asked'
  BY ZenonT(60), <1>11, <1>16 DEF Asked
<1> QED  BY ZenonT(60), <1>1, <1>19, <1>20, <1>21, <1>22, <1>23 DEF Good

\* What a promotion makes of the levels: the page is empty again, and the level above has
\* one entry more.
Promoted ==
    /\ Levels(levels') /\ FitIn(levels')
    /\ Len(levels') = IF innermost.level = Len(levels) THEN Len(levels) + 1 ELSE Len(levels)
    /\ Len(levels'[innermost.level].entries) = 0
    /\ Len(levels'[innermost.level + 1].entries) = Len(Above.entries) + 1
    /\ \A i \in 1..Len(levels) : i # innermost.level /\ i # innermost.level + 1 => levels'[i] = levels[i]

\* A level above with room is such a step, and stays within the page size.
LEMMA PromoteLevels ==
    ASSUME Good, config.table, Promote, ~Deep, ~Full, NEW k, NEW e,
           levels' = [Grown EXCEPT ![innermost.level + 1] = With(@, k, e, ORDINAL_LEN),
                                   ![innermost.level] = reset(@, innermost.page)]
    PROVE  Promoted
<1> DEFINE l == innermost.level
<1> DEFINE a == l + 1
<1> DEFINE v == With(Above, k, e, ORDINAL_LEN)
<1> DEFINE x == innermost.page
<1> DEFINE r == reset(Grown[l], x)
<1> DEFINE mid == [Grown EXCEPT ![a] = v]
<1>1. /\ List(Grown) /\ Len(Grown) \in Nat /\ a \in 1..Len(Grown) /\ l \in 1..Len(Grown) /\ l # a /\ a # 1 /\ a > 1
      /\ Len(Grown) = IF l = Len(levels) THEN Len(levels) + 1 ELSE Len(levels)
      /\ \A i \in 1..Len(levels) : Grown[i] = levels[i]
      /\ LevelRecord(Above) /\ List(Above.entries) /\ Len(Above.entries) \in Nat /\ Above.payload \in Nat
      /\ Len(Above.entries) = 0 => Above.payload = 0
      /\ Len(Above.entries) = 1 => Above.payload = stored_key_len + ORDINAL_LEN
      /\ \A i \in 1..Len(Grown) : i = a \/ i \in 1..Len(levels)
      /\ Above = Grown[a]
  BY ZenonT(60), AboveIs DEF Above
<1>2. /\ Settings /\ List(levels) /\ Len(levels) \in Nat /\ MAX_LEVELS \in Nat /\ Len(levels) <= MAX_LEVELS
      /\ \A i \in 1..Len(levels) : LevelRecord(levels[i]) /\ List(levels[i].entries) /\ levels[i].payload \in Nat
      /\ stored_key_len \in Nat /\ config.page_size \in Nat
  BY ZenonT(60), Basics
<1>3. l \in 1..Len(levels) /\ check_key_fits /\ pc = "rotate"
  BY ZenonT(60), Promoting
<1>4. LevelRecord(v) /\ v.entries = Append(Above.entries, e) /\ v.payload = Above.payload + stored_key_len + ORDINAL_LEN
  <2>1. LevelRecord(Above)
    BY ZenonT(60), <1>1
  <2> QED  BY SMTT(60), <2>1, WithIs
<1>5. LevelRecord(r) /\ r.entries = <<>> /\ r.payload = 0
  BY ZenonT(60), EmptyIs
<1>6. Changed(Grown, a, v, mid)
  <2> HIDE DEF v, l, a
  <2> QED  BY ZenonT(60), <1>1, ListExcept
<1>7. levels' = [mid EXCEPT ![l] = reset(mid[l], x)]
  BY ZenonT(60), <1>1
<1> HIDE DEF v, r, l, a, x, mid
<1>8. Changed(mid, l, r, levels')
  <2>1. List(mid) /\ l \in 1..Len(mid) /\ mid[l] = Grown[l]
    BY ZenonT(60), <1>1, <1>6 DEF Changed
  <2>2. Changed(mid, l, r, [mid EXCEPT ![l] = r])
    BY ZenonT(60), <2>1, ListExcept
  <2>3. levels' = [mid EXCEPT ![l] = r]
    BY ZenonT(60), <1>7, <2>1 DEF r
  <2> QED  BY ZenonT(60), <2>2, <2>3
<1>9. /\ List(levels') /\ Len(levels') = Len(Grown) /\ levels'[l] = r /\ levels'[a] = v
      /\ \A i \in 1..Len(levels) : i # l /\ i # a => levels'[i] = levels[i]
  <2>1. List(levels') /\ Len(levels') = Len(Grown) /\ levels'[l] = r /\ levels'[a] = v
    BY ZenonT(60), <1>1, <1>6, <1>8 DEF Changed
  <2>2. \A i \in 1..Len(Grown) : i # l /\ i # a => levels'[i] = Grown[i]
    BY ZenonT(60), <1>6, <1>8 DEF Changed
  <2>3. \A i \in 1..Len(levels) : i \in 1..Len(Grown)
    BY <1>1, <1>2
  <2> QED  BY ZenonT(60), <1>1, <2>1, <2>2, <2>3
<1>10. Longer(Above.entries, e, v.entries)
  BY ZenonT(60), <1>1, <1>4, ListAppend
<1>11. List(v.entries) /\ Len(v.entries) = Len(Above.entries) + 1
  BY ZenonT(60), <1>10 DEF Longer
<1>12. List(r.entries) /\ Len(r.entries) = 0 /\ 0 \in Nat
  BY ZenonT(60), <1>5, Single
<1>13. v.payload \in Nat /\ Len(v.entries) # 0 /\ (Len(v.entries) = 1 => v.payload = stored_key_len + ORDINAL_LEN)
  <2>1. /\ Len(Above.entries) \in Nat /\ Above.payload \in Nat
        /\ Len(Above.entries) = 0 => Above.payload = 0
    BY ZenonT(60), <1>1
  <2>2. /\ stored_key_len \in Nat /\ v.payload = Above.payload + stored_key_len + ORDINAL_LEN
        /\ Len(v.entries) = Len(Above.entries) + 1
    BY ZenonT(60), <1>2, <1>4, <1>11
  <2> QED  BY SMTT(60), <2>1, <2>2 DEF ORDINAL_LEN
<1>14. Len(Grown) \in 1..MAX_LEVELS
  <2>1. l = Len(levels) => Len(levels) < MAX_LEVELS
    BY <1>2 DEF Deep, l
  <2> QED  BY <1>1, <1>2, <1>3, <2>1
<1>15. Levels(levels')
  <2>1. LevelRecord(levels'[l]) /\ List(levels'[l].entries) /\ levels'[l].payload \in Nat
    BY ZenonT(60), <1>5, <1>9, <1>12
  <2>2. LevelRecord(levels'[a]) /\ List(levels'[a].entries) /\ levels'[a].payload \in Nat
    BY ZenonT(60), <1>4, <1>9, <1>11, <1>13
  <2>3. ASSUME NEW i \in 1..Len(levels'), i # l, i # a
        PROVE  LevelRecord(levels'[i]) /\ List(levels'[i].entries) /\ levels'[i].payload \in Nat
    <3>1. i \in 1..Len(levels) /\ levels'[i] = levels[i]
      BY ZenonT(60), <1>1, <1>9, <2>3
    <3> QED  BY ZenonT(60), <1>2, <3>1
  <2> QED  BY ZenonT(60), <1>9, <1>14, <2>1, <2>2, <2>3 DEF Levels
<1>16. page_len(a, Len(v.entries), v.payload) <= config.page_size
  <2> DEFINE s == levels[l].first
  <2> DEFINE c == Len(Above.entries) + 1
  <2> DEFINE y == Above.payload + stored_key_len + ORDINAL_LEN
  <2>1. /\ internal_needs(Named(Above, s)) = page_len(2, c, y)
        /\ internal_needs(Named(Above, s)) > config.page_size => Len(Above.entries) > 1
    BY ZenonT(60), <1>1, <1>2, <1>3, ParentRoom
  <2>2. ~(internal_needs(Named(Above, s)) > config.page_size)
    <3>1. CASE innermost.asked
      <4>1. l # Len(levels) /\ Size(l + 1) = 0
        <5>1. innermost.level < Len(levels) /\ Size(innermost.level + 1) = 0
          BY ZenonT(60), <1>3, <3>1 DEF Good, Asked, innermost
        <5> QED  BY SMTT(60), <1>2, <1>3, <5>1 DEF l
      <4>2. Len(Above.entries) = 0
        BY ZenonT(60), <4>1, AboveIs DEF l
      <4>3. ~(0 > 1)
        BY SMT
      <4> QED  BY ZenonT(60), <2>1, <4>2, <4>3
    <3>2. CASE ~innermost.asked
      BY ZenonT(60), <3>2 DEF Full, l
    <3> QED  BY ZenonT(60), <3>1, <3>2
  <2>3. c \in Nat /\ y \in Nat
    BY SMTT(60), <1>1, <1>2 DEF ORDINAL_LEN
  <2>4. Len(v.entries) = c /\ v.payload = y
    BY ZenonT(60), <1>4, <1>11
  <2> HIDE DEF c, y, s
  <2>5. page_len(2, c, y) <= config.page_size
    BY ZenonT(60), <1>2, <2>1, <2>2, <2>3, NotOver
  <2>6. page_len(a, c, y) = page_len(2, c, y)
    <3>1. Settings /\ a # 1
      BY ZenonT(60), <1>1, <1>2
    <3> QED  BY SMTT(60), <3>1, Lengths
  <2> QED  BY ZenonT(60), <2>4, <2>5, <2>6
<1>17. FitIn(levels')
  <2>1. page_len(l, 0, 0) = Fixed(l, 0) + 0 /\ Fixed(l, 0) <= config.page_size /\ Fixed(l, 0) \in Nat
    <3>1. Settings /\ 0 \in Nat
      BY ZenonT(60), <1>2, <1>12
    <3> QED  BY SMTT(60), <3>1, Lengths
  <2>2. page_len(l, 0, 0) <= config.page_size /\ ~(0 = 1)
    BY <2>1
  <2>3. FitIn(levels)
    BY ZenonT(60) DEF Good, Fits
  <2>4. /\ page_len(l, Len(levels'[l].entries), levels'[l].payload) <= config.page_size
        /\ levels'[l].payload = 0 /\ Len(levels'[l].entries) # 1
    BY ZenonT(60), <1>5, <1>9, <1>12, <2>2
  <2>5. /\ page_len(a, Len(levels'[a].entries), levels'[a].payload) <= config.page_size
        /\ Len(levels'[a].entries) # 0
        /\ Len(levels'[a].entries) = 1 => levels'[a].payload = stored_key_len + ORDINAL_LEN
    BY ZenonT(60), <1>9, <1>13, <1>16
  <2>6. ASSUME NEW i \in 1..Len(levels'), i # l, i # a
        PROVE  i \in 1..Len(levels) /\ levels'[i] = levels[i]
    BY ZenonT(60), <1>1, <1>9, <2>6
  <2>7. ASSUME NEW i \in 1..Len(levels')
        PROVE  /\ page_len(i, Len(levels'[i].entries), levels'[i].payload) <= config.page_size
               /\ Len(levels'[i].entries) = 0 => levels'[i].payload = 0
               /\ i > 1 /\ Len(levels'[i].entries) = 1 => levels'[i].payload = stored_key_len + ORDINAL_LEN
    BY ZenonT(60), <2>3, <2>4, <2>5, <2>6 DEF FitIn
  <2> QED  BY ZenonT(60), <2>7 DEF FitIn
<1> QED  BY ZenonT(60), <1>1, <1>9, <1>11, <1>12, <1>15, <1>17 DEF Promoted, l, a

\* The level above was given one entry more, for a page of two or more separators, of one
\* row or more, or for the last page of a level.
LEMMA PromoteTapers ==
    ASSUME Good, Promote, Promoted, Ending => Ending',
           Len(frames) = 1 /\ frames[1].then = "finish" => Ending'
    PROVE  Tapers'
<1> DEFINE l == innermost.level
<1> DEFINE m == Len(levels)
<1> DEFINE m2 == Len(levels')
<1> DEFINE a == Len(Above.entries)
<1>1. /\ l \in 1..m /\ rows' = rows /\ pc = "rotate" /\ Size(l) > 0 /\ (Len(frames) > 1 => Size(l) > 1)
      /\ (Len(frames) = 1 => innermost = frames[1]) /\ frames[1].promote = TRUE
      /\ frames[1].then \in {"add", "ready", "finish"}
  BY ZenonT(60), Promoting
<1>2. m \in Nat /\ \A i \in 1..m : Size(i) \in Nat
  BY ZenonT(60), Basics
<1>3. a \in Nat /\ a = IF l = m THEN 0 ELSE Size(l + 1)
  BY ZenonT(60), AboveIs
<1>4. /\ m2 = IF l = m THEN m + 1 ELSE m
      /\ Len(levels'[l].entries) = 0 /\ Len(levels'[l + 1].entries) = a + 1
      /\ \A i \in 1..m : i # l /\ i # l + 1 => levels'[i] = levels[i]
  BY ZenonT(60) DEF Promoted
<1>5. Len(frames) = 1 \/ Len(frames) > 1
  BY ZenonT(60), <1>1, Running, OneOrMore
<1>6. l > 1 /\ Len(frames) = 1 => frames[1].then = "finish" /\ l < m /\ \A i \in 1..(l - 1) : Size(i) = 0
  <2>1. l > 1 => l # 1
    <3> HIDE DEF l
    <3> QED  BY <1>1
  <2> QED  BY ZenonT(60), <1>1, <2>1 DEF Good, Outermost
<1>7. PICK p \in [1..m -> 0..MaxKey] : Given(p)
  BY ZenonT(60) DEF Good, Tapers
<1>8. p[1] = 0 \/ \E r \in rows : p[1] <= r
  BY ZenonT(60), <1>7 DEF Given
<1>9. Size(m) <= p[m]
  BY ZenonT(60), <1>7 DEF Given
<1>10. \A i \in 1..(m - 1) : Shrinks(p, i)
  BY ZenonT(60), <1>7 DEF Given
<1> HIDE DEF l, m, m2, a
<1>11. \A i \in 1..m : p[i] \in Nat /\ p[i] <= MaxKey
  BY SMTT(60), <1>7, SizeAssumption
<1>12. MaxKey \in Nat /\ m >= 1 /\ l \in Nat /\ m2 \in Nat /\ m2 >= m /\ l + 1 \in 1..m2 /\ Size(l) \in Nat
  BY SMTT(60), <1>1, <1>2, <1>4, SizeAssumption
\* From a level with entries up, the last pages of finish are not written yet.
<1>13. ASSUME NEW i \in 1..(m - 1), i >= l
       PROVE  /\ i = 1 => p[2] + Size(1) <= p[1]
              /\ i > 1 => p[i + 1] + p[i + 1] + Size(i) <= p[i]
  <2>1. l \in 1..i /\ ~(0 > 0) /\ (i = 1 => ~(i > 1)) /\ (i > 1 => i # 1)
    BY <1>1, <1>2, <1>13
  <2> QED  BY ZenonT(60), <1>1, <1>10, <2>1 DEF Shrinks
<1> DEFINE b == IF l = m THEN 0 ELSE p[l + 1]
<1>14. b \in Nat /\ a <= b
  <2>1. CASE l = m
    BY <1>3, <2>1
  <2>2. CASE l # m
    <3>1. l + 1 \in 1..m /\ a = Size(l + 1) /\ b = p[l + 1] /\ b \in Nat /\ l + 1 > 1
      BY SMTT(60), <1>1, <1>2, <1>3, <1>11, <2>2
    <3>2. CASE l + 1 = m
      BY ZenonT(60), <1>9, <3>1, <3>2
    <3>3. CASE l + 1 # m
      <4> DEFINE k == l + 1
      <4>1. k \in 1..(m - 1) /\ k >= l /\ k > 1 /\ k \in 1..m /\ k + 1 \in 1..m
        BY SMTT(60), <1>1, <1>2, <3>1, <3>3
      <4> HIDE DEF k
      <4>2. p[k + 1] + p[k + 1] + Size(k) <= p[k]
        BY ZenonT(60), <1>13, <4>1
      <4>3. p[k + 1] \in Nat /\ p[k] \in Nat /\ Size(k) \in Nat
        BY ZenonT(60), <1>2, <1>11, <4>1
      <4>4. Size(k) <= p[k]
        BY SMTT(60), <4>2, <4>3
      <4> QED  BY ZenonT(60), <3>1, <4>4 DEF k
    <3> QED  BY ZenonT(60), <3>2, <3>3
  <2> QED  BY ZenonT(60), <2>1, <2>2
<1>15. (l = 1 => b + Size(1) <= p[1]) /\ (l > 1 => b + b + Size(l) <= p[l])
  <2>1. CASE l = m
    <3>1. Size(l) <= p[l] /\ b = 0 /\ Size(l) \in Nat
      BY ZenonT(60), <1>9, <1>12, <2>1
    <3>2. 0 + Size(l) = Size(l) /\ 0 + 0 + Size(l) = Size(l)
      BY SMTT(60), <3>1
    <3> QED  BY ZenonT(60), <3>1, <3>2
  <2>2. CASE l # m
    <3>1. l \in 1..(m - 1) /\ l >= l /\ (l = 1 => l + 1 = 2)
      BY <1>1, <1>2, <2>2
    <3> QED  BY ZenonT(60), <1>13, <2>2, <3>1
  <2> QED  BY ZenonT(60), <2>1, <2>2
<1> HIDE DEF b
<1>16. b + 1 <= p[l] /\ b + 1 <= MaxKey
  <2>1. p[l] \in Nat /\ p[l] <= MaxKey
    BY ZenonT(60), <1>1, <1>11
  <2>2. l = 1 \/ l > 1
    BY SMTT(60), <1>12, <1>1
  <2>3. CASE l = 1
    BY SMTT(60), <1>1, <1>12, <1>14, <1>15, <2>1, <2>3
  <2>4. CASE l > 1
    BY SMTT(60), <1>1, <1>12, <1>14, <1>15, <2>1, <2>4
  <2> QED  BY ZenonT(60), <2>2, <2>3, <2>4
<1>17. PICK q \in [1..m2 -> 0..MaxKey] : q[l + 1] = b + 1 /\ \A i \in 1..m : i # l + 1 => q[i] = p[i]
  <2> DEFINE f == [i \in 1..m2 |-> IF i = l + 1 THEN b + 1 ELSE p[i]]
  <2>1. ASSUME NEW i \in 1..m2, i # l + 1 PROVE i \in 1..m
    BY SMTT(60), <1>1, <1>2, <1>4, <2>1
  <2>2. b + 1 \in 0..MaxKey
    BY SMTT(60), <1>12, <1>14, <1>16
  <2>3. \A i \in 1..m : i \in 1..m2
    BY <1>2, <1>12
  <2>4. f \in [1..m2 -> 0..MaxKey] /\ f[l + 1] = b + 1 /\ \A i \in 1..m : i # l + 1 => f[i] = p[i]
    BY ZenonT(60), <1>7, <1>12, <2>1, <2>2, <2>3
  <2> HIDE DEF f
  <2> QED  BY ZenonT(60), <2>4
<1>18. ASSUME NEW i \in 1..(m2 - 1) PROVE Shrinks(q, i)'
  <2>1. CASE i = l
    <3>1. q[l] = p[l] /\ l # l + 1 /\ p[l] \in Nat
      <4>1. l # l + 1
        BY <1>12
      <4> QED  BY ZenonT(60), <1>1, <1>11, <1>17, <4>1
    <3>2. CASE l = 1
      <4>1. b + 1 + 0 <= p[l] /\ l + 1 = 2
        BY SMTT(60), <1>14, <1>16, <3>2
      <4>2. q[2] + Len(levels'[1].entries) <= q[1]
        BY ZenonT(60), <1>4, <1>17, <3>1, <3>2, <4>1
      <4> QED  BY ZenonT(60), <2>1, <3>2, <4>2 DEF Shrinks, Size
    <3>3. CASE l > 1 /\ Len(frames) > 1
      <4>1. (b + 1) + (b + 1) + 0 <= p[l]
        BY SMTT(60), <1>1, <1>12, <1>14, <1>15, <3>1, <3>3
      <4>2. q[l + 1] + q[l + 1] + Len(levels'[l].entries) <= q[l]
        BY ZenonT(60), <1>4, <1>17, <3>1, <4>1
      <4> QED  BY ZenonT(60), <2>1, <3>3, <4>2 DEF Shrinks, Size
    <3>4. CASE l > 1 /\ Len(frames) = 1
      <4>1. (b + 1) + (b + 1) <= p[l] + 1
        BY SMTT(60), <1>1, <1>12, <1>14, <1>15, <3>1, <3>4
      <4>2. q[l + 1] + q[l + 1] <= q[l] + 1
        BY ZenonT(60), <1>17, <3>1, <4>1
      <4>3. ASSUME NEW k \in 1..l PROVE Len(levels'[k].entries) = 0
        <5>1. k = l \/ (k \in 1..(l - 1) /\ k \in 1..m /\ k # l /\ k # l + 1)
          BY <1>1, <1>2, <1>12
        <5> QED  BY ZenonT(60), <1>4, <1>6, <3>4, <5>1 DEF Size
      <4>4. Ending'
        BY ZenonT(60), <1>6, <3>4
      <4> QED  BY ZenonT(60), <2>1, <3>4, <4>2, <4>3, <4>4 DEF Shrinks, Size
    <3>5. l = 1 \/ l > 1
      BY <1>1, <1>12
    <3> QED  BY ZenonT(60), <1>5, <3>2, <3>3, <3>4, <3>5
  <2>2. CASE i = l + 1
    <3>1. /\ l # m /\ m2 = m /\ i \in 1..(m - 1) /\ i >= l /\ i > 1 /\ i \in 1..m /\ i + 1 \in 1..m /\ i + 1 # l + 1
      BY SMTT(60), <1>1, <1>2, <1>4, <1>12, <2>2
    <3>2. p[i + 1] + p[i + 1] + Size(i) <= p[i]
      BY ZenonT(60), <1>13, <3>1
    <3>3. a = Size(i) /\ b = p[i] /\ Len(levels'[i].entries) = a + 1 /\ q[i] = b + 1 /\ q[i + 1] = p[i + 1]
      BY ZenonT(60), <1>3, <1>4, <1>17, <2>2, <3>1 DEF b
    <3>4. p[i] \in Nat /\ p[i + 1] \in Nat /\ Size(i) \in Nat
      BY ZenonT(60), <1>2, <1>11, <3>1
    <3>5. p[i + 1] + p[i + 1] + (Size(i) + 1) <= p[i] + 1
      BY SMTT(60), <3>2, <3>4
    <3>6. q[i + 1] + q[i + 1] + Len(levels'[i].entries) <= q[i]
      BY ZenonT(60), <3>3, <3>5
    <3> QED  BY ZenonT(60), <3>1, <3>6 DEF Shrinks, Size
  <2>3. CASE i < l
    <3>1. /\ i \in 1..(m - 1) /\ i \in 1..m /\ i + 1 \in 1..m /\ i # l + 1 /\ i + 1 # l + 1 /\ (i = 1 => i + 1 = 2)
          /\ \A k \in 1..i : k \in 1..m /\ k # l /\ k # l + 1
          /\ i \in 1..i
      BY SMTT(60), <1>1, <1>2, <1>12, <2>3
    <3>2. q[i] = p[i] /\ q[i + 1] = p[i + 1]
      BY ZenonT(60), <1>17, <3>1
    <3>3. \A k \in 1..i : Size(k)' = Size(k)
      BY ZenonT(60), <1>4, <3>1 DEF Size
    <3>4. Shrinks(p, i)
      BY ZenonT(60), <1>10, <3>1
    <3>5. CASE i = 1 /\ p[2] + Size(1) <= p[1]
      BY ZenonT(60), <3>1, <3>2, <3>3, <3>5 DEF Shrinks
    <3>6. CASE i > 1 /\ p[i + 1] + p[i + 1] + Size(i) <= p[i]
      BY ZenonT(60), <3>1, <3>2, <3>3, <3>6 DEF Shrinks
    <3>7. CASE i > 1 /\ Ending /\ (\A k \in 1..i : Size(k) = 0) /\ p[i + 1] + p[i + 1] <= p[i] + 1
      BY ZenonT(60), <3>1, <3>2, <3>3, <3>7 DEF Shrinks
    <3> QED  BY ZenonT(60), <3>4, <3>5, <3>6, <3>7 DEF Shrinks
  <2>4. CASE i > l + 1
    <3>1. /\ i \in 1..(m - 1) /\ i \in 1..m /\ i >= l /\ i > 1 /\ i + 1 \in 1..m
          /\ i # l /\ i # l + 1 /\ i + 1 # l + 1
      BY SMTT(60), <1>1, <1>2, <1>4, <1>12, <2>4
    <3>2. p[i + 1] + p[i + 1] + Size(i) <= p[i]
      BY ZenonT(60), <1>13, <3>1
    <3>3. q[i] = p[i] /\ q[i + 1] = p[i + 1] /\ levels'[i] = levels[i]
      BY ZenonT(60), <1>4, <1>17, <3>1
    <3>4. q[i + 1] + q[i + 1] + Len(levels'[i].entries) <= q[i]
      BY ZenonT(60), <3>2, <3>3 DEF Size
    <3> QED  BY ZenonT(60), <3>1, <3>4 DEF Shrinks, Size
  <2>5. i = l \/ i = l + 1 \/ i < l \/ i > l + 1
    BY <1>12
  <2> QED  BY ZenonT(60), <2>1, <2>2, <2>3, <2>4, <2>5
<1>19. Len(levels'[m2].entries) <= q[m2]
  <2>1. CASE m2 = l + 1
    <3>1. a + 1 <= b + 1
      BY <1>3, <1>14
    <3> QED  BY ZenonT(60), <1>4, <1>17, <2>1, <3>1
  <2>2. CASE m2 # l + 1
    <3>1. m2 = m /\ m \in 1..m /\ m # l /\ m # l + 1
      BY SMTT(60), <1>1, <1>2, <1>4, <1>12, <2>2
    <3>2. levels'[m] = levels[m] /\ q[m] = p[m]
      BY ZenonT(60), <1>4, <1>17, <3>1
    <3>3. Len(levels[m].entries) <= p[m]
      BY ZenonT(60), <1>9 DEF Size
    <3> QED  BY ZenonT(60), <3>1, <3>2, <3>3
  <2> QED  BY ZenonT(60), <2>1, <2>2
<1>20. q[1] = p[1]
  <2>1. 1 \in 1..m /\ 1 # l + 1
    BY <1>1, <1>2, <1>12
  <2> QED  BY ZenonT(60), <1>17, <2>1
<1>21. Given(q)'
  BY ZenonT(60), <1>1, <1>8, <1>18, <1>19, <1>20 DEF Given, Size, m2
<1> QED  BY ZenonT(60), <1>17, <1>21 DEF Tapers, m2

\* The call that promoted its page returns, to one that waited for it or to push or finish.
LEMMA ReturnKeeps ==
    ASSUME Good, config.table, Promote, Promoted,
           frames' = SubSeq(frames, 1, Len(frames) - 1),
           pc' = IF frames' = <<>> THEN innermost.then ELSE pc
    PROVE  Good'
<1> DEFINE n == Len(frames)
<1> DEFINE l == innermost.level
<1> DEFINE m == Len(levels)
<1> DEFINE m2 == Len(levels')
<1>1. /\ pc = "rotate" /\ config' = config /\ layout' = layout /\ rows' = rows /\ row' = row
      /\ innermost.then = frames[1].then /\ l = frames[1].level + n - 1 /\ l \in 1..m
      /\ frames[1].promote = TRUE /\ frames[1].then \in {"add", "ready", "finish"} /\ check_key_fits
      /\ (n = 1 => innermost = frames[1])
  BY ZenonT(60), Promoting
<1>2. /\ List(frames) /\ n \in Nat /\ n \in 1..n /\ 1 \in 1..n
      /\ \A i \in 1..n : FrameRecord(frames[i]) /\ frames[i].level \in 1..m
  BY ZenonT(60), <1>1, Running
<1>3. Settings /\ m \in Nat
  BY ZenonT(60), Basics
<1>4. /\ Levels(levels') /\ FitIn(levels') /\ m2 = IF l = m THEN m + 1 ELSE m
      /\ Len(levels'[l].entries) = 0
      /\ \A i \in 1..m : i # l /\ i # l + 1 => levels'[i] = levels[i]
  BY ZenonT(60) DEF Promoted
<1>5. n > 0
  <2> HIDE DEF n
  <2> QED  BY <1>2
<1>6. List(frames') /\ Len(frames') = n - 1 /\ \A i \in 1..(n - 1) : frames'[i] = frames[i]
  <2>1. Shorter(frames, SubSeq(frames, 1, Len(frames) - 1))
    BY ZenonT(60), <1>2, <1>5, ListFront
  <2> QED  BY ZenonT(60), <2>1 DEF Shorter
<1>7. n = 1 <=> frames' = <<>>
  <2>1. frames' = <<>> <=> Len(frames') = 0
    BY SMTT(60), <1>6 DEF List
  <2>2. n = 1 <=> n - 1 = 0
    <3> HIDE DEF n
    <3> QED  BY <1>2
  <2> QED  BY ZenonT(60), <1>6, <2>1, <2>2
<1>8. Len(frames) = 1 \/ Len(frames) > 1
  BY ZenonT(60), <1>2, OneOrMore
<1>9. n = 1 => pc' = frames[1].then
  BY ZenonT(60), <1>1, <1>7
<1>10. n > 1 => pc' = "rotate" /\ frames'[1] = frames[1]
  <2>1. n > 1 => n # 1 /\ 1 \in 1..(n - 1)
    <3> HIDE DEF n
    <3> QED  BY <1>2
  <2> QED  BY ZenonT(60), <1>1, <1>6, <1>7, <2>1
<1>11. (Ending => Ending') /\ (n = 1 /\ frames[1].then = "finish" => Ending') /\ (Pushing' => Pushing)
  BY ZenonT(60), <1>1, <1>8, <1>9, <1>10 DEF Ending, Pushing
<1>12. Tapers'
  BY ZenonT(60), <1>11, PromoteTapers
<1>13. Settings' /\ Fits' /\ check_key_fits'
  BY ZenonT(60), <1>1, <1>3, <1>4, Kept
<1>14. pc' \in {"ready", "add", "rotate", "finish", "built"}
  BY ZenonT(60), <1>1, <1>8, <1>9, <1>10
<1>15. Types'
  BY ZenonT(60), <1>1, <1>4, <1>11, <1>13, <1>14 DEF Good, Types
\* The calls below are at lower levels.
<1>16. ASSUME NEW i \in 1..(n - 1)
       PROVE  /\ i \in 1..n /\ i < n /\ frames[i].level \in 1..m /\ frames[i].level \in 1..m2
              /\ frames[i].level # l /\ frames[i].level # l + 1 /\ frames[i].level = frames[1].level + i - 1
              /\ frames[i].level < l
  <2>1. i \in 1..n /\ i < n
    <3> HIDE DEF n
    <3> QED  BY <1>2
  <2>2. frames[i].level = frames[1].level + i - 1 /\ frames[i].level \in 1..m /\ frames[1].level \in 1..m
    BY ZenonT(60), <1>2, <2>1 DEF Good, Stack
  <2>3. l = frames[1].level + n - 1
    BY ZenonT(60), <1>1
  <2> HIDE DEF n, l, m, m2
  <2> QED  BY SMTT(60), <1>1, <1>2, <1>3, <1>4, <2>1, <2>2, <2>3
<1>17. Stack'
  <2>1. n - 1 \in Nat /\ (n - 1 > 0 <=> n > 1) /\ (n = 1 => ~(n > 1))
    <3> HIDE DEF n
    <3> QED  BY <1>2
  <2>2. pc' = "rotate" <=> Len(frames') > 0
    BY ZenonT(60), <1>1, <1>6, <1>8, <1>9, <1>10, <2>1
  <2>3. ASSUME NEW i \in 1..(n - 1)
        PROVE  /\ FrameRecord(frames'[i])
               /\ frames'[i].level = frames'[1].level + i - 1
               /\ frames'[i].level \in 1..m2
               /\ frames'[i].then = frames'[1].then
               /\ frames'[i].promote => Len(levels'[frames'[i].level].entries) > 0
               /\ i > 1 => frames'[i].promote /\ Len(levels'[frames'[i].level].entries) > 1
               /\ i < n - 1 => frames'[i].asked = TRUE
    <3>1. frames'[i] = frames[i] /\ frames'[1] = frames[1]
      <4>1. 1 \in 1..(n - 1)
        <5> HIDE DEF n
        <5> QED  BY <1>2
      <4> QED  BY ZenonT(60), <1>6, <4>1
    <3>2. levels'[frames[i].level] = levels[frames[i].level]
      BY ZenonT(60), <1>4, <1>16
    <3>3. /\ FrameRecord(frames[i]) /\ frames[i].then = frames[1].then
          /\ frames[i].promote => Size(frames[i].level) > 0
          /\ i > 1 => frames[i].promote /\ Size(frames[i].level) > 1
          /\ frames[i].asked = TRUE
      BY ZenonT(60), <1>16 DEF Good, Stack
    <3> QED  BY ZenonT(60), <1>16, <3>1, <3>2, <3>3 DEF Size
  <2> QED  BY ZenonT(60), <1>6, <2>2, <2>3 DEF Stack, Size
<1>18. Outermost'
  <2>1. CASE n = 1
    BY ZenonT(60), <1>1, <1>9, <2>1 DEF Outermost
  <2>2. CASE n > 1
    <3>1. /\ frames'[1] = frames[1] /\ frames[1].level \in 1..m /\ frames[1].level < l
      <4>1. 1 \in 1..(n - 1)
        <5> HIDE DEF n
        <5> QED  BY <1>2, <2>2
      <4> QED  BY ZenonT(60), <1>10, <1>16, <2>2, <4>1
    <3>2. /\ \A k \in 1..(frames[1].level - 1) : k \in 1..m /\ k # l /\ k # l + 1
          /\ frames[1].level < m => frames[1].level < m2
      <4> HIDE DEF l, m, m2
      <4> QED  BY SMTT(60), <1>1, <1>3, <1>4, <3>1
    <3>3. \A k \in 1..(frames[1].level - 1) : Size(k)' = Size(k)
      BY ZenonT(60), <1>4, <3>2 DEF Size
    <3> QED  BY ZenonT(60), <1>1, <3>1, <3>2, <3>3 DEF Good, Outermost
  <2> QED  BY ZenonT(60), <1>8, <2>1, <2>2
<1>19. Asked'
  <2>1. CASE n = 1
    BY ZenonT(60), <1>1, <1>9, <2>1 DEF Asked
  <2>2. CASE n > 1
    <3>1. n - 1 \in 1..(n - 1)
      <4> HIDE DEF n
      <4> QED  BY SMTT(60), <1>2, <2>2
    <3> DEFINE g == frames[n - 1]
    <3>2. frames'[Len(frames')] = g /\ g.level = frames[1].level + (n - 1) - 1 /\ g.level \in 1..m
      BY ZenonT(60), <1>6, <1>16, <3>1
    <3>3. frames[1].level \in 1..m
      BY ZenonT(60), <1>2
    <3>4. g.level + 1 = l /\ g.level < m2
      <4> HIDE DEF n, l, m, m2, g
      <4> QED  BY SMTT(60), <1>1, <1>2, <1>3, <1>4, <3>2, <3>3
    <3> QED  BY ZenonT(60), <1>4, <3>2, <3>4 DEF Asked, Size
  <2> QED  BY ZenonT(60), <1>8, <2>1, <2>2
<1>20. Room'
  <2>1. SUFFICES ASSUME pc' = "add" PROVE Size(1)' = 0
    BY ZenonT(60) DEF Room
  <2>2. n = 1
    BY ZenonT(60), <1>8, <1>10, <2>1
  <2>3. frames[1].then = "add" /\ innermost = frames[1]
    BY ZenonT(60), <1>1, <1>9, <2>1, <2>2
  <2>4. l = 1
    BY ZenonT(60), <1>1, <2>3 DEF Good, Outermost
  <2> QED  BY ZenonT(60), <1>4, <2>4 DEF Size
<1> QED  BY ZenonT(60), <1>12, <1>13, <1>15, <1>17, <1>18, <1>19, <1>20 DEF Good

-----------------------------------------------------------------------------
\* The theorem.

\* There are fewer rows than fill a tree as deep as the writer builds.  The code's depth is 64
\* levels, and 2^62 rows of no less than ten bytes are more than a file's 64-bit offsets reach.
DepthSuffices == MAX_LEVELS >= 2 /\ MaxKey <= power_of_two[MAX_LEVELS - 2]

\* Promote keeps the invariant: there is a level above, and it takes the page's first key or
\* is written first.
LEMMA PromoteKeeps ==
    ASSUME DepthSuffices, Good, config.table, Promote
    PROVE  Good'
<1>1. ~Deep
  BY ZenonT(60), NotDeep DEF DepthSuffices
<1>2. CASE Full /\ frames' = Append([frames EXCEPT ![Len(frames)].asked = TRUE],
                                    Rotate(innermost.level + 1, TRUE, innermost.then))
                /\ levels' = [Grown EXCEPT ![innermost.level + 1] = Named(Above, levels[innermost.level].first)]
                /\ pc' = pc
  BY ZenonT(60), <1>2, FullKeeps
<1>3. ASSUME NEW k, NEW e, ~Full,
             levels' = [Grown EXCEPT ![innermost.level + 1] = With(@, k, e, ORDINAL_LEN),
                                     ![innermost.level] = reset(@, innermost.page)],
             frames' = SubSeq(frames, 1, Len(frames) - 1),
             pc' = IF frames' = <<>> THEN innermost.then ELSE pc
      PROVE  Good'
  <2>1. Promoted
    BY ZenonT(60), <1>1, <1>3, PromoteLevels
  <2> QED  BY ZenonT(60), <1>3, <2>1, ReturnKeeps
<1> QED  BY ZenonT(60), <1>1, <1>2, <1>3, PromoteIs

\* Every step of the writer keeps the invariant.
LEMMA StepKeeps ==
    ASSUME DepthSuffices, Inv, [WriterNext]_writerVars
    PROVE  Inv'
<1>1. SUFFICES ASSUME config'.table PROVE Good' \/ Refused'
  BY ZenonT(60) DEF Inv
<1>2. config' = config
  BY ZenonT(60) DEF WriterNext, writerVars, Push, AddEntry, FlushPage, RefusePage, Promote, Finish, FinishLevel
<1>3. CASE Refused
  <2>1. /\ ~(pc = "ready") /\ ~(pc = "add") /\ ~(pc = "rotate") /\ ~(pc = "finish")
    BY <1>3 DEF Refused
  <2>2. UNCHANGED writerVars
    BY ZenonT(60), <2>1 DEF WriterNext, Push, AddEntry, FlushPage, RefusePage, Promote, Finish, FinishLevel
  <2>3. config' = config /\ pages' = pages /\ row' = row /\ pc' = pc
    BY ZenonT(60), <2>2 DEF writerVars
  <2> QED  BY ZenonT(60), <1>3, <2>3 DEF Refused, HasRoom
<1> SUFFICES ASSUME Good PROVE Good' \/ Refused'
  BY ZenonT(60), <1>1, <1>2, <1>3 DEF Inv
<1>4. CASE \E k \in Keys, len \in config.values : Push(k, len)
  <2>1. PICK k \in Keys, len \in config.values : Push(k, len)
    BY ZenonT(60), <1>4
  <2>2. CASE len > MAX_I32
    <3>1. pc' = "failed" /\ row' = [key |-> k, len |-> len]
      BY ZenonT(60), <2>1, <2>2 DEF Push
    <3>2. row'.len = len
      BY <3>1
    <3> QED  BY ZenonT(60), <2>2, <3>1, <3>2 DEF Refused
  <2> QED  BY ZenonT(60), <1>1, <1>2, <2>1, <2>2, PushKeeps
<1>5. CASE RefusePage
  <2>1. pc' = "failed" /\ pages' = pages /\ config' = config /\ ~HasRoom
    BY ZenonT(60), <1>5 DEF RefusePage
  <2> QED  BY ZenonT(60), <2>1 DEF Refused, HasRoom
<1>6. CASE AddEntry
  BY ZenonT(60), <1>1, <1>2, <1>6, AddKeeps
<1>7. CASE FlushPage
  BY ZenonT(60), <1>1, <1>2, <1>7, FlushKeeps
<1>8. CASE Promote
  BY ZenonT(60), <1>1, <1>2, <1>8, PromoteKeeps
<1>9. CASE Finish
  BY ZenonT(60), <1>1, <1>2, <1>9, FinishKeeps
<1>10. CASE FinishLevel
  BY ZenonT(60), <1>1, <1>2, <1>10, FinishLevelKeeps
<1>11. CASE UNCHANGED writerVars
  <2>1. /\ config' = config /\ layout' = layout /\ levels' = levels /\ frames' = frames /\ rows' = rows
        /\ row' = row /\ pc' = pc
    BY ZenonT(60), <1>11 DEF writerVars
  <2>2. Good' <=> Good
    BY ZenonT(60), <2>1, Same
  <2> QED  BY ZenonT(60), <2>2
<1> QED  BY ZenonT(60), <1>4, <1>5, <1>6, <1>7, <1>8, <1>9, <1>10, <1>11 DEF WriterNext

(***************************************************************************)
(* Whatever rows append accepts, of whatever lengths, push and finish fail *)
(* only for a value longer than i32::MAX, which append does not look at,   *)
(* or for a page beyond those the directory takes: the key fits on the     *)
(* pages it has to go on, every page in the making stays within the page   *)
(* size, and the tree never needs more levels than MAX_LEVELS.             *)
(***************************************************************************)
THEOREM AcceptedRowsAlwaysBuilt == DepthSuffices => (WriterSpec => []AcceptedRowsAreBuilt)
<1> SUFFICES ASSUME DepthSuffices PROVE WriterSpec => []AcceptedRowsAreBuilt
  OBVIOUS
<1>1. Init => Inv
  BY ZenonT(60), InitGood DEF Inv
<1>2. Inv /\ [WriterNext]_writerVars => Inv'
  BY ZenonT(60), StepKeeps
<1>3. Inv => AcceptedRowsAreBuilt
  BY ZenonT(60) DEF Inv, Refused, Good, Types, AcceptedRowsAreBuilt
<1> QED  BY <1>1, <1>2, <1>3, PTL DEF WriterSpec

-----------------------------------------------------------------------------
\* What a verification pass says.

\* A report that is within its limit and owns up to what it left out.
Reports == [problems : Nat, truncated : BOOLEAN, failed : BOOLEAN, missed : BOOLEAN]
Honest(r) == r \in Reports /\ r.problems <= request.max_problems /\ (r.missed => r.truncated)

\* Before the pass the report is empty; until it returns there is no result; a tree is
\* begun, and Ok returned, only while nothing has failed.
Said ==
    /\ request.max_problems \in Nat
    /\ Honest(report)
    /\ stage \in {"build", "closed"} => report.problems = 0 /\ ~report.failed
    /\ stage # "done" => result = "none"
    /\ stage = "tree" \/ result = "Ok" => ~report.failed

\* Fields that are set, and the others.
LEMMA Fields ==
    ASSUME NEW r \in Reports, NEW b \in BOOLEAN
    PROVE  /\ LET s == [r EXCEPT !.truncated = b, !.missed = b]
              IN  s \in Reports /\ s.problems = r.problems /\ s.truncated = b
           /\ LET s == [r EXCEPT !.failed = b]
              IN  s \in Reports /\ s.problems = r.problems /\ s.truncated = r.truncated /\ s.missed = r.missed
<1> DEFINE x == [r EXCEPT !.truncated = b, !.missed = b]
           y == [r EXCEPT !.failed = b]
           z == [r EXCEPT !.truncated = b]
<1>0. x = [z EXCEPT !.missed = b]
  BY SMTT(60)
<1>1. x \in Reports /\ x.problems = r.problems
  <2>1. z \in Reports /\ z.problems = r.problems
    BY SMTT(60) DEF Reports
  <2> HIDE DEF x, z
  <2> QED  BY SMTT(60), <1>0, <2>1 DEF Reports
<1>2. x.truncated = b
  BY SMTT(60) DEF Reports
<1>3. y \in Reports
  BY SMTT(60) DEF Reports
<1>4. y.problems = r.problems /\ y.truncated = r.truncated /\ y.missed = r.missed
  BY SMTT(60) DEF Reports
<1> QED  BY ZenonT(60), <1>1, <1>2, <1>3, <1>4

\* Reporter::problem counts a problem that is kept while there is room, and marks the
\* report where it is not.
LEMMA ProblemHonest ==
    ASSUME request.max_problems \in Nat, NEW r, Honest(r), NEW s \in problem(r)
    PROVE  Honest(s)
<1>1. CASE s = Unkept(r)
  <2>1. s \in Reports /\ s.problems = r.problems /\ s.truncated = TRUE
    BY ZenonT(60), <1>1, Fields DEF Honest, Unkept
  <2> QED  BY ZenonT(60), <2>1 DEF Honest
<1>2. CASE ~full(r) /\ s = [r EXCEPT !.problems = @ + 1]
  <2>1. r \in Reports /\ r.problems < request.max_problems
    BY SMTT(60), <1>2 DEF Honest, Reports, full
  <2>2. s \in Reports /\ s.problems = r.problems + 1 /\ s.truncated = r.truncated /\ s.missed = r.missed
    BY SMTT(60), <1>2, <2>1 DEF Reports
  <2>3. r.problems \in Nat
    BY SMTT(60), <2>1 DEF Reports
  <2>4. s.problems <= request.max_problems
    BY SMTT(60), <2>1, <2>2, <2>3
  <2> QED  BY ZenonT(60), <2>2, <2>4 DEF Honest
<1> QED  BY ZenonT(60), <1>1, <1>2 DEF problem

\* A load that stops the pass leaves the rest of the report as it was.
LEMMA StoppedHonest ==
    ASSUME NEW r, Honest(r)
    PROVE  Honest(Stopped(r))
<1> DEFINE s == Stopped(r)
<1>1. s \in Reports /\ s.problems = r.problems /\ s.truncated = r.truncated /\ s.missed = r.missed
  BY ZenonT(60), Fields DEF Honest, Stopped
<1> HIDE DEF s
<1>2. Honest(s)
  BY ZenonT(60), <1>1 DEF Honest
<1> QED  BY ZenonT(60), <1>2 DEF s

\* A report is marked as cut short.
LEMMA CutHonest ==
    ASSUME NEW r, Honest(r), NEW b \in BOOLEAN, r.truncated => b
    PROVE  LET s == [r EXCEPT !.truncated = b] IN Honest(s) /\ s.failed = r.failed
<1> DEFINE s == [r EXCEPT !.truncated = b]
<1>0. r \in Reports
  BY ZenonT(60) DEF Honest
<1>1. /\ s \in Reports /\ s.problems = r.problems /\ s.truncated = b
      /\ s.missed = r.missed /\ s.failed = r.failed
  <2>1. s \in Reports
    BY SMTT(60), <1>0 DEF Reports
  <2>2. s.problems = r.problems /\ s.truncated = b /\ s.missed = r.missed /\ s.failed = r.failed
    BY SMTT(60), <1>0 DEF Reports
  <2> QED  BY ZenonT(60), <2>1, <2>2
<1> HIDE DEF s
<1>2. Honest(s) /\ s.failed = r.failed
  BY ZenonT(60), <1>1 DEF Honest
<1> QED  BY ZenonT(60), <1>2 DEF s

\* A check that may find something.
LEMMA NotedHonest ==
    ASSUME request.max_problems \in Nat, NEW r, Honest(r), NEW wrong, NEW s \in Noted(r, wrong)
    PROVE  Honest(s)
BY ZenonT(60), ProblemHonest DEF Noted

\* Two checks, one after the other.
LEMMA BothHonest ==
    ASSUME request.max_problems \in Nat, NEW r, Honest(r), NEW one, NEW other,
           NEW s \in NotedBoth(r, one, other)
    PROVE  Honest(s)
BY ZenonT(60), NotedHonest DEF NotedBoth

\* A page that is walked to.
LEMMA WalkHonest ==
    ASSUME request.max_problems \in Nat, NEW r, Honest(r), NEW p, NEW o \in walk_page(p, r)
    PROVE  Honest(o.report)
<1>0. \A g, s : [got |-> g, report |-> s].report = s
  BY SMTT(60)
<1>1. CASE o = [got |-> TRUE, report |-> r]
  BY ZenonT(60), <1>0, <1>1
<1>2. CASE o = [got |-> FALSE, report |-> Stopped(r)]
  BY ZenonT(60), <1>0, <1>2, StoppedHonest
<1>3. CASE \E s \in problem(r) : o = [got |-> FALSE, report |-> s]
  BY ZenonT(60), <1>0, <1>3, ProblemHonest
<1> QED  BY ZenonT(60), <1>1, <1>2, <1>3 DEF walk_page

\* The chain of the level below.
LEMMA ExpectHonest ==
    ASSUME request.max_problems \in Nat, NEW r, Honest(r), NEW lower, NEW child, NEW separator,
           NEW o \in expect(lower, child, separator, r)
    PROVE  Honest(o.report)
<1> DEFINE Fine(S) == \A x \in S : Honest(x.report)
<1>0. \A l, s : [lower |-> l, report |-> s].report = s
  BY SMTT(60)
<1>1. Fine({[lower |-> lower, report |-> r]})
  BY ZenonT(60), <1>0
<1>2. ASSUME NEW l, NEW S, \A s \in S : Honest(s) PROVE Fine({[lower |-> l, report |-> s] : s \in S})
  BY ZenonT(60), <1>0, <1>2
<1>3. \A s \in problem(r) : Honest(s)
  BY ZenonT(60), ProblemHonest
<1>4. \A x \in walk_page(child, r) : Honest(x.report)
  BY ZenonT(60), WalkHonest
<1>5. ASSUME NEW x \in walk_page(child, r), NEW l, NEW k, NEW wrong
      PROVE  /\ Fine({[lower |-> l, report |-> x.report]})
             /\ Fine({[lower |-> k, report |-> s] : s \in Noted(x.report, wrong)})
  <2>1. Honest(x.report)
    BY ZenonT(60), <1>4, <1>5
  <2>2. \A s \in Noted(x.report, wrong) : Honest(s)
    BY ZenonT(60), <2>1, NotedHonest
  <2>3. Fine({[lower |-> l, report |-> x.report]})
    BY ZenonT(60), <1>0, <2>1
  <2> QED  BY ZenonT(60), <1>2, <2>2, <2>3
<1>6. Fine(expect(lower, child, separator, r))
  <2> HIDE DEF Fine
  <2> DEFINE k == [lower EXCEPT !.started = TRUE, !.broken = TRUE]
             n == [lower EXCEPT !.started = TRUE, !.steps_left = @ - 1, !.current = pages[child].right]
             w == ~check_separator(child, separator)
             Each(x) == IF ~x.got THEN {[lower |-> k, report |-> x.report]}
                        ELSE {[lower |-> n, report |-> s] : s \in Noted(x.report, w)}
  <2>1. \A x \in walk_page(child, r) : Fine(Each(x))
    BY ZenonT(60), <1>5
  <2>2. Fine(UNION {Each(x) : x \in walk_page(child, r)})
    <3> HIDE DEF Each
    <3> QED  BY ZenonT(60), <2>1 DEF Fine
  <2>3. Fine({[lower |-> k, report |-> s] : s \in problem(r)})
    BY ZenonT(60), <1>2, <1>3
  <2> QED  BY ZenonT(60), <1>1, <2>2, <2>3 DEF expect
<1> QED  BY ZenonT(60), <1>6

\* The page of a value that is not on the leaf.
LEMMA OverflowHonest ==
    ASSUME request.max_problems \in Nat, NEW r, Honest(r), NEW q, NEW s \in check_overflow_value(q, r)
    PROVE  Honest(s)
<1>1. \A o \in walk_page(q, r) : Honest(o.report)
  BY ZenonT(60), WalkHonest
<1>2. \A wrong : \A o \in walk_page(q, r) : \A x \in Noted(o.report, wrong) : Honest(x)
  BY ZenonT(60), <1>1, NotedHonest
<1> DEFINE w == ~(pages[q].leaf /\ Count(q) = 0)
           Each(o) == IF ~o.got THEN {o.report} ELSE Noted(o.report, w)
<1>3. \A o \in walk_page(q, r) : \A x \in Each(o) : Honest(x)
  <2> HIDE DEF w
  <2> QED  BY ZenonT(60), <1>1, <1>2
<1>4. check_overflow_value(q, r) = IF q \notin DOMAIN pages THEN problem(r)
                                   ELSE UNION {Each(o) : o \in walk_page(q, r)}
  BY ZenonT(60) DEF check_overflow_value
<1> HIDE DEF Each
<1> QED  BY ZenonT(60), <1>3, <1>4, ProblemHonest

\* The row a reference leads to.
LEMMA RefHonest ==
    ASSUME request.max_problems \in Nat, NEW r, Honest(r), NEW v, NEW q, NEW s \in check_page_ref(v, q, r)
    PROVE  Honest(s)
<1> DEFINE p == ParseRef(v).page
<1>1. \A o \in walk_page(p, r) : Honest(o.report)
  BY ZenonT(60), WalkHonest
<1>2. \A wrong : \A o \in walk_page(p, r) : \A x \in Noted(o.report, wrong) : Honest(x)
  BY ZenonT(60), <1>1, NotedHonest
<1>3. \A o \in walk_page(p, r) : Honest(Stopped(o.report))
  BY ZenonT(60), <1>1, StoppedHonest
<1> DEFINE w == ~is_value(ParseRef(v))
           Each(o) == IF ~o.got THEN {o.report} ELSE {Stopped(o.report)} \cup Noted(o.report, w)
<1>4. \A o \in walk_page(p, r) : \A x \in Each(o) : Honest(x)
  <2> HIDE DEF w
  <2> QED  BY ZenonT(60), <1>1, <1>2, <1>3
<1>5. check_page_ref(v, q, r) = IF ~parses(v, q) THEN problem(r)
                                ELSE UNION {Each(o) : o \in walk_page(p, r)}
  BY ZenonT(60) DEF check_page_ref
<1> HIDE DEF Each, p
<1> QED  BY ZenonT(60), <1>4, <1>5, ProblemHonest

\* The value of an entry.
LEMMA ValueHonest ==
    ASSUME request.max_problems \in Nat, NEW r, Honest(r), NEW p, NEW i, NEW s \in check_value(p, i, r)
    PROVE  Honest(s)
<1> DEFINE b == pages[p].entries[i].blob
           v == pages[p].entries[i].val
<1>1. \A x \in check_page_ref(v, p, r) : Honest(x)
  BY ZenonT(60), RefHonest
<1>2. \A x \in check_overflow_value(b, r) : Honest(x)
  BY ZenonT(60), OverflowHonest
<1>3. \A x \in check_overflow_value(b, r) : \A o \in walk_page(b, x) : Honest(o.report)
  BY ZenonT(60), <1>2, WalkHonest
<1>4. \A w, q : \A x \in check_overflow_value(b, r) : \A o \in walk_page(b, x) :
        \A y \in check_page_ref(w, q, o.report) : Honest(y)
  BY ZenonT(60), <1>3, RefHonest
<1> DEFINE Inner(o) == IF ~o.got THEN {o.report} ELSE check_page_ref(pages[b].val, b, o.report)
           Outer(x) == IF ~(walk.tree = 2) THEN {x} ELSE UNION {Inner(o) : o \in walk_page(b, x)}
<1>5. \A x \in check_overflow_value(b, r) : \A o \in walk_page(b, x) : \A y \in Inner(o) : Honest(y)
  BY ZenonT(60), <1>3, <1>4
<1>6. \A x \in check_overflow_value(b, r) : \A y \in Outer(x) : Honest(y)
  <2> HIDE DEF Inner
  <2> QED  BY ZenonT(60), <1>2, <1>5
<1>7. check_value(p, i, r) = IF b = None THEN IF walk.tree = 2 THEN check_page_ref(v, p, r) ELSE {r}
                             ELSE UNION {Outer(x) : x \in check_overflow_value(b, r)}
  BY ZenonT(60) DEF check_value
<1> HIDE DEF Outer
<1> QED  BY ZenonT(60), <1>1, <1>6, <1>7

\* A step that goes on keeps what is said, with an honest report.
LEMMA Going ==
    ASSUME Said, stage # "done", NEW where, NEW r, NEW w, Go(where, r, w), Honest(r),
           where \notin {"build", "closed", "done"}, where = "tree" => ~r.failed
    PROVE  Said'
<1>1. request' = request /\ report' = r /\ stage' = where /\ result' = result
  BY ZenonT(60) DEF Go, kept
<1>2. Honest(report)'
  BY ZenonT(60), <1>1 DEF Honest
<1> QED  BY ZenonT(60), <1>1, <1>2 DEF Said

\* So does one that returns, and one that leaves the report alone.
LEMMA Returning ==
    ASSUME Said, NEW value, Return(value), request' = request, Honest(report'), value = "Ok" => ~report'.failed
    PROVE  Said'
<1>1. Honest(report)'
  BY ZenonT(60) DEF Honest
<1> QED  BY ZenonT(60), <1>1 DEF Said, Return

-----------------------------------------------------------------------------

\* The steps before a pass, and its beginning.
LEMMA BeforePass ==
    ASSUME Said, Write \/ NextTree \/ Damage \/ \E options \in Requests : verify(options)
    PROVE  Said'
<1>1. CASE Write
  <2>1. request' = request /\ report' = report /\ stage' = stage /\ result' = result
    BY ZenonT(60), <1>1 DEF Write, verifyVars
  <2> QED  BY ZenonT(60), <2>1 DEF Said, Honest
<1>2. CASE NextTree
  <2>1. request' = request /\ report' = report /\ result' = result /\ stage = "build"
    BY ZenonT(60), <1>2 DEF NextTree
  <2>2. stage' = "build" \/ stage' = "closed"
    BY ZenonT(60), <1>2 DEF NextTree
  <2> QED  BY ZenonT(60), <2>1, <2>2 DEF Said, Honest
<1>3. CASE Damage
  <2>1. request' = request /\ report' = report /\ stage' = stage /\ result' = result
    BY ZenonT(60), <1>3 DEF Damage
  <2> QED  BY ZenonT(60), <2>1 DEF Said, Honest
<1>4. CASE \E options \in Requests : verify(options)
  <2>1. PICK options \in Requests : verify(options)
    BY ZenonT(60), <1>4
  <2>2. stage = "closed" /\ request' = options /\ report' = report
    BY ZenonT(60), <2>1 DEF verify
  <2>3. options.max_problems \in Nat
    BY ZenonT(60), VerifyAssumption DEF RequestType
  <2>4. report.problems = 0 /\ ~report.failed /\ result = "none" /\ Honest(report)
    BY ZenonT(60), <2>2 DEF Said
  <2>5. 0 <= options.max_problems
    BY <2>3
  <2>6. Honest(report)'
    BY ZenonT(60), <2>2, <2>4, <2>5 DEF Honest
  <2>7. \/ stage' = "done" /\ result' = "Err"
        \/ stage' \in {"sweep", "tree"} /\ result' = result
    BY ZenonT(60), <2>1 DEF verify, Return
  <2> QED  BY ZenonT(60), <2>2, <2>3, <2>4, <2>6, <2>7 DEF Said
<1> QED  BY ZenonT(60), <1>1, <1>2, <1>3, <1>4

\* The sweep of the directory.
LEMMA SweepSays ==
    ASSUME Said, SweepPage \/ EndSweep
    PROVE  Said'
<1>0. request.max_problems \in Nat /\ Honest(report) /\ stage = "sweep" /\ result = "none"
  BY ZenonT(60) DEF Said, SweepPage, EndSweep
<1>1. CASE SweepPage
  <2>1. PICK o \in walk_page(walk.page, report) : Go("sweep", o.report, [walk EXCEPT !.page = @ + 1])
    BY ZenonT(60), <1>1 DEF SweepPage
  <2>2. Honest(o.report)
    BY ZenonT(60), <1>0, WalkHonest
  <2>3. stage # "done" /\ "sweep" \notin {"build", "closed", "done"} /\ "sweep" # "tree"
    BY ZenonT(60), <1>0
  <2> QED  BY ZenonT(60), <2>1, <2>2, <2>3, Going
<1>2. CASE EndSweep
  <2> DEFINE cut == walk.page <= Len(pages) /\ ~report.failed
  <2>1. /\ request' = request /\ report' = [report EXCEPT !.truncated = @ \/ cut]
        /\ IF report.failed THEN Return("Err") ELSE IF cut THEN Return("Ok") ELSE stage' = "tree" /\ result' = result
    BY ZenonT(60), <1>2 DEF EndSweep, kept
  <2>2. Honest(report') /\ report'.failed = report.failed
    <3> DEFINE b == report.truncated \/ cut
    <3>1. b \in BOOLEAN /\ (report.truncated => b)
      BY ZenonT(60)
    <3>2. report' = [report EXCEPT !.truncated = b]
      BY SMTT(60), <2>1
    <3> HIDE DEF b
    <3> QED  BY ZenonT(60), <1>0, <3>1, <3>2, CutHonest
  <2>3. Honest(report)'
    BY ZenonT(60), <2>1, <2>2 DEF Honest
  <2> HIDE DEF cut
  <2>4. CASE Return("Err") \/ (Return("Ok") /\ ~report.failed)
    BY ZenonT(60), <2>1, <2>2, <2>4, Returning
  <2>5. CASE stage' = "tree" /\ result' = result /\ ~report.failed
    BY ZenonT(60), <1>0, <2>1, <2>2, <2>3, <2>5 DEF Said
  <2> QED  BY ZenonT(60), <2>1, <2>4, <2>5
<1> QED  BY ZenonT(60), <1>1, <1>2

\* The walk of a tree, level by level: an honest report is kept, and the walk ends with it.
LEMMA WalkSays ==
    ASSUME Said, BeginTree \/ BeginLevel \/ InternalPage \/ InternalEntry \/ Leaf
    PROVE  Said'
<1>0. request.max_problems \in Nat /\ Honest(report)
  BY ZenonT(60) DEF Said
<1>1. CASE BeginTree
  <2>1. request' = request /\ report' = report /\ stage = "tree" /\ ~report.failed /\ result = "none"
    BY ZenonT(60), <1>1 DEF BeginTree, kept, Said
  <2>2. \/ Return("Ok") \/ Return("Err")
        \/ stage' \in {"checked", "level"} /\ result' = result
    BY ZenonT(60), <1>1 DEF BeginTree
  <2>3. Honest(report')
    BY ZenonT(60), <1>0, <2>1
  <2>4. Honest(report)'
    BY ZenonT(60), <1>0, <2>1 DEF Honest
  <2>5. CASE Return("Ok") \/ Return("Err")
    BY ZenonT(60), <2>1, <2>3, <2>5, Returning
  <2>6. CASE stage' \in {"checked", "level"} /\ result' = result
    BY ZenonT(60), <1>0, <2>1, <2>4, <2>6 DEF Said
  <2> QED  BY ZenonT(60), <2>2, <2>5, <2>6
<1>2. ASSUME stage # "done",
             \E r, w : \E where \in {"checked", "level", "leaf", "internal", "child", "entry"} :
                Honest(r) /\ Go(where, r, w)
      PROVE  Said'
  <2>0. PICK r, w : \E where \in {"checked", "level", "leaf", "internal", "child", "entry"} :
           Honest(r) /\ Go(where, r, w)
    BY ZenonT(60), <1>2
  <2>1. PICK where \in {"checked", "level", "leaf", "internal", "child", "entry"} :
           Honest(r) /\ Go(where, r, w)
    BY ZenonT(60), <2>0
  <2>2. where \notin {"build", "closed", "done"} /\ where # "tree"
    BY ZenonT(60)
  <2> QED  BY ZenonT(60), <1>2, <2>1, <2>2, Going
<1>3. \A p : \A o \in walk_page(p, report) : Honest(o.report)
  BY ZenonT(60), <1>0, WalkHonest
<1>4. \A r, wrong : Honest(r) => \A s \in problem(r) \cup Noted(r, wrong) : Honest(s)
  BY ZenonT(60), <1>0, ProblemHonest, NotedHonest
<1>5. \A r, one, other : Honest(r) => \A s \in NotedBoth(r, one, other) : Honest(s)
  BY ZenonT(60), <1>0, BothHonest
<1>6. CASE BeginLevel
  <2>1. stage # "done"
    BY ZenonT(60), <1>6 DEF BeginLevel
  <2> QED  BY ZenonT(60), <1>0, <1>2, <1>3, <1>5, <1>6, <2>1 DEF BeginLevel
<1>7. CASE InternalPage
  <2>1. stage # "done"
    BY ZenonT(60), <1>7 DEF InternalPage
  <2> QED  BY ZenonT(60), <1>0, <1>2, <1>3, <1>4, <1>5, <1>7, <2>1 DEF InternalPage
<1>8. CASE InternalEntry
  <2>1. stage # "done"
    BY ZenonT(60), <1>8 DEF InternalEntry
  <2>2. \A lower, child, separator : \A o \in expect(lower, child, separator, report) : Honest(o.report)
    BY ZenonT(60), <1>0, ExpectHonest
  <2>3. \A lower : \A s \in problem(report) : Honest([lower |-> lower, report |-> s].report)
    BY SMTT(60), <1>0, <1>4
  <2> DEFINE p == walk.page
             i == walk.entry
             child == pages[p].entries[i].child
             outcomes == IF child \notin DOMAIN pages \/ child = p
                           THEN {[lower |-> walk.lower, report |-> s] : s \in problem(report)}
                         ELSE expect(walk.lower, child, KeyAt(p, i), report)
  <2>4. \A o \in outcomes : Honest(o.report)
    BY ZenonT(60), <2>2, <2>3
  <2>5. \/ \E w : Go("internal", report, w)
        \/ \E w : Go("checked", report, w)
        \/ \E wrong : \E o \in outcomes : \E r \in Noted(o.report, wrong) : \E w : Go("child", r, w)
    BY ZenonT(60), <1>8 DEF InternalEntry
  <2> HIDE DEF outcomes
  <2> QED  BY ZenonT(60), <1>0, <1>2, <1>4, <2>1, <2>4, <2>5
<1>9. CASE Leaf
  <2>1. stage # "done"
    BY ZenonT(60), <1>9 DEF Leaf
  <2> QED  BY ZenonT(60), <1>0, <1>2, <1>3, <1>4, <1>5, <1>9, <2>1 DEF Leaf
<1> QED  BY ZenonT(60), <1>1, <1>6, <1>7, <1>8, <1>9

\* The entries of a leaf, and the scan of an index.
LEMMA EntrySays ==
    ASSUME Said, LeafEntry \/ KeyRefused \/ ScanIndex
    PROVE  Said'
<1>0. request.max_problems \in Nat /\ Honest(report)
  BY ZenonT(60) DEF Said
<1>1. CASE LeafEntry
  <2> DEFINE p == walk.page
             i == walk.entry
             wrong == disordered(walk.previous, KeyAt(p, i))
  <2>1. stage = "entry"
    BY ZenonT(60), <1>1 DEF LeafEntry
  <2>2. \/ \E w : \E where \in {"checked", "leaf"} : Go(where, report, w)
        \/ /\ \E s \in check_value(p, i, report) : \E r \in Noted(s, wrong) : report' = r
           /\ request' = request /\ stage' = stage /\ result' = result
    BY ZenonT(60), <1>1 DEF LeafEntry, kept
  <2> HIDE DEF wrong
  <2>3. ASSUME NEW where \in {"checked", "leaf"}, NEW w, Go(where, report, w) PROVE Said'
    <3>1. where \notin {"build", "closed", "done"} /\ where # "tree" /\ stage # "done"
      BY ZenonT(60), <2>1
    <3> QED  BY ZenonT(60), <1>0, <2>3, <3>1, Going
  <2>4. ASSUME NEW s \in check_value(p, i, report), NEW r \in Noted(s, wrong), report' = r,
               request' = request, stage' = stage, result' = result
        PROVE  Said'
    <3>1. Honest(s)
      BY ZenonT(60), <1>0, ValueHonest
    <3>2. Honest(r)
      BY ZenonT(60), <1>0, <3>1, NotedHonest
    <3>3. Honest(report)'
      BY ZenonT(60), <2>4, <3>2 DEF Honest
    <3> QED  BY ZenonT(60), <1>0, <2>1, <2>4, <3>3 DEF Said
  <2> QED  BY ZenonT(60), <2>2, <2>3, <2>4
<1>2. CASE KeyRefused
  <2>1. request' = request /\ report' = report /\ Return("Err")
    BY ZenonT(60), <1>2 DEF KeyRefused, kept
  <2> QED  BY ZenonT(60), <1>0, <2>1, Returning
<1>3. CASE ScanIndex
  <2>1. stage = "scan"
    BY ZenonT(60), <1>3 DEF ScanIndex
  <2>2. \/ Return("Err") /\ request' = request /\ report' = report
        \/ Go("scanned", Stopped(report), walk)
        \/ \E one, other : \E r \in NotedBoth(report, one, other) : Go("scanned", r, walk)
    BY ZenonT(60), <1>3 DEF ScanIndex, kept
  <2>3. stage # "done" /\ "scanned" \notin {"build", "closed", "done"} /\ "scanned" # "tree"
    BY ZenonT(60), <2>1
  <2>4. CASE Return("Err") /\ request' = request /\ report' = report
    BY ZenonT(60), <1>0, <2>4, Returning
  <2>5. ASSUME NEW r, Honest(r), Go("scanned", r, walk) PROVE Said'
    BY ZenonT(60), <2>3, <2>5, Going
  <2>6. Honest(Stopped(report))
    BY ZenonT(60), <1>0, StoppedHonest
  <2>7. \A one, other : \A r \in NotedBoth(report, one, other) : Honest(r)
    BY ZenonT(60), <1>0, BothHonest
  <2> QED  BY ZenonT(60), <2>2, <2>4, <2>5, <2>6, <2>7
<1> QED  BY ZenonT(60), <1>1, <1>2, <1>3

\* After each tree a failure ends the pass with an error, and the next tree is begun
\* without one.
LEMMA TreeSays ==
    ASSUME Said, TreeChecked
    PROVE  Said'
<1>0. request.max_problems \in Nat /\ Honest(report) /\ stage \in {"checked", "scanned"}
  BY ZenonT(60) DEF Said, TreeChecked
<1>1. \/ Return("Err") /\ request' = request /\ report' = report
      \/ ~report.failed /\ Go("scan", report, walk)
      \/ /\ ~report.failed /\ Return("Ok") /\ request' = request
         /\ report' = [report EXCEPT !.truncated = TRUE]
      \/ ~report.failed /\ Go("tree", report, walk)
  BY ZenonT(60) DEF TreeChecked, kept
<1>2. CASE Return("Err") /\ request' = request /\ report' = report
  BY ZenonT(60), <1>0, <1>2, Returning
<1>3. ASSUME NEW where \in {"scan", "tree"}, ~report.failed, Go(where, report, walk) PROVE Said'
  <2>1. where \notin {"build", "closed", "done"} /\ stage # "done"
    BY ZenonT(60), <1>0
  <2> QED  BY ZenonT(60), <1>0, <1>3, <2>1, Going
<1>4. CASE /\ ~report.failed /\ Return("Ok") /\ request' = request
           /\ report' = [report EXCEPT !.truncated = TRUE]
  <2>1. \A b \in BOOLEAN : b = TRUE => LET s == [report EXCEPT !.truncated = b] IN Honest(s) /\ s.failed = report.failed
    BY ZenonT(60), <1>0, CutHonest
  <2>2. Honest(report') /\ report'.failed = report.failed
    BY ZenonT(60), <1>4, <2>1
  <2> QED  BY ZenonT(60), <1>4, <2>2, Returning
<1> QED  BY ZenonT(60), <1>1, <1>2, <1>3, <1>4

(***************************************************************************)
(* Verify's NothingGoesUnsaid, of every file, damaged in whatever way, and *)
(* of every request: verify returns Ok only when no load and no            *)
(* reservation of the pass failed, marks the report wherever it has left a *)
(* problem out, and keeps no more of them than it may.                     *)
(***************************************************************************)
THEOREM PassesOwnUp == Spec => []NothingGoesUnsaid
<1>1. VerifyInit => Said
  <2> SUFFICES ASSUME VerifyInit PROVE Said
    OBVIOUS
  <2>1. /\ request = NoRequest /\ result = "none" /\ stage = "build"
        /\ report = [problems |-> 0, truncated |-> FALSE, failed |-> FALSE, missed |-> FALSE]
    BY ZenonT(60) DEF VerifyInit
  <2>2. request.max_problems = 0
    BY SMTT(60), <2>1 DEF NoRequest
  <2>3. report \in Reports /\ report.problems = 0 /\ report.failed = FALSE /\ report.missed = FALSE
    BY SMTT(60), <2>1 DEF Reports
  <2>4. 0 \in Nat /\ 0 <= 0
    BY SMT
  <2> QED  BY ZenonT(60), <2>1, <2>2, <2>3, <2>4 DEF Said, Honest
<1>2. Said /\ [Next]_allVars => Said'
  <2> SUFFICES ASSUME Said, [Next]_allVars PROVE Said'
    OBVIOUS
  <2>1. CASE Next
    BY ZenonT(60), <2>1, BeforePass, SweepSays, WalkSays, EntrySays, TreeSays DEF Next, Pass
  <2>2. CASE UNCHANGED allVars
    <3>1. request' = request /\ report' = report /\ stage' = stage /\ result' = result
      BY ZenonT(60), <2>2 DEF allVars, verifyVars
    <3> QED  BY ZenonT(60), <3>1 DEF Said, Honest
  <2> QED  BY ZenonT(60), <2>1, <2>2
<1>3. Said => NothingGoesUnsaid
  BY ZenonT(60) DEF Said, Honest, NothingGoesUnsaid
<1> QED  BY <1>1, <1>2, <1>3, PTL DEF Spec

=============================================================================
