--------------------------- MODULE SequenceFacts ---------------------------
(***************************************************************************)
(* Induction over the natural numbers, stated with sets, and what the      *)
(* operators on sequences compute: those of the community modules and the  *)
(* filters and sorts of Orders.                                            *)
(***************************************************************************)
EXTENDS Orders, SequenceTheorems, FiniteSetTheorems, WellFoundedInduction, TLAPS

\* A set of natural numbers that is not empty has a least element.
LEMMA LeastNumber ==
  ASSUME NEW T, T \subseteq Nat, T # {}
  PROVE  \E x \in T : \A y \in T : x <= y
<1>1. \E x \in T : \A y \in T : ~ (<<y, x>> \in OpToRel(<, Nat))
  BY NatLessThanWellFounded, WFMin
<1>2. PICK x \in T : \A y \in T : ~ (<<y, x>> \in OpToRel(<, Nat))
  BY <1>1
<1>3. \A y \in T : ~ (y < x)
  BY <1>2 DEF OpToRel
<1>4. \A y \in T : x <= y
  BY <1>3
<1> QED BY <1>4

\* A set with 0 that has n + 1 whenever it has n has every number.
LEMMA EveryNumber ==
  ASSUME NEW T, 0 \in T, \A n \in Nat : n \in T => n + 1 \in T
  PROVE  Nat \subseteq T
<1> SUFFICES ASSUME Nat \ T # {} PROVE FALSE
  OBVIOUS
<1>1. PICK x \in Nat \ T : \A y \in Nat \ T : x <= y
  <2>1. Nat \ T \subseteq Nat
    OBVIOUS
  <2> QED BY <2>1, LeastNumber
<1>2. x # 0 /\ x - 1 \in Nat /\ x - 1 \notin Nat \ T
  BY <1>1
<1> QED BY <1>2

\* The sequences FlattenSeq builds on the way.
Flat(h, n, g) == g = [i \in 1..n |-> IF i = 1 THEN h[i] ELSE g[i - 1] \o h[i]]

LEMMA FlatStep ==
  ASSUME NEW h, NEW n \in Nat, NEW g, Flat(h, n, g), NEW i \in 1..n
  PROVE  g[i] = IF i = 1 THEN h[i] ELSE g[i - 1] \o h[i]
BY DEF Flat

LEMMA FlatLast ==
  ASSUME NEW h, NEW n \in Nat, NEW g, Flat(h, n + 1, g)
  PROVE  g[n + 1] = IF n = 0 THEN h[n + 1] ELSE g[n] \o h[n + 1]
<1>1. n + 1 \in 1..n + 1 /\ n + 1 - 1 = n /\ (n + 1 = 1 <=> n = 0)
  OBVIOUS
<1>2. \A i \in 1..n + 1 : g[i] = IF i = 1 THEN h[i] ELSE g[i - 1] \o h[i]
  BY DEF Flat
<1> QED BY <1>1, <1>2

LEMMA FlatExists ==
  ASSUME NEW h, NEW m \in Nat
  PROVE  \E g : Flat(h, m, g)
<1> DEFINE T == {n \in Nat : \E g : Flat(h, n, g)}
<1>1. 0 \in T
  <2>1. Flat(h, 0, [i \in 1..0 |-> h[i]])
    BY DEF Flat
  <2> QED BY <2>1
<1>2. ASSUME NEW n \in Nat, n \in T
      PROVE  n + 1 \in T
  <2>1. PICK g : Flat(h, n, g)
    BY <1>2
  <2> DEFINE f == [i \in 1..n + 1 |-> IF i <= n THEN g[i] ELSE IF i = 1 THEN h[i] ELSE g[n] \o h[i]]
  <2>2. \A i \in 1..n + 1 : f[i] = IF i = 1 THEN h[i] ELSE f[i - 1] \o h[i]
    <3>1. \A i \in 1..n : g[i] = IF i = 1 THEN h[i] ELSE g[i - 1] \o h[i]
      BY <2>1 DEF Flat
    <3> QED BY <3>1
  <2>3. f = [i \in 1..n + 1 |-> IF i = 1 THEN h[i] ELSE f[i - 1] \o h[i]]
    BY <2>2
  <2>4. Flat(h, n + 1, f)
    BY <2>3 DEF Flat
  <2> QED BY <2>4
<1>3. Nat \subseteq T
  BY <1>1, <1>2, EveryNumber
<1> QED BY <1>3

SamePrefix(h, k, n) == \A i \in 1..n : h[i] = k[i]

\* What is built on the way depends on what has been read only.
LEMMA FlatAgrees ==
  ASSUME NEW h, NEW k, NEW m \in Nat, NEW n \in Nat, m <= n, SamePrefix(h, k, m),
         NEW f, NEW g, Flat(h, m, f), Flat(k, n, g)
  PROVE  SamePrefix(f, g, m)
<1> DEFINE T == {j \in Nat : j \in 1..m => f[j] = g[j]}
<1>1. /\ \A i \in 1..m : f[i] = IF i = 1 THEN h[i] ELSE f[i - 1] \o h[i]
      /\ \A i \in 1..n : g[i] = IF i = 1 THEN k[i] ELSE g[i - 1] \o k[i]
  BY DEF Flat
<1>2. 0 \in T
  OBVIOUS
<1>3. \A j \in Nat : j \in T => j + 1 \in T
  BY <1>1 DEF SamePrefix
<1>4. Nat \subseteq T
  BY <1>2, <1>3, EveryNumber
<1> QED BY <1>4 DEF SamePrefix

LEMMA FlattenIsFlat ==
  ASSUME NEW h, NEW n \in Nat \ {0}, Len(h) = n
  PROVE  \E g : Flat(h, n, g) /\ FlattenSeq(h) = g[n]
<1>1. \E g : Flat(h, n, g)
  BY FlatExists
<1> DEFINE c == CHOOSE g : g = [i \in 1..n |-> IF i = 1 THEN h[i] ELSE g[i - 1] \o h[i]]
<1>2. Flat(h, n, c)
  BY <1>1 DEF Flat
<1>3. FlattenSeq(h) = c[n]
  BY DEF FlattenSeq
<1> QED BY <1>2, <1>3

\* Flattening one sequence more appends it.
LEMMA FlattenAppend ==
  ASSUME NEW S, NEW h \in Seq(Seq(S)), NEW e \in Seq(S)
  PROVE  FlattenSeq(Append(h, e)) = FlattenSeq(h) \o e
<1>1. PICK n \in Nat : n = Len(h)
  OBVIOUS
<1>2. PICK k \in Seq(Seq(S)) : k = Append(h, e)
  BY AppendProperties
<1>3. Len(k) = n + 1 /\ k[n + 1] = e /\ SamePrefix(h, k, n)
  BY <1>1, <1>2 DEF SamePrefix
<1>4. n + 1 \in Nat /\ n + 1 \in Nat \ {0} /\ n <= n + 1
  OBVIOUS
<1>5. PICK g : Flat(k, n + 1, g) /\ FlattenSeq(k) = g[n + 1]
  BY <1>3, <1>4, FlattenIsFlat
<1>6. g[n + 1] = IF n = 0 THEN e ELSE g[n] \o e
  <2>1. g[n + 1] = IF n = 0 THEN k[n + 1] ELSE g[n] \o k[n + 1]
    BY <1>5, FlatLast
  <2> QED BY <1>3, <2>1
<1>7. CASE n = 0
  <2>1. FlattenSeq(h) = h
    BY <1>1, <1>7 DEF FlattenSeq
  <2>2. h = <<>>
    BY <1>1, <1>7, EmptySeq
  <2>3. <<>> \o e = e
    OBVIOUS
  <2> QED BY <1>2, <1>5, <1>6, <1>7, <2>1, <2>2, <2>3
<1>8. CASE n # 0
  <2>1. n \in Nat \ {0}
    BY <1>8
  <2>2. PICK f : Flat(h, n, f) /\ FlattenSeq(h) = f[n]
    BY <1>1, <2>1, FlattenIsFlat
  <2>3. SamePrefix(f, g, n)
    BY <1>3, <1>4, <1>5, <2>2, FlatAgrees
  <2>4. f[n] = g[n]
    BY <1>8, <2>3 DEF SamePrefix
  <2> QED BY <1>2, <1>5, <1>6, <1>8, <2>2, <2>4
<1> QED BY <1>7, <1>8

LEMMA FlattenType ==
  ASSUME NEW S, NEW h \in Seq(Seq(S))
  PROVE  FlattenSeq(h) \in Seq(S)
<1>1. CASE Len(h) = 0
  BY <1>1 DEF FlattenSeq
<1>2. CASE Len(h) # 0
  <2>1. PICK g : Flat(h, Len(h), g) /\ FlattenSeq(h) = g[Len(h)]
    BY <1>2, FlattenIsFlat
  <2> DEFINE T == {j \in Nat : j \in 1..Len(h) => g[j] \in Seq(S)}
  <2>2. 0 \in T
    OBVIOUS
  <2>3. ASSUME NEW j \in Nat, j \in T PROVE j + 1 \in T
    <3> SUFFICES ASSUME j + 1 \in 1..Len(h) PROVE g[j + 1] \in Seq(S)
      OBVIOUS
    <3>1. g[j + 1] = IF j = 0 THEN h[1] ELSE g[j] \o h[j + 1]
      <4>1. \A i \in 1..Len(h) : g[i] = IF i = 1 THEN h[i] ELSE g[i - 1] \o h[i]
        BY <2>1, FlatStep
      <4> QED BY <4>1
    <3>2. h[1] \in Seq(S) /\ h[j + 1] \in Seq(S)
      OBVIOUS
    <3>3. j # 0 => g[j] \in Seq(S)
      BY <2>3
    <3> QED BY <3>1, <3>2, <3>3
  <2>4. Nat \subseteq T
    BY <2>2, <2>3, EveryNumber
  <2> QED BY <1>2, <2>1, <2>4
<1> QED BY <1>1, <1>2

-----------------------------------------------------------------------------
(* Only: the sequences it builds on the way.                               *)

KeptTo(s, S, m, g) ==
  g = [n \in 0 .. m |-> IF n = 0 THEN <<>>
                        ELSE IF s[n] \in S THEN Append(g[n - 1], s[n]) ELSE g[n - 1]]

KeptSoFar(s, S, m, g) ==
  /\ g[0] = <<>>
  /\ \A n \in Nat : n + 1 <= m =>
       g[n + 1] = IF s[n + 1] \in S THEN Append(g[n], s[n + 1]) ELSE g[n]

LEMMA KeptStep ==
  ASSUME NEW s, NEW S, NEW m \in Nat, NEW g, KeptTo(s, S, m, g)
  PROVE  KeptSoFar(s, S, m, g)
<1>1. \A n \in 0 .. m : g[n] = IF n = 0 THEN <<>>
                 ELSE IF s[n] \in S THEN Append(g[n - 1], s[n]) ELSE g[n - 1]
  BY DEF KeptTo
<1>2. g[0] = <<>>
  <2>1. 0 \in 0 .. m
    OBVIOUS
  <2> QED BY <1>1, <2>1, Zenon
<1>3. ASSUME NEW n \in Nat, n + 1 <= m
      PROVE  g[n + 1] = IF s[n + 1] \in S THEN Append(g[n], s[n + 1]) ELSE g[n]
  <2>1. PICK i \in 0 .. m : i = n + 1 /\ i # 0 /\ i - 1 = n
    BY <1>3
  <2>2. g[i] = IF i = 0 THEN <<>> ELSE IF s[i] \in S THEN Append(g[i - 1], s[i]) ELSE g[i - 1]
    BY <1>1
  <2> QED BY <2>1, <2>2, Zenon
<1> QED BY <1>2, <1>3 DEF KeptSoFar

LEMMA KeptExists ==
  ASSUME NEW s, NEW S, NEW m \in Nat
  PROVE  \E g : KeptTo(s, S, m, g)
<1> DEFINE M == {n \in Nat : \E g : KeptTo(s, S, n, g)}
<1>1. 0 \in M
  <2>1. KeptTo(s, S, 0, [n \in 0 .. 0 |-> <<>>])
    BY DEF KeptTo
  <2> QED BY <2>1
<1>2. ASSUME NEW n \in Nat, n \in M
      PROVE  n + 1 \in M
  <2>1. PICK g : KeptTo(s, S, n, g)
    BY <1>2
  <2> DEFINE f == [i \in 0 .. n + 1 |->
                    IF i <= n THEN g[i]
                    ELSE IF s[i] \in S THEN Append(g[n], s[i]) ELSE g[n]]
  <2>2. \A i \in 0 .. n : g[i] = IF i = 0 THEN <<>>
                 ELSE IF s[i] \in S THEN Append(g[i - 1], s[i]) ELSE g[i - 1]
    BY <2>1 DEF KeptTo
  <2>3. \A i \in 0 .. n + 1 : f[i] = IF i = 0 THEN <<>>
                 ELSE IF s[i] \in S THEN Append(f[i - 1], s[i]) ELSE f[i - 1]
    BY <2>2
  <2>4. f = [i \in 0 .. n + 1 |-> IF i = 0 THEN <<>>
                 ELSE IF s[i] \in S THEN Append(f[i - 1], s[i]) ELSE f[i - 1]]
    BY <2>3
  <2>5. KeptTo(s, S, n + 1, f)
    BY <2>4 DEF KeptTo
  <2> QED BY <2>5
<1>3. Nat \subseteq M
  BY <1>1, <1>2, EveryNumber
<1> QED BY <1>3

LEMMA OnlyIsKept ==
  ASSUME NEW s, NEW S, Len(s) \in Nat
  PROVE  \E g : KeptSoFar(s, S, Len(s), g) /\ Only(s, S) = g[Len(s)]
<1>1. \E g : KeptTo(s, S, Len(s), g)
  BY KeptExists
<1> DEFINE c == CHOOSE g : g = [n \in 0 .. Len(s) |-> IF n = 0 THEN <<>>
                             ELSE IF s[n] \in S THEN Append(g[n - 1], s[n]) ELSE g[n - 1]]
<1>2. KeptTo(s, S, Len(s), c)
  BY <1>1 DEF KeptTo
<1>3. Only(s, S) = c[Len(s)]
  BY DEF Only
<1>4. KeptSoFar(s, S, Len(s), c)
  <2> HIDE DEF c
  <2> QED BY <1>2, KeptStep
<1> QED BY <1>3, <1>4

\* What Only gives is a sequence of members of S.
LEMMA OnlyType ==
  ASSUME NEW T, NEW s \in Seq(T), NEW S
  PROVE  Only(s, S) \in Seq(T \cap S)
<1>1. Len(s) \in Nat
  OBVIOUS
<1>2. PICK g : KeptSoFar(s, S, Len(s), g) /\ Only(s, S) = g[Len(s)]
  BY <1>1, OnlyIsKept
<1>3. /\ g[0] = <<>>
      /\ \A n \in Nat : n + 1 <= Len(s) =>
           g[n + 1] = IF s[n + 1] \in S THEN Append(g[n], s[n + 1]) ELSE g[n]
  BY <1>2, Zenon DEF KeptSoFar
<1> DEFINE M == {n \in Nat : n <= Len(s) => g[n] \in Seq(T \cap S)}
<1>4. 0 \in M
  <2>1. <<>> \in Seq(T \cap S)
    OBVIOUS
  <2> QED BY <1>3, <2>1
<1>5. ASSUME NEW n \in Nat, n \in M
      PROVE  n + 1 \in M
  <2> SUFFICES ASSUME n + 1 <= Len(s) PROVE g[n + 1] \in Seq(T \cap S)
    OBVIOUS
  <2>1. g[n] \in Seq(T \cap S) /\ n + 1 \in 1 .. Len(s) /\ n + 1 - 1 = n
    BY <1>5
  <2>2. g[n + 1] = IF s[n + 1] \in S THEN Append(g[n], s[n + 1]) ELSE g[n]
    BY <1>3, <2>1
  <2>3. s[n + 1] \in T
    BY <2>1
  <2> QED BY <2>1, <2>2, <2>3
<1>6. Nat \subseteq M
  <2> HIDE DEF M
  <2> QED BY <1>4, <1>5, EveryNumber
<1> QED BY <1>1, <1>2, <1>6

\* Where all is in S nothing is left out.
LEMMA OnlyAll ==
  ASSUME NEW T, NEW s \in Seq(T), NEW S, T \subseteq S
  PROVE  Only(s, S) = s
<1>1. Len(s) \in Nat
  OBVIOUS
<1>2. PICK g : KeptSoFar(s, S, Len(s), g) /\ Only(s, S) = g[Len(s)]
  BY <1>1, OnlyIsKept
<1>3. /\ g[0] = <<>>
      /\ \A n \in Nat : n + 1 <= Len(s) =>
           g[n + 1] = IF s[n + 1] \in S THEN Append(g[n], s[n + 1]) ELSE g[n]
  BY <1>2, Zenon DEF KeptSoFar
<1> DEFINE M == {n \in Nat : n <= Len(s) => g[n] = SubSeq(s, 1, n)}
<1>4. 0 \in M
  <2>1. SubSeq(s, 1, 0) = <<>>
    BY SubSeqEmpty
  <2> QED BY <1>3, <2>1
<1>5. ASSUME NEW n \in Nat, n \in M
      PROVE  n + 1 \in M
  <2> SUFFICES ASSUME n + 1 <= Len(s) PROVE g[n + 1] = SubSeq(s, 1, n + 1)
    OBVIOUS
  <2>1. g[n] = SubSeq(s, 1, n) /\ n + 1 \in 1 .. Len(s) /\ n + 1 - 1 = n
    BY <1>5
  <2>2. g[n + 1] = Append(SubSeq(s, 1, n), s[n + 1])
    <3>1. s[n + 1] \in S
      BY <2>1
    <3>2. g[n + 1] = IF s[n + 1] \in S THEN Append(g[n], s[n + 1]) ELSE g[n]
      BY <1>3
    <3> QED BY <2>1, <3>1, <3>2
  <2>3. SubSeq(s, 1, n + 1) = SubSeq(s, 1, n) \o <<s[n + 1]>>
    <3>1. PICK k \in 1 .. Len(s) : k = n + 1
      BY <2>1
    <3>2. 1 \in 1 .. Len(s) /\ k - 1 = n
      BY <1>1, <3>1
    <3>3. SubSeq(s, 1, k) = SubSeq(s, 1, k - 1) \o <<s[k]>>
      BY <3>2, SubSeqRecursiveSecond
    <3> QED BY <3>1, <3>2, <3>3
  <2>4. SubSeq(s, 1, n) \in Seq(T) /\ s[n + 1] \in T
    BY <2>1, SubSeqProperties
  <2> QED BY <2>2, <2>3, <2>4, AppendIsConcat
<1>6. Nat \subseteq M
  <2> HIDE DEF M
  <2> QED BY <1>4, <1>5, EveryNumber
<1> QED BY <1>1, <1>2, <1>6, SubSeqFull

-----------------------------------------------------------------------------
(* ByKey: whatever the keys are, it is a sequence.                         *)

Below(K, x) == {y \in K : Before(y[1], x[1])}
Placed(K) == {<<Cardinality(Below(K, x)), x[2]>> : x \in K}
At(P, i) == (CHOOSE p \in P : p[1] = i - 1)[2]

LEMMA ByKeyPlaces ==
  ASSUME NEW K
  PROVE  ByKey(K) = [i \in 1 .. Cardinality(Placed(K)) |-> At(Placed(K), i)]
BY DEF ByKey, Placed, Below, At

LEMMA PlacedIsFinite ==
  ASSUME NEW K, IsFiniteSet(K)
  PROVE  IsFiniteSet(Placed(K)) /\ Cardinality(Placed(K)) \in Nat
<1> DEFINE P == Placed(K)
           f == [x \in K |-> <<Cardinality(Below(K, x)), x[2]>>]
<1>1. f \in Surjection(K, P)
  BY DEF Surjection, Placed
<1>2. IsFiniteSet(P)
  <2> HIDE DEF P, f
  <2> QED BY <1>1, FS_Surjection
<1> QED BY <1>2, FS_CardinalityType

LEMMA ByKeyIsAList ==
  ASSUME NEW K, IsFiniteSet(K)
  PROVE  \E T : ByKey(K) \in Seq(T)
<1>1. PICK n \in Nat : n = Cardinality(Placed(K))
  BY PlacedIsFinite
<1> DEFINE T == {At(Placed(K), i) : i \in 1 .. n}
<1>2. ByKey(K) = [i \in 1 .. n |-> At(Placed(K), i)]
  BY <1>1, ByKeyPlaces
<1>3. \A i \in 1 .. n : At(Placed(K), i) \in T
  OBVIOUS
<1>4. ByKey(K) \in [1 .. n -> T]
  <2> HIDE DEF T
  <2> QED BY <1>2, <1>3
<1>5. ByKey(K) \in Seq(T)
  <2> HIDE DEF T
  <2> QED BY <1>4, SeqDef
<1> QED BY <1>5

-----------------------------------------------------------------------------
(* ByKey where the keys are tuples of n integers, and all different: every *)
(* member has a place of its own.                                          *)

Keyed(K, n) == \A x \in K : x[1] \in [1 .. n -> Int] /\ x = <<x[1], x[2]>>
KeysDiffer(K) == \A x, y \in K : x[1] = y[1] => x = y

LEMMA BeforeIsStrict ==
  ASSUME NEW n \in Nat, NEW a \in [1 .. n -> Int]
  PROVE  ~Before(a, a)
BY DEF Before

\* Two keys that differ do so first at some place.
LEMMA FirstDifference ==
  ASSUME NEW n \in Nat, NEW a \in [1 .. n -> Int], NEW b \in [1 .. n -> Int], a # b
  PROVE  \E i \in 1 .. n : a[i] # b[i] /\ \A j \in 1 .. i - 1 : a[j] = b[j]
<1> DEFINE T == {i \in Nat : i \in 1 .. n /\ a[i] # b[i]}
<1>1. T # {} /\ T \subseteq Nat
  <2>1. PICK i \in 1 .. n : a[i] # b[i]
    OBVIOUS
  <2>2. i \in T
    BY <2>1
  <2> QED BY <2>2
<1>2. PICK i \in T : \A j \in T : i <= j
  <2> HIDE DEF T
  <2> QED BY <1>1, LeastNumber
<1>3. \A j \in 1 .. i - 1 : a[j] = b[j]
  BY <1>2
<1> QED BY <1>2, <1>3

LEMMA BeforeIsTotal ==
  ASSUME NEW n \in Nat, NEW a \in [1 .. n -> Int], NEW b \in [1 .. n -> Int], a # b
  PROVE  Before(a, b) \/ Before(b, a)
<1>1. PICK i \in 1 .. n : a[i] # b[i] /\ \A j \in 1 .. i - 1 : a[j] = b[j]
  BY FirstDifference
<1>2. a[i] \in Int /\ b[i] \in Int
  OBVIOUS
<1>3. CASE a[i] < b[i]
  BY <1>1, <1>3 DEF Before
<1>4. CASE b[i] < a[i]
  BY <1>1, <1>4 DEF Before
<1> QED BY <1>1, <1>2, <1>3, <1>4

LEMMA BeforeIsTransitive ==
  ASSUME NEW n \in Nat, NEW a \in [1 .. n -> Int], NEW b \in [1 .. n -> Int],
         NEW c \in [1 .. n -> Int], Before(a, b), Before(b, c)
  PROVE  Before(a, c)
<1>1. PICK i \in 1 .. n : a[i] < b[i] /\ \A k \in 1 .. i - 1 : a[k] = b[k]
  BY DEF Before
<1>2. PICK j \in 1 .. n : b[j] < c[j] /\ \A k \in 1 .. j - 1 : b[k] = c[k]
  BY DEF Before
<1>3. PICK m \in 1 .. n : m = IF i <= j THEN i ELSE j
  OBVIOUS
<1>4. \A k \in 1 .. m - 1 : k \in 1 .. i - 1 /\ k \in 1 .. j - 1
  BY <1>3
<1>5. \A k \in 1 .. m - 1 : a[k] = c[k]
  BY <1>1, <1>2, <1>4
<1>6. a[m] < c[m]
  <2>1. a[m] \in Int /\ b[m] \in Int /\ c[m] \in Int
    OBVIOUS
  <2>2. CASE i < j
    <3>1. m = i /\ i \in 1 .. j - 1
      BY <1>3, <2>2
    <3> QED BY <1>1, <1>2, <2>1, <3>1
  <2>3. CASE j < i
    <3>1. m = j /\ j \in 1 .. i - 1
      BY <1>3, <2>3
    <3> QED BY <1>1, <1>2, <2>1, <3>1
  <2>4. CASE i = j
    BY <1>1, <1>2, <1>3, <2>1, <2>4
  <2> QED BY <2>2, <2>3, <2>4
<1> QED BY <1>5, <1>6 DEF Before

\* What comes before a member of a sorted set is counted by its place.
LEMMA RankGrows ==
  ASSUME NEW K, IsFiniteSet(K), NEW n \in Nat, Keyed(K, n), NEW x \in K, NEW y \in K,
         Before(x[1], y[1])
  PROVE  Cardinality(Below(K, x)) < Cardinality(Below(K, y))
<1>1. Below(K, x) \subseteq Below(K, y)
  <2> SUFFICES ASSUME NEW z \in K, Before(z[1], x[1]) PROVE Before(z[1], y[1])
    BY DEF Below
  <2>1. z[1] \in [1 .. n -> Int] /\ x[1] \in [1 .. n -> Int] /\ y[1] \in [1 .. n -> Int]
    BY DEF Keyed
  <2> QED BY <2>1, BeforeIsTransitive
<1>2. x \in Below(K, y)
  BY DEF Below
<1>3. x \notin Below(K, x)
  <2>1. x[1] \in [1 .. n -> Int]
    BY DEF Keyed
  <2>2. ~Before(x[1], x[1])
    BY <2>1, BeforeIsStrict
  <2> QED BY <2>2 DEF Below
<1>4. IsFiniteSet(Below(K, y))
  <2>1. Below(K, y) \subseteq K
    BY DEF Below
  <2> QED BY <2>1, FS_Subset
<1>5. /\ IsFiniteSet(Below(K, x))
      /\ Cardinality(Below(K, x)) <= Cardinality(Below(K, y))
      /\ Cardinality(Below(K, x)) # Cardinality(Below(K, y))
  BY <1>1, <1>2, <1>3, <1>4, FS_Subset
<1>6. Cardinality(Below(K, x)) \in Nat /\ Cardinality(Below(K, y)) \in Nat
  BY <1>4, <1>5, FS_CardinalityType
<1> QED BY <1>5, <1>6

LEMMA RankIsAPlace ==
  ASSUME NEW K, IsFiniteSet(K), NEW n \in Nat, Keyed(K, n), NEW x \in K
  PROVE  Cardinality(Below(K, x)) \in 0 .. Cardinality(K) - 1
<1>1. Below(K, x) \subseteq K
  BY DEF Below
<1>2. x \notin Below(K, x)
  <2>1. x[1] \in [1 .. n -> Int]
    BY DEF Keyed
  <2>2. ~Before(x[1], x[1])
    BY <2>1, BeforeIsStrict
  <2> QED BY <2>2 DEF Below
<1>3. /\ IsFiniteSet(Below(K, x))
      /\ Cardinality(Below(K, x)) <= Cardinality(K)
      /\ Cardinality(Below(K, x)) # Cardinality(K)
  BY <1>1, <1>2, FS_Subset
<1>4. Cardinality(Below(K, x)) \in Nat /\ Cardinality(K) \in Nat
  BY <1>3, FS_CardinalityType
<1> QED BY <1>3, <1>4

LEMMA RanksDiffer ==
  ASSUME NEW K, IsFiniteSet(K), NEW n \in Nat, Keyed(K, n), KeysDiffer(K),
         NEW x \in K, NEW y \in K, Cardinality(Below(K, x)) = Cardinality(Below(K, y))
  PROVE  x = y
<1> SUFFICES ASSUME x # y PROVE FALSE
  OBVIOUS
<1>1. x[1] # y[1]
  BY DEF KeysDiffer
<1>2. x[1] \in [1 .. n -> Int] /\ y[1] \in [1 .. n -> Int]
  BY DEF Keyed
<1>3. Before(x[1], y[1]) \/ Before(y[1], x[1])
  BY <1>1, <1>2, BeforeIsTotal
<1>4. /\ Cardinality(Below(K, x)) \in 0 .. Cardinality(K) - 1
      /\ Cardinality(Below(K, y)) \in 0 .. Cardinality(K) - 1
  BY RankIsAPlace
<1>5. CASE Before(x[1], y[1])
  <2>1. Cardinality(Below(K, x)) < Cardinality(Below(K, y))
    BY <1>5, RankGrows
  <2> QED BY <1>4, <2>1
<1>6. CASE Before(y[1], x[1])
  <2>1. Cardinality(Below(K, y)) < Cardinality(Below(K, x))
    BY <1>6, RankGrows
  <2> QED BY <1>4, <2>1
<1> QED BY <1>3, <1>5, <1>6

LEMMA EveryPlaceIsTaken ==
  ASSUME NEW K, IsFiniteSet(K), NEW n \in Nat, Keyed(K, n), KeysDiffer(K),
         NEW i \in 0 .. Cardinality(K) - 1
  PROVE  \E x \in K : Cardinality(Below(K, x)) = i
<1>1. PICK c \in Nat : c = Cardinality(K)
  BY FS_CardinalityType
<1>2. IsFiniteSet(0 .. c - 1) /\ Cardinality(0 .. c - 1) = c
  <2>1. IsFiniteSet(0 .. c - 1) /\ Cardinality(0 .. c - 1) = IF 0 > c - 1 THEN 0 ELSE c - 1 - 0 + 1
    <3>1. PICK d \in Int : d = c - 1
      OBVIOUS
    <3>2. IsFiniteSet(0 .. d) /\ Cardinality(0 .. d) = IF 0 > d THEN 0 ELSE d - 0 + 1
      BY FS_Interval
    <3> QED BY <3>1, <3>2
  <2> QED BY <2>1
<1>3. PICK f : f = [x \in K |-> Cardinality(Below(K, x))]
  OBVIOUS
<1>4. \A x \in K : f[x] = Cardinality(Below(K, x)) /\ f[x] \in 0 .. c - 1
  BY <1>1, <1>3, RankIsAPlace
<1>5. f \in [K -> 0 .. c - 1]
  BY <1>3, <1>4
<1>6. \A x, y \in K : f[x] = f[y] => x = y
  BY <1>4, RanksDiffer
<1>7. f \in Injection(K, 0 .. c - 1)
  BY <1>5, <1>6 DEF Injection, IsInjective
<1>8. f \in Surjection(K, 0 .. c - 1)
  BY <1>1, <1>2, <1>7, FS_Injection
<1>9. \E x \in K : f[x] = i
  BY <1>1, <1>8 DEF Surjection
<1> QED BY <1>4, <1>9

LEMMA PlacedCount ==
  ASSUME NEW K, IsFiniteSet(K), NEW n \in Nat, Keyed(K, n), KeysDiffer(K)
  PROVE  Cardinality(Placed(K)) = Cardinality(K)
<1>1. PICK f : f = [x \in K |-> <<Cardinality(Below(K, x)), x[2]>>]
  OBVIOUS
<1>2. \A x \in K : f[x] = <<Cardinality(Below(K, x)), x[2]>>
  BY <1>1
<1>3. f \in Surjection(K, Placed(K))
  BY <1>1, <1>2 DEF Surjection, Placed
<1>4. \A x, y \in K : f[x] = f[y] => x = y
  BY <1>2, RanksDiffer
<1>5. f \in Injection(K, Placed(K))
  BY <1>3, <1>4 DEF Injection, IsInjective, Surjection
<1> QED BY <1>3, <1>5, FS_Surjection

\* Each member at the place its key gives it, and nothing else.
LEMMA ByKeyHolds ==
  ASSUME NEW K, IsFiniteSet(K), NEW n \in Nat, Keyed(K, n), KeysDiffer(K)
  PROVE  /\ Cardinality(K) \in Nat
         /\ ByKey(K) \in [1 .. Cardinality(K) -> {x[2] : x \in K}]
         /\ \A x \in K : /\ Cardinality(Below(K, x)) + 1 \in 1 .. Cardinality(K)
                         /\ ByKey(K)[Cardinality(Below(K, x)) + 1] = x[2]
<1>1. PICK c \in Nat : c = Cardinality(K)
  BY FS_CardinalityType
<1>2. ByKey(K) = [i \in 1 .. c |-> At(Placed(K), i)]
  BY <1>1, ByKeyPlaces, PlacedCount
<1>3. ASSUME NEW x \in K
      PROVE  /\ Cardinality(Below(K, x)) + 1 \in 1 .. c
             /\ At(Placed(K), Cardinality(Below(K, x)) + 1) = x[2]
  <2>1. PICK r \in 1 .. c : r - 1 = Cardinality(Below(K, x))
    <3>1. Cardinality(Below(K, x)) \in 0 .. c - 1
      BY <1>1, RankIsAPlace
    <3> QED BY <3>1
  <2>2. PICK q : q = CHOOSE p \in Placed(K) : p[1] = r - 1
    OBVIOUS
  <2>3. \E p \in Placed(K) : p[1] = r - 1
    <3>1. <<Cardinality(Below(K, x)), x[2]>> \in Placed(K)
      BY DEF Placed
    <3> QED BY <2>1, <3>1
  <2>4. q \in Placed(K) /\ q[1] = r - 1
    BY <2>1, <2>2, <2>3
  <2>5. PICK y \in K : q = <<Cardinality(Below(K, y)), y[2]>>
    BY <2>4 DEF Placed
  <2>6. y = x
    BY <2>1, <2>4, <2>5, RanksDiffer
  <2>7. q[2] = x[2]
    BY <2>5, <2>6
  <2>8. At(Placed(K), r) = x[2]
    BY <2>2, <2>7, Zenon DEF At
  <2>9. r = Cardinality(Below(K, x)) + 1
    BY <2>1
  <2> QED BY <2>8, <2>9
<1>4. ASSUME NEW i \in 1 .. c
      PROVE  At(Placed(K), i) \in {x[2] : x \in K}
  <2>1. PICK j \in 0 .. Cardinality(K) - 1 : j = i - 1
    BY <1>1
  <2>2. PICK x \in K : Cardinality(Below(K, x)) = j
    BY EveryPlaceIsTaken
  <2>3. i = Cardinality(Below(K, x)) + 1
    BY <2>1, <2>2
  <2> QED BY <1>3, <2>3
<1>5. ByKey(K) \in [1 .. c -> {x[2] : x \in K}]
  BY <1>2, <1>4
<1>6. \A x \in K : ByKey(K)[Cardinality(Below(K, x)) + 1] = x[2]
  BY <1>2, <1>3
<1> QED BY <1>1, <1>3, <1>5, <1>6

\* A sorted set: every one of its members, at places of their own.
LEMMA OrderIsOfAll ==
  ASSUME NEW K, IsFiniteSet(K), NEW n \in Nat, Keyed(K, n), KeysDiffer(K)
  PROVE  /\ ByKey(K) \in Seq({x[2] : x \in K})
         /\ Len(ByKey(K)) = Cardinality(K)
         /\ \A x \in K : \E i \in 1 .. Len(ByKey(K)) : ByKey(K)[i] = x[2]
<1>1. PICK c \in Nat : c = Cardinality(K)
  BY ByKeyHolds
<1>2. ByKey(K) \in [1 .. c -> {x[2] : x \in K}]
  BY <1>1, ByKeyHolds
<1>3. ByKey(K) \in Seq({x[2] : x \in K}) /\ Len(ByKey(K)) = c
  <2>1. PICK S : S = {x[2] : x \in K}
    OBVIOUS
  <2>2. PICK s : s = ByKey(K)
    OBVIOUS
  <2>3. s \in [1 .. c -> S]
    BY <1>2, <2>1, <2>2
  <2>4. s \in Seq(S) /\ Len(s) = c
    BY <2>3, SeqDef
  <2> QED BY <2>1, <2>2, <2>4
<1>4. ASSUME NEW x \in K
      PROVE  \E i \in 1 .. c : ByKey(K)[i] = x[2]
  <2>1. /\ Cardinality(Below(K, x)) + 1 \in 1 .. Cardinality(K)
        /\ ByKey(K)[Cardinality(Below(K, x)) + 1] = x[2]
    BY ByKeyHolds
  <2> QED BY <1>1, <2>1
<1> QED BY <1>1, <1>3, <1>4

\* The first few of a sequence.
LEMMA TakeIs ==
  ASSUME NEW T, NEW s \in Seq(T), NEW n \in Nat
  PROVE  /\ Take(s, n) = SubSeq(s, 1, IF n <= Len(s) THEN n ELSE Len(s))
         /\ Take(s, n) \in Seq(T)
         /\ Len(Take(s, n)) = IF n <= Len(s) THEN n ELSE Len(s)
<1>1. PICK m \in Nat : m = Len(s)
  OBVIOUS
<1>2. Min({n, m}) = IF n <= m THEN n ELSE m
  <2>1. \E x \in {n, m} : \A y \in {n, m} : x <= y
    OBVIOUS
  <2>2. PICK x : x = Min({n, m})
    OBVIOUS
  <2>3. x \in {n, m} /\ \A y \in {n, m} : x <= y
    BY <2>1, <2>2 DEF Min
  <2> QED BY <2>2, <2>3
<1>3. PICK k \in Nat : k = IF n <= m THEN n ELSE m
  OBVIOUS
<1>4. Take(s, n) = SubSeq(s, 1, k)
  BY <1>1, <1>2, <1>3 DEF Take
<1>5. \A i \in 1 .. k : s[i] \in T
  BY <1>1, <1>3
<1>6. SubSeq(s, 1, k) \in Seq(T) /\ Len(SubSeq(s, 1, k)) = IF 1 <= k THEN k - 1 + 1 ELSE 0
  <2>1. 1 \in Int /\ k \in Int
    OBVIOUS
  <2> QED BY <1>5, <2>1, SubSeqProperties
<1> QED BY <1>1, <1>3, <1>4, <1>6

\* Whatever the places, sorting a sequence gives one.
LEMMA Indexed ==
  ASSUME NEW n \in Nat, NEW f, DOMAIN f = 1 .. n, f = [i \in DOMAIN f |-> f[i]]
  PROVE  f \in Seq({f[i] : i \in 1 .. n}) /\ Len(f) = n
<1>1. PICK S : S = {f[i] : i \in 1 .. n}
  OBVIOUS
<1>2. \A i \in 1 .. n : f[i] \in S
  BY <1>1
<1>3. f \in [1 .. n -> S]
  BY <1>2
<1>4. f \in Seq(S) /\ Len(f) = n
  BY <1>3, SeqDef
<1> QED BY <1>1, <1>4

\* The places, among the first n of s, of the members of r: those in S, in order.
Places(s, S, n, r, m) ==
  /\ m \in [1 .. Len(r) -> 1 .. n]
  /\ \A i, j \in 1 .. Len(r) : i < j => m[i] < m[j]
  /\ \A k \in 1 .. Len(r) : s[m[k]] \in S /\ r[k] = s[m[k]]
  /\ \A i \in 1 .. n : s[i] \in S => \E k \in 1 .. Len(r) : m[k] = i

LEMMA PlacesKeep ==
  ASSUME NEW s, NEW S, NEW n \in Nat, NEW T, NEW r \in Seq(T), NEW m, Places(s, S, n, r, m),
         s[n + 1] \notin S
  PROVE  Places(s, S, n + 1, r, m)
<1>1. m \in [1 .. Len(r) -> 1 .. n + 1]
  BY DEF Places
<1>2. \A i \in 1 .. n + 1 : i = n + 1 \/ i \in 1 .. n
  OBVIOUS
<1> QED BY <1>1, <1>2 DEF Places

LEMMA PlacesMore ==
  ASSUME NEW s, NEW S, NEW n \in Nat, NEW T, NEW r \in Seq(T), NEW m, Places(s, S, n, r, m),
         s[n + 1] \in S, s[n + 1] \in T
  PROVE  \E p : Places(s, S, n + 1, Append(r, s[n + 1]), p)
<1>1. PICK l \in Nat : l = Len(r)
  OBVIOUS
<1>2. PICK x \in T : x = s[n + 1]
  OBVIOUS
<1>3. PICK q : q = Append(r, x)
  OBVIOUS
<1>4. Len(q) = l + 1 /\ q[l + 1] = x /\ \A k \in 1 .. l : q[k] = r[k]
  BY <1>1, <1>3
<1>5. PICK p : p = [k \in 1 .. l + 1 |-> IF k <= l THEN m[k] ELSE n + 1]
  OBVIOUS
<1>6. p[l + 1] = n + 1 /\ \A k \in 1 .. l : p[k] = m[k] /\ p[k] \in 1 .. n
  BY <1>1, <1>5 DEF Places
<1>7. \A k \in 1 .. l + 1 : k = l + 1 \/ k \in 1 .. l
  OBVIOUS
<1>8. p \in [1 .. l + 1 -> 1 .. n + 1]
  <2>1. \A k \in 1 .. l + 1 : p[k] \in 1 .. n + 1
    BY <1>6, <1>7
  <2> QED BY <1>5, <2>1
<1>9. \A i, j \in 1 .. l + 1 : i < j => p[i] < p[j]
  <2> SUFFICES ASSUME NEW i \in 1 .. l + 1, NEW j \in 1 .. l + 1, i < j PROVE p[i] < p[j]
    OBVIOUS
  <2>1. i \in 1 .. l
    OBVIOUS
  <2>2. CASE j \in 1 .. l
    BY <1>1, <1>6, <2>1, <2>2 DEF Places
  <2>3. CASE j = l + 1
    BY <1>6, <2>1, <2>3
  <2> QED BY <1>7, <2>2, <2>3
<1>10. \A k \in 1 .. l + 1 : s[p[k]] \in S /\ q[k] = s[p[k]]
  BY <1>1, <1>2, <1>4, <1>6, <1>7 DEF Places
<1>11. \A i \in 1 .. n + 1 : s[i] \in S => \E k \in 1 .. l + 1 : p[k] = i
  <2> SUFFICES ASSUME NEW i \in 1 .. n + 1, s[i] \in S PROVE \E k \in 1 .. l + 1 : p[k] = i
    OBVIOUS
  <2>1. CASE i = n + 1
    BY <1>6, <2>1
  <2>2. CASE i \in 1 .. n
    <3>1. PICK k \in 1 .. l : m[k] = i
      BY <1>1, <2>2 DEF Places
    <3>2. k \in 1 .. l + 1 /\ p[k] = i
      BY <1>6, <3>1
    <3> QED BY <3>2
  <2> QED BY <2>1, <2>2
<1>12. Places(s, S, n + 1, q, p)
  BY <1>4, <1>8, <1>9, <1>10, <1>11 DEF Places
<1> QED BY <1>2, <1>3, <1>12

\* What Only gives are the members of s that are in S, each at its place, in
\* their order, and none is left out.
LEMMA OnlyPlaces ==
  ASSUME NEW T, NEW s \in Seq(T), NEW S
  PROVE  \E m : Places(s, S, Len(s), Only(s, S), m)
<1>1. Len(s) \in Nat
  OBVIOUS
<1>2. PICK g : KeptSoFar(s, S, Len(s), g) /\ Only(s, S) = g[Len(s)]
  BY <1>1, OnlyIsKept
<1>3. /\ g[0] = <<>>
      /\ \A n \in Nat : n + 1 <= Len(s) =>
           g[n + 1] = IF s[n + 1] \in S THEN Append(g[n], s[n + 1]) ELSE g[n]
  BY <1>2, Zenon DEF KeptSoFar
<1> DEFINE M == {n \in Nat : n <= Len(s) => g[n] \in Seq(T) /\ \E m : Places(s, S, n, g[n], m)}
<1>4. 0 \in M
  <2>1. Places(s, S, 0, <<>>, [k \in 1 .. 0 |-> 0])
    BY DEF Places
  <2>2. <<>> \in Seq(T)
    OBVIOUS
  <2> QED BY <1>3, <2>1, <2>2
<1>5. ASSUME NEW n \in Nat, n \in M
      PROVE  n + 1 \in M
  <2> SUFFICES ASSUME n + 1 <= Len(s)
               PROVE  g[n + 1] \in Seq(T) /\ \E m : Places(s, S, n + 1, g[n + 1], m)
    OBVIOUS
  <2>1. g[n] \in Seq(T) /\ n + 1 \in 1 .. Len(s) /\ s[n + 1] \in T
    BY <1>5
  <2>2. PICK m : Places(s, S, n, g[n], m)
    BY <1>5
  <2>3. g[n + 1] = IF s[n + 1] \in S THEN Append(g[n], s[n + 1]) ELSE g[n]
    BY <1>3, <2>1
  <2>4. CASE s[n + 1] \in S
    <3>1. \E p : Places(s, S, n + 1, Append(g[n], s[n + 1]), p)
      BY <2>1, <2>2, <2>4, PlacesMore
    <3>2. Append(g[n], s[n + 1]) \in Seq(T)
      BY <2>1
    <3> QED BY <2>3, <2>4, <3>1, <3>2
  <2>5. CASE s[n + 1] \notin S
    <3>1. Places(s, S, n + 1, g[n], m)
      BY <2>1, <2>2, <2>5, PlacesKeep
    <3> QED BY <2>1, <2>3, <2>5, <3>1
  <2> QED BY <2>4, <2>5
<1>6. Nat \subseteq M
  <2> HIDE DEF M
  <2> QED BY <1>4, <1>5, EveryNumber
<1> QED BY <1>1, <1>2, <1>6

\* So the filtered sequence is no longer than the sequence, has what passes and
\* only that, and where all of s differ all of it does.
OnlyOf(r, s, S, T) ==
  /\ r \in Seq(T \cap S) /\ Len(r) \in Nat /\ Len(r) <= Len(s)
  /\ \A k \in 1 .. Len(r) : r[k] \in T \cap S /\ \E i \in 1 .. Len(s) : r[k] = s[i]
  /\ \A i \in 1 .. Len(s) : s[i] \in S => \E k \in 1 .. Len(r) : r[k] = s[i]

LEMMA OnlyIs ==
  ASSUME NEW T, NEW s \in Seq(T), NEW S
  PROVE  OnlyOf(Only(s, S), s, S, T)
<1>1. PICK r \in Seq(T \cap S) : r = Only(s, S)
  BY OnlyType
<1>2. PICK m : Places(s, S, Len(s), r, m)
  BY <1>1, OnlyPlaces
<1>3. PICK l \in Nat : l = Len(r)
  OBVIOUS
<1>4. PICK n \in Nat : n = Len(s)
  OBVIOUS
<1>5. l <= n
  <2>1. m \in Injection(1 .. l, 1 .. n)
    <3>1. \A i, j \in 1 .. l : m[i] = m[j] => i = j
      <4> SUFFICES ASSUME NEW i \in 1 .. l, NEW j \in 1 .. l, m[i] = m[j], i # j PROVE FALSE
        OBVIOUS
      <4>1. m[i] \in 1 .. n /\ m[j] \in 1 .. n
        BY <1>2, <1>3, <1>4 DEF Places
      <4>2. i < j => m[i] < m[j]
        BY <1>2, <1>3 DEF Places
      <4>3. j < i => m[j] < m[i]
        BY <1>2, <1>3 DEF Places
      <4> QED BY <4>1, <4>2, <4>3
    <3> QED BY <1>2, <1>3, <1>4, <3>1 DEF Places, Injection, IsInjective
  <2>2. /\ IsFiniteSet(1 .. l) /\ Cardinality(1 .. l) = IF 1 > l THEN 0 ELSE l - 1 + 1
        /\ IsFiniteSet(1 .. n) /\ Cardinality(1 .. n) = IF 1 > n THEN 0 ELSE n - 1 + 1
    <3>1. 1 \in Int /\ l \in Int /\ n \in Int
      OBVIOUS
    <3> QED BY <3>1, FS_Interval
  <2>3. Cardinality(1 .. l) <= Cardinality(1 .. n)
    BY <2>1, <2>2, FS_Injection
  <2> QED BY <2>2, <2>3
<1>6. \A k \in 1 .. l : r[k] \in T \cap S /\ \E i \in 1 .. n : r[k] = s[i]
  BY <1>2, <1>3, <1>4 DEF Places
<1>7. \A i \in 1 .. n : s[i] \in S => \E k \in 1 .. l : r[k] = s[i]
  <2> SUFFICES ASSUME NEW i \in 1 .. n, s[i] \in S PROVE \E k \in 1 .. l : r[k] = s[i]
    OBVIOUS
  <2>1. PICK k \in 1 .. l : m[k] = i
    BY <1>2, <1>3, <1>4 DEF Places
  <2>2. r[k] = s[m[k]]
    BY <1>2, <1>3 DEF Places
  <2> QED BY <2>1, <2>2
<1>8. OnlyOf(r, s, S, T)
  BY <1>1, <1>3, <1>4, <1>5, <1>6, <1>7 DEF OnlyOf
<1> QED BY <1>1, <1>8

-----------------------------------------------------------------------------
(* A sorted set whose members have keys of n integers.                     *)

WithKeys(f, S) == {<<f[x], x>> : x \in S}

InList(s) == {s[i] : i \in 1 .. Len(s)}

LEMMA SortedList ==
  ASSUME NEW S, IsFiniteSet(S), NEW n \in Nat, NEW f \in [S -> [1 .. n -> Int]],
         \A x, y \in S : f[x] = f[y] => x = y
  PROVE  /\ ByKey(WithKeys(f, S)) \in Seq(S)
         /\ Len(ByKey(WithKeys(f, S))) = Cardinality(S)
         /\ \A x \in S : x \in InList(ByKey(WithKeys(f, S)))
<1>0. PICK K : K = WithKeys(f, S)
  OBVIOUS
<1>1. K = {<<f[x], x>> : x \in S}
  BY <1>0 DEF WithKeys
<1>2. IsFiniteSet(K) /\ Cardinality(K) = Cardinality(S)
  <2>1. PICK g : g = [x \in S |-> <<f[x], x>>]
    OBVIOUS
  <2>2. g \in Surjection(S, K)
    BY <1>1, <2>1 DEF Surjection
  <2>3. \A x, y \in S : g[x] = g[y] => x = y
    BY <2>1
  <2>4. g \in Injection(S, K)
    BY <2>2, <2>3 DEF Injection, IsInjective, Surjection
  <2> QED BY <2>2, <2>4, FS_Surjection
<1>3. Keyed(K, n)
  BY <1>1 DEF Keyed
<1>4. KeysDiffer(K)
  BY <1>1 DEF KeysDiffer
<1>5. /\ ByKey(K) \in Seq({x[2] : x \in K}) /\ Len(ByKey(K)) = Cardinality(K)
      /\ \A x \in K : \E i \in 1 .. Len(ByKey(K)) : ByKey(K)[i] = x[2]
  BY <1>2, <1>3, <1>4, OrderIsOfAll
<1>6. {x[2] : x \in K} = S
  <2>1. \A x \in K : x[2] \in S
    BY <1>1
  <2>2. ASSUME NEW x \in S PROVE \E k \in K : x = k[2]
    <3>1. PICK k : k = <<f[x], x>>
      OBVIOUS
    <3>2. k \in K /\ x = k[2]
      BY <1>1, <3>1
    <3> QED BY <3>2
  <2> QED BY <2>1, <2>2
<1>7. \A x \in S : <<f[x], x>> \in K
  BY <1>1
<1>8. \A x \in S : \E i \in 1 .. Len(ByKey(K)) : ByKey(K)[i] = x
  BY <1>5, <1>7
<1>9. ByKey(K) \in Seq(S)
  BY <1>5, <1>6
<1>10. \A x \in S : x \in InList(ByKey(K))
  BY <1>8 DEF InList
<1> QED BY <1>0, <1>2, <1>5, <1>9, <1>10

LEMMA OneAndAnother ==
  ASSUME NEW k \in Int, NEW m \in Int
  PROVE  Append(<<k>>, m) \in [1 .. 2 -> Int] /\ Append(<<k>>, m)[2] = m
<1>1. PICK s : s = <<k>>
  OBVIOUS
<1>2. s \in Seq(Int) /\ Len(s) = 1
  BY <1>1
<1>3. /\ Append(s, m) \in Seq(Int) /\ Len(Append(s, m)) = Len(s) + 1
      /\ Append(s, m)[Len(s) + 1] = m
  BY <1>2, AppendProperties
<1>4. PICK t : t = Append(s, m)
  OBVIOUS
<1>5. t \in Seq(Int) /\ Len(t) = 2 /\ t[2] = m
  BY <1>2, <1>3, <1>4
<1>6. t \in [1 .. Len(t) -> Int]
  BY <1>5, LenProperties
<1> QED BY <1>1, <1>4, <1>5, <1>6

\* There is one that no other sorts before.
LEMMA LeastIsThere ==
  ASSUME NEW S, IsFiniteSet(S), S # {}, NEW n \in Nat, NEW f \in [S -> [1 .. n -> Int]]
  PROVE  \E x \in S : \A y \in S : ~Before(f[y], f[x])
<1>1. PICK K : K = {<<f[x], x>> : x \in S}
  OBVIOUS
<1>2. IsFiniteSet(K)
  <2>1. PICK g : g = [x \in S |-> <<f[x], x>>]
    OBVIOUS
  <2>2. g \in Surjection(S, K)
    BY <1>1, <2>1 DEF Surjection
  <2> QED BY <2>2, FS_Surjection
<1>3. Keyed(K, n)
  BY <1>1 DEF Keyed
<1> DEFINE T == {Cardinality(Below(K, x)) : x \in K}
<1>4. T \subseteq Nat /\ T # {}
  <2>1. ASSUME NEW x \in K PROVE Cardinality(Below(K, x)) \in Nat
    <3>1. Below(K, x) \subseteq K
      BY DEF Below
    <3> QED BY <1>2, <3>1, FS_Subset, FS_CardinalityType
  <2>2. K # {}
    BY <1>1
  <2> QED BY <2>1, <2>2
<1>5. PICK c \in T : \A d \in T : c <= d
  <2> HIDE DEF T
  <2> QED BY <1>4, LeastNumber
<1>6. PICK k \in K : c = Cardinality(Below(K, k))
  OBVIOUS
<1>7. PICK x \in S : k = <<f[x], x>>
  BY <1>1
<1>8. ASSUME NEW y \in S PROVE ~Before(f[y], f[x])
  <2>1. PICK l \in K : l = <<f[y], y>>
    BY <1>1
  <2>2. Cardinality(Below(K, l)) \in T
    OBVIOUS
  <2>3. c <= Cardinality(Below(K, l))
    BY <1>5, <2>2
  <2>4. c \in Nat /\ Cardinality(Below(K, l)) \in Nat
    BY <1>4, <2>2
  <2>5. ~Before(l[1], k[1])
    <3> SUFFICES ASSUME Before(l[1], k[1]) PROVE FALSE
      OBVIOUS
    <3>1. Cardinality(Below(K, l)) < Cardinality(Below(K, k))
      BY <1>2, <1>3, RankGrows
    <3> HIDE DEF T
    <3> QED BY <1>6, <2>3, <2>4, <3>1
  <2> QED BY <1>7, <2>1, <2>5
<1> QED BY <1>8

-----------------------------------------------------------------------------
(* The product of a finite set of integers is one.                         *)

OneOf(s) == CHOOSE x \in s : TRUE
Times(s, g) == IF s = {} THEN 1 ELSE OneOf(s) * g[s \ {OneOf(s)}]
Multiplied(S, g) == g = [s \in SUBSET S |-> Times(s, g)]

LEMMA OneLess ==
  ASSUME NEW s, IsFiniteSet(s), s # {}
  PROVE  /\ OneOf(s) \in s /\ IsFiniteSet(s \ {OneOf(s)})
         /\ Cardinality(s \ {OneOf(s)}) = Cardinality(s) - 1
         /\ Cardinality(s) \in Nat /\ Cardinality(s \ {OneOf(s)}) \in Nat
<1>1. OneOf(s) \in s
  BY DEF OneOf
<1> QED BY <1>1, FS_RemoveElement, FS_CardinalityType

LEMMA MultipliedExists ==
  ASSUME NEW S, IsFiniteSet(S)
  PROVE  \E g : Multiplied(S, g)
<1> DEFINE UpTo(n, g) == \A s \in SUBSET S : Cardinality(s) <= n => g[s] = Times(s, g)
           M == {n \in Nat : \E g : UpTo(n, g)}
<1>1. \A s \in SUBSET S : IsFiniteSet(s) /\ Cardinality(s) \in Nat /\ Cardinality(s) <= Cardinality(S)
  <2>1. \A s \in SUBSET S : IsFiniteSet(s) /\ Cardinality(s) <= Cardinality(S)
    BY FS_Subset
  <2> QED BY <2>1, FS_CardinalityType
<1>2. 0 \in M
  <2>1. PICK g : g = [s \in SUBSET S |-> 1]
    OBVIOUS
  <2>2. ASSUME NEW s \in SUBSET S, Cardinality(s) <= 0 PROVE s = {}
    <3>1. Cardinality(s) = 0
      BY <1>1, <2>2
    <3> QED BY <1>1, <3>1, FS_EmptySet
  <2>3. \A s \in SUBSET S : Cardinality(s) <= 0 => g[s] = Times(s, g)
    BY <2>1, <2>2 DEF Times
  <2> QED BY <2>3
<1>3. ASSUME NEW n \in Nat, n \in M
      PROVE  n + 1 \in M
  <2>1. PICK g : UpTo(n, g)
    BY <1>3
  <2>2. PICK f : f = [s \in SUBSET S |-> IF Cardinality(s) <= n THEN g[s] ELSE Times(s, g)]
    OBVIOUS
  <2>3. ASSUME NEW s \in SUBSET S, Cardinality(s) <= n + 1 PROVE f[s] = Times(s, f)
    <3>1. f[s] = Times(s, g)
      BY <2>1, <2>2
    <3>2. CASE s = {}
      BY <3>1, <3>2 DEF Times
    <3>3. CASE s # {}
      <4>1. PICK r : r = s \ {OneOf(s)}
        OBVIOUS
      <4>2. Cardinality(r) <= n /\ r \in SUBSET S
        BY <1>1, <2>3, <3>3, <4>1, OneLess
      <4>3. f[r] = g[r]
        BY <2>2, <4>2
      <4> QED BY <3>1, <3>3, <4>1, <4>3 DEF Times
    <3> QED BY <3>2, <3>3
  <2>4. UpTo(n + 1, f)
    BY <2>3
  <2> HIDE DEF UpTo
  <2> QED BY <2>4
<1>4. Nat \subseteq M
  <2> HIDE DEF M
  <2> QED BY <1>2, <1>3, EveryNumber
<1>5. PICK n \in Nat : n = Cardinality(S)
  BY FS_CardinalityType
<1>6. PICK g : UpTo(n, g)
  BY <1>4
<1>7. PICK f : f = [s \in SUBSET S |-> g[s]]
  OBVIOUS
<1>8. ASSUME NEW s \in SUBSET S PROVE f[s] = Times(s, f)
  <2>1. g[s] = Times(s, g)
    BY <1>1, <1>5, <1>6
  <2>2. f[s] = g[s] /\ f[s \ {OneOf(s)}] = g[s \ {OneOf(s)}]
    BY <1>7
  <2> QED BY <2>1, <2>2 DEF Times
<1>9. Multiplied(S, f)
  BY <1>7, <1>8 DEF Multiplied
<1> QED BY <1>9

LEMMA ProductIsInt ==
  ASSUME NEW S, IsFiniteSet(S), S \subseteq Int
  PROVE  ProductSet(S) \in Int
<1> DEFINE c == CHOOSE g : g = [s \in SUBSET S |->
                  IF s = {} THEN 1 ELSE (CHOOSE x \in s : TRUE) * g[s \ {CHOOSE x \in s : TRUE}]]
<1>1. Multiplied(S, c)
  BY MultipliedExists DEF Multiplied, Times, OneOf
<1>2. ProductSet(S) = c[S]
  BY DEF ProductSet, FoldSet, MapThenFoldSet
<1> HIDE DEF c
<1> DEFINE M == {n \in Nat : \A s \in SUBSET S : Cardinality(s) <= n => c[s] \in Int}
<1>3. \A s \in SUBSET S : /\ c[s] = Times(s, c) /\ IsFiniteSet(s) /\ Cardinality(s) \in Nat
                          /\ Cardinality(s) <= Cardinality(S)
  <2>1. \A s \in SUBSET S : c[s] = Times(s, c)
    BY <1>1 DEF Multiplied
  <2>2. \A s \in SUBSET S : IsFiniteSet(s) /\ Cardinality(s) <= Cardinality(S)
    BY FS_Subset
  <2> QED BY <2>1, <2>2, FS_CardinalityType
<1>4. 0 \in M
  <2>1. ASSUME NEW s \in SUBSET S, Cardinality(s) <= 0 PROVE c[s] \in Int
    <3>1. s = {}
      <4>1. Cardinality(s) = 0
        BY <1>3, <2>1
      <4> QED BY <1>3, <4>1, FS_EmptySet
    <3>2. c[s] = Times(s, c)
      BY <1>3
    <3> QED BY <3>1, <3>2 DEF Times
  <2> QED BY <2>1
<1>5. ASSUME NEW n \in Nat, n \in M
      PROVE  n + 1 \in M
  <2>1. ASSUME NEW s \in SUBSET S, Cardinality(s) <= n + 1 PROVE c[s] \in Int
    <3>0. c[s] = Times(s, c)
      BY <1>3
    <3>1. CASE s = {}
      BY <3>0, <3>1 DEF Times
    <3>2. CASE s # {}
      <4>1. PICK r : r = s \ {OneOf(s)}
        OBVIOUS
      <4>2. Cardinality(r) <= n /\ r \in SUBSET S /\ OneOf(s) \in Int
        <5>1. IsFiniteSet(s) /\ Cardinality(s) \in Nat
          BY <1>3
        <5>2. OneOf(s) \in s /\ Cardinality(r) = Cardinality(s) - 1
          BY <3>2, <4>1, <5>1, OneLess
        <5>3. Cardinality(r) <= n
          BY <2>1, <5>1, <5>2
        <5>4. r \in SUBSET S /\ OneOf(s) \in Int
          BY <4>1, <5>2
        <5> QED BY <5>3, <5>4
      <4>3. c[r] \in Int
        BY <1>5, <4>2
      <4>4. c[s] = OneOf(s) * c[r]
        BY <3>0, <3>2, <4>1 DEF Times
      <4> QED BY <4>2, <4>3, <4>4
    <3> QED BY <3>1, <3>2
  <2>2. n + 1 \in Nat
    OBVIOUS
  <2>3. \A s \in SUBSET S : Cardinality(s) <= n + 1 => c[s] \in Int
    BY <2>1
  <2>4. PICK m \in Nat : m = n + 1
    BY <2>2
  <2>5. m \in M
    BY <2>3, <2>4
  <2> QED BY <2>4, <2>5
<1>6. Nat \subseteq M
  <2> HIDE DEF M
  <2> QED BY <1>4, <1>5, EveryNumber
<1>7. PICK n \in Nat : n = Cardinality(S)
  BY FS_CardinalityType
<1>8. c[S] \in Int
  <2>1. S \in SUBSET S /\ Cardinality(S) <= n
    BY <1>7
  <2> QED BY <1>6, <2>1
<1> QED BY <1>2, <1>8

\* What is sorted grows from place to place.
LEMMA OrderGrows ==
  ASSUME NEW K, IsFiniteSet(K), NEW n \in Nat, Keyed(K, n), KeysDiffer(K),
         NEW i \in 1 .. Cardinality(K), NEW j \in 1 .. Cardinality(K), i < j
  PROVE  \E x, y \in K : ByKey(K)[i] = x[2] /\ ByKey(K)[j] = y[2] /\ Before(x[1], y[1])
<1>1. PICK c \in Nat : c = Cardinality(K)
  BY FS_CardinalityType
<1>2. i - 1 \in 0 .. Cardinality(K) - 1 /\ j - 1 \in 0 .. Cardinality(K) - 1
  BY <1>1
<1>3. PICK x \in K : Cardinality(Below(K, x)) = i - 1
  BY <1>2, EveryPlaceIsTaken
<1>4. PICK y \in K : Cardinality(Below(K, y)) = j - 1
  BY <1>2, EveryPlaceIsTaken
<1>5. ByKey(K)[Cardinality(Below(K, x)) + 1] = x[2] /\ ByKey(K)[Cardinality(Below(K, y)) + 1] = y[2]
  BY ByKeyHolds
<1>6. ByKey(K)[i] = x[2] /\ ByKey(K)[j] = y[2]
  BY <1>1, <1>3, <1>4, <1>5
<1>7. Before(x[1], y[1])
  <2>1. x # y
    BY <1>1, <1>3, <1>4
  <2>2. x[1] \in [1 .. n -> Int] /\ y[1] \in [1 .. n -> Int] /\ x[1] # y[1]
    BY <2>1 DEF Keyed, KeysDiffer
  <2>3. ASSUME Before(y[1], x[1]) PROVE FALSE
    <3>1. Cardinality(Below(K, y)) < Cardinality(Below(K, x))
      BY <2>3, RankGrows
    <3> QED BY <1>1, <1>3, <1>4, <3>1
  <2> QED BY <2>2, <2>3, BeforeIsTotal
<1> QED BY <1>6, <1>7

\* The first of the numbers of a set: none is left out up to the last of them.
ByItself(S) == [b \in S |-> <<b>>]

FirstOf(row, S) ==
  /\ row \in Seq(S) /\ row # <<>>
  /\ \A b \in S : b <= row[Len(row)] => \E i \in 1 .. Len(row) : row[i] = b

LEMMA FirstFew ==
  ASSUME NEW S, IsFiniteSet(S), S \subseteq Nat, S # {}, NEW n \in Nat \ {0}
  PROVE  FirstOf(Take(ByKey(WithKeys(ByItself(S), S)), n), S)
<1>a. PICK f : f = ByItself(S) /\ f = [b \in S |-> <<b>>]
  BY DEF ByItself
<1>b. PICK row : row = Take(ByKey(WithKeys(f, S)), n)
  OBVIOUS
<1>1. PICK K : K = WithKeys(f, S)
  OBVIOUS
<1>2. f \in [S -> [1 .. 1 -> Int]] /\ 1 \in Nat
  BY <1>a
<1>3. \A x, y \in S : f[x] = f[y] => x = y
  BY <1>a
<1>4. PICK p : p = ByKey(K)
  OBVIOUS
<1>5. p \in Seq(S) /\ Len(p) = Cardinality(S) /\ \A x \in S : x \in InList(p)
  BY <1>1, <1>2, <1>3, <1>4, SortedList
<1>6. PICK c \in Nat : c = Cardinality(S) /\ c # 0
  BY FS_CardinalityType, FS_EmptySet
<1>7. PICK m \in Nat \ {0} : m = (IF n <= c THEN n ELSE c) /\ m <= c
  BY <1>6
<1>8. row = SubSeq(p, 1, m) /\ row \in Seq(S) /\ Len(row) = m
  <2>1. row = Take(p, n)
    BY <1>1, <1>4, <1>b
  <2>2. /\ Take(p, n) = SubSeq(p, 1, IF n <= Len(p) THEN n ELSE Len(p)) /\ Take(p, n) \in Seq(S)
        /\ Len(Take(p, n)) = IF n <= Len(p) THEN n ELSE Len(p)
    BY <1>5, TakeIs
  <2> QED BY <1>5, <1>6, <1>7, <2>1, <2>2
<1>9. \A i \in 1 .. m : row[i] = p[i]
  BY <1>5, <1>6, <1>7, <1>8
<1>10. ASSUME NEW i \in 1 .. c, NEW j \in 1 .. c, i < j PROVE p[i] < p[j]
  <2>1. IsFiniteSet(K) /\ Cardinality(K) = c /\ Keyed(K, 1) /\ KeysDiffer(K)
    <3>1. K = {<<f[x], x>> : x \in S}
      BY <1>1, <1>a DEF WithKeys
    <3>2. Keyed(K, 1)
      BY <1>2, <3>1 DEF Keyed
    <3>3. KeysDiffer(K)
      BY <1>3, <3>1 DEF KeysDiffer
    <3>4. IsFiniteSet(K) /\ Cardinality(K) = Cardinality(S)
      <4>1. PICK g : g = [x \in S |-> <<f[x], x>>]
        OBVIOUS
      <4>2. g \in Surjection(S, K)
        BY <3>1, <4>1 DEF Surjection
      <4>3. \A x, y \in S : g[x] = g[y] => x = y
        BY <4>1
      <4>4. g \in Injection(S, K)
        BY <4>2, <4>3 DEF Injection, IsInjective, Surjection
      <4> QED BY <4>2, <4>4, FS_Surjection
    <3> QED BY <1>6, <3>2, <3>3, <3>4
  <2>2. PICK x \in K, y \in K : p[i] = x[2] /\ p[j] = y[2] /\ Before(x[1], y[1])
    BY <1>2, <1>4, <1>10, <2>1, OrderGrows
  <2>3. x[1] = <<x[2]>> /\ y[1] = <<y[2]>> /\ x[2] \in Nat /\ y[2] \in Nat
    BY <1>1, <1>a DEF WithKeys
  <2>4. PICK k \in 1 .. 1 : x[1][k] < y[1][k]
    <3>1. PICK a : a = x[1]
      OBVIOUS
    <3>2. DOMAIN a = 1 .. 1
      BY <2>3, <3>1
    <3> QED BY <2>2, <2>3 DEF Before
  <2>5. k = 1
    OBVIOUS
  <2> QED BY <2>2, <2>3, <2>4, <2>5
<1>12. \A i \in 1 .. c : p[i] \in Nat
  <2>1. \A i \in 1 .. c : p[i] \in S
    BY <1>5, <1>6
  <2> QED BY <2>1
<1>11. ASSUME NEW b \in S, b <= row[Len(row)]
       PROVE  \E i \in 1 .. Len(row) : row[i] = b
  <2>1. PICK i \in 1 .. c : p[i] = b
    BY <1>5, <1>6 DEF InList
  <2>2. i <= m
    <3>1. m \in 1 .. m /\ m \in 1 .. c
      BY <1>6, <1>7
    <3>4. row[m] = p[m] /\ Len(row) = m
      BY <1>8, <1>9, <3>1
    <3>2. p[m] \in Nat /\ p[i] \in Nat
      BY <1>12, <2>1, <3>1
    <3>3. m < i => p[m] < p[i]
      BY <1>10, <3>1
    <3>5. ~(m < i)
      BY <1>11, <2>1, <3>2, <3>3, <3>4
    <3> QED BY <1>6, <1>7, <2>1, <3>5
  <2>3. i \in 1 .. m
    BY <1>7, <2>1, <2>2
  <2>4. row[i] = b /\ i \in 1 .. Len(row)
    BY <1>8, <1>9, <2>1, <2>3
  <2> QED BY <2>4
<1>13. row # <<>>
  BY <1>7, <1>8
<1>14. FirstOf(row, S)
  BY <1>8, <1>11, <1>13 DEF FirstOf
<1> QED BY <1>14, <1>a, <1>b

-----------------------------------------------------------------------------
(* The sum over a finite set of integers is one.                           *)

Plus(s, w, g) == IF s = {} THEN 0 ELSE w[OneOf(s)] + g[s \ {OneOf(s)}]
Added(S, w, g) == g = [s \in SUBSET S |-> Plus(s, w, g)]

LEMMA AddedExists ==
  ASSUME NEW S, IsFiniteSet(S), NEW w
  PROVE  \E g : Added(S, w, g)
<1> DEFINE UpTo(n, g) == \A s \in SUBSET S : Cardinality(s) <= n => g[s] = Plus(s, w, g)
           M == {n \in Nat : \E g : UpTo(n, g)}
<1>1. \A s \in SUBSET S : IsFiniteSet(s) /\ Cardinality(s) \in Nat /\ Cardinality(s) <= Cardinality(S)
  <2>1. \A s \in SUBSET S : IsFiniteSet(s) /\ Cardinality(s) <= Cardinality(S)
    BY FS_Subset
  <2> QED BY <2>1, FS_CardinalityType
<1>2. 0 \in M
  <2>1. PICK g : g = [s \in SUBSET S |-> 0]
    OBVIOUS
  <2>2. ASSUME NEW s \in SUBSET S, Cardinality(s) <= 0 PROVE s = {}
    <3>1. Cardinality(s) = 0
      BY <1>1, <2>2
    <3> QED BY <1>1, <3>1, FS_EmptySet
  <2>3. \A s \in SUBSET S : Cardinality(s) <= 0 => g[s] = Plus(s, w, g)
    BY <2>1, <2>2 DEF Plus
  <2> QED BY <2>3
<1>3. ASSUME NEW n \in Nat, n \in M
      PROVE  n + 1 \in M
  <2>1. PICK g : UpTo(n, g)
    BY <1>3
  <2>2. PICK f : f = [s \in SUBSET S |-> IF Cardinality(s) <= n THEN g[s] ELSE Plus(s, w, g)]
    OBVIOUS
  <2>3. ASSUME NEW s \in SUBSET S, Cardinality(s) <= n + 1 PROVE f[s] = Plus(s, w, f)
    <3>1. f[s] = Plus(s, w, g)
      BY <2>1, <2>2
    <3>2. CASE s = {}
      BY <3>1, <3>2 DEF Plus
    <3>3. CASE s # {}
      <4>1. PICK r : r = s \ {OneOf(s)}
        OBVIOUS
      <4>2. Cardinality(r) <= n /\ r \in SUBSET S
        BY <1>1, <2>3, <3>3, <4>1, OneLess
      <4>3. f[r] = g[r]
        BY <2>2, <4>2
      <4> QED BY <3>1, <3>3, <4>1, <4>3 DEF Plus
    <3> QED BY <3>2, <3>3
  <2>4. UpTo(n + 1, f)
    BY <2>3
  <2> HIDE DEF UpTo
  <2> QED BY <2>4
<1>4. Nat \subseteq M
  <2> HIDE DEF M
  <2> QED BY <1>2, <1>3, EveryNumber
<1>5. PICK n \in Nat : n = Cardinality(S)
  BY FS_CardinalityType
<1>6. PICK g : UpTo(n, g)
  BY <1>4
<1>7. PICK f : f = [s \in SUBSET S |-> g[s]]
  OBVIOUS
<1>8. ASSUME NEW s \in SUBSET S PROVE f[s] = Plus(s, w, f)
  <2>1. g[s] = Plus(s, w, g)
    BY <1>1, <1>5, <1>6
  <2>2. f[s] = g[s] /\ f[s \ {OneOf(s)}] = g[s \ {OneOf(s)}]
    BY <1>7
  <2> QED BY <2>1, <2>2 DEF Plus
<1>9. Added(S, w, f)
  BY <1>7, <1>8 DEF Added
<1> QED BY <1>9

LEMMA AddedIsInt ==
  ASSUME NEW S, IsFiniteSet(S), NEW w \in [S -> Int], NEW c, Added(S, w, c)
  PROVE  c[S] \in Int
<1> DEFINE M == {n \in Nat : \A s \in SUBSET S : Cardinality(s) <= n => c[s] \in Int}
<1>3. \A s \in SUBSET S : /\ c[s] = Plus(s, w, c) /\ IsFiniteSet(s) /\ Cardinality(s) \in Nat
                          /\ Cardinality(s) <= Cardinality(S)
  <2>1. \A s \in SUBSET S : c[s] = Plus(s, w, c)
    BY DEF Added
  <2>2. \A s \in SUBSET S : IsFiniteSet(s) /\ Cardinality(s) <= Cardinality(S)
    BY FS_Subset
  <2> QED BY <2>1, <2>2, FS_CardinalityType
<1>4. 0 \in M
  <2>1. ASSUME NEW s \in SUBSET S, Cardinality(s) <= 0 PROVE c[s] \in Int
    <3>1. s = {}
      <4>1. Cardinality(s) = 0
        BY <1>3, <2>1
      <4> QED BY <1>3, <4>1, FS_EmptySet
    <3>2. c[s] = Plus(s, w, c)
      BY <1>3
    <3> QED BY <3>1, <3>2 DEF Plus
  <2> QED BY <2>1
<1>5. ASSUME NEW n \in Nat, n \in M
      PROVE  n + 1 \in M
  <2>1. ASSUME NEW s \in SUBSET S, Cardinality(s) <= n + 1 PROVE c[s] \in Int
    <3>0. c[s] = Plus(s, w, c)
      BY <1>3
    <3>1. CASE s = {}
      BY <3>0, <3>1 DEF Plus
    <3>2. CASE s # {}
      <4>1. PICK r : r = s \ {OneOf(s)}
        OBVIOUS
      <4>2. Cardinality(r) <= n /\ r \in SUBSET S /\ w[OneOf(s)] \in Int
        <5>1. IsFiniteSet(s) /\ Cardinality(s) \in Nat
          BY <1>3
        <5>2. OneOf(s) \in s /\ Cardinality(r) = Cardinality(s) - 1
          BY <3>2, <4>1, <5>1, OneLess
        <5>3. Cardinality(r) <= n
          BY <2>1, <5>1, <5>2
        <5>4. r \in SUBSET S /\ OneOf(s) \in S
          BY <4>1, <5>2
        <5> QED BY <5>3, <5>4
      <4>3. c[r] \in Int
        BY <1>5, <4>2
      <4>4. c[s] = w[OneOf(s)] + c[r]
        BY <3>0, <3>2, <4>1 DEF Plus
      <4> QED BY <4>2, <4>3, <4>4
    <3> QED BY <3>1, <3>2
  <2>2. n + 1 \in Nat
    OBVIOUS
  <2>3. \A s \in SUBSET S : Cardinality(s) <= n + 1 => c[s] \in Int
    BY <2>1
  <2>4. PICK m \in Nat : m = n + 1
    BY <2>2
  <2>5. m \in M
    BY <2>3, <2>4
  <2> QED BY <2>4, <2>5
<1>6. Nat \subseteq M
  <2> HIDE DEF M
  <2> QED BY <1>4, <1>5, EveryNumber
<1>7. PICK n \in Nat : n = Cardinality(S)
  BY FS_CardinalityType
<1>8. c[S] \in Int
  <2>1. S \in SUBSET S /\ Cardinality(S) <= n
    BY <1>7
  <2> QED BY <1>6, <2>1
<1> QED BY <1>8

\* A finite set of integers has a largest one.
LEMMA LargestIsThere ==
  ASSUME NEW S, IsFiniteSet(S), S # {}, S \subseteq Int
  PROVE  Max(S) \in S /\ \A y \in S : y <= Max(S)
<1>1. PICK f : f = [x \in S |-> <<-x>>]
  OBVIOUS
<1>2. f \in [S -> [1 .. 1 -> Int]] /\ 1 \in Nat
  BY <1>1
<1>3. PICK x \in S : \A y \in S : ~Before(f[y], f[x])
  BY <1>2, LeastIsThere
<1>4. ASSUME NEW y \in S PROVE x >= y
  <2>1. PICK k \in Int, l \in Int : k = -x /\ l = -y
    OBVIOUS
  <2>2. f[x] = <<k>> /\ f[y] = <<l>>
    BY <1>1, <2>1
  <2>3. ASSUME l < k PROVE Before(<<l>>, <<k>>)
    <3>1. 1 \in DOMAIN <<l>> /\ <<l>>[1] = l /\ <<k>>[1] = k /\ 1..1 - 1 = {}
      OBVIOUS
    <3>2. \A j \in 1..1 - 1 : <<l>>[j] = <<k>>[j]
      BY <3>1
    <3> QED BY <2>3, <3>1, <3>2 DEF Before
  <2> QED BY <1>3, <2>1, <2>2, <2>3
<1>5. \E z \in S : \A y \in S : z >= y
  BY <1>4
<1>6. PICK z : z = Max(S)
  OBVIOUS
<1>7. z \in S /\ \A y \in S : z >= y
  BY <1>5, <1>6 DEF Max
<1> QED BY <1>6, <1>7

=============================================================================
