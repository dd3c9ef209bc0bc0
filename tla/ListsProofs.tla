---------------------------- MODULE ListsProofs ----------------------------
(***************************************************************************)
(* Proofs about the making of the home list.                               *)
(***************************************************************************)
EXTENDS InterestList, SequenceFacts

-----------------------------------------------------------------------------
(* Lists in order.                                                         *)

\* A function on the first numbers is a sequence of its values.
LEMMA OfFunction ==
  ASSUME NEW n \in Nat, NEW f, f = [i \in 1 .. n |-> f[i]]
  PROVE  f \in Seq(ToSet(f)) /\ Len(f) = n /\ DOMAIN f = 1 .. n
<1>1. PICK V : V = ToSet(f)
  OBVIOUS
<1>2. \A i \in 1 .. n : f[i] \in V
  BY <1>1 DEF ToSet
<1>3. f \in [1 .. n -> V]
  BY <1>2
<1>4. f \in Seq(V)
  BY <1>3, SeqDef
<1> QED BY <1>1, <1>3, <1>4
\* A sorted set: every one comes once, and none before one with a smaller key.
InRow(S, f, r) ==
  /\ r \in Seq(S) /\ Len(r) = Cardinality(S)
  /\ \A x \in S : \E k \in 1 .. Len(r) : r[k] = x
  /\ \A i, j \in 1 .. Len(r) : i < j => Before(f[r[i]], f[r[j]])

LEMMA RowGrows ==
  ASSUME NEW S, IsFiniteSet(S), NEW m \in Nat, NEW f \in [S -> [1 .. m -> Int]],
         \A x, y \in S : f[x] = f[y] => x = y
  PROVE  InRow(S, f, ByKey(WithKeys(f, S)))
<1>5. PICK K : K = WithKeys(f, S)
  OBVIOUS
<1>6. K = {<<f[x], x>> : x \in S}
  BY <1>5 DEF WithKeys
<1>7. PICK r : r = ByKey(K)
  OBVIOUS
<1>8. r \in Seq(S) /\ Len(r) = Cardinality(S) /\ \A x \in S : x \in InList(r)
  BY <1>5, <1>7, SortedList
<1>9. IsFiniteSet(K) /\ Cardinality(K) = Cardinality(S) /\ Keyed(K, m) /\ KeysDiffer(K)
  <2>1. PICK g : g = [x \in S |-> <<f[x], x>>]
    OBVIOUS
  <2>2. g \in Surjection(S, K)
    BY <1>6, <2>1 DEF Surjection
  <2>3. \A x, y \in S : g[x] = g[y] => x = y
    BY <2>1
  <2>4. g \in Injection(S, K)
    BY <2>2, <2>3 DEF Injection, IsInjective, Surjection
  <2>5. IsFiniteSet(K) /\ Cardinality(K) = Cardinality(S)
    BY <2>2, <2>4, FS_Surjection
  <2>6. Keyed(K, m)
    BY <1>6 DEF Keyed
  <2>7. KeysDiffer(K)
    BY <1>6 DEF KeysDiffer
  <2> QED BY <2>5, <2>6, <2>7
<1>10. ASSUME NEW i \in 1 .. Len(r), NEW j \in 1 .. Len(r), i < j
       PROVE  Before(f[r[i]], f[r[j]])
  <2>1. PICK a \in 1 .. Cardinality(K), b \in 1 .. Cardinality(K) : a = i /\ b = j /\ a < b
    BY <1>8, <1>9, <1>10
  <2>2. \E x, y \in K : ByKey(K)[a] = x[2] /\ ByKey(K)[b] = y[2] /\ Before(x[1], y[1])
    BY <1>9, <2>1, OrderGrows
  <2>3. PICK x \in K, y \in K : r[i] = x[2] /\ r[j] = y[2] /\ Before(x[1], y[1])
    BY <1>7, <2>1, <2>2
  <2>4. PICK a1 \in S, b1 \in S : x = <<f[a1], a1>> /\ y = <<f[b1], b1>>
    BY <1>6
  <2> QED BY <2>3, <2>4
<1>11. \A x \in S : \E k \in 1 .. Len(r) : r[k] = x
  BY <1>8 DEF InList
<1> QED BY <1>5, <1>7, <1>8, <1>10, <1>11 DEF InRow

\* What is sorted by an integer each: every one comes once, the least first, equal ones in
\* their order.
Sorted(S, w, r) ==
  /\ r \in Seq(S)
  /\ \A x \in S : \E k \in 1 .. Len(r) : r[k] = x
  /\ \A i, j \in 1 .. Len(r) :
       i < j => w[r[i]] <= w[r[j]] /\ r[i] # r[j] /\ (w[r[i]] = w[r[j]] => r[i] < r[j])

ByWeight(w, S) == [x \in S |-> <<w[x], x>>]

LEMMA SortedByWeight ==
  ASSUME NEW n \in Nat, NEW S, S = 1 .. n, NEW w \in [S -> Int]
  PROVE  LET r == ByKey(WithKeys(ByWeight(w, S), S)) IN Sorted(S, w, r) /\ Len(r) = n
<1>1. PICK f : f = ByWeight(w, S) /\ f = [x \in S |-> <<w[x], x>>]
  BY DEF ByWeight
<1>2. PICK m \in Nat : m = 2
  OBVIOUS
<1>3. f \in [S -> [1 .. m -> Int]]
  <2>1. ASSUME NEW x \in S PROVE f[x] \in [1 .. m -> Int]
    <3>1. f[x] = <<w[x], x>> /\ w[x] \in Int /\ x \in Int
      BY <1>1
    <3> QED BY <1>2, <3>1
  <2> QED BY <1>1, <2>1
<1>4. \A x, y \in S : f[x] = f[y] => x = y
  BY <1>1
<1>5. IsFiniteSet(S) /\ Cardinality(S) = n
  <2>1. 1 \in Int /\ n \in Int
    OBVIOUS
  <2> QED BY <2>1, FS_Interval
<1>6. PICK r : r = ByKey(WithKeys(f, S))
  OBVIOUS
<1>7. /\ r \in Seq(S) /\ Len(r) = n
      /\ \A x \in S : \E k \in 1 .. Len(r) : r[k] = x
      /\ \A i, j \in 1 .. Len(r) : i < j => Before(f[r[i]], f[r[j]])
  <2>1. InRow(S, f, r)
    BY <1>3, <1>4, <1>5, <1>6, RowGrows
  <2> QED BY <1>5, <2>1 DEF InRow
<1>8. ASSUME NEW i \in 1 .. n, NEW j \in 1 .. n, i < j
      PROVE  w[r[i]] <= w[r[j]] /\ r[i] # r[j] /\ (w[r[i]] = w[r[j]] => r[i] < r[j])
  <2>1. PICK a \in S, b \in S : a = r[i] /\ b = r[j]
    <3>1. r[i] \in S /\ r[j] \in S
      <4>1. r \in Seq(S) /\ Len(r) = n
        BY <1>7
      <4> QED BY <4>1
    <3> QED BY <3>1
  <2>2. f[a] = <<w[a], a>> /\ f[b] = <<w[b], b>>
    BY <1>1
  <2>3. PICK u \in Int, v \in Int : u = w[a] /\ v = w[b]
    OBVIOUS
  <2>4. PICK k \in 1 .. 2 : /\ <<u, a>>[k] < <<v, b>>[k]
                            /\ \A l \in 1 .. k - 1 : <<u, a>>[l] = <<v, b>>[l]
    <3>0. Before(f[r[i]], f[r[j]])
      BY <1>7, <1>8
    <3>1. Before(<<u, a>>, <<v, b>>) /\ DOMAIN <<u, a>> = 1 .. 2
      BY <2>1, <2>2, <2>3, <3>0
    <3> QED BY <3>1 DEF Before
  <2>5. CASE k = 1
    <3>1. u < v
      BY <2>4, <2>5
    <3> QED BY <2>1, <2>3, <3>1
  <2>6. CASE k = 2
    <3>1. a < b /\ <<u, a>>[1] = <<v, b>>[1]
      BY <2>4, <2>6
    <3>2. u = v /\ a \in Int /\ b \in Int
      BY <3>1
    <3> QED BY <2>1, <2>3, <3>1, <3>2
  <2> QED BY <2>5, <2>6
<1>9. Sorted(S, w, r)
  BY <1>7, <1>8 DEF Sorted
<1> QED BY <1>1, <1>6, <1>7, <1>9

LEMMA AppendedIs ==
  ASSUME NEW v, NEW j
  PROVE  Append(<<v>>, j) = <<v, j>>
<1>1. PICK U : U = {v, j}
  OBVIOUS
<1>2. PICK s : s = <<v>>
  OBVIOUS
<1>3. s \in Seq(U) /\ Len(s) = 1 /\ s[1] = v
  BY <1>1, <1>2
<1>4. j \in U
  BY <1>1
<1>5. PICK t : t = Append(s, j)
  OBVIOUS
<1>6. /\ t \in Seq(U) /\ Len(t) = Len(s) + 1 /\ t[Len(s) + 1] = j
      /\ \A i \in 1 .. Len(s) : t[i] = s[i]
  <2>1. s \in Seq(U)
    BY <1>3
  <2>2. /\ Append(s, j) \in Seq(U) /\ Len(Append(s, j)) = Len(s) + 1
        /\ Append(s, j)[Len(s) + 1] = j
        /\ \A i \in 1 .. Len(s) : Append(s, j)[i] = s[i]
    BY <1>4, <2>1, AppendProperties
  <2> QED BY <1>5, <2>2
<1>7. t \in Seq(U) /\ Len(t) = 2 /\ t[2] = j /\ t[1] = v
  BY <1>3, <1>6
<1>8. PICK u : u = <<v, j>>
  OBVIOUS
<1>9. u \in Seq(U) /\ Len(u) = 2 /\ u[1] = v /\ u[2] = j
  BY <1>1, <1>8
<1>10. \A i \in 1 .. Len(t) : t[i] = u[i]
  BY <1>7, <1>9
<1>11. t = u
  BY <1>7, <1>9, <1>10, SeqEqual
<1> QED BY <1>2, <1>5, <1>8, <1>11

\* StableSort with a key of one integer: nothing is lost, nothing comes twice.
Rearranged(s, w, r, p) ==
  /\ Sorted(1 .. Len(s), w, p) /\ Len(p) = Len(s)
  /\ r = [k \in 1 .. Len(s) |-> s[p[k]]]

PlaceKeys(s, w) == {<<Append(<<w[i]>>, i), i>> : i \in DOMAIN s}
SortedBy(s, w) == [k \in 1 .. Len(s) |-> s[ByKey(PlaceKeys(s, w))[k]]]

LEMMA StableIs ==
  ASSUME NEW T, NEW s \in Seq(T), NEW w \in [1 .. Len(s) -> Int]
  PROVE  /\ \E p : Rearranged(s, w, SortedBy(s, w), p)
         /\ SortedBy(s, w) \in Seq(T) /\ Len(SortedBy(s, w)) = Len(s)
<1>a. PICK P : P = PlaceKeys(s, w) /\ P = {<<Append(<<w[i]>>, i), i>> : i \in DOMAIN s}
  BY DEF PlaceKeys
<1>b. PICK r : r = SortedBy(s, w) /\ r = [k \in 1 .. Len(s) |-> s[ByKey(P)[k]]]
  BY <1>a DEF SortedBy
<1>1. PICK n \in Nat : n = Len(s)
  OBVIOUS
<1>2. DOMAIN s = 1 .. n /\ \A i \in 1 .. n : s[i] \in T
  BY <1>1
<1>3. PICK S : S = 1 .. n
  OBVIOUS
<1>4. P = WithKeys(ByWeight(w, S), S)
  <2>1. ASSUME NEW i \in S PROVE Append(<<w[i]>>, i) = ByWeight(w, S)[i]
    <3>1. PICK v \in Int : v = w[i]
      BY <1>1, <1>3
    <3>2. PICK j \in Int : j = i
      BY <1>3
    <3>3. Append(<<v>>, j) = <<v, j>>
      BY AppendedIs
    <3> QED BY <3>1, <3>2, <3>3 DEF ByWeight
  <2> QED BY <1>2, <1>3, <1>a, <2>1 DEF WithKeys
<1>5. Sorted(S, w, ByKey(P)) /\ Len(ByKey(P)) = n
  <2>1. w \in [S -> Int]
    BY <1>1, <1>3
  <2>2. Sorted(S, w, ByKey(WithKeys(ByWeight(w, S), S))) /\ Len(ByKey(WithKeys(ByWeight(w, S), S))) = n
    BY <1>3, <2>1, SortedByWeight
  <2> QED BY <1>4, <2>2
<1>6. Rearranged(s, w, r, ByKey(P))
  BY <1>1, <1>3, <1>5, <1>b DEF Rearranged
<1>7. ASSUME NEW k \in 1 .. n PROVE r[k] \in T
  <2>1. ByKey(P)[k] \in 1 .. n
    <3>1. ByKey(P) \in Seq(S) /\ Len(ByKey(P)) = n
      BY <1>5 DEF Sorted
    <3> QED BY <1>3, <3>1
  <2> QED BY <1>1, <1>2, <1>b, <2>1
<1>8. r \in [1 .. n -> T]
  <2>1. PICK q : q = [k \in 1 .. n |-> s[ByKey(P)[k]]]
    OBVIOUS
  <2>2. q = r
    BY <1>1, <1>b, <2>1, Zenon
  <2>3. \A k \in 1 .. n : q[k] \in T
    BY <1>7, <2>2
  <2>4. q \in [1 .. n -> T]
    BY <2>1, <2>3
  <2> QED BY <2>2, <2>4
<1>9. r \in Seq(T)
  BY <1>8, SeqDef
<1>10. Len(r) = n
  BY <1>1, <1>8, <1>9
<1> QED BY <1>1, <1>6, <1>9, <1>10, <1>b

\* Firsts: what the sequence has, each once.
LEMMA FirstsIs ==
  ASSUME NEW T, NEW s \in Seq(T)
  PROVE  /\ Firsts(s) \in Seq(T)
         /\ \A i, j \in 1 .. Len(Firsts(s)) : Firsts(s)[i] = Firsts(s)[j] => i = j
         /\ \A i \in 1 .. Len(s) : \E k \in 1 .. Len(Firsts(s)) : Firsts(s)[k] = s[i]
         /\ \A k \in 1 .. Len(Firsts(s)) : \E i \in 1 .. Len(s) : Firsts(s)[k] = s[i]
<1>1. PICK n \in Nat : n = Len(s)
  OBVIOUS
<1>2. DOMAIN s = 1 .. n /\ \A i \in 1 .. n : s[i] \in T
  BY <1>1
<1>3. PICK S : S = {i \in 1 .. n : \A j \in 1 .. i - 1 : s[j] # s[i]}
  OBVIOUS
<1>4. IsFiniteSet(S) /\ S \subseteq Int
  <2>1. IsFiniteSet(1 .. n)
    <3>1. 1 \in Int /\ n \in Int
      OBVIOUS
    <3> QED BY <3>1, FS_Interval
  <2> QED BY <1>3, <2>1, FS_Subset
<1>5. PICK f : f = [i \in S |-> <<i>>]
  OBVIOUS
<1>6. PICK m \in Nat : m = 1
  OBVIOUS
<1>7. f \in [S -> [1 .. m -> Int]] /\ \A x, y \in S : f[x] = f[y] => x = y
  <2>1. ASSUME NEW x \in S PROVE f[x] \in [1 .. m -> Int]
    <3>1. f[x] = <<x>> /\ x \in Int
      BY <1>4, <1>5
    <3> QED BY <1>6, <3>1
  <2>2. ASSUME NEW x \in S, NEW y \in S, f[x] = f[y] PROVE x = y
    BY <1>5, <2>2
  <2> QED BY <1>5, <2>1, <2>2
<1>8. PICK r : r = ByKey(WithKeys(f, S))
  OBVIOUS
<1>9. /\ r \in Seq(S) /\ \A x \in S : \E k \in 1 .. Len(r) : r[k] = x
      /\ \A i, j \in 1 .. Len(r) : i < j => Before(f[r[i]], f[r[j]])
  <2>1. InRow(S, f, r)
    BY <1>4, <1>7, <1>8, RowGrows
  <2> QED BY <2>1 DEF InRow
<1>10. PICK l \in Nat : l = Len(r) /\ DOMAIN r = 1 .. l
  BY <1>9
<1>11. PICK F : F = [k \in 1 .. l |-> s[r[k]]]
  OBVIOUS
<1>12. Firsts(s) = F
  <2>1. WithKeys(f, S) = {<<<<i>>, i>> : i \in S}
    BY <1>5 DEF WithKeys
  <2>2. S = {i \in DOMAIN s : \A j \in 1 .. i - 1 : s[j] # s[i]}
    BY <1>2, <1>3
  <2>3. r = Ordered(S, LAMBDA i : <<i>>)
    BY <1>8, <2>1 DEF Ordered
  <2> QED BY <1>10, <1>11, <2>2, <2>3 DEF Firsts
<1>13. \A k \in 1 .. l : r[k] \in S /\ r[k] \in 1 .. n
  BY <1>3, <1>9, <1>10
<1>14. F \in [1 .. l -> T]
  BY <1>2, <1>11, <1>13
<1>15. F \in Seq(T) /\ Len(F) = l
  BY <1>14, SeqDef
<1>16. ASSUME NEW i \in 1 .. l, NEW j \in 1 .. l, i < j PROVE F[i] # F[j]
  <2>1. PICK a \in S, b \in S : a = r[i] /\ b = r[j] /\ a \in 1 .. n /\ b \in 1 .. n
    BY <1>13
  <2>2. Before(<<a>>, <<b>>)
    BY <1>5, <1>9, <1>10, <1>16, <2>1
  <2>3. a < b
    <3>1. PICK k \in DOMAIN <<a>> : <<a>>[k] < <<b>>[k]
      BY <2>2 DEF Before
    <3>2. k = 1
      BY <3>1
    <3> QED BY <3>1, <3>2
  <2>4. s[a] # s[b]
    BY <1>3, <2>1, <2>3
  <2> QED BY <1>11, <2>1, <2>4
<1>17. ASSUME NEW i \in 1 .. n PROVE \E k \in 1 .. l : F[k] = s[i]
  <2>1. PICK E : E = {j \in 1 .. n : s[j] = s[i]}
    OBVIOUS
  <2>2. E \subseteq Nat /\ E # {}
    <3>1. i \in E
      BY <1>17, <2>1
    <3>2. E \subseteq 1 .. n
      BY <2>1
    <3> QED BY <3>1, <3>2
  <2>3. PICK j \in E : \A k \in E : j <= k
    BY <2>2, LeastNumber
  <2>4. \A k \in 1 .. j - 1 : s[k] # s[j]
    BY <2>1, <2>3
  <2>5. j \in S
    BY <1>3, <2>1, <2>4
  <2>6. PICK k \in 1 .. l : r[k] = j
    BY <1>9, <1>10, <2>5
  <2> QED BY <1>11, <2>1, <2>6
<1>18. \A i, j \in 1 .. l : F[i] = F[j] => i = j
  BY <1>16
<1>19. \A k \in 1 .. l : \E i \in 1 .. n : F[k] = s[i]
  BY <1>11, <1>13
<1> QED BY <1>1, <1>12, <1>15, <1>17, <1>18, <1>19
-----------------------------------------------------------------------------
(* Sums.                                                                   *)

\* What is added up of positive numbers is positive.
LEMMA AddedIsPositive ==
  ASSUME NEW S, IsFiniteSet(S), S # {}, NEW w \in [S -> Nat \ {0}], NEW c, Added(S, w, c)
  PROVE  c[S] \in Nat \ {0}
<1> DEFINE Good(s) == c[s] \in Nat /\ (s # {} => c[s] # 0)
           M == {n \in Nat : \A s \in SUBSET S : Cardinality(s) <= n => Good(s)}
<1>3. \A s \in SUBSET S : /\ c[s] = Plus(s, w, c) /\ IsFiniteSet(s) /\ Cardinality(s) \in Nat
                          /\ Cardinality(s) <= Cardinality(S)
  <2>1. \A s \in SUBSET S : c[s] = Plus(s, w, c)
    BY DEF Added
  <2>2. \A s \in SUBSET S : IsFiniteSet(s) /\ Cardinality(s) <= Cardinality(S)
    BY FS_Subset
  <2> QED BY <2>1, <2>2, FS_CardinalityType
<1>4. 0 \in M
  <2>1. ASSUME NEW s \in SUBSET S, Cardinality(s) <= 0 PROVE Good(s)
    <3>1. s = {}
      <4>1. Cardinality(s) = 0
        BY <1>3, <2>1
      <4> QED BY <1>3, <4>1, FS_EmptySet
    <3>2. c[s] = Plus(s, w, c)
      BY <1>3
    <3> QED BY <3>1, <3>2 DEF Plus
  <2> QED BY <2>1
<1>5. ASSUME NEW n \in Nat, n \in M
      PROVE  n + 1 \in M
  <2>1. ASSUME NEW s \in SUBSET S, Cardinality(s) <= n + 1 PROVE Good(s)
    <3>0. c[s] = Plus(s, w, c)
      BY <1>3
    <3>1. CASE s = {}
      BY <3>0, <3>1 DEF Plus
    <3>2. CASE s # {}
      <4>1. PICK r : r = s \ {OneOf(s)}
        OBVIOUS
      <4>2. Cardinality(r) <= n /\ r \in SUBSET S /\ w[OneOf(s)] \in Nat \ {0}
        <5>1. IsFiniteSet(s) /\ Cardinality(s) \in Nat
          BY <1>3
        <5>2. OneOf(s) \in s /\ Cardinality(r) = Cardinality(s) - 1
          BY <3>2, <4>1, <5>1, OneLess
        <5>3. Cardinality(r) <= n
          BY <2>1, <5>1, <5>2
        <5>4. r \in SUBSET S /\ OneOf(s) \in S
          BY <4>1, <5>2
        <5> QED BY <5>3, <5>4
      <4>3. c[r] \in Nat
        BY <1>5, <4>2
      <4>4. c[s] = w[OneOf(s)] + c[r]
        BY <3>0, <3>2, <4>1 DEF Plus
      <4> QED BY <4>2, <4>3, <4>4
    <3> QED BY <3>1, <3>2
  <2>2. n + 1 \in Nat
    OBVIOUS
  <2> HIDE DEF Good
  <2>3. \A s \in SUBSET S : Cardinality(s) <= n + 1 => Good(s)
    BY <2>1
  <2>4. PICK m \in Nat : m = n + 1
    BY <2>2
  <2>5. m \in M
    BY <2>3, <2>4
  <2> QED BY <2>4, <2>5
<1>6. Nat \subseteq M
  <2> HIDE DEF M
  <2> QED BY <1>4, <1>5, EveryNumber
<1>7. PICK n \in Nat : n = Cardinality(S)
  BY FS_CardinalityType
<1>8. Good(S)
  <2>1. S \in SUBSET S /\ Cardinality(S) <= n
    BY <1>7
  <2> HIDE DEF Good
  <2> QED BY <1>6, <2>1
<1> QED BY <1>8

LEMMA SumIsAdded ==
  ASSUME NEW S, IsFiniteSet(S), NEW w, DOMAIN w = S
  PROVE  \E c : Added(S, w, c) /\ SumOf(w) = c[S]
<1> DEFINE step(s, g) == IF s = {} THEN 0 ELSE w[OneOf(s)] + g[s \ {OneOf(s)}]
           iter == CHOOSE g : g = [s \in SUBSET S |-> step(s, g)]
<1>1. ASSUME NEW g PROVE Added(S, w, g) <=> g = [s \in SUBSET S |-> step(s, g)]
  BY DEF Added, Plus
<1>2. Added(S, w, iter)
  <2>1. PICK g : Added(S, w, g)
    BY AddedExists
  <2>2. g = [s \in SUBSET S |-> step(s, g)]
    BY <1>1, <2>1
  <2>3. iter = [s \in SUBSET S |-> step(s, iter)]
    <3> HIDE DEF step
    <3> QED BY <2>2, Zenon
  <2> HIDE DEF iter
  <2> QED BY <1>1, <2>3
<1>3. SumOf(w) = iter[S]
  BY DEF SumOf, Sum, MapThenSumSet, MapThenFoldSet, OneOf
<1> HIDE DEF iter
<1> QED BY <1>2, <1>3

LEMMA SumIsInt ==
  ASSUME NEW S, IsFiniteSet(S), NEW w \in [S -> Int]
  PROVE  SumOf(w) \in Int
<1>1. PICK c : Added(S, w, c) /\ SumOf(w) = c[S]
  BY SumIsAdded
<1> QED BY <1>1, AddedIsInt

LEMMA SumIsPositive ==
  ASSUME NEW S, IsFiniteSet(S), S # {}, NEW w \in [S -> Nat \ {0}]
  PROVE  SumOf(w) \in Nat \ {0}
<1>1. PICK c : Added(S, w, c) /\ SumOf(w) = c[S]
  BY SumIsAdded
<1> QED BY <1>1, AddedIsPositive

-----------------------------------------------------------------------------
(* The scores of the interests.                                            *)

\* Scores: names with a whole number each.
Points(s) == \E T : s \in Seq(T \X Int)

LEMMA ScoreIsInt ==
  ASSUME NEW s, Points(s), NEW x
  PROVE  ScoreOf(s, x) \in Int
<1>1. PICK T : s \in Seq(T \X Int)
  BY DEF Points
<1>2. CASE \E i \in DOMAIN s : s[i][1] = x
  <2>1. PICK i : i = CHOOSE k \in DOMAIN s : s[k][1] = x
    OBVIOUS
  <2>2. i \in DOMAIN s
    BY <1>2, <2>1
  <2>3. s[i] \in T \X Int
    BY <1>1, <2>2
  <2>4. ScoreOf(s, x) = s[i][2]
    BY <1>2, <2>1 DEF ScoreOf
  <2> QED BY <2>3, <2>4
<1>3. CASE ~\E i \in DOMAIN s : s[i][1] = x
  BY <1>3 DEF ScoreOf
<1> QED BY <1>2, <1>3

\* Names with a number each are points.
LEMMA PointsOf ==
  ASSUME NEW n \in Nat, NEW s, s = [i \in 1 .. n |-> s[i]],
         NEW a, NEW v, \A i \in 1 .. n : s[i] = <<a[i], v[i]>> /\ v[i] \in Int
  PROVE  Points(s) /\ Len(s) = n /\ DOMAIN s = 1 .. n
<1>1. PICK T : T = {a[i] : i \in 1 .. n}
  OBVIOUS
<1>2. ASSUME NEW i \in 1 .. n PROVE s[i] \in T \X Int
  <2>1. a[i] \in T
    BY <1>1
  <2>2. s[i] = <<a[i], v[i]>> /\ v[i] \in Int
    OBVIOUS
  <2>3. PICK t \in T, k \in Int : t = a[i] /\ k = v[i]
    BY <2>1, <2>2
  <2>4. <<t, k>> \in T \X Int
    OBVIOUS
  <2> QED BY <2>2, <2>3, <2>4, Zenon
<1>3. s \in [1 .. n -> T \X Int]
  BY <1>2
<1>4. s \in Seq(T \X Int)
  BY <1>3, SeqDef
<1>5. Len(s) = n /\ DOMAIN s = 1 .. n
  BY <1>3, <1>4
<1> QED BY <1>4, <1>5 DEF Points

LEMMA OnboardingPoints ==
  ASSUME NEW o \in Onboardings
  PROVE  Points(OnboardingScores(o.categories, o.tags))
<1>1. PICK U : o.tags \in Seq(U)
  BY RequestsAssumption
<1>2. PICK V : o.categories \in Seq(V)
  BY RequestsAssumption
<1>3. PICK known : known = Firsts(Only(o.tags, DOMAIN NameAt))
  OBVIOUS
<1>4. known \in Seq(U)
  <2>1. Only(o.tags, DOMAIN NameAt) \in Seq(U \cap DOMAIN NameAt)
    BY <1>1, OnlyType
  <2>2. Only(o.tags, DOMAIN NameAt) \in Seq(U)
    BY <2>1
  <2> QED BY <1>3, <2>2, FirstsIs
<1> DEFINE narrowed == {Parent[t] : t \in ToSet(known) \cap DOMAIN Parent}
           S == {c \in ToSet(o.categories) : IsOnboarding(c) /\ c \notin narrowed}
<1>5. PICK wide : wide = Only(Firsts(o.categories), S)
  OBVIOUS
<1>6. wide \in Seq(V)
  <2> HIDE DEF S
  <2>1. Firsts(o.categories) \in Seq(V)
    BY <1>2, FirstsIs
  <2>2. Only(Firsts(o.categories), S) \in Seq(V \cap S)
    BY <2>1, OnlyType
  <2> QED BY <1>5, <2>2
<1>7. PICK all : all = Firsts(known \o wide)
  OBVIOUS
<1>8. PICK W : W = U \cup V
  OBVIOUS
<1>9. all \in Seq(W)
  <2>1. known \in Seq(W) /\ wide \in Seq(W)
    BY <1>4, <1>6, <1>8
  <2>2. known \o wide \in Seq(W)
    BY <2>1, ConcatProperties
  <2> QED BY <1>7, <2>2, FirstsIs
<1>10. PICK n \in Nat : n = Len(all) /\ DOMAIN all = 1 .. n
  BY <1>9
<1>11. PICK s : s = [i \in 1 .. n |-> <<<<"named", all[i]>>, 1>>]
  OBVIOUS
<1>12. OnboardingScores(o.categories, o.tags) = s
  BY <1>3, <1>5, <1>7, <1>10, <1>11 DEF OnboardingScores
<1>13. Points(s)
  <2>1. PICK a : a = [i \in 1 .. n |-> <<"named", all[i]>>]
    OBVIOUS
  <2>2. PICK v : v = [i \in 1 .. n |-> 1]
    OBVIOUS
  <2>3. \A i \in 1 .. n : s[i] = <<a[i], v[i]>> /\ v[i] \in Int
    BY <1>11, <2>1, <2>2
  <2>4. s = [i \in 1 .. n |-> s[i]]
    BY <1>11
  <2> QED BY <2>3, <2>4, PointsOf
<1> QED BY <1>12, <1>13
LEMMA InOrderIs ==
  ASSUME NEW lines \in Seq(Lines)
  PROVE  InOrder(lines) \in Seq(Lines)
<1>1. PICK n \in Nat : n = Len(lines) /\ DOMAIN lines = 1 .. n
  OBVIOUS
<1>2. PICK w : w = [i \in 1 .. n |-> lines[i].at]
  OBVIOUS
<1>3. w \in [1 .. Len(lines) -> Int]
  <2>1. \A i \in 1 .. n : lines[i] \in Lines
    BY <1>1
  <2>2. \A i \in 1 .. n : lines[i].at \in Int
    BY <2>1, RequestsAssumption
  <2> QED BY <1>1, <1>2, <2>2
<1>4. PICK P : P = {<<Append(<<lines[i].at>>, i), i>> : i \in DOMAIN lines}
  OBVIOUS
<1>5. P = PlaceKeys(lines, w)
  BY <1>1, <1>2, <1>4 DEF PlaceKeys
<1>6. InOrder(lines) = [k \in 1 .. Len(lines) |-> lines[ByKey(P)[k]]]
  BY <1>4, Zenon DEF InOrder, StableSort, Ordered
<1>7. InOrder(lines) = SortedBy(lines, w)
  BY <1>5, <1>6, Zenon DEF SortedBy
<1>8. SortedBy(lines, w) \in Seq(Lines)
  BY <1>3, StableIs
<1> QED BY <1>7, <1>8

LEMMA UsedIs ==
  ASSUME NEW lines \in Seq(Lines)
  PROVE  Used(lines) \in Seq(Lines)
<1>1. PICK s \in Seq(Lines) : s = InOrder(lines)
  BY InOrderIs
<1>2. PICK n \in Nat : n = Len(s)
  OBVIOUS
<1>3. PICK k \in Int : k = n - UsedMemories + 1
  BY InterestsAssumption
<1>4. Max({1, k}) \in Int /\ Max({1, k}) >= 1
  <2>1. PICK S : S = {1, k}
    OBVIOUS
  <2>2. IsFiniteSet(S) /\ S # {} /\ S \subseteq Int
    <3>1. IsFiniteSet({1}) /\ IsFiniteSet({k})
      BY FS_Singleton
    <3>2. S = {1} \cup {k}
      BY <2>1
    <3>3. IsFiniteSet(S)
      BY <3>1, <3>2, FS_Union
    <3> QED BY <2>1, <3>3
  <2>3. Max(S) \in S /\ \A y \in S : y <= Max(S)
    BY <2>2, LargestIsThere
  <2> QED BY <2>1, <2>2, <2>3
<1>5. PICK m \in Nat : m = Max({1, k}) /\ m >= 1
  BY <1>4
<1>6. Used(lines) = SubSeq(s, m, n)
  BY <1>1, <1>2, <1>3, <1>5 DEF Used
<1>7. \A i \in m .. n : s[i] \in Lines
  BY <1>2, <1>5
<1>8. SubSeq(s, m, n) \in Seq(Lines)
  <2>1. m \in Int /\ n \in Int
    OBVIOUS
  <2> QED BY <1>7, <2>1, SubSeqProperties
<1> QED BY <1>6, <1>8

\* What a line is about is a list.
LEMMA InterestsOfIsList ==
  ASSUME NEW line \in Lines
  PROVE  InterestsOf(line) \in Seq(ToSet(InterestsOf(line)))
<1>1. PICK T : line.names \in Seq(T)
  BY RequestsAssumption
<1>2. PICK known : known = Firsts(Only(line.names, DOMAIN NameAt))
  OBVIOUS
<1>3. known \in Seq(T)
  <2>1. Only(line.names, DOMAIN NameAt) \in Seq(T \cap DOMAIN NameAt)
    BY <1>1, OnlyType
  <2>2. Only(line.names, DOMAIN NameAt) \in Seq(T)
    BY <2>1
  <2> QED BY <1>2, <2>2, FirstsIs
<1>4. PICK n \in Nat : n = Len(known) /\ DOMAIN known = 1 .. n
  BY <1>3
<1>5. PICK s : s = InterestsOf(line)
  OBVIOUS
<1>6. \/ \E x : s = <<x>>
      \/ s = [i \in 1 .. n |-> <<"named", known[i]>>]
      \/ s = <<>>
  <2>1. CASE line.type = "topic" /\ ~line.title
    <3>1. s = IF known = <<>> THEN <<<<"keyword", line.keyword>>>>
              ELSE [i \in DOMAIN known |-> <<"named", known[i]>>]
      BY <1>2, <1>5, <2>1 DEF InterestsOf
    <3> QED BY <1>4, <3>1
  <2>2. CASE line.type \in {"author", "mood"}
    <3>1. s = <<<<line.type, line.keyword>>>>
      BY <1>5, <2>2 DEF InterestsOf
    <3> QED BY <3>1
  <2>3. CASE ~(line.type = "topic" /\ ~line.title) /\ line.type \notin {"author", "mood"}
    BY <1>5, <2>3 DEF InterestsOf
  <2> QED BY <2>1, <2>2, <2>3
<1>7. \E m \in Nat : s = [i \in 1 .. m |-> s[i]]
  <2>1. CASE \E x : s = <<x>>
    <3>1. PICK m \in Nat : m = 1
      OBVIOUS
    <3>2. s = [i \in 1 .. m |-> s[i]]
      BY <2>1, <3>1
    <3> QED BY <3>2
  <2>2. CASE s = [i \in 1 .. n |-> <<"named", known[i]>>]
    <3>1. s = [i \in 1 .. n |-> s[i]]
      BY <2>2
    <3> QED BY <3>1
  <2>3. CASE s = <<>>
    <3>1. PICK m \in Nat : m = 0
      OBVIOUS
    <3>2. s = [i \in 1 .. m |-> s[i]]
      BY <2>3, <3>1
    <3> QED BY <3>2
  <2> QED BY <1>6, <2>1, <2>2, <2>3
<1>8. s \in Seq(ToSet(s))
  BY <1>7, OfFunction
<1> QED BY <1>5, <1>8

LEMMA LastRunIsInt ==
  ASSUME NEW n \in Nat, NEW v \in [1 .. n -> Int]
  PROVE  LastRun(v) \in Int
<1>0. Len(v) = n /\ DOMAIN v = 1 .. n
  <2>1. v \in Seq(Int)
    BY SeqDef
  <2> QED BY <2>1
<1>1. PICK B : B = {i \in 1 .. n : (v[i] > 0) # (v[n] > 0)}
  OBVIOUS
<1>2. PICK S : S = {0} \cup B
  OBVIOUS
<1>3. IsFiniteSet(S) /\ S # {} /\ S \subseteq Int /\ S \subseteq 0 .. n
  <2>1. IsFiniteSet(B)
    <3>1. 1 \in Int /\ n \in Int
      OBVIOUS
    <3>2. B \subseteq 1 .. n
      BY <1>1
    <3> QED BY <3>1, <3>2, FS_Interval, FS_Subset
  <2>2. IsFiniteSet({0})
    BY FS_Singleton
  <2>3. IsFiniteSet(S)
    BY <1>2, <2>1, <2>2, FS_Union
  <2>4. B \subseteq 1 .. n
    BY <1>1
  <2> QED BY <1>2, <2>3, <2>4
<1>4. Max(S) \in S
  BY <1>3, LargestIsThere
<1>5. PICK k \in 1 .. n + 1 : k = Max(S) + 1
  <2>1. PICK m \in 0 .. n : m = Max(S)
    BY <1>3, <1>4
  <2> QED BY <2>1
<1>6. PICK f : f = [i \in k .. n |-> v[i]]
  OBVIOUS
<1>7. LastRun(v) = SumOf(f)
  BY <1>0, <1>1, <1>2, <1>5, <1>6, Zenon DEF LastRun
<1>8. IsFiniteSet(k .. n)
  <2>1. k \in Int /\ n \in Int
    OBVIOUS
  <2> QED BY <2>1, FS_Interval
<1>9. f \in [k .. n -> Int]
  BY <1>6
<1>10. SumOf(f) \in Int
  BY <1>8, <1>9, SumIsInt
<1> QED BY <1>7, <1>10
\* The points of a line for one of its interests.
Share(line) == (6 * line.strength) \div Len(InterestsOf(line))

LEMMA ShareIsInt ==
  ASSUME NEW line \in Lines, NEW x, About(line, x)
  PROVE  Share(line) \in Int
<1>1. PICK s : s = InterestsOf(line)
  OBVIOUS
<1>2. s \in Seq(ToSet(s)) /\ x \in ToSet(s)
  BY <1>1, InterestsOfIsList DEF About
<1>3. PICK i \in DOMAIN s : TRUE
  BY <1>2 DEF ToSet
<1>4. Len(s) \in Nat \ {0}
  BY <1>2, <1>3
<1>5. line.strength \in Int
  BY RequestsAssumption
<1>6. PICK k \in Int, m \in Nat \ {0} : k = 6 * line.strength /\ m = Len(s)
  BY <1>4, <1>5
<1>7. k \div m \in Int
  OBVIOUS
<1> QED BY <1>1, <1>6, <1>7 DEF Share

LEMMA MemoryPoints ==
  ASSUME NEW lines \in Seq(Lines)
  PROVE  Points(MemoryScores(lines))
<1> DEFINE S == {line \in ToSet(lines) : line.strength # RequestToAvoid}
<1>1. PICK said : said = Only(InOrder(lines), S)
  OBVIOUS
<1>2. said \in Seq(Lines)
  <2> HIDE DEF S
  <2>1. Only(InOrder(lines), S) \in Seq(Lines \cap S)
    BY InOrderIs, OnlyType
  <2> QED BY <1>1, <2>1
<1>3. PICK n \in Nat : n = Len(said) /\ DOMAIN said = 1 .. n
  BY <1>2
<1>4. PICK T : T = UNION {ToSet(InterestsOf(line)) : line \in Lines}
  OBVIOUS
<1>5. PICK h : h = [i \in 1 .. n |-> InterestsOf(said[i])]
  OBVIOUS
<1>6. h \in Seq(Seq(T))
  <2>1. ASSUME NEW i \in 1 .. n PROVE h[i] \in Seq(T)
    <3>1. said[i] \in Lines
      BY <1>2, <1>3
    <3>2. InterestsOf(said[i]) \in Seq(ToSet(InterestsOf(said[i])))
      BY <3>1, InterestsOfIsList
    <3>3. ToSet(InterestsOf(said[i])) \subseteq T
      BY <1>4, <3>1
    <3>4. InterestsOf(said[i]) \in Seq(T)
      BY <3>2, <3>3
    <3> QED BY <1>5, <3>4
  <2>2. h \in [1 .. n -> Seq(T)]
    BY <1>5, <2>1
  <2> QED BY <2>2, SeqDef
<1>7. PICK names : names = Firsts(FlattenSeq(h))
  OBVIOUS
<1>8. names \in Seq(T)
  BY <1>6, <1>7, FlattenType, FirstsIs
<1>9. PICK m \in Nat : m = Len(names) /\ DOMAIN names = 1 .. m
  BY <1>8
<1> DEFINE about(x) == Only(said, {line \in ToSet(said) : About(line, x)})
           values(x) == [i \in DOMAIN about(x) |-> (6 * about(x)[i].strength) \div Len(InterestsOf(about(x)[i]))]
<1>10. ASSUME NEW x PROVE LastRun(values(x)) \in Int
  <2>1. PICK B : B = {line \in ToSet(said) : About(line, x)}
    OBVIOUS
  <2>2. PICK a : a = about(x)
    OBVIOUS
  <2>3. a \in Seq(Lines \cap B)
    BY <1>2, <2>1, <2>2, OnlyType
  <2>4. PICK k \in Nat : k = Len(a) /\ DOMAIN a = 1 .. k
    BY <2>3
  <2>5. PICK v : v = values(x)
    OBVIOUS
  <2>6. v = [i \in 1 .. k |-> Share(a[i])]
    BY <2>2, <2>4, <2>5 DEF Share
  <2>7. ASSUME NEW i \in 1 .. k PROVE Share(a[i]) \in Int
    <3>1. a[i] \in Lines /\ a[i] \in B
      BY <2>3, <2>4
    <3> QED BY <2>1, <3>1, ShareIsInt
  <2>8. v \in [1 .. k -> Int]
    BY <2>6, <2>7
  <2> HIDE DEF values
  <2> QED BY <2>5, <2>8, LastRunIsInt
<1>11. PICK s : s = [i \in 1 .. m |-> <<names[i], LastRun(values(names[i]))>>]
  OBVIOUS
<1>12. MemoryScores(lines) = s
  <2>1. MemoryScores(lines) = [i \in DOMAIN names |-> <<names[i], LastRun(values(names[i]))>>]
    BY <1>1, <1>3, <1>5, <1>7, Zenon DEF MemoryScores
  <2> HIDE DEF values
  <2> QED BY <1>9, <1>11, <2>1
<1>13. Points(s)
  <2> HIDE DEF values
  <2>2. PICK v : v = [i \in 1 .. m |-> LastRun(values(names[i]))]
    OBVIOUS
  <2>3. \A i \in 1 .. m : s[i] = <<names[i], v[i]>> /\ v[i] \in Int
    BY <1>10, <1>11, <2>2
  <2>4. s = [i \in 1 .. m |-> s[i]]
    BY <1>11
  <2> QED BY <2>3, <2>4, PointsOf
<1> QED BY <1>12, <1>13
LEMMA RowWeightIsInt ==
  ASSUME NEW r
  PROVE  RowWeight(r) \in Int
<1>1. CASE r.kind = "purchase"
  BY <1>1 DEF RowWeight, Purchase
<1>2. CASE r.kind = "library"
  BY <1>2 DEF RowWeight, Library
<1>3. CASE r.kind # "purchase" /\ r.kind # "library"
  BY <1>3 DEF RowWeight, ReviewWeight, LikedReview, DislikedReview
<1> QED BY <1>1, <1>2, <1>3

LEMMA BookWeightIsInt ==
  ASSUME NEW liked, NEW rows, IsFiniteSet(rows), NEW b \in DOMAIN BookWeights(liked, rows)
  PROVE  BookWeights(liked, rows)[b] \in Int
<1>1. PICK own : own = IF b \in ToSet(liked) THEN LikedBookWeight ELSE 0
  OBVIOUS
<1>2. PICK R : R = {x \in rows : x.book = b}
  OBVIOUS
<1>3. PICK V : V = {own} \cup {RowWeight(r) : r \in R}
  OBVIOUS
<1>4. IsFiniteSet(V) /\ V # {} /\ V \subseteq Int
  <2>1. IsFiniteSet(R)
    BY <1>2, FS_Subset
  <2>2. IsFiniteSet({RowWeight(r) : r \in R})
    <3>1. PICK V1 : V1 = {RowWeight(r) : r \in R}
      OBVIOUS
    <3>2. PICK g : g = [r \in R |-> RowWeight(r)]
      OBVIOUS
    <3>3. g \in Surjection(R, V1)
      BY <3>1, <3>2 DEF Surjection
    <3> QED BY <2>1, <3>1, <3>3, FS_Surjection
  <2>3. IsFiniteSet({own})
    BY FS_Singleton
  <2>4. IsFiniteSet(V)
    BY <1>3, <2>2, <2>3, FS_Union
  <2>5. own \in Int
    BY <1>1 DEF LikedBookWeight
  <2>6. \A r \in R : RowWeight(r) \in Int
    BY RowWeightIsInt
  <2> QED BY <1>3, <2>4, <2>5, <2>6
<1>5. Max(V) \in Int
  <2>1. Max(V) \in V
    BY <1>4, LargestIsThere
  <2> QED BY <1>4, <2>1
<1>6. BookWeights(liked, rows)[b] = Max(V)
  BY <1>1, <1>2, <1>3 DEF BookWeights
<1> QED BY <1>5, <1>6

\* The books that count have a weight each.
Weighed(S, weights) ==
  /\ S \subseteq Stock
  /\ \A b \in S : b.id \in DOMAIN weights /\ weights[b.id] \in Int

LEMMA MyBooksAre ==
  ASSUME NEW weights, \A b \in DOMAIN weights : weights[b] \in Int, NEW named
  PROVE  \E S : /\ Weighed(S, weights) /\ MyBooks(weights, named) \in Seq(S)
                /\ \A b \in S : BookInterest(b, named) # None
<1>1. PICK S : S = {b \in Stock : /\ b.id \in DOMAIN weights /\ b.embedded
                                  /\ BookInterest(b, named) # None}
  OBVIOUS
<1>2. PICK f : f = [b \in S |-> <<b.id>>]
  OBVIOUS
<1>3. PICK m \in Nat : m = 1
  OBVIOUS
<1>4. IsFiniteSet(S) /\ S \subseteq Stock
  BY <1>1, StockAssumption, FS_Subset
<1>5. f \in [S -> [1 .. m -> Int]]
  <2>1. ASSUME NEW b \in S PROVE f[b] \in [1 .. m -> Int]
    <3>1. PICK k \in Int : k = b.id
      BY <1>4, StockAssumption
    <3>2. f[b] = <<k>>
      BY <1>2, <3>1
    <3> QED BY <1>3, <3>2
  <2> QED BY <1>2, <2>1
<1>6. \A x, y \in S : f[x] = f[y] => x = y
  <2> SUFFICES ASSUME NEW x \in S, NEW y \in S, f[x] = f[y] PROVE x = y
    OBVIOUS
  <2>1. <<x.id>> = <<y.id>>
    BY <1>2
  <2>2. x.id = y.id
    BY <2>1
  <2> QED BY <1>4, <2>2, StockAssumption
<1>7. ByKey(WithKeys(f, S)) \in Seq(S)
  BY <1>4, <1>5, <1>6, RowGrows DEF InRow
<1>8. MyBooks(weights, named) = ByKey(WithKeys(f, S))
  <2>1. WithKeys(f, S) = {<<<<b.id>>, b>> : b \in S}
    BY <1>2 DEF WithKeys
  <2> QED BY <1>1, <2>1 DEF MyBooks, Ordered
<1>9. Weighed(S, weights)
  BY <1>1, <1>4 DEF Weighed
<1>10. \A b \in S : BookInterest(b, named) # None
  BY <1>1
<1> QED BY <1>7, <1>8, <1>9, <1>10

LEMMA BookPoints ==
  ASSUME NEW weights, NEW S, Weighed(S, weights), NEW books \in Seq(S), NEW named
  PROVE  Points(BookScores(books, weights, named))
<1>1. PICK n \in Nat : n = Len(books) /\ DOMAIN books = 1 .. n
  OBVIOUS
<1>2. PICK h : h = [i \in 1 .. n |-> BookInterest(books[i], named)]
  OBVIOUS
<1>3. PICK T : T = {h[i] : i \in 1 .. n}
  OBVIOUS
<1>4. h \in Seq(T)
  <2>1. h \in [1 .. n -> T]
    BY <1>2, <1>3
  <2> QED BY <2>1, SeqDef
<1>5. PICK names : names = Firsts(h)
  OBVIOUS
<1>6. names \in Seq(T)
  BY <1>4, <1>5, FirstsIs
<1>7. PICK m \in Nat : m = Len(names) /\ DOMAIN names = 1 .. m
  BY <1>6
<1> DEFINE mine(x) == {b \in ToSet(books) : BookInterest(b, named) = x}
           points(x) == [b \in mine(x) |-> weights[b.id]]
<1>8. ASSUME NEW x PROVE SumOf(points(x)) \in Int
  <2>1. PICK M : M = mine(x)
    OBVIOUS
  <2>2. M \subseteq S
    BY <1>1, <2>1 DEF ToSet
  <2>3. IsFiniteSet(M)
    BY <2>2, StockAssumption, FS_Subset DEF Weighed
  <2>4. PICK p : p = points(x)
    OBVIOUS
  <2>5. p \in [M -> Int]
    BY <2>1, <2>2, <2>4 DEF Weighed
  <2> HIDE DEF points
  <2> QED BY <2>3, <2>4, <2>5, SumIsInt
<1>9. PICK s : s = [i \in 1 .. m |-> <<names[i], SumOf(points(names[i]))>>]
  OBVIOUS
<1>10. BookScores(books, weights, named) = s
  <2>1. BookScores(books, weights, named) = [i \in DOMAIN names |-> <<names[i], SumOf(points(names[i]))>>]
    BY <1>1, <1>2, <1>5, Zenon DEF BookScores
  <2> HIDE DEF points
  <2> QED BY <1>7, <1>9, <2>1
<1>11. Points(s)
  <2> HIDE DEF points
  <2>2. PICK v : v = [i \in 1 .. m |-> SumOf(points(names[i]))]
    OBVIOUS
  <2>3. \A i \in 1 .. m : s[i] = <<names[i], v[i]>> /\ v[i] \in Int
    BY <1>8, <1>9, <2>2
  <2>4. s = [i \in 1 .. m |-> s[i]]
    BY <1>9
  <2> QED BY <2>3, <2>4, PointsOf
<1> QED BY <1>10, <1>11

\* Scores of names that differ.
Scored(s) ==
  /\ Points(s)
  /\ \A i, j \in 1 .. Len(s) : s[i][1] = s[j][1] => i = j

LEMMA NamesAreList ==
  ASSUME NEW s, Points(s)
  PROVE  \E T : [i \in DOMAIN s |-> s[i][1]] \in Seq(T)
<1>1. PICK n \in Nat : n = Len(s) /\ DOMAIN s = 1 .. n
  BY DEF Points
<1>2. PICK f : f = [i \in 1 .. n |-> s[i][1]]
  OBVIOUS
<1>3. f = [i \in 1 .. n |-> f[i]]
  BY <1>2
<1>4. f \in Seq(ToSet(f))
  BY <1>3, OfFunction
<1> QED BY <1>1, <1>2, <1>4

LEMMA CombinedScored ==
  ASSUME NEW o, Points(o), NEW m, Points(m), NEW b, Points(b)
  PROVE  Scored(Combined(o, m, b))
<1>1. PICK h1 : h1 = [i \in DOMAIN o |-> o[i][1]] /\ \E T : h1 \in Seq(T)
  BY NamesAreList
<1>2. PICK h2 : h2 = [i \in DOMAIN m |-> m[i][1]] /\ \E T : h2 \in Seq(T)
  BY NamesAreList
<1>3. PICK h3 : h3 = [i \in DOMAIN b |-> b[i][1]] /\ \E T : h3 \in Seq(T)
  BY NamesAreList
<1>4. PICK T1, T2, T3 : h1 \in Seq(T1) /\ h2 \in Seq(T2) /\ h3 \in Seq(T3)
  BY <1>1, <1>2, <1>3
<1>5. PICK T : T = T1 \cup T2 \cup T3
  OBVIOUS
<1>6. PICK h : h = h1 \o h2 \o h3
  OBVIOUS
<1>7. h \in Seq(T)
  <2>1. h1 \in Seq(T) /\ h2 \in Seq(T) /\ h3 \in Seq(T)
    BY <1>4, <1>5
  <2>2. h1 \o h2 \in Seq(T)
    BY <2>1, ConcatProperties
  <2>3. (h1 \o h2) \o h3 \in Seq(T)
    BY <2>1, <2>2, ConcatProperties
  <2> QED BY <1>6, <2>3
<1>8. PICK names : names = Firsts(h)
  OBVIOUS
<1>9. names \in Seq(T) /\ \A i, j \in 1 .. Len(names) : names[i] = names[j] => i = j
  BY <1>7, <1>8, FirstsIs
<1>10. PICK k \in Nat : k = Len(names) /\ DOMAIN names = 1 .. k
  BY <1>9
<1>11. PICK n \in Int : n = Max({1, Len(o)})
  <2>1. PICK l \in Nat : l = Len(o)
    BY DEF Points
  <2>2. PICK S : S = {1, l}
    OBVIOUS
  <2>3. IsFiniteSet(S) /\ S # {} /\ S \subseteq Int
    <3>1. IsFiniteSet({1}) /\ IsFiniteSet({l})
      BY FS_Singleton
    <3>2. S = {1} \cup {l}
      BY <2>2
    <3>3. IsFiniteSet(S)
      BY <3>1, <3>2, FS_Union
    <3> QED BY <2>2, <3>3
  <2>4. Max(S) \in S
    BY <2>3, LargestIsThere
  <2> QED BY <2>1, <2>2, <2>3, <2>4
<1> DEFINE parts(x) == [onboarding |-> 90 * ScoreOf(o, x), memory |-> 3 * n * ScoreOf(m, x),
                        books |-> 6 * n * ScoreOf(b, x)]
<1>12. ASSUME NEW x PROVE PartsTogether(parts(x)) \in Int
  <2>1. PICK so \in Int, sm \in Int, sb \in Int :
          so = ScoreOf(o, x) /\ sm = ScoreOf(m, x) /\ sb = ScoreOf(b, x)
    BY ScoreIsInt
  <2>2. PICK po \in Int, pm \in Int, pb \in Int : po = 90 * so /\ pm = 3 * n * sm /\ pb = 6 * n * sb
    <3>1. 90 * so \in Int /\ 3 * n * sm \in Int /\ 6 * n * sb \in Int
      OBVIOUS
    <3> QED BY <3>1
  <2>3. PICK p : p = parts(x)
    OBVIOUS
  <2>4. p.onboarding = po /\ p.memory = pm /\ p.books = pb
    BY <2>1, <2>2, <2>3
  <2>5. PartsTogether(p) \in Int
    BY <2>4 DEF PartsTogether
  <2> QED BY <2>3, <2>5
<1>13. PICK s : s = [i \in 1 .. k |-> <<names[i], PartsTogether(parts(names[i]))>>]
  OBVIOUS
<1>14. Combined(o, m, b) = s
  <2>1. Combined(o, m, b) = [i \in DOMAIN names |-> <<names[i], PartsTogether(parts(names[i]))>>]
    BY <1>1, <1>2, <1>3, <1>6, <1>8, <1>11, Zenon DEF Combined
  <2> HIDE DEF parts
  <2> QED BY <1>10, <1>13, <2>1
<1>15. Scored(s)
  <2> HIDE DEF parts
  <2>2. PICK v : v = [i \in 1 .. k |-> PartsTogether(parts(names[i]))]
    OBVIOUS
  <2>3. \A i \in 1 .. k : s[i] = <<names[i], v[i]>> /\ v[i] \in Int
    BY <1>12, <1>13, <2>2
  <2>4. s = [i \in 1 .. k |-> s[i]]
    BY <1>13
  <2>5. Points(s) /\ Len(s) = k
    <3>1. Points(s)
      BY <2>3, <2>4, PointsOf
    <3>2. DOMAIN s = 1 .. k
      BY <1>13
    <3>3. Len(s) = k
      BY <3>1, <3>2 DEF Points
    <3> QED BY <3>1, <3>3
  <2>6. \A i \in 1 .. k : s[i][1] = names[i]
    BY <2>3
  <2>7. ASSUME NEW i \in 1 .. k, NEW j \in 1 .. k, s[i][1] = s[j][1] PROVE i = j
    BY <1>9, <1>10, <2>6, <2>7
  <2> QED BY <2>5, <2>7 DEF Scored
<1> QED BY <1>14, <1>15
-----------------------------------------------------------------------------
(* The seats.                                                              *)

LEMMA OnlyKeepsOrder ==
  ASSUME NEW T, NEW s \in Seq(T), NEW S
  PROVE  \E m : /\ m \in [1 .. Len(Only(s, S)) -> 1 .. Len(s)]
                /\ \A k \in 1 .. Len(Only(s, S)) : Only(s, S)[k] = s[m[k]]
                /\ \A i, j \in 1 .. Len(Only(s, S)) : m[i] = m[j] => i = j
<1>1. PICK r \in Seq(T \cap S) : r = Only(s, S)
  BY OnlyType
<1>2. PICK m : Places(s, S, Len(s), r, m)
  BY <1>1, OnlyPlaces
<1>3. PICK l \in Nat, n \in Nat : l = Len(r) /\ n = Len(s)
  OBVIOUS
<1>4. m \in [1 .. l -> 1 .. n] /\ \A k \in 1 .. l : r[k] = s[m[k]]
  BY <1>2, <1>3 DEF Places
<1>5. ASSUME NEW i \in 1 .. l, NEW j \in 1 .. l, m[i] = m[j] PROVE i = j
  <2>1. m[i] \in 1 .. n /\ m[j] \in 1 .. n
    BY <1>4
  <2>2. (i < j => m[i] < m[j]) /\ (j < i => m[j] < m[i])
    BY <1>2, <1>3 DEF Places
  <2> QED BY <1>5, <2>1, <2>2
<1> QED BY <1>1, <1>3, <1>4, <1>5

\* Two of them have two names.
NamesDiffer(s) == \A i, j \in 1 .. Len(s) : s[i][1] = s[j][1] => i = j

LEMMA OnlyDiffer ==
  ASSUME NEW T, NEW s \in Seq(T), NamesDiffer(s), NEW S
  PROVE  NamesDiffer(Only(s, S))
<1>1. PICK r \in Seq(T \cap S) : r = Only(s, S)
  BY OnlyType
<1>2. PICK m : /\ m \in [1 .. Len(r) -> 1 .. Len(s)]
               /\ \A k \in 1 .. Len(r) : r[k] = s[m[k]]
               /\ \A i, j \in 1 .. Len(r) : m[i] = m[j] => i = j
  BY <1>1, OnlyKeepsOrder
<1>3. ASSUME NEW i \in 1 .. Len(r), NEW j \in 1 .. Len(r), r[i][1] = r[j][1] PROVE i = j
  <2>1. m[i] \in 1 .. Len(s) /\ m[j] \in 1 .. Len(s) /\ s[m[i]][1] = s[m[j]][1]
    BY <1>2, <1>3
  <2>2. m[i] = m[j]
    BY <2>1 DEF NamesDiffer
  <2> QED BY <1>2, <2>2
<1> QED BY <1>1, <1>3 DEF NamesDiffer

LEMMA SortedDiffer ==
  ASSUME NEW T, NEW s \in Seq(T), NamesDiffer(s), NEW w \in [1 .. Len(s) -> Int]
  PROVE  NamesDiffer(SortedBy(s, w))
<1>1. PICK r \in Seq(T) : r = SortedBy(s, w)
  BY StableIs
<1>2. PICK n \in Nat : n = Len(s) /\ n = Len(r)
  BY <1>1, StableIs
<1>3. PICK p : Rearranged(s, w, r, p)
  BY <1>1, StableIs
<1>4. /\ p \in Seq(1 .. n) /\ Len(p) = n
      /\ \A i, j \in 1 .. n : i < j => p[i] # p[j]
  BY <1>2, <1>3 DEF Rearranged, Sorted
<1>5. \A k \in 1 .. n : r[k] = s[p[k]] /\ p[k] \in 1 .. n
  <2>1. r = [k \in 1 .. n |-> s[p[k]]]
    BY <1>2, <1>3 DEF Rearranged
  <2>2. \A k \in 1 .. n : p[k] \in 1 .. n
    BY <1>4
  <2> QED BY <2>1, <2>2
<1>6. ASSUME NEW i \in 1 .. n, NEW j \in 1 .. n, r[i][1] = r[j][1] PROVE i = j
  <2>0. PICK a \in 1 .. n, b \in 1 .. n : a = p[i] /\ b = p[j]
    BY <1>5
  <2>1. p[i] = p[j]
    <3>1. s[a][1] = s[b][1]
      BY <1>5, <1>6, <2>0
    <3>2. a \in 1 .. Len(s) /\ b \in 1 .. Len(s)
      BY <1>2
    <3> QED BY <2>0, <3>1, <3>2 DEF NamesDiffer
  <2> QED BY <1>4, <2>1
<1> QED BY <1>1, <1>2, <1>6 DEF NamesDiffer

LEMMA TakeDiffer ==
  ASSUME NEW T, NEW s \in Seq(T), NamesDiffer(s), NEW n \in Nat
  PROVE  NamesDiffer(Take(s, n))
<1>1. PICK l \in Nat : l = IF n <= Len(s) THEN n ELSE Len(s)
  OBVIOUS
<1>2. PICK r : r = Take(s, n)
  OBVIOUS
<1>3. r = SubSeq(s, 1, l) /\ r \in Seq(T) /\ Len(r) = l
  <2>1. /\ Take(s, n) = SubSeq(s, 1, IF n <= Len(s) THEN n ELSE Len(s)) /\ Take(s, n) \in Seq(T)
        /\ Len(Take(s, n)) = IF n <= Len(s) THEN n ELSE Len(s)
    BY TakeIs
  <2> QED BY <1>1, <1>2, <2>1
<1>4. l <= Len(s)
  BY <1>1
<1>5. \A i \in 1 .. l : r[i] = s[i]
  BY <1>3, <1>4
<1>6. \A i \in 1 .. l : i \in 1 .. Len(s)
  BY <1>4
<1>7. ASSUME NEW i \in 1 .. l, NEW j \in 1 .. l, r[i][1] = r[j][1] PROVE i = j
  <2>1. s[i][1] = s[j][1] /\ i \in 1 .. Len(s) /\ j \in 1 .. Len(s)
    BY <1>5, <1>6, <1>7
  <2> QED BY <2>1 DEF NamesDiffer
<1> QED BY <1>2, <1>3, <1>7 DEF NamesDiffer

-----------------------------------------------------------------------------
(* The seats are shared out (interest_list.py:67-132).                     *)

\* What is added up of numbers that are not positive, one of them negative, is negative.
LEMMA AddedIsNegative ==
  ASSUME NEW S, IsFiniteSet(S), NEW w \in [S -> Int], \A x \in S : w[x] <= 0,
         NEW y \in S, w[y] < 0, NEW c, Added(S, w, c)
  PROVE  c[S] \in Int /\ c[S] < 0
<1> DEFINE Good(s) == c[s] \in Int /\ c[s] <= 0 /\ (y \in s => c[s] < 0)
           M == {n \in Nat : \A s \in SUBSET S : Cardinality(s) <= n => Good(s)}
<1>3. \A s \in SUBSET S : /\ c[s] = Plus(s, w, c) /\ IsFiniteSet(s) /\ Cardinality(s) \in Nat
                          /\ Cardinality(s) <= Cardinality(S)
  <2>1. \A s \in SUBSET S : c[s] = Plus(s, w, c)
    BY DEF Added
  <2>2. \A s \in SUBSET S : IsFiniteSet(s) /\ Cardinality(s) <= Cardinality(S)
    BY FS_Subset
  <2> QED BY <2>1, <2>2, FS_CardinalityType
<1>4. 0 \in M
  <2>1. ASSUME NEW s \in SUBSET S, Cardinality(s) <= 0 PROVE Good(s)
    <3>1. s = {}
      <4>1. Cardinality(s) = 0
        BY <1>3, <2>1
      <4> QED BY <1>3, <4>1, FS_EmptySet
    <3>2. c[s] = Plus(s, w, c)
      BY <1>3
    <3> QED BY <3>1, <3>2 DEF Plus
  <2> QED BY <2>1
<1>5. ASSUME NEW n \in Nat, n \in M
      PROVE  n + 1 \in M
  <2>1. ASSUME NEW s \in SUBSET S, Cardinality(s) <= n + 1 PROVE Good(s)
    <3>0. c[s] = Plus(s, w, c)
      BY <1>3
    <3>1. CASE s = {}
      BY <3>0, <3>1 DEF Plus
    <3>2. CASE s # {}
      <4>0. PICK o, r : o = OneOf(s) /\ r = s \ {o}
        OBVIOUS
      <4>1. r = s \ {OneOf(s)}
        BY <4>0
      <4>2. Cardinality(r) <= n /\ r \in SUBSET S /\ o \in s /\ o \in S
        <5>1. IsFiniteSet(s) /\ Cardinality(s) \in Nat
          BY <1>3
        <5>2. OneOf(s) \in s /\ Cardinality(r) = Cardinality(s) - 1
          BY <3>2, <4>1, <5>1, OneLess
        <5>3. Cardinality(r) <= n
          BY <2>1, <5>1, <5>2
        <5>4. r \in SUBSET S /\ OneOf(s) \in S
          BY <4>1, <5>2
        <5> QED BY <4>0, <5>2, <5>3, <5>4
      <4>3. c[r] \in Int /\ c[r] <= 0 /\ (y \in r => c[r] < 0)
        BY <1>5, <4>2
      <4>4. c[s] = w[o] + c[r]
        BY <3>0, <3>2, <4>0, <4>1 DEF Plus
      <4>5. w[o] \in Int /\ w[o] <= 0
        BY <4>2
      <4>6. PICK a \in Int, b \in Int : a = w[o] /\ b = c[r]
        BY <4>3, <4>5
      <4>7. a + b \in Int /\ a + b <= 0
        BY <4>3, <4>5, <4>6
      <4>8. ASSUME y \in s PROVE a + b < 0
        <5>1. CASE o = y
          <6>1. a < 0 /\ b <= 0
            BY <4>3, <4>6, <5>1
          <6> QED BY <6>1
        <5>2. CASE o # y
          <6>1. y \in r
            BY <4>0, <4>8, <5>2
          <6>2. a <= 0 /\ b < 0
            BY <4>3, <4>5, <4>6, <6>1
          <6> QED BY <6>2
        <5> QED BY <5>1, <5>2
      <4>9. c[s] = a + b
        BY <4>4, <4>6
      <4> QED BY <4>7, <4>8, <4>9
    <3> QED BY <3>1, <3>2
  <2>2. n + 1 \in Nat
    OBVIOUS
  <2> HIDE DEF Good
  <2>3. \A s \in SUBSET S : Cardinality(s) <= n + 1 => Good(s)
    BY <2>1
  <2>4. PICK m \in Nat : m = n + 1
    BY <2>2
  <2>5. m \in M
    BY <2>3, <2>4
  <2> QED BY <2>4, <2>5
<1>6. Nat \subseteq M
  <2> HIDE DEF M
  <2> QED BY <1>4, <1>5, EveryNumber
<1>7. PICK n \in Nat : n = Cardinality(S)
  BY FS_CardinalityType
<1>8. Good(S)
  <2>1. S \in SUBSET S /\ Cardinality(S) <= n
    BY <1>7
  <2> HIDE DEF Good
  <2> QED BY <1>6, <2>1
<1> QED BY <1>8

\* What holds of no member and of one member more holds of all of a finite set.
LEMMA BySize ==
  ASSUME NEW S, IsFiniteSet(S), NEW G, {} \in G,
         \A s \in SUBSET S : s # {} /\ s \ {OneOf(s)} \in G => s \in G
  PROVE  S \in G
<1> DEFINE M == {n \in Nat : \A s \in SUBSET S : Cardinality(s) <= n => s \in G}
<1>1. \A s \in SUBSET S : /\ IsFiniteSet(s) /\ Cardinality(s) \in Nat
                          /\ Cardinality(s) <= Cardinality(S)
  <2>1. \A s \in SUBSET S : IsFiniteSet(s) /\ Cardinality(s) <= Cardinality(S)
    BY FS_Subset
  <2> QED BY <2>1, FS_CardinalityType
<1>2. 0 \in M
  <2>1. ASSUME NEW s \in SUBSET S, Cardinality(s) <= 0 PROVE s \in G
    <3>1. Cardinality(s) = 0
      BY <1>1, <2>1
    <3>2. s = {}
      BY <1>1, <3>1, FS_EmptySet
    <3> QED BY <3>2
  <2> QED BY <2>1
<1>3. ASSUME NEW n \in Nat, n \in M PROVE n + 1 \in M
  <2>1. ASSUME NEW s \in SUBSET S, Cardinality(s) <= n + 1, s # {} PROVE s \in G
    <3>1. PICK r : r = s \ {OneOf(s)}
      OBVIOUS
    <3>2. IsFiniteSet(s) /\ Cardinality(s) \in Nat
      BY <1>1
    <3>3. OneOf(s) \in s /\ Cardinality(r) = Cardinality(s) - 1
      BY <2>1, <3>1, <3>2, OneLess
    <3>4. Cardinality(r) <= n
      BY <2>1, <3>2, <3>3
    <3>5. r \in SUBSET S
      BY <3>1
    <3>6. r \in G
      BY <1>3, <3>4, <3>5
    <3> QED BY <2>1, <3>1, <3>6
  <2>2. \A s \in SUBSET S : Cardinality(s) <= n + 1 => s \in G
    BY <2>1
  <2>3. PICK m \in Nat : m = n + 1
    OBVIOUS
  <2>4. m \in M
    BY <2>2, <2>3
  <2> QED BY <2>3, <2>4
<1>4. Nat \subseteq M
  <2> HIDE DEF M
  <2> QED BY <1>2, <1>3, EveryNumber
<1>5. PICK n \in Nat : n = Cardinality(S)
  BY FS_CardinalityType
<1>6. S \in SUBSET S /\ Cardinality(S) <= n
  BY <1>5
<1> QED BY <1>4, <1>6

\* A step of a sum.
LEMMA AddedStep ==
  ASSUME NEW S, NEW w, NEW c, Added(S, w, c)
  PROVE  /\ c[{}] = 0
         /\ \A s \in SUBSET S : s # {} => c[s] = w[OneOf(s)] + c[s \ {OneOf(s)}]
<1>1. \A s \in SUBSET S : c[s] = Plus(s, w, c)
  BY DEF Added
<1> QED BY <1>1 DEF Plus

LEMMA AddedAt ==
  ASSUME NEW S, NEW w, NEW c, Added(S, w, c), NEW s \in SUBSET S, s # {},
         NEW o, o = OneOf(s), NEW r, r = s \ {o}
  PROVE  c[s] = w[o] + c[r]
<1>1. \A q \in SUBSET S : c[q] = Plus(q, w, c)
  BY DEF Added
<1>2. c[s] = Plus(s, w, c)
  BY <1>1
<1> QED BY <1>2 DEF Plus

LEMMA AddedAreInts ==
  ASSUME NEW S, IsFiniteSet(S), NEW w \in [S -> Int], NEW c, Added(S, w, c), NEW s \in SUBSET S
  PROVE  c[s] \in Int
<1>1. PICK G : G = {t \in SUBSET s : c[t] \in Int}
  OBVIOUS
<1>2. IsFiniteSet(s)
  BY FS_Subset
<1>3. {} \in G
  BY <1>1, AddedStep
<1>4. ASSUME NEW t \in SUBSET s, t # {}, t \ {OneOf(t)} \in G PROVE t \in G
  <2>1. t \in SUBSET S /\ OneOf(t) \in S
    BY <1>4 DEF OneOf
  <2>2. c[t] = w[OneOf(t)] + c[t \ {OneOf(t)}]
    <3>1. \A q \in SUBSET S : c[q] = Plus(q, w, c)
      BY DEF Added
    <3>2. c[t] = Plus(t, w, c)
      BY <2>1, <3>1
    <3> QED BY <1>4, <3>2 DEF Plus
  <2>3. w[OneOf(t)] \in Int /\ c[t \ {OneOf(t)}] \in Int
    BY <1>1, <1>4, <2>1
  <2> QED BY <1>1, <2>2, <2>3
<1>5. s \in G
  BY <1>2, <1>3, <1>4, BySize
<1> QED BY <1>1, <1>5

\* A number of times the same may be taken out.
LEMMA TakenOut ==
  ASSUME NEW k \in Int, NEW a \in Int, NEW b \in Int
  PROVE  k * (a + b) = k * a + k * b
OBVIOUS

\* Sums of sums.
Together(u, k, w, v) ==
  /\ SumOf(u) \in Int /\ SumOf(w) \in Int /\ SumOf(v) \in Int
  /\ SumOf(u) = k * SumOf(w) + SumOf(v)

Mixed(S, u, k, w, v) == \A x \in S : u[x] = k * w[x] + v[x]

LEMMA SumTogether ==
  ASSUME NEW S, IsFiniteSet(S), NEW w \in [S -> Int], NEW v \in [S -> Int], NEW u \in [S -> Int],
         NEW k \in Int, Mixed(S, u, k, w, v)
  PROVE  Together(u, k, w, v)
<1>1. PICK c : Added(S, w, c) /\ SumOf(w) = c[S]
  BY SumIsAdded
<1>2. PICK d : Added(S, v, d) /\ SumOf(v) = d[S]
  BY SumIsAdded
<1>3. PICK e : Added(S, u, e) /\ SumOf(u) = e[S]
  BY SumIsAdded
<1>4. \A s \in SUBSET S : c[s] \in Int /\ d[s] \in Int /\ e[s] \in Int
  BY <1>1, <1>2, <1>3, AddedAreInts
<1>5. PICK G : G = {s \in SUBSET S : e[s] = k * c[s] + d[s]}
  OBVIOUS
<1>6. {} \in G
  <2>1. c[{}] = 0 /\ d[{}] = 0 /\ e[{}] = 0
    BY <1>1, <1>2, <1>3, AddedStep
  <2> QED BY <1>5, <2>1
<1>7. ASSUME NEW s \in SUBSET S, s # {}, s \ {OneOf(s)} \in G PROVE s \in G
  <2>1. PICK o, r : o = OneOf(s) /\ r = s \ {OneOf(s)}
    OBVIOUS
  <2>2. o \in S /\ r \in SUBSET S
    BY <1>7, <2>1 DEF OneOf
  <2>3. c[s] = w[o] + c[r] /\ d[s] = v[o] + d[r] /\ e[s] = u[o] + e[r]
    <3>1. c[s] = w[o] + c[r]
      BY <1>1, <1>7, <2>1, AddedAt
    <3>2. d[s] = v[o] + d[r]
      BY <1>2, <1>7, <2>1, AddedAt
    <3>3. e[s] = u[o] + e[r]
      BY <1>3, <1>7, <2>1, AddedAt
    <3> QED BY <3>1, <3>2, <3>3
  <2>4. PICK wo \in Int, cr \in Int, vo \in Int, dr \in Int, uo \in Int, er \in Int :
          wo = w[o] /\ cr = c[r] /\ vo = v[o] /\ dr = d[r] /\ uo = u[o] /\ er = e[r]
    BY <1>4, <2>2
  <2>5. uo = k * wo + vo /\ er = k * cr + dr
    BY <1>5, <1>7, <2>1, <2>2, <2>4 DEF Mixed
  <2>6. k * (wo + cr) = k * wo + k * cr
    BY TakenOut
  <2>7. PICK a \in Int, b \in Int : a = k * wo /\ b = k * cr
    OBVIOUS
  <2>8. e[s] = k * c[s] + d[s]
    <3>1. e[s] = (a + b) + d[s]
      <4>1. uo = a + vo /\ er = b + dr
        BY <2>5, <2>7
      <4> QED BY <2>3, <2>4, <4>1
    <3>2. c[s] = wo + cr
      BY <2>3, <2>4
    <3>3. k * c[s] = a + b
      BY <2>6, <2>7, <3>2, Zenon
    <3> QED BY <3>1, <3>3
  <2> QED BY <1>5, <2>8
<1>8. S \in G
  BY <1>6, <1>7, BySize
<1>9. S \in SUBSET S
  OBVIOUS
<1> QED BY <1>1, <1>2, <1>3, <1>4, <1>5, <1>8, <1>9 DEF Together

\* One for each of some.
Ones(S, A) == [x \in S |-> IF x \in A THEN 1 ELSE 0]

LEMMA SumOfOnes ==
  ASSUME NEW S, IsFiniteSet(S), NEW A, A \subseteq S
  PROVE  SumOf(Ones(S, A)) = Cardinality(A) /\ Ones(S, A) \in [S -> Int]
<1>1. PICK w : w = Ones(S, A)
  OBVIOUS
<1>2. w \in [S -> Int] /\ DOMAIN w = S
  BY <1>1 DEF Ones
<1>3. PICK c : Added(S, w, c) /\ SumOf(w) = c[S]
  BY <1>2, SumIsAdded
<1>4. PICK G : G = {s \in SUBSET S : c[s] = Cardinality(s \cap A)}
  OBVIOUS
<1>5. {} \in G
  <2>1. {} \cap A = {}
    OBVIOUS
  <2>2. Cardinality({}) = 0
    BY FS_EmptySet
  <2>3. c[{}] = 0
    BY <1>3, AddedStep
  <2> QED BY <1>4, <2>1, <2>2, <2>3
<1>6. ASSUME NEW s \in SUBSET S, s # {}, s \ {OneOf(s)} \in G PROVE s \in G
  <2>1. PICK o, r : o = OneOf(s) /\ r = s \ {OneOf(s)}
    OBVIOUS
  <2>2. o \in s /\ o \in S /\ r \in SUBSET S /\ r = s \ {o}
    BY <1>6, <2>1 DEF OneOf
  <2>3. c[s] = w[o] + c[r] /\ c[r] = Cardinality(r \cap A)
    BY <1>3, <1>4, <1>6, <2>1, AddedStep
  <2>4. PICK a, b : a = s \cap A /\ b = r \cap A
    OBVIOUS
  <2>5. IsFiniteSet(b) /\ Cardinality(b) \in Nat
    BY <2>2, <2>4, FS_Subset, FS_CardinalityType
  <2>6. CASE o \in A
    <3>1. a = b \cup {o} /\ o \notin b
      BY <2>2, <2>4, <2>6
    <3>2. Cardinality(a) = Cardinality(b) + 1
      BY <2>5, <3>1, FS_AddElement
    <3>3. w[o] = 1
      BY <1>1, <2>2, <2>6 DEF Ones
    <3> QED BY <1>4, <2>3, <2>4, <2>5, <3>2, <3>3
  <2>7. CASE o \notin A
    <3>1. a = b
      BY <2>2, <2>4, <2>7
    <3>2. w[o] = 0
      BY <1>1, <2>2, <2>7 DEF Ones
    <3> QED BY <1>4, <2>3, <2>4, <2>5, <3>1, <3>2
  <2> QED BY <2>6, <2>7
<1>7. S \in G
  BY <1>5, <1>6, BySize
<1>8. S \cap A = A
  OBVIOUS
<1> QED BY <1>1, <1>2, <1>3, <1>4, <1>7, <1>8

\* What is not below zero adds up to what is not, and one below zero takes it below.
LEMMA SumIsNat ==
  ASSUME NEW S, IsFiniteSet(S), NEW w \in [S -> Nat]
  PROVE  SumOf(w) \in Nat
<1>1. PICK c : Added(S, w, c) /\ SumOf(w) = c[S]
  BY SumIsAdded
<1>2. PICK G : G = {s \in SUBSET S : c[s] \in Nat}
  OBVIOUS
<1>3. {} \in G
  BY <1>1, <1>2, AddedStep
<1>4. ASSUME NEW s \in SUBSET S, s # {}, s \ {OneOf(s)} \in G PROVE s \in G
  <2>1. OneOf(s) \in S
    BY <1>4 DEF OneOf
  <2>2. c[s] = w[OneOf(s)] + c[s \ {OneOf(s)}]
    BY <1>1, <1>4, AddedStep
  <2>3. w[OneOf(s)] \in Nat /\ c[s \ {OneOf(s)}] \in Nat
    BY <1>2, <1>4, <2>1
  <2> QED BY <1>2, <2>2, <2>3
<1>5. S \in G
  BY <1>3, <1>4, BySize
<1> QED BY <1>1, <1>2, <1>5

LEMMA SumIsNegative ==
  ASSUME NEW S, IsFiniteSet(S), NEW w \in [S -> Int], \A x \in S : w[x] <= 0, NEW y \in S, w[y] < 0
  PROVE  SumOf(w) < 0
<1>1. PICK c : Added(S, w, c) /\ SumOf(w) = c[S]
  BY SumIsAdded
<1> QED BY <1>1, AddedIsNegative

\* Less of one and no more of the others is less of all.
LEMMA SumIsLess ==
  ASSUME NEW S, IsFiniteSet(S), NEW w \in [S -> Int], NEW v \in [S -> Int],
         \A x \in S : w[x] <= v[x], NEW y \in S, w[y] < v[y]
  PROVE  SumOf(w) < SumOf(v)
<1>1. PICK u : u = [x \in S |-> w[x] - v[x]]
  OBVIOUS
<1>2. u \in [S -> Int] /\ (\A x \in S : u[x] <= 0) /\ u[y] < 0
  <2>1. ASSUME NEW x \in S PROVE u[x] \in Int /\ u[x] <= 0
    <3>1. PICK a \in Int, b \in Int : a = w[x] /\ b = v[x] /\ a <= b
      OBVIOUS
    <3>2. a - b \in Int /\ a - b <= 0
      BY <3>1
    <3> QED BY <1>1, <3>1, <3>2
  <2>2. u[y] < 0
    <3>1. PICK a \in Int, b \in Int : a = w[y] /\ b = v[y] /\ a < b
      OBVIOUS
    <3>2. a - b < 0
      BY <3>1
    <3> QED BY <1>1, <3>1, <3>2
  <2>3. u \in [S -> Int]
    BY <1>1, <2>1
  <2> QED BY <2>1, <2>2, <2>3
<1>3. SumOf(u) < 0
  BY <1>2, SumIsNegative
<1>4. PICK k \in Int : k = -1
  OBVIOUS
<1>5. \A x \in S : u[x] = k * v[x] + w[x]
  <2> SUFFICES ASSUME NEW x \in S PROVE u[x] = k * v[x] + w[x]
    OBVIOUS
  <2>1. PICK a \in Int, b \in Int : a = w[x] /\ b = v[x]
    OBVIOUS
  <2>2. a - b = k * b + a
    BY <1>4
  <2> QED BY <1>1, <2>1, <2>2
<1>6. Together(u, k, v, w)
  BY <1>2, <1>5, SumTogether DEF Mixed
<1>7. PICK su \in Int, sv \in Int, sw \in Int : su = SumOf(u) /\ sv = SumOf(v) /\ sw = SumOf(w)
  BY <1>6 DEF Together
<1>8. su = k * sv + sw /\ su < 0
  BY <1>3, <1>6, <1>7 DEF Together
<1> QED BY <1>4, <1>7, <1>8

\* What is moved elsewhere, and zeros left behind, add up to the same.
LEMMA SumMoved ==
  ASSUME NEW S, IsFiniteSet(S), NEW T, IsFiniteSet(T), NEW w \in [T -> Int], NEW m \in [S -> T],
         \A x, y \in S : m[x] = m[y] => x = y,
         \A y \in T : w[y] # 0 => \E x \in S : m[x] = y,
         NEW v \in [S -> Int], \A x \in S : v[x] = w[m[x]]
  PROVE  SumOf(v) = SumOf(w)
<1>1. DOMAIN v = S
  OBVIOUS
<1>2. PICK c : Added(S, v, c) /\ SumOf(v) = c[S]
  BY <1>1, SumIsAdded
<1> DEFINE Upon(s) == [y \in T |-> IF \E x \in s : m[x] = y THEN w[y] ELSE 0]
<1>3. PICK G : G = {s \in SUBSET S : c[s] = SumOf(Upon(s))}
  OBVIOUS
<1>4. {} \in G
  <2>1. Upon({}) = Ones(T, {})
    BY DEF Ones
  <2>2. SumOf(Ones(T, {})) = Cardinality({})
    BY SumOfOnes
  <2>3. Cardinality({}) = 0
    BY FS_EmptySet
  <2>4. c[{}] = 0
    BY <1>2, AddedStep
  <2> HIDE DEF Upon
  <2> QED BY <1>3, <2>1, <2>2, <2>3, <2>4
<1>5. \A s \in SUBSET S : Upon(s) \in [T -> Int]
  OBVIOUS
<1>6. ASSUME NEW s \in SUBSET S, s # {}, s \ {OneOf(s)} \in G PROVE s \in G
  <2>1. PICK o, r : o = OneOf(s) /\ r = s \ {OneOf(s)}
    OBVIOUS
  <2>2. o \in s /\ o \in S /\ r \in SUBSET S /\ r = s \ {o}
    BY <1>6, <2>1 DEF OneOf
  <2>3. c[s] = v[o] + c[r] /\ c[r] = SumOf(Upon(r))
    BY <1>2, <1>3, <1>6, <2>1, AddedStep
  <2>4. PICK z, ones : z = m[o] /\ ones = Ones(T, {z})
    OBVIOUS
  <2>5. z \in T /\ v[o] = w[z] /\ w[z] \in Int
    BY <2>2, <2>4
  <2>6. SumOf(ones) = 1 /\ ones \in [T -> Int]
    <3>1. {z} \subseteq T
      BY <2>5
    <3>2. Cardinality({z}) = 1
      BY FS_Singleton
    <3> QED BY <2>4, <3>1, <3>2, SumOfOnes
  <2>7. PICK a, b : a = Upon(s) /\ b = Upon(r)
    OBVIOUS
  <2>k. PICK k \in Int : k = w[z]
    BY <2>5
  <2>8. \A y \in T : a[y] = k * ones[y] + b[y]
    <3> SUFFICES ASSUME NEW y \in T PROVE a[y] = k * ones[y] + b[y]
      OBVIOUS
    <3>1. CASE y = z
      <4>1. a[y] = w[z]
        BY <2>2, <2>4, <2>7, <3>1
      <4>2. ~\E x \in r : m[x] = z
        BY <2>2, <2>4
      <4>3. b[y] = 0
        BY <2>7, <3>1, <4>2
      <4>4. ones[y] = 1
        BY <2>4, <3>1 DEF Ones
      <4> QED BY <2>k, <4>1, <4>3, <4>4
    <3>2. CASE y # z
      <4>1. (\E x \in s : m[x] = y) <=> (\E x \in r : m[x] = y)
        BY <2>2, <2>4, <3>2
      <4>2. a[y] = b[y]
        BY <2>7, <4>1
      <4>3. ones[y] = 0
        BY <2>4, <3>2 DEF Ones
      <4>4. b[y] \in Int
        BY <1>5, <2>2, <2>7
      <4> QED BY <2>k, <4>2, <4>3, <4>4
    <3> QED BY <3>1, <3>2
  <2>9. a \in [T -> Int] /\ b \in [T -> Int]
    BY <1>5, <2>2, <2>7
  <2>10. Together(a, k, ones, b)
    <3>1. Mixed(T, a, k, ones, b)
      BY <2>8 DEF Mixed
    <3> QED BY <2>6, <2>9, <3>1, SumTogether
  <2>11. SumOf(a) = k + SumOf(b)
    BY <2>6, <2>10 DEF Together
  <2> HIDE DEF Upon
  <2>12. c[s] = SumOf(Upon(s))
    BY <2>3, <2>5, <2>7, <2>k, <2>11
  <2> QED BY <1>3, <2>12
<1>7. S \in G
  <2> HIDE DEF Upon
  <2> QED BY <1>4, <1>6, BySize
<1>8. Upon(S) = w
  <2>1. \A y \in T : Upon(S)[y] = w[y]
    OBVIOUS
  <2> QED BY <2>1
<1> HIDE DEF Upon
<1> QED BY <1>2, <1>3, <1>7, <1>8

\* As many as there are numbers for them.
Numbered(n, r, T) == T = {r[i] : i \in 1 .. n} /\ \A i, j \in 1 .. n : r[i] = r[j] => i = j

LEMMA CountedOff ==
  ASSUME NEW n \in Nat, NEW r, NEW T, Numbered(n, r, T)
  PROVE  IsFiniteSet(T) /\ Cardinality(T) = n
<1>1. PICK D : D = 1 .. n
  OBVIOUS
<1>2. IsFiniteSet(D) /\ Cardinality(D) = n
  <2>1. 1 \in Int /\ n \in Int
    OBVIOUS
  <2> QED BY <1>1, <2>1, FS_Interval
<1>3. PICK f : f = [i \in D |-> r[i]]
  OBVIOUS
<1>4. f \in Bijection(D, T)
  <2>1. T = {r[i] : i \in D} /\ \A i, j \in D : r[i] = r[j] => i = j
    BY <1>1 DEF Numbered
  <2>2. f \in [D -> T]
    BY <1>3, <2>1
  <2>3. \A i, j \in D : f[i] = f[j] => i = j
    BY <1>3, <2>1
  <2>4. \A t \in T : \E i \in D : f[i] = t
    BY <1>3, <2>1
  <2> QED BY <2>2, <2>3, <2>4 DEF Bijection, Injection, Surjection, IsInjective
<1>5. ExistsBijection(D, T)
  BY <1>4 DEF ExistsBijection
<1> QED BY <1>2, <1>5, FS_Bijection

\* Those with a larger remainder, or the same and an earlier place.
Ahead(l, rest, i) == {j \in 1 .. l : rest[j] > rest[i] \/ (rest[j] = rest[i] /\ j < i)}

Among(l, rest, n, A) == A = {i \in 1 .. l : Cardinality(Ahead(l, rest, i)) < n}

\* As many as there are seats left are among the first.
LEMMA FirstAreCounted ==
  ASSUME NEW l \in Nat, NEW rest \in [1 .. l -> Int], NEW n \in Nat, n <= l,
         NEW A, Among(l, rest, n, A)
  PROVE  Cardinality(A) = n
<1>0. A = {i \in 1 .. l : Cardinality(Ahead(l, rest, i)) < n}
  BY DEF Among
<1>1. PICK S : S = 1 .. l
  OBVIOUS
<1>2. PICK w : w = [x \in S |-> -(rest[x])]
  OBVIOUS
<1>3. w \in [S -> Int]
  <2>1. \A x \in S : -(rest[x]) \in Int
    BY <1>1
  <2> QED BY <1>2, <2>1
<1>4. PICK r : Sorted(S, w, r) /\ Len(r) = l
  BY <1>1, <1>3, SortedByWeight
<1>5. \A k \in 1 .. l : r[k] \in S
  BY <1>4 DEF Sorted
<1>6. \A x \in S : \E k \in 1 .. l : r[k] = x
  BY <1>4 DEF Sorted
<1>7. ASSUME NEW i \in 1 .. l, NEW j \in 1 .. l, i < j
      PROVE  r[i] \in Ahead(l, rest, r[j]) /\ r[j] \notin Ahead(l, rest, r[i]) /\ r[i] # r[j]
  <2>1. PICK a \in 1 .. l, b \in 1 .. l : a = r[i] /\ b = r[j]
    BY <1>1, <1>5
  <2>2. w[a] <= w[b] /\ a # b /\ (w[a] = w[b] => a < b)
    BY <1>4, <1>7, <2>1 DEF Sorted
  <2>3. PICK ra \in Int, rb \in Int : ra = rest[a] /\ rb = rest[b]
    OBVIOUS
  <2>4. w[a] = -ra /\ w[b] = -rb
    BY <1>1, <1>2, <2>3
  <2>5. ra >= rb /\ (ra = rb => a < b)
    BY <2>2, <2>4
  <2>6. a \in Ahead(l, rest, b) /\ b \notin Ahead(l, rest, a)
    BY <2>3, <2>5 DEF Ahead
  <2> QED BY <2>1, <2>2, <2>6
<1>8. ASSUME NEW k \in 1 .. l PROVE Cardinality(Ahead(l, rest, r[k])) = k - 1
  <2>1. PICK m \in Nat : m = k - 1
    OBVIOUS
  <2>2. PICK T : T = {r[i] : i \in 1 .. m}
    OBVIOUS
  <2>3. \A i \in 1 .. m : i \in 1 .. l /\ i < k
    BY <2>1
  <2>4. r[k] \notin Ahead(l, rest, r[k])
    <3>1. PICK a \in 1 .. l : a = r[k]
      BY <1>1, <1>5
    <3>2. rest[a] \in Int
      OBVIOUS
    <3> QED BY <3>1, <3>2 DEF Ahead
  <2>5. ASSUME NEW x \in Ahead(l, rest, r[k]) PROVE x \in T
    <3>1. x \in S
      BY <1>1, <2>5 DEF Ahead
    <3>2. PICK i \in 1 .. l : r[i] = x
      BY <1>6, <3>1
    <3>3. i # k
      BY <2>4, <2>5, <3>2
    <3>4. ~(k < i)
      BY <1>7, <2>5, <3>2
    <3>5. i \in 1 .. m
      BY <2>1, <3>3, <3>4
    <3> QED BY <2>2, <3>2, <3>5
  <2>6. \A x \in T : x \in Ahead(l, rest, r[k])
    BY <1>7, <2>2, <2>3
  <2>7. T = Ahead(l, rest, r[k])
    BY <2>5, <2>6
  <2>8. ASSUME NEW i \in 1 .. m, NEW j \in 1 .. m, r[i] = r[j] PROVE i = j
    <3>1. ~(i < j) /\ ~(j < i)
      BY <1>7, <2>3, <2>8
    <3> QED BY <3>1
  <2>9. Cardinality(T) = m
    <3>1. Numbered(m, r, T)
      BY <2>2, <2>8 DEF Numbered
    <3> QED BY <3>1, CountedOff
  <2> QED BY <2>1, <2>7, <2>9
<1>9. PICK T : T = {r[i] : i \in 1 .. n}
  OBVIOUS
<1>10. \A i \in 1 .. n : i \in 1 .. l
  OBVIOUS
<1>11. ASSUME NEW i \in 1 .. n, NEW j \in 1 .. n, r[i] = r[j] PROVE i = j
  <2>1. ~(i < j) /\ ~(j < i)
    BY <1>7, <1>10, <1>11
  <2> QED BY <2>1
<1>12. Cardinality(T) = n
  <2>1. Numbered(n, r, T)
    BY <1>9, <1>11 DEF Numbered
  <2> QED BY <2>1, CountedOff
<1>13. ASSUME NEW x \in A PROVE x \in T
  <2>1. x \in S /\ Cardinality(Ahead(l, rest, x)) < n
    BY <1>0, <1>1, <1>13
  <2>2. PICK k \in 1 .. l : r[k] = x
    BY <1>6, <2>1
  <2>3. k - 1 < n
    BY <1>8, <2>1, <2>2
  <2>4. k \in 1 .. n
    BY <2>3
  <2> QED BY <1>9, <2>2, <2>4
<1>14. ASSUME NEW x \in T PROVE x \in A
  <2>1. PICK k \in 1 .. n : r[k] = x
    BY <1>9, <1>14
  <2>2. Cardinality(Ahead(l, rest, r[k])) = k - 1 /\ r[k] \in S
    BY <1>5, <1>8, <1>10
  <2>3. k - 1 < n
    OBVIOUS
  <2> QED BY <1>0, <1>1, <2>1, <2>2, <2>3
<1>15. A = T
  BY <1>13, <1>14
<1> QED BY <1>12, <1>15

\* What is not taken is left.
LEMMA DivideIs ==
  ASSUME NEW a \in Nat, NEW b \in Nat \ {0}
  PROVE  a = b * (a \div b) + (a % b) /\ a % b \in Nat /\ a % b < b /\ a \div b \in Nat
OBVIOUS

LEMMA MoreTimes ==
  ASSUME NEW k \in Int, k > 0, NEW a \in Int, NEW b \in Int, k * a < k * b
  PROVE  a < b
<1>1. ASSUME b <= a PROVE FALSE
  <2>1. PICK d \in Nat : d = a - b
    BY <1>1
  <2>2. k * (b + d) = k * b + k * d
    BY TakenOut
  <2>3. k * d \in Nat
    OBVIOUS
  <2>4. PICK kb \in Int, kd \in Nat : kb = k * b /\ kd = k * d
    BY <2>3
  <2>5. b + d = a
    BY <2>1
  <2>6. k * a = kb + kd
    BY <2>2, <2>4, <2>5
  <2> QED BY <2>4, <2>6
<1> QED BY <1>1

Portions(l, total, whole, e, floor, rest) ==
  \A i \in 1 .. l : floor[i] = (e[i] * total) \div whole /\ rest[i] = (e[i] * total) % whole
GivenOut(l, rest, left, floor, given) ==
  \A i \in 1 .. l : given[i] = floor[i] + IF Cardinality(Ahead(l, rest, i)) < left THEN 1 ELSE 0

Apportioned(l, total, e, floor, rest, given) ==
  /\ Portions(l, total, SumOf(e), e, floor, rest)
  /\ GivenOut(l, rest, total - SumOf(floor), floor, given)

\* By the largest remainder: what is shared out is all there is.
LEMMA RemaindersGive ==
  ASSUME NEW l \in Nat, l # 0, NEW total \in Nat, NEW e \in [1 .. l -> Nat \ {0}],
         NEW floor \in [1 .. l -> Int], NEW rest \in [1 .. l -> Int], NEW given \in [1 .. l -> Int],
         Apportioned(l, total, e, floor, rest, given)
  PROVE  SumOf(given) = total
<1>0. PICK whole, left : /\ whole = SumOf(e) /\ left = total - SumOf(floor)
                         /\ Portions(l, total, whole, e, floor, rest) /\ GivenOut(l, rest, left, floor, given)
  BY DEF Apportioned
<1>1. PICK S : S = 1 .. l
  OBVIOUS
<1>2. IsFiniteSet(S) /\ Cardinality(S) = l /\ S # {} /\ 1 \in S
  <2>1. 1 \in Int /\ l \in Int
    OBVIOUS
  <2>2. 1 \in 1 .. l
    OBVIOUS
  <2>3. IsFiniteSet(S) /\ Cardinality(S) = l
    BY <1>1, <2>1, FS_Interval
  <2> QED BY <1>1, <2>2, <2>3
<1>3. whole \in Nat \ {0}
  BY <1>0, <1>1, <1>2, SumIsPositive
<1>k. PICK k \in Int, t \in Int : k = whole /\ t = total /\ k > 0
  BY <1>3
<1>4. PICK u : u = [i \in S |-> total * e[i]]
  OBVIOUS
<1>5. ASSUME NEW i \in S
      PROVE  u[i] \in Nat /\ u[i] = whole * floor[i] + rest[i] /\ rest[i] \in Nat /\ rest[i] < whole
  <2>1. PICK a \in Nat : a = e[i]
    BY <1>1
  <2>2. PICK b \in Nat : b = a * total /\ b = total * a
    OBVIOUS
  <2>3. PICK h \in Nat \ {0} : h = whole
    BY <1>3
  <2>4. b = h * (b \div h) + (b % h) /\ b % h \in Nat /\ b % h < h
    BY DivideIs
  <2>5. floor[i] = b \div h /\ rest[i] = b % h
    BY <1>0, <1>1, <2>1, <2>2, <2>3 DEF Portions
  <2>6. u[i] = b
    BY <1>4, <2>1, <2>2
  <2> QED BY <2>3, <2>4, <2>5, <2>6, Zenon
<1>6. u \in [S -> Int]
  BY <1>4, <1>5
<1>7. e \in [S -> Int] /\ floor \in [S -> Int] /\ rest \in [S -> Int] /\ rest \in [S -> Nat]
      /\ given \in [S -> Int]
  BY <1>1, <1>5
<1>8. PICK zero : zero = Ones(S, {})
  OBVIOUS
<1>9. zero \in [S -> Int] /\ SumOf(zero) = 0 /\ \A i \in S : zero[i] = 0
  <2>1. Cardinality({}) = 0
    BY FS_EmptySet
  <2>2. {} \subseteq S
    OBVIOUS
  <2>3. zero \in [S -> Int] /\ SumOf(zero) = 0
    BY <1>2, <1>8, <2>1, <2>2, SumOfOnes
  <2>4. \A i \in S : zero[i] = 0
    BY <1>8 DEF Ones
  <2> QED BY <2>3, <2>4
<1>10. Together(u, k, floor, rest)
  <2>1. Mixed(S, u, k, floor, rest)
    BY <1>5, <1>k DEF Mixed
  <2> QED BY <1>2, <1>6, <1>7, <2>1, SumTogether
<1>11. Together(u, t, e, zero)
  <2>1. \A i \in S : u[i] = total * e[i] + zero[i]
    <3> SUFFICES ASSUME NEW i \in S PROVE u[i] = total * e[i] + zero[i]
      OBVIOUS
    <3>1. u[i] = total * e[i] /\ u[i] \in Int
      BY <1>4, <1>5
    <3> QED BY <1>9, <3>1
  <2>2. Mixed(S, u, t, e, zero)
    BY <1>k, <2>1 DEF Mixed
  <2> QED BY <1>2, <1>6, <1>7, <1>9, <2>2, SumTogether
<1>12. PICK F \in Int, R \in Int : F = SumOf(floor) /\ R = SumOf(rest) /\ R >= 0
  <2>1. SumOf(rest) \in Nat
    BY <1>2, <1>7, SumIsNat
  <2>2. SumOf(floor) \in Int
    BY <1>10 DEF Together
  <2> QED BY <2>1, <2>2
<1>13. left \in Int /\ left = total - F
  BY <1>0, <1>12
<1>14. k * left = R
  <2>1. SumOf(u) = k * F + R
    BY <1>10, <1>12 DEF Together
  <2>2. SumOf(u) = t * k
    <3>1. SumOf(u) = t * k + 0
      BY <1>0, <1>9, <1>11, <1>k, Zenon DEF Together
    <3>2. t * k \in Int
      OBVIOUS
    <3> QED BY <3>1, <3>2
  <2>3. PICK m \in Int : m = left
    BY <1>13
  <2>4. k * (F + m) = k * F + k * m
    BY TakenOut
  <2>5. F + m = t
    BY <1>12, <1>13, <1>k, <2>3
  <2>6. k * t = t * k
    OBVIOUS
  <2>7. PICK kf \in Int, km \in Int, kt \in Int : kf = k * F /\ km = k * m /\ kt = k * t
    OBVIOUS
  <2>8. kt = kf + km
    BY <2>4, <2>5, <2>7, Zenon
  <2>9. kt = kf + R
    BY <2>1, <2>2, <2>6, <2>7, Zenon
  <2>10. km = R
    <3>1. km = kt - kf
      BY <2>8
    <3>2. R = kt - kf
      BY <2>9
    <3> QED BY <3>1, <3>2
  <2> QED BY <2>3, <2>7, <2>10
<1>15. left \in Nat
  <2>1. PICK m \in Int : m = left
    BY <1>13
  <2>2. k * (-1) < k * m
    <3>1. k * (-1) = -k
      OBVIOUS
    <3>2. k * m = R
      BY <1>14, <2>1
    <3>3. -k < R
      BY <1>12, <1>k
    <3> QED BY <3>1, <3>2, <3>3, Zenon
  <2>3. -1 < m
    <3>1. PICK o \in Int : o = -1
      OBVIOUS
    <3>2. k * o < k * m
      BY <2>2, <3>1, Zenon
    <3>3. o < m
      BY <1>k, <3>2, MoreTimes
    <3> QED BY <3>1, <3>3
  <2> QED BY <2>1, <2>3
<1>16. left < l
  <2>1. PICK all : all = Ones(S, S)
    OBVIOUS
  <2>2. all \in [S -> Int] /\ SumOf(all) = l /\ \A i \in S : all[i] = 1
    <3>1. S \subseteq S
      OBVIOUS
    <3>2. all \in [S -> Int] /\ SumOf(all) = l
      BY <1>2, <2>1, <3>1, SumOfOnes
    <3>3. \A i \in S : all[i] = 1
      BY <2>1 DEF Ones
    <3> QED BY <3>2, <3>3
  <2>3. PICK top : top = [i \in S |-> k]
    OBVIOUS
  <2>4. top \in [S -> Int] /\ \A i \in S : top[i] = k
    BY <2>3
  <2>5. Together(top, k, all, zero)
    <3>1. Mixed(S, top, k, all, zero)
      BY <1>9, <2>2, <2>4 DEF Mixed
    <3> QED BY <1>2, <1>9, <2>2, <2>4, <3>1, SumTogether
  <2>6. SumOf(top) = k * l
    <3>1. SumOf(top) = k * l + 0
      BY <1>9, <2>2, <2>5, Zenon DEF Together
    <3>2. k * l \in Int
      OBVIOUS
    <3> QED BY <3>1, <3>2
  <2>7. SumOf(rest) < SumOf(top)
    <3>1. \A i \in S : rest[i] <= top[i] /\ rest[i] < top[i]
      <4> SUFFICES ASSUME NEW i \in S PROVE rest[i] <= top[i] /\ rest[i] < top[i]
        OBVIOUS
      <4>1. PICK a \in Nat : a = rest[i] /\ a < k /\ top[i] = k
        BY <1>5, <1>k, <2>4
      <4> QED BY <4>1
    <3> QED BY <1>2, <1>7, <2>4, <3>1, SumIsLess
  <2>8. PICK m \in Int, n \in Int : m = left /\ n = l
    BY <1>13
  <2>9. k * m < k * n
    <3>1. k * m = SumOf(rest)
      BY <1>12, <1>14, <2>8, Zenon
    <3>2. k * n = SumOf(top)
      BY <2>6, <2>8, Zenon
    <3> QED BY <2>7, <3>1, <3>2, Zenon
  <2>10. m < n
    BY <1>k, <2>9, MoreTimes
  <2> QED BY <2>8, <2>10
<1>17. PICK A : A = {i \in 1 .. l : Cardinality(Ahead(l, rest, i)) < left}
  OBVIOUS
<1>18. Cardinality(A) = left
  <2>1. PICK n \in Nat : n = left
    BY <1>15
  <2>2. Among(l, rest, n, A)
    BY <1>17, <2>1 DEF Among
  <2>3. n <= l
    BY <1>16, <2>1
  <2> QED BY <2>1, <2>2, <2>3, FirstAreCounted
<1>19. PICK more : more = Ones(S, A)
  OBVIOUS
<1>20. more \in [S -> Int] /\ SumOf(more) = left
  <2>1. A \subseteq S
    BY <1>1, <1>17
  <2> QED BY <1>2, <1>18, <1>19, <2>1, SumOfOnes
<1>21. PICK one \in Int : one = 1
  OBVIOUS
<1>22. Together(given, one, floor, more)
  <2>1. ASSUME NEW i \in S PROVE given[i] = one * floor[i] + more[i]
    <3>1. PICK a \in Int : a = floor[i]
      BY <1>7
    <3>2. CASE i \in A
      <4>1. more[i] = 1
        BY <1>19, <3>2 DEF Ones
      <4>2. given[i] = a + 1
        BY <1>0, <1>17, <3>1, <3>2 DEF GivenOut
      <4> QED BY <1>21, <3>1, <4>1, <4>2
    <3>3. CASE i \notin A
      <4>1. more[i] = 0
        BY <1>19, <3>3 DEF Ones
      <4>2. given[i] = a + 0
        BY <1>0, <1>1, <1>17, <3>1, <3>3 DEF GivenOut
      <4> QED BY <1>21, <3>1, <4>1, <4>2
    <3> QED BY <3>2, <3>3
  <2>2. Mixed(S, given, one, floor, more)
    BY <2>1 DEF Mixed
  <2> QED BY <1>2, <1>7, <1>20, <2>2, SumTogether
<1>23. SumOf(given) = F + left
  <2>1. SumOf(given) = one * SumOf(floor) + SumOf(more)
    BY <1>22 DEF Together
  <2> QED BY <1>12, <1>13, <1>20, <1>21, <2>1
<1> QED BY <1>12, <1>13, <1>23

SeatList(s) ==
  /\ \E T : s \in Seq(T)
  /\ \A i \in 1 .. Len(s) : s[i].count \in Nat \ {0}
  /\ \A i, j \in 1 .. Len(s) : s[i].name = s[j].name => i = j

\* All seats are given away, if anyone has one.
SeatsGiven(s) == s # <<>> => SumOf([i \in DOMAIN s |-> s[i].count]) = Total

LEMMA AllocateIs ==
  ASSUME NEW scores, Scored(scores)
  PROVE  /\ SeatList(Allocate(scores)) /\ SeatsGiven(Allocate(scores))
         /\ \A i \in DOMAIN Allocate(scores) : \E p \in ToSet(scores) :
              p[2] > 0 /\ p[1][1] # "mood" /\ Allocate(scores)[i].name = p[1]
<1>1. PICK T : scores \in Seq(T \X Int)
  BY DEF Scored, Points
<1>2. PICK E : E = T \X Int
  OBVIOUS
<1> DEFINE S == {p \in ToSet(scores) : p[2] > 0 /\ p[1][1] # "mood"}
           named == Only(scores, S)
           sorted == StableSort(named, LAMBDA p : <<-p[2]>>)
           eligible == Take(sorted, MaxInterests)
           whole == SumOf([i \in DOMAIN eligible |-> eligible[i][2]])
           floor(i) == (eligible[i][2] * Total) \div whole
           left == Total - SumOf([i \in DOMAIN eligible |-> floor(i)])
           rest(i) == (eligible[i][2] * Total) % whole
           first(i) == Cardinality({j \in DOMAIN eligible :
                         rest(j) > rest(i) \/ (rest(j) = rest(i) /\ j < i)}) < left
           given(i) == floor(i) + IF first(i) THEN 1 ELSE 0
           all == [i \in DOMAIN eligible |-> [name |-> eligible[i][1], count |-> given(i)]]
           B(f) == {s \in ToSet(f) : s.count > 0}
<1>0. Allocate(scores) = Only(all, B(all))
  BY DEF Allocate
<1>3. named = Only(scores, S)
  OBVIOUS
<1>11. sorted = StableSort(named, LAMBDA p : <<-(p[2])>>)
  OBVIOUS
<1>13. eligible = Take(sorted, MaxInterests)
  OBVIOUS
<1>18. whole = SumOf([i \in DOMAIN eligible |-> eligible[i][2]])
  OBVIOUS
<1>a. all = [i \in DOMAIN eligible |-> [name |-> eligible[i][1], count |-> given(i)]]
  OBVIOUS
<1>b. \A i : given(i) = ((eligible[i][2] * Total) \div whole) + IF first(i) THEN 1 ELSE 0
  OBVIOUS
<1>c. \A i : first(i) <=> Cardinality({j \in DOMAIN eligible :
                rest(j) > rest(i) \/ (rest(j) = rest(i) /\ j < i)}) < left
  OBVIOUS
<1>d. left = Total - SumOf([i \in DOMAIN eligible |-> floor(i)])
  OBVIOUS
<1> HIDE DEF named, sorted, eligible, whole, first, given, all
<1>4. PICK C : C = {p \in E : p \in ToSet(scores) /\ p[2] > 0 /\ p[1][1] # "mood"}
  OBVIOUS
<1>5. named \in Seq(C) /\ NamesDiffer(named)
  <2>1. \A p \in S : p \in ToSet(scores) /\ p[2] > 0 /\ p[1][1] # "mood"
    OBVIOUS
  <2> HIDE DEF S
  <2>2. scores \in Seq(E) /\ NamesDiffer(scores)
    BY <1>1, <1>2 DEF Scored, NamesDiffer
  <2>3. named \in Seq(E \cap S)
    BY <1>3, <2>2, OnlyType
  <2>4. E \cap S \subseteq C
    BY <1>4, <2>1
  <2>5. named \in Seq(C)
    BY <2>3, <2>4
  <2> QED BY <1>3, <2>2, <2>5, OnlyDiffer
<1>6. PICK n \in Nat : n = Len(named) /\ DOMAIN named = 1 .. n
  BY <1>5
<1>7. \A p \in C : p[2] \in Nat \ {0}
  BY <1>2, <1>4
<1>8. PICK w : w = [i \in 1 .. n |-> -(named[i][2])]
  OBVIOUS
<1>9. w \in [1 .. Len(named) -> Int]
  <2>1. \A i \in 1 .. n : named[i] \in C
    BY <1>5, <1>6
  <2>2. \A i \in 1 .. n : -(named[i][2]) \in Int
    BY <1>7, <2>1
  <2> QED BY <1>6, <1>8, <2>2
<1>10. sorted = SortedBy(named, w)
  <2>1. PICK P : P = {<<Append(<<-(named[i][2])>>, i), i>> : i \in DOMAIN named}
    OBVIOUS
  <2>2. P = PlaceKeys(named, w)
    BY <1>6, <1>8, <2>1 DEF PlaceKeys
  <2>3. StableSort(named, LAMBDA p : <<-(p[2])>>) = [k \in 1 .. Len(named) |-> named[ByKey(P)[k]]]
    BY <2>1, Zenon DEF StableSort, Ordered
  <2>4. StableSort(named, LAMBDA p : <<-(p[2])>>) = SortedBy(named, w)
    BY <2>2, <2>3, Zenon DEF SortedBy
  <2> QED BY <1>11, <2>4
<1>12. sorted \in Seq(C) /\ NamesDiffer(sorted)
  BY <1>5, <1>9, <1>10, StableIs, SortedDiffer
<1>14. eligible \in Seq(C) /\ NamesDiffer(eligible)
  <2>1. MaxInterests \in Nat
    BY InterestListAssumption
  <2> QED BY <1>12, <1>13, <2>1, TakeIs, TakeDiffer
<1>15. PICK l \in Nat : l = Len(eligible) /\ DOMAIN eligible = 1 .. l
  BY <1>14
<1>16. \A i \in 1 .. l : eligible[i][2] \in Nat \ {0}
  <2>1. \A i \in 1 .. l : eligible[i] \in C
    BY <1>14, <1>15
  <2> QED BY <1>7, <2>1
<1>17. PICK points : points = [i \in DOMAIN eligible |-> eligible[i][2]]
  OBVIOUS
<1>19. ASSUME NEW i \in 1 .. l PROVE given(i) \in Int
  <2>1. whole \in Nat \ {0}
    <3>1. PICK D : D = 1 .. l
      OBVIOUS
    <3>2. IsFiniteSet(D) /\ D # {}
      <4>1. 1 \in Int /\ l \in Int
        OBVIOUS
      <4> QED BY <3>1, <4>1, FS_Interval
    <3>3. points \in [D -> Nat \ {0}]
      BY <1>15, <1>16, <1>17, <3>1
    <3> QED BY <1>17, <1>18, <3>2, <3>3, SumIsPositive
  <2>2. PICK a \in Int, b \in Nat \ {0} : a = eligible[i][2] * Total /\ b = whole
    <3>1. eligible[i][2] \in Int /\ Total \in Int
      BY <1>16, InterestListAssumption
    <3>2. eligible[i][2] * Total \in Int
      BY <3>1
    <3> QED BY <2>1, <3>2
  <2>3. a \div b \in Int
    OBVIOUS
  <2>4. (eligible[i][2] * Total) \div whole \in Int
    BY <2>2, <2>3
  <2>5. PICK k \in {0, 1} : k = IF first(i) THEN 1 ELSE 0
    OBVIOUS
  <2> QED BY <1>b, <2>4, <2>5
<1>20. PICK full : full = [i \in 1 .. l |-> [name |-> eligible[i][1], count |-> given(i)]]
  OBVIOUS
<1>21. PICK F : F = ToSet(full)
  OBVIOUS
<1>22. full \in Seq(F) /\ Len(full) = l
  <2>1. full = [i \in 1 .. l |-> full[i]]
    BY <1>20
  <2> QED BY <1>21, <2>1, OfFunction
<1>23. Allocate(scores) = Only(full, B(full))
  <2>1. full = all
    BY <1>15, <1>20, <1>a
  <2> QED BY <1>0, <2>1
<1>24. PICK r : r = Only(full, B(full))
  OBVIOUS
<1>25. \A s \in B(full) : s.count > 0
  OBVIOUS
<1> HIDE DEF B
<1>26. r \in Seq(F \cap B(full))
  BY <1>22, <1>24, OnlyType
<1>27. PICK m : /\ m \in [1 .. Len(r) -> 1 .. l]
                /\ \A k \in 1 .. Len(r) : r[k] = full[m[k]]
                /\ \A i, j \in 1 .. Len(r) : m[i] = m[j] => i = j
                /\ \A i \in 1 .. l : full[i] \in B(full) => \E k \in 1 .. Len(r) : m[k] = i
  <2>1. PICK m : Places(full, B(full), Len(full), r, m)
    BY <1>22, <1>24, OnlyPlaces
  <2>2. /\ m \in [1 .. Len(r) -> 1 .. l]
        /\ \A i, j \in 1 .. Len(r) : i < j => m[i] < m[j]
        /\ \A k \in 1 .. Len(r) : r[k] = full[m[k]]
        /\ \A i \in 1 .. l : full[i] \in B(full) => \E k \in 1 .. Len(r) : m[k] = i
    BY <1>22, <2>1 DEF Places
  <2>3. ASSUME NEW i \in 1 .. Len(r), NEW j \in 1 .. Len(r), m[i] = m[j] PROVE i = j
    <3>1. PICK n1 \in Nat : n1 = Len(r)
      BY <1>26
    <3>2. m[i] \in Int /\ m[j] \in Int
      BY <2>2
    <3>3. ~(i < j) /\ ~(j < i)
      BY <2>2, <2>3, <3>2
    <3> QED BY <3>1, <3>3
  <2> QED BY <2>2, <2>3
<1>28. ASSUME NEW i \in 1 .. Len(r) PROVE r[i].count \in Nat \ {0}
  <2>1. r[i] \in B(full)
    BY <1>26
  <2>2. r[i].count > 0
    BY <1>25, <2>1
  <2>3. PICK k \in 1 .. l : r[i] = full[k]
    BY <1>27
  <2>4. r[i].count = given(k)
    BY <1>20, <2>3
  <2> QED BY <1>19, <2>2, <2>4
<1>29. ASSUME NEW i \in 1 .. Len(r), NEW j \in 1 .. Len(r), r[i].name = r[j].name PROVE i = j
  <2>1. PICK a \in 1 .. l, b \in 1 .. l : a = m[i] /\ b = m[j] /\ r[i] = full[a] /\ r[j] = full[b]
    <3>1. m[i] \in 1 .. l /\ m[j] \in 1 .. l
      BY <1>27, Zenon
    <3>2. r[i] = full[m[i]] /\ r[j] = full[m[j]]
      BY <1>27, Zenon
    <3> QED BY <3>1, <3>2, Zenon
  <2>2. eligible[a][1] = eligible[b][1]
    BY <1>20, <1>29, <2>1
  <2>3. a = b
    BY <1>14, <1>15, <2>2 DEF NamesDiffer
  <2>4. m[i] = m[j]
    BY <2>1, <2>3
  <2> QED BY <1>27, <2>4
<1>30. SeatList(r)
  BY <1>26, <1>28, <1>29 DEF SeatList
<1>31. ASSUME NEW i \in DOMAIN r
       PROVE  \E p \in ToSet(scores) : p[2] > 0 /\ p[1][1] # "mood" /\ r[i].name = p[1]
  <2>1. i \in 1 .. Len(r)
    BY <1>26
  <2>2. PICK k \in 1 .. l : r[i] = full[k]
    BY <1>27, <2>1
  <2>3. r[i].name = eligible[k][1]
    BY <1>20, <2>2
  <2>4. eligible[k] \in C
    BY <1>14, <1>15
  <2> QED BY <1>4, <2>3, <2>4
<1>32. SeatsGiven(r)
  <2> SUFFICES ASSUME r # <<>> PROVE SumOf([i \in DOMAIN r |-> r[i].count]) = Total
    BY DEF SeatsGiven
  <2>1. PICK n1 \in Nat : n1 = Len(r) /\ DOMAIN r = 1 .. n1 /\ n1 # 0
    BY <1>26
  <2>2. l \in Nat \ {0}
    <3>1. 1 \in 1 .. n1
      BY <2>1
    <3>2. m[1] \in 1 .. l
      BY <1>27, <2>1, <3>1
    <3> QED BY <3>2
  <2>3. PICK parts, fl, re, gi : /\ parts = [i \in 1 .. l |-> eligible[i][2]]
                                 /\ fl = [i \in 1 .. l |-> floor(i)] /\ re = [i \in 1 .. l |-> rest(i)]
                                 /\ gi = [i \in 1 .. l |-> given(i)]
    OBVIOUS
  <2>4. PICK wh : wh = whole
    OBVIOUS
  <2>5. wh = SumOf(parts) /\ wh \in Nat \ {0} /\ parts \in [1 .. l -> Nat \ {0}]
    <3>1. parts \in [1 .. l -> Nat \ {0}]
      BY <1>16, <2>3
    <3>2. wh = SumOf(parts)
      BY <1>15, <1>18, <2>3, <2>4
    <3>3. IsFiniteSet(1 .. l) /\ 1 .. l # {}
      <4>1. 1 \in Int /\ l \in Int
        OBVIOUS
      <4>2. 1 \in 1 .. l
        BY <2>2
      <4> QED BY <4>1, <4>2, FS_Interval
    <3> QED BY <3>1, <3>2, <3>3, SumIsPositive
  <2>6. Total \in Nat
    BY InterestListAssumption
  <2>7. Portions(l, Total, wh, parts, fl, re)
    BY <2>3, <2>4 DEF Portions
  <2>8. ASSUME NEW i \in 1 .. l PROVE fl[i] \in Nat /\ re[i] \in Nat
    <3>1. PICK a \in Nat : a = parts[i]
      BY <2>5
    <3>2. PICK b \in Nat : b = a * Total
      BY <2>6
    <3>3. PICK k \in Nat \ {0} : k = wh
      BY <2>5
    <3>4. b \div k \in Nat /\ b % k \in Nat
      BY DivideIs
    <3>5. fl[i] = b \div k /\ re[i] = b % k
      BY <2>7, <3>1, <3>2, <3>3 DEF Portions
    <3> QED BY <3>4, <3>5
  <2>9. fl \in [1 .. l -> Int] /\ re \in [1 .. l -> Int] /\ gi \in [1 .. l -> Int]
    BY <1>19, <2>3, <2>8
  <2>10. PICK le : le = Total - SumOf(fl) /\ le = left
    BY <1>15, <1>d, <2>3
  <2>11. GivenOut(l, re, le, fl, gi)
    <3> SUFFICES ASSUME NEW i \in 1 .. l
                 PROVE  gi[i] = fl[i] + IF Cardinality(Ahead(l, re, i)) < le THEN 1 ELSE 0
      BY DEF GivenOut
    <3>1. \A j \in 1 .. l : re[j] = rest(j)
      BY <2>3
    <3>2. {j \in DOMAIN eligible : rest(j) > rest(i) \/ (rest(j) = rest(i) /\ j < i)} = Ahead(l, re, i)
      <4> HIDE DEF rest
      <4> QED BY <1>15, <3>1 DEF Ahead
    <3>3. first(i) <=> Cardinality(Ahead(l, re, i)) < le
      <4> HIDE DEF rest, left
      <4> QED BY <1>c, <2>10, <3>2
    <3>4. given(i) = floor(i) + IF first(i) THEN 1 ELSE 0
      BY <1>b
    <3> HIDE DEF floor, rest, left
    <3> QED BY <2>3, <3>3, <3>4
  <2>12. SumOf(gi) = Total
    <3> HIDE DEF floor, rest, left
    <3>1. PICK t \in Nat : t = Total
      BY <2>6
    <3>2. Apportioned(l, t, parts, fl, re, gi)
      BY <2>5, <2>7, <2>10, <2>11, <3>1, Zenon DEF Apportioned
    <3>3. SumOf(gi) = t
      BY <2>2, <2>5, <2>9, <3>2, RemaindersGive
    <3> QED BY <3>1, <3>3
  <2>13. PICK counts : counts = [i \in DOMAIN r |-> r[i].count]
    OBVIOUS
  <2>14. \A i \in 1 .. n1 : counts[i] = gi[m[i]] /\ m[i] \in 1 .. l
    <3> SUFFICES ASSUME NEW i \in 1 .. n1 PROVE counts[i] = gi[m[i]] /\ m[i] \in 1 .. l
      OBVIOUS
    <3>1. PICK a \in 1 .. l : a = m[i] /\ r[i] = full[a]
      BY <1>27, <2>1
    <3>2. r[i].count = given(a)
      BY <1>20, <3>1
    <3> QED BY <2>1, <2>3, <2>13, <3>1, <3>2
  <2>15. \A y \in 1 .. l : gi[y] # 0 => \E x \in 1 .. n1 : m[x] = y
    <3> SUFFICES ASSUME NEW y \in 1 .. l, gi[y] # 0 PROVE \E x \in 1 .. n1 : m[x] = y
      OBVIOUS
    <3>1. full[y].count = gi[y]
      BY <1>20, <2>3
    <3>2. gi[y] \in Nat
      <4>1. gi[y] = fl[y] + IF Cardinality(Ahead(l, re, y)) < le THEN 1 ELSE 0
        BY <2>11 DEF GivenOut
      <4>2. PICK a \in Nat : a = fl[y]
        BY <2>8
      <4> QED BY <4>1, <4>2
    <3>3. full[y].count > 0
      BY <3>1, <3>2
    <3>4. full[y] \in B(full)
      <4>1. full[y] \in ToSet(full)
        <5>1. y \in DOMAIN full
          BY <1>22
        <5> QED BY <5>1 DEF ToSet
      <4> QED BY <3>3, <4>1 DEF B
    <3> QED BY <1>27, <2>1, <3>4
  <2>16. SumOf(counts) = SumOf(gi)
    <3>1. PICK D, U : D = 1 .. n1 /\ U = 1 .. l
      OBVIOUS
    <3>2. IsFiniteSet(D) /\ IsFiniteSet(U)
      <4>1. 1 \in Int /\ l \in Int /\ n1 \in Int
        OBVIOUS
      <4> QED BY <3>1, <4>1, FS_Interval
    <3>3. gi \in [U -> Int] /\ m \in [D -> U]
      BY <1>27, <2>1, <2>9, <3>1
    <3>4. counts \in [D -> Int] /\ \A x \in D : counts[x] = gi[m[x]]
      <4>1. \A x \in D : counts[x] = gi[m[x]] /\ counts[x] \in Int
        BY <2>14, <3>1, <3>3
      <4>2. counts = [x \in D |-> counts[x]]
        BY <2>1, <2>13, <3>1
      <4> QED BY <4>1, <4>2
    <3>5. \A x, y \in D : m[x] = m[y] => x = y
      BY <1>27, <2>1, <3>1
    <3>6. \A y \in U : gi[y] # 0 => \E x \in D : m[x] = y
      BY <2>15, <3>1
    <3> QED BY <3>2, <3>3, <3>4, <3>5, <3>6, SumMoved
  <2> QED BY <2>12, <2>13, <2>16
<1> QED BY <1>23, <1>24, <1>30, <1>31, <1>32

LEMMA CountIs ==
  ASSUME NEW s, SeatList(s), NEW i \in 1 .. Len(s)
  PROVE  Count(s, s[i].name) = s[i].count /\ Count(s, s[i].name) \in Nat
<1>1. PICK T : s \in Seq(T)
  BY DEF SeatList
<1>2. PICK n \in Nat : n = Len(s) /\ DOMAIN s = 1 .. n
  BY <1>1
<1>3. PICK c : c = CHOOSE t \in ToSet(s) : t.name = s[i].name
  OBVIOUS
<1>4. c \in ToSet(s) /\ c.name = s[i].name
  <2>1. s[i] \in ToSet(s)
    BY <1>2 DEF ToSet
  <2> QED BY <1>3, <2>1
<1>5. PICK k \in 1 .. n : c = s[k]
  BY <1>2, <1>4 DEF ToSet
<1>6. k = i
  BY <1>2, <1>4, <1>5 DEF SeatList
<1>7. Count(s, s[i].name) = s[i].count
  BY <1>3, <1>5, <1>6 DEF Count
<1> QED BY <1>7 DEF SeatList

LEMMA SeatedCounts ==
  ASSUME NEW s, SeatList(s), NEW x \in Seated(s)
  PROVE  Count(s, x) \in Nat
<1>1. PICK i \in DOMAIN s : x = s[i].name
  BY DEF Seated
<1>2. DOMAIN s = 1 .. Len(s)
  BY DEF SeatList
<1> QED BY <1>1, <1>2, CountIs

\* The interest with the most seats is the first to be looked up.
LEMMA LargestFirstIs ==
  ASSUME NEW s, SeatList(s)
  PROVE  /\ \E T : LargestFirst(s) \in Seq(T)
         /\ \A k \in 1 .. Len(LargestFirst(s)) : \E i \in 1 .. Len(s) : LargestFirst(s)[k] = s[i]
         /\ \A i \in 1 .. Len(s) : \E k \in 1 .. Len(LargestFirst(s)) : LargestFirst(s)[k] = s[i]
         /\ \A i, j \in 1 .. Len(LargestFirst(s)) :
              i < j => Count(s, LargestFirst(s)[j].name) <= Count(s, LargestFirst(s)[i].name)
<1>1. PICK T : s \in Seq(T)
  BY DEF SeatList
<1>2. PICK n \in Nat : n = Len(s) /\ DOMAIN s = 1 .. n
  BY <1>1
<1>3. PICK w : w = [i \in 1 .. n |-> -s[i].count]
  OBVIOUS
<1>4. \A i \in 1 .. n : s[i].count \in Nat \ {0}
  BY <1>2 DEF SeatList
<1>5. w \in [1 .. Len(s) -> Int]
  <2>1. \A i \in 1 .. n : -s[i].count \in Int
    BY <1>4
  <2> QED BY <1>2, <1>3, <2>1
<1>6. LargestFirst(s) = SortedBy(s, w)
  <2>1. PICK P : P = {<<Append(<<-s[i].count>>, i), i>> : i \in DOMAIN s}
    OBVIOUS
  <2>2. P = PlaceKeys(s, w)
    BY <1>2, <1>3, <2>1 DEF PlaceKeys
  <2>3. LargestFirst(s) = [k \in 1 .. Len(s) |-> s[ByKey(P)[k]]]
    BY <2>1, Zenon DEF LargestFirst, StableSort, Ordered
  <2> QED BY <2>2, <2>3, Zenon DEF SortedBy
<1>7. PICK r : r = LargestFirst(s)
  OBVIOUS
<1>8. r \in Seq(T) /\ Len(r) = n
  BY <1>1, <1>2, <1>5, <1>6, <1>7, StableIs
<1>9. PICK p : Rearranged(s, w, r, p)
  BY <1>1, <1>5, <1>6, <1>7, StableIs
<1>10. /\ p \in Seq(1 .. n) /\ Len(p) = n
       /\ \A x \in 1 .. n : \E k \in 1 .. n : p[k] = x
       /\ \A i, j \in 1 .. n : i < j => w[p[i]] <= w[p[j]]
  BY <1>2, <1>9 DEF Rearranged, Sorted
<1>11. ASSUME NEW k \in 1 .. n PROVE r[k] = s[p[k]] /\ p[k] \in 1 .. n
  <2>1. r = [i \in 1 .. n |-> s[p[i]]]
    BY <1>2, <1>9 DEF Rearranged
  <2>2. p \in Seq(1 .. n) /\ Len(p) = n
    BY <1>10
  <2>3. p[k] \in 1 .. n
    BY <2>2
  <2> QED BY <2>1, <2>3
<1>12. ASSUME NEW i \in 1 .. n PROVE \E k \in 1 .. n : r[k] = s[i]
  <2>1. PICK k \in 1 .. n : p[k] = i
    BY <1>10
  <2> QED BY <1>11, <2>1
<1>13. ASSUME NEW i \in 1 .. n, NEW j \in 1 .. n, i < j
       PROVE  Count(s, r[j].name) <= Count(s, r[i].name)
  <2>1. PICK a \in 1 .. n, b \in 1 .. n : a = p[i] /\ b = p[j] /\ r[i] = s[a] /\ r[j] = s[b]
    BY <1>11
  <2>2. w[a] <= w[b]
    BY <1>10, <1>13, <2>1
  <2>3. w[a] = -s[a].count /\ w[b] = -s[b].count /\ s[a].count \in Nat /\ s[b].count \in Nat
    BY <1>3, <1>4
  <2>4. s[b].count <= s[a].count
    BY <2>2, <2>3
  <2>5. Count(s, s[a].name) = s[a].count /\ Count(s, s[b].name) = s[b].count
    BY <1>2, CountIs
  <2> QED BY <2>1, <2>4, <2>5
<1> QED BY <1>2, <1>7, <1>8, <1>11, <1>12, <1>13

-----------------------------------------------------------------------------
(* What is looked up.                                                      *)

LEMMA LimitIs ==
  ASSUME NEW n \in Nat
  PROVE  Min({Max({n * PickFactor, PickMin}), PickMax}) \in Nat
<1>1. PICK a \in Nat, b \in Nat, c \in Nat : a = n * PickFactor /\ b = PickMin /\ c = PickMax
  <2>1. PickFactor \in Nat /\ PickMin \in Nat /\ PickMax \in Nat
    BY InterestListAssumption
  <2>2. n * PickFactor \in Nat
    BY <2>1
  <2> QED BY <2>1, <2>2
<1>2. PICK S : S = {a, b}
  OBVIOUS
<1>3. IsFiniteSet(S) /\ S # {} /\ S \subseteq Int
  <2>1. IsFiniteSet({a}) /\ IsFiniteSet({b})
    BY FS_Singleton
  <2>2. S = {a} \cup {b}
    BY <1>2
  <2>3. IsFiniteSet(S)
    BY <2>1, <2>2, FS_Union
  <2> QED BY <1>2, <2>3
<1>4. PICK m \in Nat : m = Max(S)
  <2>1. Max(S) \in S
    BY <1>3, LargestIsThere
  <2> QED BY <1>2, <2>1
<1>5. Min({m, c}) \in {m, c}
  <2>1. \E x \in {m, c} : \A y \in {m, c} : x <= y
    OBVIOUS
  <2> QED BY <2>1 DEF Min
<1> QED BY <1>1, <1>2, <1>4, <1>5

LEMMA JobIs ==
  ASSUME NEW s, s.count \in Nat, NEW mine, NEW weights, NEW seen
  PROVE  Job(s, mine, weights, seen).name = s.name /\ Job(s, mine, weights, seen).limit \in Nat
<1>1. PICK limit \in Nat : limit = Min({Max({s.count * PickFactor, PickMin}), PickMax})
  BY LimitIs
<1>2. \E q, n, a : Job(s, mine, weights, seen) =
        [name |-> s.name, limit |-> limit, query |-> q, byName |-> n, anchors |-> a]
  BY <1>1 DEF Job
<1> QED BY <1>2

LEMMA NewestAre ==
  ASSUME NEW S, S \subseteq Stock
  PROVE  Ordered(S, LAMBDA b : <<-b.year, b.id>>) \in Seq(S)
<1>1. IsFiniteSet(S) /\ \A b \in S : b.year \in Int /\ b.id \in Int
  BY StockAssumption, FS_Subset
<1>2. PICK f : f = [b \in S |-> <<-b.year, b.id>>]
  OBVIOUS
<1>3. PICK m \in Nat : m = 2
  OBVIOUS
<1>4. f \in [S -> [1 .. m -> Int]]
  <2>1. ASSUME NEW b \in S PROVE f[b] \in [1 .. m -> Int]
    <3>1. PICK j \in Int, k \in Int : j = -b.year /\ k = b.id
      BY <1>1
    <3>2. f[b] = <<j, k>>
      BY <1>2, <3>1
    <3> QED BY <1>3, <3>2
  <2> QED BY <1>2, <2>1
<1>5. \A x, y \in S : f[x] = f[y] => x = y
  <2> SUFFICES ASSUME NEW x \in S, NEW y \in S, f[x] = f[y] PROVE x = y
    OBVIOUS
  <2>1. <<-x.year, x.id>> = <<-y.year, y.id>>
    BY <1>2
  <2>2. x.id = y.id
    BY <2>1
  <2> QED BY <2>2, StockAssumption
<1>6. ByKey(WithKeys(f, S)) \in Seq(S)
  BY <1>1, <1>4, <1>5, RowGrows DEF InRow
<1>7. Ordered(S, LAMBDA b : <<-b.year, b.id>>) = ByKey(WithKeys(f, S))
  <2>1. WithKeys(f, S) = {<<<<-b.year, b.id>>, b>> : b \in S}
    BY <1>2 DEF WithKeys
  <2> QED BY <2>1 DEF Ordered
<1> QED BY <1>6, <1>7

\* What is picked for an author is by that author.
LEMMA OfAuthorIs ==
  ASSUME NEW job, job.limit \in Nat
  PROVE  \A b \in ToSet(OfAuthor(job)) : HasAuthor(b, job.name[2])
<1>1. PICK A : A = {b \in Stock : HasAuthor(b, job.name[2])}
  OBVIOUS
<1> DEFINE newest == Take(Ordered(A, LAMBDA b : <<-b.year, b.id>>), job.limit * ReadFactor)
           first == {i \in DOMAIN newest : \A j \in 1 .. i - 1 : newest[j].title # newest[i].title}
           S == {newest[i] : i \in first}
<1>2. newest \in Seq(A)
  <2>1. ReadFactor \in Nat
    BY InterestListAssumption
  <2>2. job.limit * ReadFactor \in Nat
    BY <2>1
  <2>3. Ordered(A, LAMBDA b : <<-b.year, b.id>>) \in Seq(A)
    BY <1>1, NewestAre
  <2> QED BY <2>2, <2>3, TakeIs
<1>3. S \subseteq A
  <2> HIDE DEF newest
  <2> QED BY <1>2
<1>4. OfAuthor(job) = Take(Ordered(S, LAMBDA b : <<-b.year, b.id>>), job.limit)
  BY <1>1 DEF OfAuthor
<1> HIDE DEF S
<1>5. Take(Ordered(S, LAMBDA b : <<-b.year, b.id>>), job.limit) \in Seq(S)
  <2>1. S \subseteq Stock
    BY <1>1, <1>3
  <2>2. Ordered(S, LAMBDA b : <<-b.year, b.id>>) \in Seq(S)
    BY <2>1, NewestAre
  <2> QED BY <2>2, TakeIs
<1>6. PICK r : r = OfAuthor(job)
  OBVIOUS
<1>7. r \in Seq(S)
  BY <1>4, <1>5, <1>6
<1>8. ToSet(r) \subseteq S
  BY <1>7 DEF ToSet
<1> QED BY <1>1, <1>3, <1>6, <1>8
-----------------------------------------------------------------------------
(* Who ran out of time. The jobs wait with the larger ones first, so what  *)
(* was begun has no fewer seats than what still waits.                     *)

BuildFields == {"pc", "seats", "todo", "asked", "picks", "substituted", "late", "missed", "owned",
                "negatives", "conditions", "list", "taste"}

Waiting(seats, todo) ==
  /\ \E T : todo \in Seq(T)
  /\ \A i \in 1 .. Len(todo) : todo[i].name \in Seated(seats) /\ todo[i].limit \in Nat
  /\ \A i, j \in 1 .. Len(todo) : i < j => Count(seats, todo[j].name) <= Count(seats, todo[i].name)

Begun(seats, todo, asked) ==
  /\ \A job \in asked : job.name \in Seated(seats)
  /\ \A x \in Seated(seats) : \/ \E job \in asked : job.name = x
                              \/ \E i \in 1 .. Len(todo) : todo[i].name = x
  /\ \A job \in asked, i \in 1 .. Len(todo) : Count(seats, todo[i].name) <= Count(seats, job.name)

Answered(asked, picks, substituted) ==
  \A job \in asked :
    /\ job.name \in DOMAIN picks
    /\ job.name[1] = "author" /\ job.name \notin substituted =>
         \A b \in ToSet(picks[job.name]) : HasAuthor(b, job.name[2])

Missing(seats, asked, substituted, late, missed) ==
  /\ missed \subseteq substituted /\ (missed # {} => late)
  /\ \A m \in missed : m \in Seated(seats)
  /\ \A m \in missed, job \in asked :
       job.name \notin substituted => Count(seats, m) <= Count(seats, job.name)

Fair(b) ==
  /\ SeatList(b.seats) /\ Waiting(b.seats, b.todo) /\ Begun(b.seats, b.todo, b.asked)
  /\ Answered(b.asked, b.picks, b.substituted)
  /\ Missing(b.seats, b.asked, b.substituted, b.late, b.missed)

LateInv ==
  /\ told \in Seq(Lines) /\ onboarding \in Onboardings /\ IsFiniteSet(history)
  /\ DOMAIN build = BuildFields /\ build.pc \in {"open", "fetching", "done"} /\ build.late \in BOOLEAN
  /\ ~Open => Fair(build)
  /\ Done => build.todo = <<>>

LEMMA LateStarts ==
  ASSUME ListInit
  PROVE  LateInv
<1>1. told \in Seq(Lines) /\ onboarding \in Onboardings /\ IsFiniteSet(history)
  <2>1. <<>> \in Seq(Lines) /\ IsFiniteSet({})
    BY FS_EmptySet
  <2> QED BY <2>1 DEF ListInit
<1>2. DOMAIN build = BuildFields /\ build.pc = "open" /\ build.late = FALSE
  BY DEF ListInit, NoBuild, BuildFields
<1> QED BY <1>1, <1>2 DEF LateInv, Open, Done

LEMMA SayKeepsLate ==
  ASSUME LateInv, NEW line \in Lines, Say(line)
  PROVE  LateInv'
<1>1. told' \in Seq(Lines)
  <2>1. told \in Seq(Lines) /\ told' = Append(told, line)
    BY DEF LateInv, Say
  <2> QED BY <2>1
<1> QED BY <1>1 DEF LateInv, Say, Open, Done, Fair

LEMMA RowKeepsLate ==
  ASSUME LateInv, NEW row, Happens(row)
  PROVE  LateInv'
<1>1. IsFiniteSet(history')
  <2>1. IsFiniteSet(history) /\ history' = history \cup {row}
    BY DEF LateInv, Happens
  <2> QED BY <2>1, FS_AddElement
<1> QED BY <1>1 DEF LateInv, Happens, Open, Done, Fair

-----------------------------------------------------------------------------
(* The list is begun with the seats in order.                              *)

LEMMA StartScores ==
  ASSUME NEW lines \in Seq(Lines), NEW o \in Onboardings, NEW liked, NEW rows, IsFiniteSet(rows),
         NEW named
  PROVE  LET weights == BookWeights(liked, rows)
             mine == MyBooks(weights, named)
         IN Scored(Combined(OnboardingScores(o.categories, o.tags), MemoryScores(Used(lines)),
                            BookScores(mine, weights, named)))
<1>1. PICK weights : weights = BookWeights(liked, rows)
  OBVIOUS
<1>2. PICK mine : mine = MyBooks(weights, named)
  OBVIOUS
<1>3. Points(OnboardingScores(o.categories, o.tags)) /\ Points(MemoryScores(Used(lines)))
  BY OnboardingPoints, UsedIs, MemoryPoints
<1>4. \A b \in DOMAIN weights : weights[b] \in Int
  BY <1>1, BookWeightIsInt
<1>5. PICK S : Weighed(S, weights) /\ mine \in Seq(S)
  BY <1>2, <1>4, MyBooksAre
<1>6. Points(BookScores(mine, weights, named))
  BY <1>5, BookPoints
<1> QED BY <1>1, <1>2, <1>3, <1>6, CombinedScored

\* The jobs wait in the order of their seats, and every seat has one.
LEMMA JobsWait ==
  ASSUME NEW s, SeatList(s), NEW mine, NEW weights, NEW seen
  PROVE  LET jobs == LargestFirst(s)
             todo == [i \in DOMAIN jobs |-> Job(jobs[i], mine, weights, seen)]
         IN Waiting(s, todo) /\ Begun(s, todo, {})
<1>1. PICK jobs : jobs = LargestFirst(s)
  OBVIOUS
<1>2. PICK T : jobs \in Seq(T)
  BY <1>1, LargestFirstIs
<1>3. PICK n \in Nat : n = Len(jobs) /\ DOMAIN jobs = 1 .. n
  BY <1>2
<1>4. /\ \A k \in 1 .. n : \E i \in 1 .. Len(s) : jobs[k] = s[i]
      /\ \A i \in 1 .. Len(s) : \E k \in 1 .. n : jobs[k] = s[i]
      /\ \A i, j \in 1 .. n : i < j => Count(s, jobs[j].name) <= Count(s, jobs[i].name)
  BY <1>1, <1>3, LargestFirstIs
<1>5. DOMAIN s = 1 .. Len(s)
  BY DEF SeatList
<1>6. PICK todo : todo = [i \in 1 .. n |-> Job(jobs[i], mine, weights, seen)]
  OBVIOUS
<1>7. \A k \in 1 .. n : todo[k].name = jobs[k].name /\ todo[k].limit \in Nat
  <2> SUFFICES ASSUME NEW k \in 1 .. n PROVE todo[k].name = jobs[k].name /\ todo[k].limit \in Nat
    OBVIOUS
  <2>1. PICK i \in 1 .. Len(s) : jobs[k] = s[i]
    BY <1>4
  <2>2. jobs[k].count \in Nat
    BY <2>1 DEF SeatList
  <2>3. todo[k] = Job(jobs[k], mine, weights, seen)
    BY <1>6
  <2> QED BY <2>2, <2>3, JobIs
<1>8. PICK U : U = {todo[k] : k \in 1 .. n}
  OBVIOUS
<1>9. todo \in Seq(U) /\ Len(todo) = n
  <2>1. todo = [k \in 1 .. n |-> todo[k]]
    BY <1>6
  <2>2. ToSet(todo) = U
    BY <1>6, <1>8 DEF ToSet
  <2> QED BY <2>1, <2>2, <1>8, OfFunction
<1>10. \A k \in 1 .. n : todo[k].name \in Seated(s)
  <2> SUFFICES ASSUME NEW k \in 1 .. n PROVE todo[k].name \in Seated(s)
    OBVIOUS
  <2>1. PICK i \in 1 .. Len(s) : jobs[k] = s[i]
    BY <1>4
  <2>2. todo[k].name = s[i].name
    BY <1>7, <2>1
  <2> QED BY <1>5, <2>2 DEF Seated
<1>11. Waiting(s, todo)
  BY <1>4, <1>7, <1>9, <1>10 DEF Waiting
<1>12. \A x \in Seated(s) : \E k \in 1 .. n : todo[k].name = x
  <2> SUFFICES ASSUME NEW x \in Seated(s) PROVE \E k \in 1 .. n : todo[k].name = x
    OBVIOUS
  <2>1. PICK i \in 1 .. Len(s) : x = s[i].name
    BY <1>5 DEF Seated
  <2>2. PICK k \in 1 .. n : jobs[k] = s[i]
    BY <1>4
  <2> QED BY <1>7, <2>1, <2>2
<1>13. Begun(s, todo, {})
  BY <1>9, <1>12 DEF Begun
<1> QED BY <1>1, <1>3, <1>6, <1>11, <1>13

LEMMA StartKeepsLate ==
  ASSUME LateInv, Start
  PROVE  LateInv'
<1> DEFINE liked == LikedOf(onboarding.isbns, onboarding.ids)
           weights == BookWeights(liked, history)
           mine == MyBooks(weights, Named)
           lines == Used(told)
           seen == [b \in {o.id : o \in Stock} |->
                      Min({NoPrice} \cup {r.at : r \in {h \in history : h.book = b}})]
           scores == Combined(OnboardingScores(onboarding.categories, onboarding.tags),
                              MemoryScores(lines), BookScores(mine, weights, Named))
           seats == Allocate(scores)
           jobs == LargestFirst(seats)
           todo == [i \in DOMAIN jobs |-> Job(jobs[i], mine, weights, seen)]
           owned == Reviewed(history)
           negatives == {p[1] : p \in {q \in ToSet(scores) : q[2] < 0}}
           conditions == ConditionsOf(lines)
           taste == [likes |-> ToSet(LivingLikes(lines)),
                     tags |-> TagWeights(onboarding.tags, onboarding.categories, history),
                     cold |-> ColdStart(lines, weights,
                                        ToSet(onboarding.categories \o onboarding.tags),
                                        vectors # "none")]
<1>8. build' = [NoBuild EXCEPT !.pc = "fetching", !.seats = seats, !.todo = todo, !.owned = owned,
                  !.negatives = negatives, !.conditions = conditions, !.taste = taste]
  BY Zenon DEF Start
<1>2. SeatList(seats)
  <2>1. Scored(scores)
    BY StartScores, Zenon DEF LateInv
  <2> HIDE DEF scores
  <2> QED BY <2>1, AllocateIs
<1>3. Waiting(seats, todo) /\ Begun(seats, todo, {})
  <2> HIDE DEF seats, mine, weights, seen
  <2> QED BY <1>2, JobsWait, Zenon
<1> HIDE DEF seats, todo, owned, negatives, conditions, taste
<1>9. /\ DOMAIN build' = BuildFields /\ build'.pc = "fetching" /\ build'.seats = seats
      /\ build'.todo = todo /\ build'.asked = {} /\ build'.substituted = {} /\ build'.late = FALSE
      /\ build'.missed = {}
  BY <1>8 DEF NoBuild, BuildFields
<1>10. UNCHANGED <<told, onboarding, history>>
  BY DEF Start
<1>13. Fair(build')
  BY <1>2, <1>3, <1>9 DEF Fair, Answered, Missing
<1>14. Fair(build)'
  BY <1>13
<1>15. (told \in Seq(Lines) /\ onboarding \in Onboardings /\ IsFiniteSet(history))'
  BY <1>10 DEF LateInv
<1> QED BY <1>9, <1>14, <1>15 DEF LateInv, Open, Done

-----------------------------------------------------------------------------
(* One interest after the other is looked up.                              *)

LEMMA NextWaits ==
  ASSUME NEW seats, NEW todo, Waiting(seats, todo), todo # <<>>
  PROVE  /\ todo[1].name \in Seated(seats) /\ todo[1].limit \in Nat
         /\ Waiting(seats, Tail(todo)) /\ Len(Tail(todo)) = Len(todo) - 1
         /\ \A i \in 1 .. Len(Tail(todo)) :
              /\ Tail(todo)[i] = todo[i + 1]
              /\ Count(seats, todo[i + 1].name) <= Count(seats, todo[1].name)
<1>1. PICK T : todo \in Seq(T)
  BY DEF Waiting
<1>2. PICK n \in Nat \ {0} : n = Len(todo)
  BY <1>1
<1>3. PICK rest : rest = Tail(todo)
  OBVIOUS
<1>4. rest \in Seq(T) /\ Len(rest) = n - 1 /\ \A i \in 1 .. n - 1 : rest[i] = todo[i + 1]
  BY <1>1, <1>2, <1>3, HeadTailProperties
<1>5. 1 \in 1 .. n /\ \A i \in 1 .. n - 1 : i + 1 \in 1 .. n /\ 1 < i + 1
  BY <1>2
<1>6. \A i \in 1 .. n - 1 : /\ rest[i].name \in Seated(seats) /\ rest[i].limit \in Nat
                            /\ Count(seats, todo[i + 1].name) <= Count(seats, todo[1].name)
  BY <1>2, <1>4, <1>5 DEF Waiting
<1>7. ASSUME NEW i \in 1 .. n - 1, NEW j \in 1 .. n - 1, i < j
      PROVE  Count(seats, rest[j].name) <= Count(seats, rest[i].name)
  <2>1. i + 1 \in 1 .. n /\ j + 1 \in 1 .. n /\ i + 1 < j + 1
    BY <1>2, <1>7
  <2>2. Count(seats, todo[j + 1].name) <= Count(seats, todo[i + 1].name)
    BY <1>2, <2>1 DEF Waiting
  <2> QED BY <1>4, <2>2
<1>8. Waiting(seats, rest)
  BY <1>4, <1>6, <1>7 DEF Waiting
<1>9. todo[1].name \in Seated(seats) /\ todo[1].limit \in Nat
  BY <1>2, <1>5 DEF Waiting
<1> QED BY <1>2, <1>3, <1>4, <1>6, <1>8, <1>9

\* Whatever the answer is: an interest that ran out of time has a stand-in, and only in time is
\* one answered without.
LEMMA FetchedKeepsLate ==
  ASSUME LateInv, Fetching, NEW books, NEW substituted, NEW late \in BOOLEAN, NEW missed,
         Fetched(books, substituted, late, missed), UNCHANGED <<told, onboarding, history>>,
         substituted \subseteq {build.todo[1].name}, missed \subseteq substituted,
         missed # {} => late, build.late => late, substituted = {} => ~build.late,
         substituted = {} /\ build.todo[1].name[1] = "author" =>
           \A b \in ToSet(books) : HasAuthor(b, build.todo[1].name[2])
  PROVE  LateInv'
<1>1. PICK job : job = build.todo[1]
  OBVIOUS
<1>2. PICK seats, todo, asked, picks, subs, misses :
        /\ seats = build.seats /\ todo = build.todo /\ asked = build.asked
        /\ picks = build.picks /\ subs = build.substituted /\ misses = build.missed
  OBVIOUS
<1>3. /\ SeatList(seats) /\ Waiting(seats, todo) /\ Begun(seats, todo, asked)
      /\ Answered(asked, picks, subs) /\ Missing(seats, asked, subs, build.late, misses)
  BY <1>2 DEF LateInv, Fetching, Open, Fair
<1>4. PICK found : found = [x \in DOMAIN picks \cup {job.name} |->
                              IF x = job.name THEN books ELSE picks[x]]
  OBVIOUS
<1>5. PICK rest : rest = Tail(todo)
  OBVIOUS
<1>6. build' = [build EXCEPT !.todo = rest, !.asked = asked \cup {job}, !.picks = found,
                  !.substituted = subs \cup substituted, !.late = late, !.missed = misses \cup missed]
  BY <1>1, <1>2, <1>4, <1>5, Zenon DEF Fetched
<1>7. /\ DOMAIN build' = BuildFields /\ build'.pc = "fetching" /\ build'.seats = seats
      /\ build'.todo = rest /\ build'.asked = asked \cup {job} /\ build'.picks = found
      /\ build'.substituted = subs \cup substituted /\ build'.late = late
      /\ build'.missed = misses \cup missed
  BY <1>2, <1>6 DEF LateInv, Fetching, BuildFields
<1>8. PICK n \in Nat : n = Len(rest)
  <2>1. Waiting(seats, rest)
    BY <1>2, <1>3, <1>5, NextWaits DEF Fetching
  <2> QED BY <2>1 DEF Waiting
<1>9. /\ job.name \in Seated(seats) /\ Waiting(seats, rest) /\ Len(todo) = n + 1
      /\ \A i \in 1 .. n : /\ rest[i] = todo[i + 1]
                           /\ Count(seats, todo[i + 1].name) <= Count(seats, job.name)
  <2>1. todo # <<>>
    BY <1>2 DEF Fetching
  <2>2. Len(todo) \in Nat
    BY <1>3 DEF Waiting
  <2>3. /\ todo[1].name \in Seated(seats) /\ Waiting(seats, rest) /\ n = Len(todo) - 1
        /\ \A i \in 1 .. n : /\ rest[i] = todo[i + 1]
                             /\ Count(seats, todo[i + 1].name) <= Count(seats, todo[1].name)
    BY <1>3, <1>5, <1>8, <2>1, NextWaits
  <2> QED BY <1>1, <1>2, <2>2, <2>3
<1>10. Begun(seats, rest, asked \cup {job})
  <2>1. ASSUME NEW x \in Seated(seats)
        PROVE  \/ \E j \in asked \cup {job} : j.name = x
               \/ \E i \in 1 .. n : rest[i].name = x
    <3>1. CASE \E j \in asked : j.name = x
      BY <3>1
    <3>2. CASE \E i \in 1 .. n + 1 : todo[i].name = x
      <4>1. PICK i \in 1 .. n + 1 : todo[i].name = x
        BY <3>2
      <4>2. CASE i = 1
        BY <1>1, <1>2, <4>1, <4>2
      <4>3. CASE i # 1
        <5>1. PICK k \in 1 .. n : i = k + 1
          <6>1. i - 1 \in 1 .. n /\ i = (i - 1) + 1
            BY <4>3
          <6> QED BY <6>1
        <5> QED BY <1>9, <4>1, <5>1
      <4> QED BY <4>2, <4>3
    <3> QED BY <1>3, <1>9, <3>1, <3>2 DEF Begun
  <2>2. ASSUME NEW j \in asked \cup {job}, NEW i \in 1 .. n
        PROVE  Count(seats, rest[i].name) <= Count(seats, j.name)
    <3>1. CASE j \in asked
      <4>1. i + 1 \in 1 .. Len(todo)
        BY <1>9
      <4> QED BY <1>3, <1>9, <3>1, <4>1 DEF Begun
    <3>2. CASE j = job
      BY <1>9, <3>2
    <3> QED BY <3>1, <3>2
  <2>3. \A j \in asked \cup {job} : j.name \in Seated(seats)
    BY <1>3, <1>9 DEF Begun
  <2> QED BY <1>8, <2>1, <2>2, <2>3 DEF Begun
<1>11. Answered(asked \cup {job}, found, subs \cup substituted)
  <2>1. ASSUME NEW j \in asked \cup {job} PROVE j.name \in DOMAIN found
    BY <1>3, <1>4 DEF Answered
  <2>2. ASSUME NEW j \in asked \cup {job}, j.name[1] = "author", j.name \notin subs \cup substituted
        PROVE  \A b \in ToSet(found[j.name]) : HasAuthor(b, j.name[2])
    <3>1. CASE j.name = job.name
      <4>1. substituted = {}
        BY <1>1, <2>2, <3>1
      <4>2. found[j.name] = books
        BY <1>4, <3>1
      <4> QED BY <1>1, <2>2, <3>1, <4>1, <4>2
    <3>2. CASE j.name # job.name
      <4>1. j \in asked /\ j.name \in DOMAIN picks
        BY <1>3, <2>2, <3>2 DEF Answered
      <4>2. found[j.name] = picks[j.name]
        BY <1>4, <3>2, <4>1
      <4>3. \A b \in ToSet(picks[j.name]) : HasAuthor(b, j.name[2])
        BY <1>3, <2>2, <4>1 DEF Answered
      <4> QED BY <4>2, <4>3
    <3> QED BY <3>1, <3>2
  <2> QED BY <2>1, <2>2 DEF Answered
<1>12. Missing(seats, asked \cup {job}, subs \cup substituted, late, misses \cup missed)
  <2>1. ASSUME NEW m \in misses \cup missed, NEW j \in asked \cup {job},
               j.name \notin subs \cup substituted
        PROVE  Count(seats, m) <= Count(seats, j.name)
    <3>1. CASE j \in asked /\ m \in misses
      BY <1>3, <2>1, <3>1 DEF Missing
    <3>2. CASE j \in asked /\ m \in missed
      <4>1. m = job.name /\ 1 \in 1 .. Len(todo)
        BY <1>1, <1>9, <3>2
      <4> QED BY <1>1, <1>2, <1>3, <3>2, <4>1 DEF Begun
    <3>3. CASE j = job
      <4>1. substituted = {} /\ misses # {} => FALSE
        BY <1>3 DEF Missing
      <4>2. substituted = {} /\ missed = {}
        BY <1>1, <2>1, <3>3
      <4> QED BY <2>1, <4>1, <4>2
    <3> QED BY <2>1, <3>1, <3>2, <3>3
  <2>2. misses \cup missed \subseteq subs \cup substituted /\ (misses \cup missed # {} => late)
    BY <1>3 DEF Missing
  <2>3. \A m \in misses \cup missed : m \in Seated(seats)
    BY <1>1, <1>3, <1>9 DEF Missing
  <2> QED BY <2>1, <2>2, <2>3 DEF Missing
<1>13. Fair(build')
  BY <1>3, <1>7, <1>9, <1>10, <1>11, <1>12 DEF Fair
<1>14. Fair(build)'
  BY <1>13
<1>15. (told \in Seq(Lines) /\ onboarding \in Onboardings /\ IsFiniteSet(history))'
  BY DEF LateInv
<1> QED BY <1>7, <1>14, <1>15 DEF LateInv, Open, Done

LEMMA AnsweredKeepsLate ==
  ASSUME LateInv, Fetching, ~build.late, UNCHANGED <<told, onboarding, history>>,
         NEW books, NEW late, late \in BOOLEAN, Fetched(books, {}, late, {}),
         build.todo[1].name[1] = "author" => books = OfAuthor(build.todo[1])
  PROVE  LateInv'
<1>1. PICK job : job = build.todo[1]
  OBVIOUS
<1>2. job.limit \in Nat
  <2>1. Waiting(build.seats, build.todo) /\ build.todo # <<>>
    BY DEF LateInv, Fetching, Open, Fair
  <2> QED BY <1>1, <2>1, NextWaits
<1>3. job.name[1] = "author" => \A b \in ToSet(books) : HasAuthor(b, job.name[2])
  BY <1>1, <1>2, OfAuthorIs
<1> QED BY <1>1, <1>3, FetchedKeepsLate

LEMMA InTimeKeepsLate ==
  ASSUME LateInv, FetchInTime
  PROVE  LateInv'
<1>1. Fetching /\ ~build.late /\ UNCHANGED <<told, onboarding, history>>
  BY DEF FetchInTime
<1> DEFINE job == build.todo[1]
<1>2. FALSE \in BOOLEAN /\ \A t \in BOOLEAN : (~t) \in BOOLEAN
  OBVIOUS
<1>3. CASE job.name[1] = "author" /\ Fetched(OfAuthor(job), {}, FALSE, {})
  BY <1>1, <1>2, <1>3, AnsweredKeepsLate, Zenon
<1>4. CASE /\ job.name[1] = "keyword"
           /\ \E titles \in BOOLEAN :
                IF TooFew(job) THEN Fetched(OfKeyword(job, titles), {}, ~titles, {})
                ELSE Fetched(OfKeyword(job, FALSE), {}, FALSE, {})
  <2>1. job.name[1] # "author"
    BY <1>4
  <2>2. PICK titles \in BOOLEAN : IF TooFew(job) THEN Fetched(OfKeyword(job, titles), {}, ~titles, {})
                                  ELSE Fetched(OfKeyword(job, FALSE), {}, FALSE, {})
    BY <1>4
  <2>3. \/ Fetched(OfKeyword(job, titles), {}, ~titles, {})
        \/ Fetched(OfKeyword(job, FALSE), {}, FALSE, {})
    BY <2>2, Zenon
  <2> QED BY <1>1, <1>2, <2>1, <2>3, AnsweredKeepsLate, Zenon
<1>5. CASE job.name[1] = "named" /\ Fetched(NumberedFirst(job.name, Nearest(job)), {}, FALSE, {})
  <2>1. job.name[1] # "author"
    BY <1>5
  <2> QED BY <1>1, <1>2, <1>5, <2>1, AnsweredKeepsLate, Zenon
<1> QED BY <1>3, <1>4, <1>5, Zenon DEF FetchInTime

LEMMA OthersKeepLate ==
  ASSUME LateInv, FetchOthers
  PROVE  LateInv'
<1>1. PICK job : job = build.todo[1]
  OBVIOUS
<1>2. PICK nothing \in BOOLEAN : nothing = (job.name[1] = "named" /\ job.query = NoQuery)
  OBVIOUS
<1>3. Fetching /\ UNCHANGED <<told, onboarding, history>>
  BY DEF FetchOthers
<1>4. \E books \in Substituted(job) :
        Fetched(books, {job.name}, build.late \/ ~nothing, IF nothing THEN {} ELSE {job.name})
  BY <1>1, <1>2, Zenon DEF FetchOthers
<1>5. PICK books :
        Fetched(books, {job.name}, build.late \/ ~nothing, IF nothing THEN {} ELSE {job.name})
  BY <1>4
<1>6. PICK late \in BOOLEAN : late = (build.late \/ ~nothing)
  BY DEF LateInv
<1>7. PICK missed : missed = IF nothing THEN {} ELSE {job.name}
  OBVIOUS
<1>8. Fetched(books, {job.name}, late, missed)
  BY <1>5, <1>6, <1>7
<1>9. missed \subseteq {job.name} /\ (missed # {} => late) /\ (build.late => late)
  BY <1>6, <1>7
<1> QED BY <1>1, <1>3, <1>8, <1>9, FetchedKeepsLate

LEMMA FinishKeepsLate ==
  ASSUME LateInv, Finish
  PROVE  LateInv'
<1>1. PICK list : list = Assemble(build)
  OBVIOUS
<1>2. build' = [build EXCEPT !.pc = "done", !.list = list]
  BY <1>1 DEF Finish
<1>3. /\ DOMAIN build' = BuildFields /\ build'.pc = "done" /\ build'.seats = build.seats
      /\ build'.todo = build.todo /\ build'.asked = build.asked /\ build'.picks = build.picks
      /\ build'.substituted = build.substituted /\ build'.late = build.late
      /\ build'.missed = build.missed
  BY <1>2 DEF LateInv, BuildFields
<1>4. Fair(build)
  BY DEF LateInv, Finish, Open
<1>5. Fair(build')
  BY <1>3, <1>4 DEF Fair
<1>6. Fair(build)'
  BY <1>5
<1>7. (told \in Seq(Lines) /\ onboarding \in Onboardings /\ IsFiniteSet(history))'
  BY DEF LateInv, Finish
<1>8. build'.todo = <<>> /\ build'.late \in BOOLEAN
  BY <1>3 DEF Finish, LateInv
<1> QED BY <1>3, <1>6, <1>7, <1>8 DEF LateInv, Open, Done

LEMMA LateGoesOn ==
  ASSUME LateInv, [ListNext]_listVars
  PROVE  LateInv'
<1>1. ASSUME NEW line \in Lines, Say(line) PROVE LateInv'
  BY <1>1, SayKeepsLate
<1>2. ASSUME NEW row \in Events, Happens(row) PROVE LateInv'
  BY <1>2, RowKeepsLate
<1>3. CASE Start
  BY <1>3, StartKeepsLate
<1>4. CASE FetchInTime
  BY <1>4, InTimeKeepsLate
<1>5. CASE FetchOthers
  BY <1>5, OthersKeepLate
<1>6. CASE Finish
  BY <1>6, FinishKeepsLate
<1>7. CASE UNCHANGED listVars
  BY <1>7 DEF LateInv, listVars, Open, Done, Fair
<1> QED BY <1>1, <1>2, <1>3, <1>4, <1>5, <1>6, <1>7 DEF ListNext

\* While a list is made, what waits has no more seats than what was begun, what was answered
\* without a stand-in was answered in time, and what ran out of time has a stand-in
\* (interest_fetch.py, jobs in the order of their seats).
THEOREM LateHolds == ListSpec => []LateInv
<1>1. ListInit => LateInv
  BY LateStarts
<1>2. LateInv /\ [ListNext]_listVars => LateInv'
  BY LateGoesOn
<1> QED BY <1>1, <1>2, PTL DEF ListSpec

\* Whatever the user said, picked and bought, and however long each query takes: an interest
\* that ran out of time has no more seats than any that was looked up, it is marked for the
\* nightly rebuild, and what was looked up for an author is by that author
\* (interest_fetch.py:3-6, interest_feed.py:53).
THEOREM LatecomersAreSmall == ListSpec => []LatecomersSmall
<1>1. LateInv => LatecomersSmall
  <2> SUFFICES ASSUME LateInv, Done PROVE LatecomersSmall
    BY DEF LatecomersSmall
  <2> DEFINE own == Seated(build.seats) \ build.substituted
  <2>1. /\ Begun(build.seats, build.todo, build.asked)
        /\ Answered(build.asked, build.picks, build.substituted)
        /\ Missing(build.seats, build.asked, build.substituted, build.late, build.missed)
    BY DEF LateInv, Done, Open, Fair
  <2>2. build.todo = <<>>
    BY DEF LateInv
  <2>3. ASSUME NEW x \in own PROVE \E job \in build.asked : job.name = x
    <3>1. Len(build.todo) = 0
      BY <2>2
    <3> QED BY <2>1, <3>1 DEF Begun
  <2>4. ASSUME NEW late \in build.missed, NEW x \in own
        PROVE  Count(build.seats, late) <= Count(build.seats, x)
    BY <2>1, <2>3 DEF Missing
  <2>5. ASSUME NEW x \in own, NEW b \in ToSet(build.picks[x]), x[1] = "author"
        PROVE  HasAuthor(b, x[2])
    <3>1. PICK job \in build.asked : job.name = x
      BY <2>3
    <3> QED BY <2>1, <2>5, <3>1 DEF Answered
  <2>6. build.missed \subseteq build.substituted
    BY <2>1 DEF Missing
  <2> QED BY <2>4, <2>5, <2>6 DEF LatecomersSmall
<1> QED BY <1>1, LateHolds, PTL

-----------------------------------------------------------------------------
(* Lists built step by step: each has its steps.                           *)

BlockTo(items, m, g) ==
  g = [n \in 0 .. m |-> IF n = 0 THEN [placed |-> <<>>, pending |-> <<>>] ELSE PlaceOrPutOff(g[n - 1], items[n])]

BlockSoFar(items, m, g) ==
  g[0] = [placed |-> <<>>, pending |-> <<>>] /\ \A n \in Nat : n + 1 <= m => g[n + 1] = PlaceOrPutOff(g[n], items[n + 1])

LEMMA BlockStep ==
  ASSUME NEW items, NEW m \in Nat, NEW g, BlockTo(items, m, g)
  PROVE  BlockSoFar(items, m, g)
<1>1. \A n \in 0 .. m : g[n] = IF n = 0 THEN [placed |-> <<>>, pending |-> <<>>] ELSE PlaceOrPutOff(g[n - 1], items[n])
  BY DEF BlockTo
<1>2. g[0] = [placed |-> <<>>, pending |-> <<>>]
  <2>1. 0 \in 0 .. m
    OBVIOUS
  <2> QED BY <1>1, <2>1, Zenon
<1>3. ASSUME NEW n \in Nat, n + 1 <= m
      PROVE  g[n + 1] = PlaceOrPutOff(g[n], items[n + 1])
  <2>1. PICK i \in 0 .. m : i = n + 1 /\ i # 0 /\ i - 1 = n
    BY <1>3
  <2>2. g[i] = IF i = 0 THEN [placed |-> <<>>, pending |-> <<>>] ELSE PlaceOrPutOff(g[i - 1], items[i])
    BY <1>1
  <2> QED BY <2>1, <2>2, Zenon
<1> QED BY <1>2, <1>3 DEF BlockSoFar

LEMMA BlockExists ==
  ASSUME NEW items, NEW m \in Nat
  PROVE  \E g : BlockTo(items, m, g)
<1> DEFINE M == {n \in Nat : \E g : BlockTo(items, n, g)}
<1>1. 0 \in M
  <2>1. BlockTo(items, 0, [n \in 0 .. 0 |-> [placed |-> <<>>, pending |-> <<>>]])
    BY DEF BlockTo
  <2> QED BY <2>1
<1>2. ASSUME NEW n \in Nat, n \in M
      PROVE  n + 1 \in M
  <2>1. PICK g : BlockTo(items, n, g)
    BY <1>2
  <2> DEFINE f == [i \in 0 .. n + 1 |-> IF i <= n THEN g[i] ELSE PlaceOrPutOff(g[n], items[i])]
  <2>2. \A i \in 0 .. n : g[i] = IF i = 0 THEN [placed |-> <<>>, pending |-> <<>>] ELSE PlaceOrPutOff(g[i - 1], items[i])
    BY <2>1 DEF BlockTo
  <2>3. \A i \in 0 .. n + 1 : f[i] = IF i = 0 THEN [placed |-> <<>>, pending |-> <<>>] ELSE PlaceOrPutOff(f[i - 1], items[i])
    BY <2>2
  <2>4. f = [i \in 0 .. n + 1 |-> IF i = 0 THEN [placed |-> <<>>, pending |-> <<>>] ELSE PlaceOrPutOff(f[i - 1], items[i])]
    BY <2>3
  <2>5. BlockTo(items, n + 1, f)
    BY <2>4 DEF BlockTo
  <2> QED BY <2>5
<1>3. Nat \subseteq M
  BY <1>1, <1>2, EveryNumber
<1> QED BY <1>3

LEMMA BlockIsLast ==
  ASSUME NEW items, Len(items) \in Nat
  PROVE  \E g : BlockSoFar(items, Len(items), g) /\ Block(items) = g[Len(items)]
<1>1. \E g : BlockTo(items, Len(items), g)
  BY BlockExists
<1> DEFINE c == CHOOSE g : g = [n \in 0 .. Len(items) |-> IF n = 0 THEN [placed |-> <<>>, pending |-> <<>>] ELSE PlaceOrPutOff(g[n - 1], items[n])]
<1>2. BlockTo(items, Len(items), c)
  BY <1>1 DEF BlockTo
<1>3. Block(items) = c[Len(items)]
  BY DEF Block
<1>4. BlockSoFar(items, Len(items), c)
  <2> HIDE DEF c
  <2> QED BY <1>2, BlockStep
<1> QED BY <1>3, <1>4

CapTo(items, m, g) ==
  g = [n \in 0 .. m |-> IF n = 0 THEN [placed |-> <<>>, pending |-> items] ELSE NextBlock(g[n - 1])]

CapSoFar(items, m, g) ==
  g[0] = [placed |-> <<>>, pending |-> items] /\ \A n \in Nat : n + 1 <= m => g[n + 1] = NextBlock(g[n])

LEMMA CapStep ==
  ASSUME NEW items, NEW m \in Nat, NEW g, CapTo(items, m, g)
  PROVE  CapSoFar(items, m, g)
<1>1. \A n \in 0 .. m : g[n] = IF n = 0 THEN [placed |-> <<>>, pending |-> items] ELSE NextBlock(g[n - 1])
  BY DEF CapTo
<1>2. g[0] = [placed |-> <<>>, pending |-> items]
  <2>1. 0 \in 0 .. m
    OBVIOUS
  <2> QED BY <1>1, <2>1, Zenon
<1>3. ASSUME NEW n \in Nat, n + 1 <= m
      PROVE  g[n + 1] = NextBlock(g[n])
  <2>1. PICK i \in 0 .. m : i = n + 1 /\ i # 0 /\ i - 1 = n
    BY <1>3
  <2>2. g[i] = IF i = 0 THEN [placed |-> <<>>, pending |-> items] ELSE NextBlock(g[i - 1])
    BY <1>1
  <2> QED BY <2>1, <2>2, Zenon
<1> QED BY <1>2, <1>3 DEF CapSoFar

LEMMA CapExists ==
  ASSUME NEW items, NEW m \in Nat
  PROVE  \E g : CapTo(items, m, g)
<1> DEFINE M == {n \in Nat : \E g : CapTo(items, n, g)}
<1>1. 0 \in M
  <2>1. CapTo(items, 0, [n \in 0 .. 0 |-> [placed |-> <<>>, pending |-> items]])
    BY DEF CapTo
  <2> QED BY <2>1
<1>2. ASSUME NEW n \in Nat, n \in M
      PROVE  n + 1 \in M
  <2>1. PICK g : CapTo(items, n, g)
    BY <1>2
  <2> DEFINE f == [i \in 0 .. n + 1 |-> IF i <= n THEN g[i] ELSE NextBlock(g[n])]
  <2>2. \A i \in 0 .. n : g[i] = IF i = 0 THEN [placed |-> <<>>, pending |-> items] ELSE NextBlock(g[i - 1])
    BY <2>1 DEF CapTo
  <2>3. \A i \in 0 .. n + 1 : f[i] = IF i = 0 THEN [placed |-> <<>>, pending |-> items] ELSE NextBlock(f[i - 1])
    BY <2>2
  <2>4. f = [i \in 0 .. n + 1 |-> IF i = 0 THEN [placed |-> <<>>, pending |-> items] ELSE NextBlock(f[i - 1])]
    BY <2>3
  <2>5. CapTo(items, n + 1, f)
    BY <2>4 DEF CapTo
  <2> QED BY <2>5
<1>3. Nat \subseteq M
  BY <1>1, <1>2, EveryNumber
<1> QED BY <1>3

LEMMA CapIsLast ==
  ASSUME NEW items, Len(items) \in Nat
  PROVE  \E g : CapSoFar(items, Len(items), g) /\ CapAuthors(items) = g[Len(items)].placed
<1>1. \E g : CapTo(items, Len(items), g)
  BY CapExists
<1> DEFINE c == CHOOSE g : g = [n \in 0 .. Len(items) |-> IF n = 0 THEN [placed |-> <<>>, pending |-> items] ELSE NextBlock(g[n - 1])]
<1>2. CapTo(items, Len(items), c)
  BY <1>1 DEF CapTo
<1>3. CapAuthors(items) = c[Len(items)].placed
  BY DEF CapAuthors
<1>4. CapSoFar(items, Len(items), c)
  <2> HIDE DEF c
  <2> QED BY <1>2, CapStep
<1> QED BY <1>3, <1>4

TurnsTo(lists, seats, m, g) ==
  g = [n \in 0 .. m |-> IF n = 0 THEN <<>> ELSE NextTurn(lists, seats, g[n - 1])]

TurnsSoFar(lists, seats, m, g) ==
  g[0] = <<>> /\ \A n \in Nat : n + 1 <= m => g[n + 1] = NextTurn(lists, seats, g[n])

LEMMA TurnsStep ==
  ASSUME NEW lists, NEW seats, NEW m \in Nat, NEW g, TurnsTo(lists, seats, m, g)
  PROVE  TurnsSoFar(lists, seats, m, g)
<1>1. \A n \in 0 .. m : g[n] = IF n = 0 THEN <<>> ELSE NextTurn(lists, seats, g[n - 1])
  BY DEF TurnsTo
<1>2. g[0] = <<>>
  <2>1. 0 \in 0 .. m
    OBVIOUS
  <2> QED BY <1>1, <2>1, Zenon
<1>3. ASSUME NEW n \in Nat, n + 1 <= m
      PROVE  g[n + 1] = NextTurn(lists, seats, g[n])
  <2>1. PICK i \in 0 .. m : i = n + 1 /\ i # 0 /\ i - 1 = n
    BY <1>3
  <2>2. g[i] = IF i = 0 THEN <<>> ELSE NextTurn(lists, seats, g[i - 1])
    BY <1>1
  <2> QED BY <2>1, <2>2, Zenon
<1> QED BY <1>2, <1>3 DEF TurnsSoFar

LEMMA TurnsExist ==
  ASSUME NEW lists, NEW seats, NEW m \in Nat
  PROVE  \E g : TurnsTo(lists, seats, m, g)
<1> DEFINE M == {n \in Nat : \E g : TurnsTo(lists, seats, n, g)}
<1>1. 0 \in M
  <2>1. TurnsTo(lists, seats, 0, [n \in 0 .. 0 |-> <<>>])
    BY DEF TurnsTo
  <2> QED BY <2>1
<1>2. ASSUME NEW n \in Nat, n \in M
      PROVE  n + 1 \in M
  <2>1. PICK g : TurnsTo(lists, seats, n, g)
    BY <1>2
  <2> DEFINE f == [i \in 0 .. n + 1 |-> IF i <= n THEN g[i] ELSE NextTurn(lists, seats, g[n])]
  <2>2. \A i \in 0 .. n : g[i] = IF i = 0 THEN <<>> ELSE NextTurn(lists, seats, g[i - 1])
    BY <2>1 DEF TurnsTo
  <2>3. \A i \in 0 .. n + 1 : f[i] = IF i = 0 THEN <<>> ELSE NextTurn(lists, seats, f[i - 1])
    BY <2>2
  <2>4. f = [i \in 0 .. n + 1 |-> IF i = 0 THEN <<>> ELSE NextTurn(lists, seats, f[i - 1])]
    BY <2>3
  <2>5. TurnsTo(lists, seats, n + 1, f)
    BY <2>4 DEF TurnsTo
  <2> QED BY <2>5
<1>3. Nat \subseteq M
  BY <1>1, <1>2, EveryNumber
<1> QED BY <1>3

LEMMA TurnsAreLast ==
  ASSUME NEW lists, NEW seats
  PROVE  \E g : TurnsSoFar(lists, seats, Total, g) /\ TakeTurns(lists, seats) = g[Total]
<1>1. \E g : TurnsTo(lists, seats, Total, g)
  BY TurnsExist, InterestListAssumption
<1> DEFINE c == CHOOSE g : g = [n \in 0 .. Total |-> IF n = 0 THEN <<>> ELSE NextTurn(lists, seats, g[n - 1])]
<1>2. TurnsTo(lists, seats, Total, c)
  BY <1>1 DEF TurnsTo
<1>3. TakeTurns(lists, seats) = c[Total]
  BY DEF TakeTurns
<1>4. TurnsSoFar(lists, seats, Total, c)
  <2> HIDE DEF c
  <2> QED BY <1>2, TurnsStep, InterestListAssumption
<1> QED BY <1>3, <1>4

-----------------------------------------------------------------------------
(* Lists in which everything comes once.                                   *)

Once(s) == \A i, j \in 1 .. Len(s) : s[i] = s[j] => i = j

LEMMA SetOf ==
  ASSUME NEW T, NEW s \in Seq(T)
  PROVE  /\ ToSet(s) \subseteq T
         /\ \A i \in 1 .. Len(s) : s[i] \in ToSet(s)
         /\ \A x \in ToSet(s) : \E i \in 1 .. Len(s) : s[i] = x
<1>1. DOMAIN s = 1 .. Len(s)
  OBVIOUS
<1> QED BY <1>1 DEF ToSet

LEMMA OneMore ==
  ASSUME NEW T, NEW s \in Seq(T), NEW x \in T
  PROVE  /\ Append(s, x) \in Seq(T) /\ Len(Append(s, x)) = Len(s) + 1
         /\ \A i \in 1 .. Len(s) : Append(s, x)[i] = s[i]
         /\ Append(s, x)[Len(s) + 1] = x
         /\ ToSet(Append(s, x)) = ToSet(s) \cup {x}
         /\ Once(s) /\ x \notin ToSet(s) => Once(Append(s, x))
<1>1. PICK r \in Seq(T) : r = Append(s, x)
  BY AppendProperties
<1>2. PICK n \in Nat : n = Len(s) /\ Len(r) = n + 1
  BY <1>1
<1>3. (\A i \in 1 .. n : r[i] = s[i]) /\ r[n + 1] = x
  BY <1>1, <1>2
<1>4. \A i \in 1 .. n + 1 : i \in 1 .. n \/ i = n + 1
  OBVIOUS
<1>5. n + 1 \in 1 .. n + 1 /\ \A i \in 1 .. n : i \in 1 .. n + 1
  OBVIOUS
<1>6. ToSet(r) = ToSet(s) \cup {x}
  <2>1. ASSUME NEW y \in ToSet(r) PROVE y \in ToSet(s) \cup {x}
    <3>1. PICK i \in 1 .. n + 1 : r[i] = y
      BY <1>2, <2>1, SetOf
    <3>2. i \in 1 .. n => y \in ToSet(s)
      BY <1>2, <1>3, <3>1, SetOf
    <3> QED BY <1>3, <1>4, <3>1, <3>2
  <2>2. ASSUME NEW y \in ToSet(s) PROVE y \in ToSet(r)
    <3>1. PICK i \in 1 .. n : s[i] = y
      BY <1>2, <2>2, SetOf
    <3> QED BY <1>2, <1>3, <1>5, <3>1, SetOf
  <2>3. x \in ToSet(r)
    BY <1>2, <1>3, <1>5, SetOf
  <2> QED BY <2>1, <2>2, <2>3
<1>7. ASSUME Once(s), x \notin ToSet(s) PROVE Once(r)
  <2>1. \A i \in 1 .. n : s[i] # x
    BY <1>2, <1>7, SetOf
  <2>2. ASSUME NEW i \in 1 .. n + 1, NEW j \in 1 .. n + 1, r[i] = r[j] PROVE i = j
    <3>1. CASE i \in 1 .. n /\ j \in 1 .. n
      BY <1>2, <1>3, <1>7, <2>2, <3>1 DEF Once
    <3>2. CASE i = n + 1 /\ j = n + 1
      BY <3>2
    <3>3. CASE i \in 1 .. n /\ j = n + 1
      BY <1>3, <2>1, <2>2, <3>3
    <3>4. CASE i = n + 1 /\ j \in 1 .. n
      BY <1>3, <2>1, <2>2, <3>4
    <3> QED BY <1>4, <3>1, <3>2, <3>3, <3>4
  <2> QED BY <1>2, <2>2 DEF Once
<1> QED BY <1>1, <1>2, <1>3, <1>6, <1>7

LEMMA TwoJoined ==
  ASSUME NEW T, NEW s \in Seq(T), NEW t \in Seq(T)
  PROVE  /\ s \o t \in Seq(T) /\ Len(s \o t) = Len(s) + Len(t)
         /\ \A i \in 1 .. Len(s) : (s \o t)[i] = s[i]
         /\ \A i \in 1 .. Len(t) : (s \o t)[Len(s) + i] = t[i]
         /\ ToSet(s \o t) = ToSet(s) \cup ToSet(t)
         /\ Once(s) /\ Once(t) /\ ToSet(s) \cap ToSet(t) = {} => Once(s \o t)
<1>1. PICK r \in Seq(T) : r = s \o t
  BY ConcatProperties
<1>2. PICK m \in Nat, n \in Nat : m = Len(s) /\ n = Len(t) /\ Len(r) = m + n
  <2>1. Len(s) \in Nat /\ Len(t) \in Nat
    OBVIOUS
  <2> QED BY <1>1, <2>1, ConcatProperties
<1>3. \A i \in 1 .. m + n : r[i] = IF i <= m THEN s[i] ELSE t[i - m]
  BY <1>1, <1>2, ConcatProperties
<1>4. ASSUME NEW i \in 1 .. m + n
      PROVE  \/ i \in 1 .. m /\ r[i] = s[i]
             \/ i - m \in 1 .. n /\ r[i] = t[i - m]
  BY <1>3
<1>5. \A i \in 1 .. m : i \in 1 .. m + n /\ r[i] = s[i]
  BY <1>3
<1>6. ASSUME NEW i \in 1 .. n PROVE m + i \in 1 .. m + n /\ r[m + i] = t[i]
  <2>1. PICK k \in 1 .. m + n : k = m + i
    OBVIOUS
  <2>2. ~(k <= m) /\ k - m = i
    BY <2>1
  <2> QED BY <1>3, <2>1, <2>2
<1>7. ToSet(r) = ToSet(s) \cup ToSet(t)
  <2>1. ASSUME NEW y \in ToSet(r) PROVE y \in ToSet(s) \cup ToSet(t)
    <3>1. PICK i \in 1 .. m + n : r[i] = y
      BY <1>2, <2>1, SetOf
    <3>2. CASE i \in 1 .. m /\ r[i] = s[i]
      BY <1>2, <3>1, <3>2, SetOf
    <3>3. CASE i - m \in 1 .. n /\ r[i] = t[i - m]
      BY <1>2, <3>1, <3>3, SetOf
    <3> QED BY <1>4, <3>2, <3>3
  <2>2. ASSUME NEW y \in ToSet(s) PROVE y \in ToSet(r)
    <3>1. PICK i \in 1 .. m : s[i] = y
      BY <1>2, <2>2, SetOf
    <3> QED BY <1>2, <1>5, <3>1, SetOf
  <2>3. ASSUME NEW y \in ToSet(t) PROVE y \in ToSet(r)
    <3>1. PICK i \in 1 .. n : t[i] = y
      BY <1>2, <2>3, SetOf
    <3> QED BY <1>2, <1>6, <3>1, SetOf
  <2> QED BY <2>1, <2>2, <2>3
<1>8. ASSUME Once(s), Once(t), ToSet(s) \cap ToSet(t) = {} PROVE Once(r)
  <2>1. \A i \in 1 .. m, j \in 1 .. n : s[i] # t[j]
    <3>1. (\A i \in 1 .. m : s[i] \in ToSet(s)) /\ (\A j \in 1 .. n : t[j] \in ToSet(t))
      BY <1>2, SetOf
    <3> QED BY <1>8, <3>1
  <2>2. ASSUME NEW i \in 1 .. m + n, NEW j \in 1 .. m + n, r[i] = r[j] PROVE i = j
    <3>1. CASE i \in 1 .. m /\ r[i] = s[i] /\ j \in 1 .. m /\ r[j] = s[j]
      BY <1>2, <1>8, <2>2, <3>1 DEF Once
    <3>2. CASE i \in 1 .. m /\ r[i] = s[i] /\ j - m \in 1 .. n /\ r[j] = t[j - m]
      BY <2>1, <2>2, <3>2
    <3>3. CASE i - m \in 1 .. n /\ r[i] = t[i - m] /\ j \in 1 .. m /\ r[j] = s[j]
      <4>1. s[j] = t[i - m]
        BY <2>2, <3>3
      <4> QED BY <2>1, <3>3, <4>1
    <3>4. CASE i - m \in 1 .. n /\ r[i] = t[i - m] /\ j - m \in 1 .. n /\ r[j] = t[j - m]
      <4>1. i - m = j - m
        BY <1>2, <1>8, <2>2, <3>4 DEF Once
      <4> QED BY <4>1
    <3> QED BY <1>4, <3>1, <3>2, <3>3, <3>4
  <2> QED BY <1>2, <2>2 DEF Once
<1> QED BY <1>1, <1>2, <1>5, <1>6, <1>7, <1>8

-----------------------------------------------------------------------------
(* One block: every item is in it or put off, and nobody is put off before *)
(* the author has enough.                                                  *)

OfOne(s, a) == {k \in DOMAIN s : s[k].author = a}
BeforeOf(s, i, a) == {j \in 1 .. i - 1 : s[j].author = a}

\* The first n items are in a or in b, each once.
Dealt(items, n, a, b) ==
  /\ a \in Seq(ToSet(items)) /\ b \in Seq(ToSet(items)) /\ Once(a) /\ Once(b)
  /\ ToSet(a) \cap ToSet(b) = {} /\ ToSet(a) \cup ToSet(b) = {items[i] : i \in 1 .. n}

Enough(s, a) == a # 0 /\ Cardinality(OfOne(s, a)) >= AuthorPerBlock

BlockFits(s) ==
  /\ Len(s.placed) <= AuthorBlock
  /\ \A k \in 1 .. Len(s.placed) :
       s.placed[k].author # 0 =>
         Cardinality(BeforeOf(s.placed, k, s.placed[k].author)) < AuthorPerBlock
  /\ Len(s.placed) < AuthorBlock =>
       \A k \in 1 .. Len(s.pending) : Enough(s.placed, s.pending[k].author)

LEMMA OfOneIs ==
  ASSUME NEW T, NEW s \in Seq(T), NEW a
  PROVE  /\ IsFiniteSet(OfOne(s, a)) /\ Cardinality(OfOne(s, a)) \in Nat
         /\ Full([k \in DOMAIN s |-> s[k].author], a) = Enough(s, a)
         /\ BeforeOf(s, Len(s) + 1, a) = OfOne(s, a)
<1>1. PICK n \in Nat : n = Len(s) /\ DOMAIN s = 1 .. n
  OBVIOUS
<1>2. IsFiniteSet(1 .. n)
  <2>1. 1 \in Int /\ n \in Int
    OBVIOUS
  <2> QED BY <2>1, FS_Interval
<1>3. IsFiniteSet(OfOne(s, a))
  <2>1. OfOne(s, a) \subseteq 1 .. n
    BY <1>1 DEF OfOne
  <2> QED BY <1>2, <2>1, FS_Subset
<1>4. PICK authors : authors = [k \in DOMAIN s |-> s[k].author]
  OBVIOUS
<1>5. {k \in DOMAIN authors : authors[k] = a} = OfOne(s, a)
  BY <1>4 DEF OfOne
<1>6. Full(authors, a) = Enough(s, a)
  BY <1>5, Zenon DEF Full, Enough
<1>7. BeforeOf(s, n + 1, a) = OfOne(s, a)
  <2>1. n + 1 - 1 = n
    OBVIOUS
  <2> QED BY <1>1, <2>1 DEF BeforeOf, OfOne
<1> QED BY <1>1, <1>3, <1>4, <1>6, <1>7, FS_CardinalityType

LEMMA EnoughStays ==
  ASSUME NEW T, NEW s \in Seq(T), NEW t \in Seq(T), Len(s) <= Len(t),
         \A i \in 1 .. Len(s) : t[i] = s[i], NEW a, Enough(s, a)
  PROVE  /\ Enough(t, a)
         /\ \A i \in 1 .. Len(t) + 1 : i > Len(s) => Cardinality(BeforeOf(t, i, a)) >= AuthorPerBlock
<1>1. PICK m \in Nat, n \in Nat : m = Len(s) /\ n = Len(t) /\ DOMAIN s = 1 .. m /\ DOMAIN t = 1 .. n
  OBVIOUS
<1>2. PICK c \in Nat : c = Cardinality(OfOne(s, a)) /\ c >= AuthorPerBlock
  BY OfOneIs DEF Enough
<1>3. AuthorPerBlock \in Nat
  BY InterestListAssumption
<1>4. ASSUME NEW i \in 1 .. n + 1, i > m
      PROVE  Cardinality(BeforeOf(t, i, a)) >= AuthorPerBlock
  <2>1. \A k \in 1 .. m : k \in 1 .. i - 1 /\ t[k] = s[k]
    BY <1>1, <1>4
  <2>2. OfOne(s, a) \subseteq BeforeOf(t, i, a)
    BY <1>1, <2>1 DEF OfOne, BeforeOf
  <2>3. IsFiniteSet(BeforeOf(t, i, a))
    <3>1. \A k \in 1 .. i - 1 : k \in 1 .. n
      BY <1>4
    <3>2. BeforeOf(t, i, a) \subseteq OfOne(t, a)
      BY <1>1, <3>1 DEF OfOne, BeforeOf
    <3> QED BY <3>2, OfOneIs, FS_Subset
  <2>4. PICK d \in Nat : d = Cardinality(BeforeOf(t, i, a))
    BY <2>3, FS_CardinalityType
  <2>5. c <= d
    BY <1>2, <2>2, <2>3, <2>4, FS_Subset
  <2> QED BY <1>2, <1>3, <2>4, <2>5
<1>5. Enough(t, a)
  <2>1. n + 1 \in 1 .. n + 1 /\ n + 1 > m
    BY <1>1
  <2>2. Cardinality(BeforeOf(t, n + 1, a)) >= AuthorPerBlock
    BY <1>4, <2>1
  <2>3. BeforeOf(t, n + 1, a) = OfOne(t, a)
    BY <1>1, OfOneIs
  <2> QED BY <2>2, <2>3 DEF Enough
<1> QED BY <1>1, <1>4, <1>5

BlockOK(items, n, s) ==
  /\ s = [placed |-> s.placed, pending |-> s.pending]
  /\ Dealt(items, n, s.placed, s.pending) /\ BlockFits(s)
  /\ n > 0 => Len(s.placed) > 0

LEMMA PutOffKeeps ==
  ASSUME NEW T, NEW items \in Seq(T), Once(items), NEW n \in Nat, n + 1 <= Len(items),
         NEW s, BlockOK(items, n, s)
  PROVE  BlockOK(items, n + 1, PlaceOrPutOff(s, items[n + 1]))
<1>1. PICK m \in Nat : m = Len(items) /\ DOMAIN items = 1 .. m
  OBVIOUS
<1>2. PICK U : U = ToSet(items)
  OBVIOUS
<1>3. n + 1 \in 1 .. m /\ \A i \in 1 .. n : i \in 1 .. m /\ i # n + 1
  BY <1>1
<1>4. PICK x \in U : x = items[n + 1]
  BY <1>1, <1>2, <1>3, SetOf
<1>5. PICK a \in Seq(U), b \in Seq(U) : s = [placed |-> a, pending |-> b]
  BY <1>2 DEF BlockOK, Dealt
<1>6. /\ Once(a) /\ Once(b) /\ ToSet(a) \cap ToSet(b) = {}
      /\ ToSet(a) \cup ToSet(b) = {items[i] : i \in 1 .. n}
  BY <1>5 DEF BlockOK, Dealt
<1>7. PICK la \in Nat, lb \in Nat : la = Len(a) /\ lb = Len(b)
  OBVIOUS
<1>8. /\ la <= AuthorBlock
      /\ \A k \in 1 .. la : a[k].author # 0 => Cardinality(BeforeOf(a, k, a[k].author)) < AuthorPerBlock
      /\ la < AuthorBlock => \A k \in 1 .. lb : Enough(a, b[k].author)
      /\ n > 0 => la > 0
  BY <1>5, <1>7 DEF BlockOK, BlockFits
<1>9. x \notin ToSet(a) /\ x \notin ToSet(b)
  <2>1. ASSUME NEW i \in 1 .. n PROVE items[i] # x
    BY <1>1, <1>3, <1>4 DEF Once
  <2> QED BY <1>6, <2>1
<1>10. {items[i] : i \in 1 .. n + 1} = {items[i] : i \in 1 .. n} \cup {x}
  <2>1. \A i \in 1 .. n + 1 : i \in 1 .. n \/ i = n + 1
    OBVIOUS
  <2>2. n + 1 \in 1 .. n + 1 /\ \A i \in 1 .. n : i \in 1 .. n + 1
    OBVIOUS
  <2> QED BY <1>4, <2>1, <2>2
<1>11. AuthorBlock \in Nat \ {0} /\ AuthorPerBlock \in Nat \ {0}
  BY InterestListAssumption
<1>12. Full([k \in DOMAIN a |-> a[k].author], x.author) = Enough(a, x.author)
  BY OfOneIs
<1>13. CASE la = AuthorBlock \/ Enough(a, x.author)
  <2>1. PICK c \in Seq(U) : c = Append(b, x)
    BY AppendProperties
  <2>2. /\ Len(c) = lb + 1 /\ (\A i \in 1 .. lb : c[i] = b[i]) /\ c[lb + 1] = x
        /\ ToSet(c) = ToSet(b) \cup {x} /\ Once(c)
    BY <1>6, <1>7, <1>9, <2>1, OneMore
  <2>3. PlaceOrPutOff(s, x) = [placed |-> a, pending |-> c]
    BY <1>5, <1>7, <1>12, <1>13, <2>1 DEF PlaceOrPutOff
  <2>4. Dealt(items, n + 1, a, c)
    BY <1>2, <1>6, <1>9, <1>10, <2>2 DEF Dealt
  <2>5. ASSUME la < AuthorBlock, NEW k \in 1 .. lb + 1 PROVE Enough(a, c[k].author)
    <3>1. Enough(a, x.author)
      BY <1>11, <1>13, <2>5
    <3>2. k \in 1 .. lb \/ k = lb + 1
      OBVIOUS
    <3> QED BY <1>8, <2>2, <2>5, <3>1, <3>2
  <2>6. PICK t : t = [placed |-> a, pending |-> c]
    OBVIOUS
  <2>7. t.placed = a /\ t.pending = c /\ t = [placed |-> t.placed, pending |-> t.pending]
    BY <2>6
  <2>8. BlockFits(t)
    BY <1>7, <1>8, <2>2, <2>5, <2>7 DEF BlockFits
  <2>9. la > 0
    <3>1. CASE n = 0
      <4>1. CASE la = 0
        <5>1. OfOne(a, x.author) = {}
          <6>1. DOMAIN a = 1 .. la
            BY <1>7
          <6>2. \A k \in 1 .. la : FALSE
            BY <4>1
          <6> QED BY <6>1, <6>2 DEF OfOne
        <5>2. Cardinality(OfOne(a, x.author)) = 0
          BY <5>1, FS_EmptySet
        <5> QED BY <1>11, <1>13, <4>1, <5>2 DEF Enough
      <4> QED BY <4>1
    <3> QED BY <1>8, <3>1
  <2> QED BY <1>4, <1>7, <2>3, <2>4, <2>6, <2>7, <2>8, <2>9 DEF BlockOK
<1>14. CASE ~(la = AuthorBlock \/ Enough(a, x.author))
  <2>1. PICK c \in Seq(U) : c = Append(a, x)
    BY AppendProperties
  <2>2. /\ Len(c) = la + 1 /\ (\A i \in 1 .. la : c[i] = a[i]) /\ c[la + 1] = x
        /\ ToSet(c) = ToSet(a) \cup {x} /\ Once(c)
    BY <1>6, <1>7, <1>9, <2>1, OneMore
  <2>3. PlaceOrPutOff(s, x) = [placed |-> c, pending |-> b]
    BY <1>5, <1>7, <1>12, <1>14, <2>1 DEF PlaceOrPutOff
  <2>4. Dealt(items, n + 1, c, b)
    BY <1>2, <1>6, <1>9, <1>10, <2>2 DEF Dealt
  <2>5. ASSUME la + 1 < AuthorBlock, NEW k \in 1 .. lb PROVE Enough(c, b[k].author)
    <3>1. la < AuthorBlock
      BY <1>11, <2>5
    <3>2. Enough(a, b[k].author)
      BY <1>8, <3>1
    <3>3. Len(a) <= Len(c) /\ \A i \in 1 .. Len(a) : c[i] = a[i]
      BY <1>7, <2>2
    <3> QED BY <3>2, <3>3, EnoughStays
  <2>6. ASSUME NEW k \in 1 .. la + 1, c[k].author # 0
        PROVE  Cardinality(BeforeOf(c, k, c[k].author)) < AuthorPerBlock
    <3>1. BeforeOf(c, k, c[k].author) = BeforeOf(a, k, c[k].author)
      <4>1. \A i \in 1 .. k - 1 : i \in 1 .. la
        OBVIOUS
      <4> QED BY <2>2, <4>1 DEF BeforeOf
    <3>2. CASE k \in 1 .. la
      BY <1>8, <2>2, <2>6, <3>1, <3>2
    <3>3. CASE k = la + 1
      <4>1. c[k] = x /\ BeforeOf(a, k, x.author) = OfOne(a, x.author)
        BY <1>7, <2>2, <3>3, OfOneIs
      <4>2. Cardinality(OfOne(a, x.author)) \in Nat
        BY OfOneIs
      <4>3. ~(Cardinality(OfOne(a, x.author)) >= AuthorPerBlock)
        BY <1>14, <2>6, <4>1 DEF Enough
      <4> QED BY <1>11, <3>1, <4>1, <4>2, <4>3
    <3>4. k \in 1 .. la \/ k = la + 1
      OBVIOUS
    <3> QED BY <3>2, <3>3, <3>4
  <2>7. PICK t : t = [placed |-> c, pending |-> b]
    OBVIOUS
  <2>8. t.placed = c /\ t.pending = b /\ t = [placed |-> t.placed, pending |-> t.pending]
    BY <2>7
  <2>9. la + 1 <= AuthorBlock
    BY <1>8, <1>11, <1>14
  <2>10. BlockFits(t)
    BY <1>7, <2>2, <2>5, <2>6, <2>8, <2>9 DEF BlockFits
  <2> QED BY <1>4, <2>2, <2>3, <2>4, <2>7, <2>8, <2>10 DEF BlockOK
<1> QED BY <1>13, <1>14

LEMMA BlockIs ==
  ASSUME NEW T, NEW items \in Seq(T), Once(items)
  PROVE  BlockOK(items, Len(items), Block(items))
<1>1. PICK m \in Nat : m = Len(items)
  OBVIOUS
<1>2. PICK g : BlockSoFar(items, m, g) /\ Block(items) = g[m]
  BY <1>1, BlockIsLast
<1> DEFINE M == {n \in Nat : n <= m => BlockOK(items, n, g[n])}
<1>3. 0 \in M
  <2>1. PICK s : s = [placed |-> <<>>, pending |-> <<>>]
    OBVIOUS
  <2>2. s.placed = <<>> /\ s.pending = <<>> /\ s = [placed |-> s.placed, pending |-> s.pending]
    BY <2>1
  <2>3. <<>> \in Seq(ToSet(items)) /\ Len(<<>>) = 0 /\ Once(<<>>)
    BY DEF Once
  <2>4. ToSet(<<>>) = {} /\ {items[i] : i \in 1 .. 0} = {}
    BY DEF ToSet
  <2>5. Dealt(items, 0, <<>>, <<>>)
    BY <2>3, <2>4 DEF Dealt
  <2>6. BlockFits(s)
    BY <2>2, <2>3, InterestListAssumption DEF BlockFits
  <2>7. g[0] = s
    BY <1>2, <2>1 DEF BlockSoFar
  <2> QED BY <2>2, <2>5, <2>6, <2>7 DEF BlockOK
<1>4. ASSUME NEW n \in Nat, n \in M PROVE n + 1 \in M
  <2> SUFFICES ASSUME n + 1 <= m PROVE BlockOK(items, n + 1, g[n + 1])
    OBVIOUS
  <2>1. BlockOK(items, n, g[n])
    BY <1>4
  <2>2. g[n + 1] = PlaceOrPutOff(g[n], items[n + 1])
    BY <1>2 DEF BlockSoFar
  <2> QED BY <1>1, <2>1, <2>2, PutOffKeeps
<1>5. Nat \subseteq M
  <2> HIDE DEF M
  <2> QED BY <1>3, <1>4, EveryNumber
<1> QED BY <1>1, <1>2, <1>5

-----------------------------------------------------------------------------
(* All blocks.                                                             *)

LEMMA OnceCounts ==
  ASSUME NEW T, NEW s \in Seq(T), Once(s)
  PROVE  IsFiniteSet(ToSet(s)) /\ Cardinality(ToSet(s)) = Len(s)
<1>1. PICK n \in Nat : n = Len(s)
  OBVIOUS
<1>2. PICK f : f = [i \in 1 .. n |-> s[i]]
  OBVIOUS
<1>3. f \in Bijection(1 .. n, ToSet(s))
  <2>1. \A i \in 1 .. n : f[i] = s[i] /\ s[i] \in ToSet(s)
    BY <1>1, <1>2, SetOf
  <2>2. \A y \in ToSet(s) : \E i \in 1 .. n : f[i] = y
    BY <1>1, <1>2, SetOf
  <2>3. \A i, j \in 1 .. n : f[i] = f[j] => i = j
    BY <1>1, <1>2 DEF Once
  <2>4. f \in [1 .. n -> ToSet(s)]
    BY <1>2, <2>1
  <2> QED BY <2>2, <2>3, <2>4 DEF Bijection, Injection, IsInjective, Surjection
<1>4. IsFiniteSet(1 .. n) /\ Cardinality(1 .. n) = n
  <2>1. 1 \in Int /\ n \in Int
    OBVIOUS
  <2>2. IsFiniteSet(1 .. n) /\ Cardinality(1 .. n) = IF 1 > n THEN 0 ELSE n - 1 + 1
    BY <2>1, FS_Interval
  <2> QED BY <2>2
<1>5. f \in Surjection(1 .. n, ToSet(s)) /\ f \in Injection(1 .. n, ToSet(s))
  BY <1>3 DEF Bijection
<1>6. IsFiniteSet(ToSet(s)) /\ Cardinality(ToSet(s)) <= n /\ (Cardinality(ToSet(s)) = n <=> f \in Injection(1 .. n, ToSet(s)))
  BY <1>4, <1>5, FS_Surjection
<1> QED BY <1>1, <1>5, <1>6

\* What is dealt into two lists has as many members as both together.
LEMMA DealtCounts ==
  ASSUME NEW T, NEW items \in Seq(T), Once(items), NEW a, NEW b, Dealt(items, Len(items), a, b)
  PROVE  /\ Len(a) \in Nat /\ Len(b) \in Nat /\ Len(a) + Len(b) = Len(items)
         /\ ToSet(a) \cup ToSet(b) = ToSet(items)
<1>1. PICK n \in Nat : n = Len(items) /\ DOMAIN items = 1 .. n
  OBVIOUS
<1>2. ToSet(a) \cup ToSet(b) = ToSet(items) /\ ToSet(a) \cap ToSet(b) = {}
  BY <1>1 DEF Dealt, ToSet
<1>3. PICK la \in Nat, lb \in Nat : la = Len(a) /\ lb = Len(b)
  <2>1. a \in Seq(ToSet(items)) /\ b \in Seq(ToSet(items))
    BY DEF Dealt
  <2> QED BY <2>1
<1>4. /\ IsFiniteSet(ToSet(a)) /\ Cardinality(ToSet(a)) = la
      /\ IsFiniteSet(ToSet(b)) /\ Cardinality(ToSet(b)) = lb
      /\ Cardinality(ToSet(items)) = n
  BY <1>1, <1>3, OnceCounts DEF Dealt
<1>5. Cardinality(ToSet(a) \cup ToSet(b)) = la + lb - Cardinality(ToSet(a) \cap ToSet(b))
  BY <1>4, FS_Union
<1>6. Cardinality(ToSet(a) \cap ToSet(b)) = 0
  BY <1>2, FS_EmptySet
<1>7. Cardinality(ToSet(items)) = la + lb
  <2>1. Cardinality(ToSet(items)) = la + lb - 0
    BY <1>2, <1>5, <1>6, Zenon
  <2> QED BY <2>1
<1> QED BY <1>1, <1>2, <1>3, <1>4, <1>7

WellSpread(s) ==
  \A i \in 1 .. Len(s) :
    i <= AuthorBlock /\ s[i].author # 0
    /\ Cardinality(BeforeOf(s, i, s[i].author)) >= AuthorPerBlock =>
      \A k \in i .. Len(s) :
        s[k].author # 0 /\ Cardinality(BeforeOf(s, i, s[k].author)) >= AuthorPerBlock

\* The first block, and after it only what it put off.
Goes(first, a, b) ==
  /\ Len(first.placed) <= Len(a) /\ \A i \in 1 .. Len(first.placed) : a[i] = first.placed[i]
  /\ \A i \in 1 .. Len(a) : i > Len(first.placed) => a[i] \in ToSet(first.pending)
  /\ ToSet(b) \subseteq ToSet(first.pending)

CapOK(items, n, s) ==
  /\ s = [placed |-> s.placed, pending |-> s.pending]
  /\ Dealt(items, Len(items), s.placed, s.pending)
  /\ Len(s.pending) <= Len(items) - n
  /\ n > 0 => Goes(Block(items), s.placed, s.pending)

LEMMA NextBlockKeeps ==
  ASSUME NEW T, NEW items \in Seq(T), Once(items), NEW n \in Nat, n + 1 <= Len(items),
         NEW s, CapOK(items, n, s), n = 0 => s.placed = <<>> /\ s.pending = items
  PROVE  CapOK(items, n + 1, NextBlock(s))
<1>1. PICK U : U = ToSet(items)
  OBVIOUS
<1>2. PICK a \in Seq(U), b \in Seq(U) : s = [placed |-> a, pending |-> b]
  BY <1>1 DEF CapOK, Dealt
<1>3. Dealt(items, Len(items), a, b) /\ Once(a) /\ Once(b) /\ ToSet(a) \cap ToSet(b) = {}
  BY <1>2 DEF CapOK, Dealt
<1>4. PICK m \in Nat, la \in Nat, lb \in Nat : m = Len(items) /\ la = Len(a) /\ lb = Len(b)
  OBVIOUS
<1>5. ToSet(a) \cup ToSet(b) = U /\ lb <= m - n
  BY <1>1, <1>2, <1>3, <1>4, DealtCounts DEF CapOK
<1>6. PICK c : c = Block(b)
  OBVIOUS
<1>7. BlockOK(b, lb, c)
  BY <1>3, <1>4, <1>6, BlockIs
<1>8. PICK p, q : p = c.placed /\ q = c.pending
  OBVIOUS
<1>9. Dealt(b, Len(b), p, q) /\ (lb > 0 => Len(p) > 0)
  BY <1>4, <1>7, <1>8 DEF BlockOK
<1>10. /\ Len(p) \in Nat /\ Len(q) \in Nat /\ Len(p) + Len(q) = lb
       /\ ToSet(p) \cup ToSet(q) = ToSet(b)
  BY <1>3, <1>4, <1>9, DealtCounts
<1>11. /\ p \in Seq(U) /\ q \in Seq(U) /\ Once(p) /\ Once(q) /\ ToSet(p) \cap ToSet(q) = {}
  <2>1. ToSet(b) \subseteq U
    BY <1>5
  <2>2. p \in Seq(ToSet(b)) /\ q \in Seq(ToSet(b)) /\ Once(p) /\ Once(q) /\ ToSet(p) \cap ToSet(q) = {}
    BY <1>9 DEF Dealt
  <2> QED BY <2>1, <2>2
<1>12. PICK t : t = [placed |-> a \o p, pending |-> q]
  OBVIOUS
<1>13. NextBlock(s) = t
  BY <1>2, <1>6, <1>8, <1>12 DEF NextBlock
<1>14. /\ a \o p \in Seq(U) /\ ToSet(a \o p) = ToSet(a) \cup ToSet(p) /\ Once(a \o p)
  <2>1. ToSet(a) \cap ToSet(p) = {}
    BY <1>3, <1>10
  <2> QED BY <1>3, <1>11, <2>1, TwoJoined
<1>15. Dealt(items, Len(items), a \o p, q)
  <2>1. {items[i] : i \in 1 .. Len(items)} = U
    BY <1>3, <1>5 DEF Dealt
  <2> QED BY <1>1, <1>3, <1>5, <1>10, <1>11, <1>14, <2>1 DEF Dealt
<1>16. Len(q) <= m - (n + 1)
  BY <1>4, <1>5, <1>9, <1>10
<1>17. Goes(Block(items), a \o p, q)
  <2>1. PICK ap \in Seq(U), lp \in Nat : ap = a \o p /\ lp = Len(p)
    <3>1. a \o p \in Seq(U) /\ Len(p) \in Nat
      BY <1>10, <1>14
    <3> QED BY <3>1
  <2>2. /\ Len(ap) = la + lp /\ (\A i \in 1 .. la : ap[i] = a[i])
        /\ \A i \in 1 .. lp : ap[la + i] = p[i]
    BY <1>4, <1>11, <2>1, TwoJoined
  <2>3. \A i \in 1 .. lp : p[i] \in ToSet(b)
    BY <1>10, <1>11, <2>1, SetOf
  <2>4. CASE n = 0
    <3>1. a = <<>> /\ b = items
      BY <1>2, <2>4
    <3>2. la = 0 /\ ap = p
      BY <1>4, <1>11, <2>1, <3>1
    <3> QED BY <1>6, <1>8, <2>1, <3>1, <3>2 DEF Goes
  <2>5. CASE n # 0
    <3>1. Goes(Block(items), a, b)
      <4>1. n > 0 /\ s.placed = a /\ s.pending = b
        BY <1>2, <2>5
      <4> QED BY <4>1 DEF CapOK
    <3>2. PICK f, g : f = Block(items).placed /\ g = ToSet(Block(items).pending)
      OBVIOUS
    <3>3. PICK lf \in Nat : lf = Len(f)
      <4>1. f \in Seq(U)
        BY <1>1, <3>2, BlockIs DEF BlockOK, Dealt
      <4>2. Len(f) \in Nat
        BY <4>1, LenProperties
      <4> QED BY <4>2
    <3>4. /\ lf <= la /\ \A i \in 1 .. lf : a[i] = f[i]
          /\ \A i \in 1 .. la : i > lf => a[i] \in g
          /\ ToSet(b) \subseteq g
      BY <1>4, <3>1, <3>2, <3>3 DEF Goes
    <3>5. \A i \in 1 .. lf : ap[i] = f[i]
      <4>1. \A i \in 1 .. lf : i \in 1 .. la
        BY <3>4
      <4> QED BY <2>2, <3>4, <4>1
    <3>6. ASSUME NEW i \in 1 .. la + lp, i > lf PROVE ap[i] \in g
      <4>1. CASE i \in 1 .. la
        BY <2>2, <3>4, <3>6, <4>1
      <4>2. CASE i - la \in 1 .. lp
        <5>1. PICK k \in 1 .. lp : k = i - la
          BY <4>2
        <5>2. i = la + k
          BY <5>1
        <5>3. ap[la + k] = p[k] /\ p[k] \in ToSet(b)
          BY <2>2, <2>3
        <5> QED BY <3>4, <5>2, <5>3
      <4>3. i \in 1 .. la \/ i - la \in 1 .. lp
        OBVIOUS
      <4> QED BY <4>1, <4>2, <4>3
    <3>7. lf <= la + lp /\ ToSet(q) \subseteq g
      BY <1>10, <3>4
    <3> QED BY <2>1, <2>2, <3>2, <3>3, <3>5, <3>6, <3>7 DEF Goes
  <2> QED BY <2>4, <2>5
<1>18. t.placed = a \o p /\ t.pending = q /\ t = [placed |-> t.placed, pending |-> t.pending]
  BY <1>12
<1> QED BY <1>1, <1>4, <1>13, <1>15, <1>16, <1>17, <1>18 DEF CapOK

\* The list with the limit of an author: everything once, and well spread.
LEMMA CapIs ==
  ASSUME NEW T, NEW items \in Seq(T), Once(items)
  PROVE  /\ CapAuthors(items) \in Seq(ToSet(items)) /\ Once(CapAuthors(items))
         /\ ToSet(CapAuthors(items)) = ToSet(items) /\ Len(CapAuthors(items)) = Len(items)
         /\ WellSpread(CapAuthors(items))
<1>0. PICK U : U = ToSet(items)
  OBVIOUS
<1>1. PICK m \in Nat : m = Len(items) /\ U = ToSet(items)
  BY <1>0
<1>2. PICK g : CapSoFar(items, m, g) /\ CapAuthors(items) = g[m].placed
  BY <1>1, CapIsLast
<1> DEFINE M == {n \in Nat : n <= m => CapOK(items, n, g[n])}
<1>3. g[0].placed = <<>> /\ g[0].pending = items /\ g[0] = [placed |-> <<>>, pending |-> items]
  BY <1>2 DEF CapSoFar
<1>4. 0 \in M
  <2>1. <<>> \in Seq(U) /\ items \in Seq(U) /\ Once(<<>>) /\ ToSet(<<>>) = {}
    BY <1>1 DEF Once, ToSet
  <2>2. {items[i] : i \in 1 .. m} = U
    BY <1>1 DEF ToSet
  <2>3. Dealt(items, m, <<>>, items)
    BY <1>1, <2>1, <2>2 DEF Dealt
  <2>4. m <= m - 0
    OBVIOUS
  <2> QED BY <1>1, <1>3, <2>3, <2>4 DEF CapOK
<1>5. ASSUME NEW n \in Nat, n \in M PROVE n + 1 \in M
  <2> SUFFICES ASSUME n + 1 <= m PROVE CapOK(items, n + 1, g[n + 1])
    OBVIOUS
  <2>1. CapOK(items, n, g[n])
    BY <1>5
  <2>2. g[n + 1] = NextBlock(g[n])
    BY <1>2 DEF CapSoFar
  <2> QED BY <1>1, <1>3, <2>1, <2>2, NextBlockKeeps
<1>6. Nat \subseteq M
  <2> HIDE DEF M
  <2> QED BY <1>4, <1>5, EveryNumber
<1>7. CapOK(items, m, g[m])
  BY <1>6
<1>8. PICK a \in Seq(U), b \in Seq(U) : a = g[m].placed /\ b = g[m].pending
  BY <1>1, <1>7 DEF CapOK, Dealt
<1>9. Dealt(items, m, a, b) /\ Len(b) <= m - m /\ (m > 0 => Goes(Block(items), a, b))
  BY <1>1, <1>7, <1>8 DEF CapOK
<1>10. Len(a) \in Nat /\ Len(b) \in Nat /\ Len(a) + Len(b) = m /\ ToSet(a) \cup ToSet(b) = U
  BY <1>1, <1>9, DealtCounts
<1>11. Len(b) = 0 /\ Len(a) = m
  BY <1>9, <1>10
<1>12. ToSet(b) = {}
  <2>1. DOMAIN b = 1 .. 0
    BY <1>11
  <2> QED BY <2>1 DEF ToSet
<1>13. ToSet(a) = U /\ Once(a)
  BY <1>9, <1>10, <1>12 DEF Dealt
<1>14. WellSpread(a)
  <2> SUFFICES ASSUME NEW i \in 1 .. m, i <= AuthorBlock, a[i].author # 0,
                      Cardinality(BeforeOf(a, i, a[i].author)) >= AuthorPerBlock,
                      NEW k \in i .. m
               PROVE  a[k].author # 0 /\ Cardinality(BeforeOf(a, i, a[k].author)) >= AuthorPerBlock
    BY <1>11 DEF WellSpread
  <2>1. PICK f, g1 : f = Block(items).placed /\ g1 = Block(items).pending
    OBVIOUS
  <2>2. /\ f \in Seq(U) /\ g1 \in Seq(U) /\ BlockFits(Block(items)) /\ Goes(Block(items), a, b)
    BY <1>1, <1>9, <2>1, BlockIs DEF BlockOK, Dealt
  <2>3. PICK lf \in Nat, lg \in Nat : lf = Len(f) /\ lg = Len(g1)
    <3>1. Len(f) \in Nat /\ Len(g1) \in Nat
      BY <2>2, LenProperties
    <3> QED BY <3>1
  <2>4. /\ lf <= m /\ (\A j \in 1 .. lf : a[j] = f[j])
        /\ \A j \in 1 .. m : j > lf => a[j] \in ToSet(g1)
    BY <1>11, <2>1, <2>2, <2>3 DEF Goes
  <2>5. /\ lf <= AuthorBlock
        /\ \A j \in 1 .. lf : f[j].author # 0 =>
             Cardinality(BeforeOf(f, j, f[j].author)) < AuthorPerBlock
        /\ lf < AuthorBlock => \A j \in 1 .. lg : Enough(f, g1[j].author)
    BY <2>1, <2>2, <2>3 DEF BlockFits
  <2>6. i > lf
    <3> SUFFICES ASSUME i \in 1 .. lf PROVE FALSE
      OBVIOUS
    <3>1. \A j \in 1 .. i - 1 : j \in 1 .. lf
      OBVIOUS
    <3>2. a[i] = f[i] /\ BeforeOf(a, i, a[i].author) = BeforeOf(f, i, a[i].author)
      BY <2>4, <3>1 DEF BeforeOf
    <3>3. Cardinality(BeforeOf(f, i, f[i].author)) < AuthorPerBlock
      BY <2>5, <3>2
    <3>4. IsFiniteSet(BeforeOf(f, i, f[i].author))
      <4>1. IsFiniteSet(1 .. i - 1) /\ BeforeOf(f, i, f[i].author) \subseteq 1 .. i - 1
        <5>1. 1 \in Int /\ i - 1 \in Int
          OBVIOUS
        <5>2. IsFiniteSet(1 .. i - 1)
          BY <5>1, FS_Interval
        <5> QED BY <5>2 DEF BeforeOf
      <4> QED BY <4>1, FS_Subset
    <3>5. Cardinality(BeforeOf(f, i, f[i].author)) \in Nat
      BY <3>4, FS_CardinalityType
    <3> QED BY <3>2, <3>3, <3>5, InterestListAssumption
  <2>7. k \in 1 .. m /\ k > lf /\ lf < AuthorBlock
    BY <2>5, <2>6, InterestListAssumption
  <2>8. a[k] \in ToSet(g1)
    BY <2>4, <2>7
  <2>9. PICK j \in 1 .. lg : a[k] = g1[j]
    BY <2>2, <2>3, <2>8, SetOf
  <2>10. Enough(f, a[k].author)
    BY <2>5, <2>7, <2>9
  <2>11. Len(f) <= Len(a) /\ \A h \in 1 .. Len(f) : a[h] = f[h]
    BY <1>11, <2>3, <2>4
  <2>12. \A h \in 1 .. Len(a) + 1 : h > Len(f) => Cardinality(BeforeOf(a, h, a[k].author)) >= AuthorPerBlock
    BY <2>2, <2>10, <2>11, EnoughStays
  <2>13. i \in 1 .. Len(a) + 1 /\ i > Len(f)
    BY <1>11, <2>3, <2>6
  <2> QED BY <2>10, <2>12, <2>13 DEF Enough
<1> QED BY <1>1, <1>2, <1>8, <1>11, <1>13, <1>14
-----------------------------------------------------------------------------
(* What is picked for an interest are books of the catalogue.              *)

Query(q) == q.sum \in Int /\ q.weight \in Int

LEMMA DistanceIsInt ==
  ASSUME NEW q, Query(q), NEW b \in Stock
  PROVE  Distance(q, b) \in Int
<1>1. PICK m \in Int, n \in Int : m = b.at * q.weight /\ n = q.sum
  BY StockAssumption DEF Query
<1>2. PICK i \in Int, j \in Int : i = m - n /\ j = n - m
  OBVIOUS
<1>3. Max({i, j}) \in {i, j}
  <2>1. \E x \in {i, j} : \A y \in {i, j} : y <= x
    OBVIOUS
  <2> QED BY <2>1 DEF Max
<1>4. Distance(q, b) = Max({i, j})
  BY <1>1, <1>2 DEF Distance, Apart
<1> QED BY <1>3, <1>4

ByDistance(q, S) == Ordered(S, LAMBDA b : <<Distance(q, b), b.id>>)
BySales(S) == Ordered(S, LAMBDA b : <<-b.sales, -b.year, b.id>>)

LEMMA ClosestAre ==
  ASSUME NEW q, Query(q), NEW S, S \subseteq Stock
  PROVE  ByDistance(q, S) \in Seq(S) /\ ByDistance(q, S) \in Seq(Stock)
<1>1. IsFiniteSet(S) /\ \A b \in S : Distance(q, b) \in Int /\ b.id \in Int
  BY StockAssumption, FS_Subset, DistanceIsInt
<1>2. PICK f : f = [b \in S |-> <<Distance(q, b), b.id>>]
  OBVIOUS
<1>3. PICK m \in Nat : m = 2
  OBVIOUS
<1>4. f \in [S -> [1 .. m -> Int]]
  <2>1. ASSUME NEW b \in S PROVE f[b] \in [1 .. m -> Int]
    <3>1. PICK j \in Int, k \in Int : j = Distance(q, b) /\ k = b.id
      BY <1>1
    <3>2. f[b] = <<j, k>>
      BY <1>2, <3>1
    <3> QED BY <1>3, <3>2
  <2> QED BY <1>2, <2>1
<1>5. \A x, y \in S : f[x] = f[y] => x = y
  <2> SUFFICES ASSUME NEW x \in S, NEW y \in S, f[x] = f[y] PROVE x = y
    OBVIOUS
  <2>1. <<Distance(q, x), x.id>> = <<Distance(q, y), y.id>>
    BY <1>2
  <2>2. x.id = y.id
    BY <2>1
  <2> QED BY <2>2, StockAssumption
<1>6. ByKey(WithKeys(f, S)) \in Seq(S)
  BY <1>1, <1>4, <1>5, RowGrows DEF InRow
<1>7. ByDistance(q, S) = ByKey(WithKeys(f, S))
  <2>1. WithKeys(f, S) = {<<<<Distance(q, b), b.id>>, b>> : b \in S}
    BY <1>2 DEF WithKeys
  <2> QED BY <2>1 DEF ByDistance, Ordered
<1>8. PICK r : r = ByDistance(q, S)
  OBVIOUS
<1>9. r \in Seq(S)
  BY <1>6, <1>7, <1>8
<1> QED BY <1>8, <1>9

LEMMA BestsellersAre ==
  ASSUME NEW S, S \subseteq Stock
  PROVE  BySales(S) \in Seq(Stock)
<1>1. IsFiniteSet(S) /\ \A b \in S : b.sales \in Int /\ b.year \in Int /\ b.id \in Int
  BY StockAssumption, FS_Subset
<1>2. PICK f : f = [b \in S |-> <<-b.sales, -b.year, b.id>>]
  OBVIOUS
<1>3. PICK m \in Nat : m = 3
  OBVIOUS
<1>4. f \in [S -> [1 .. m -> Int]]
  <2>1. ASSUME NEW b \in S PROVE f[b] \in [1 .. m -> Int]
    <3>1. PICK i \in Int, j \in Int, k \in Int : i = -b.sales /\ j = -b.year /\ k = b.id
      BY <1>1
    <3>2. f[b] = <<i, j, k>>
      BY <1>2, <3>1
    <3> QED BY <1>3, <3>2
  <2> QED BY <1>2, <2>1
<1>5. \A x, y \in S : f[x] = f[y] => x = y
  <2> SUFFICES ASSUME NEW x \in S, NEW y \in S, f[x] = f[y] PROVE x = y
    OBVIOUS
  <2>1. <<-x.sales, -x.year, x.id>> = <<-y.sales, -y.year, y.id>>
    BY <1>2
  <2>2. x.id = y.id
    BY <2>1
  <2> QED BY <2>2, StockAssumption
<1>6. ByKey(WithKeys(f, S)) \in Seq(S)
  BY <1>1, <1>4, <1>5, RowGrows DEF InRow
<1>7. BySales(S) = ByKey(WithKeys(f, S))
  <2>1. WithKeys(f, S) = {<<<<-b.sales, -b.year, b.id>>, b>> : b \in S}
    BY <1>2 DEF WithKeys
  <2> QED BY <2>1 DEF BySales, Ordered
<1>8. PICK r : r = BySales(S)
  OBVIOUS
<1>9. r \in Seq(S)
  BY <1>6, <1>7, <1>8
<1> QED BY <1>8, <1>9

\* A job that can be done: the place to look at is a number.
Fetchable(job) == job.limit \in Nat /\ Query(job.query)

LEMMA ClosestInStock ==
  ASSUME NEW q, Query(q), NEW S, S \subseteq Stock, NEW limit \in Nat
  PROVE  Closest(q, S, limit) \in Seq(Stock)
<1>1. PICK E : E = WithVector(S)
  OBVIOUS
<1>2. E \subseteq Stock
  BY <1>1 DEF WithVector
<1>3. ByDistance(q, E) \in Seq(Stock)
  BY <1>2, ClosestAre
<1>4. Closest(q, S, limit) = Take(ByDistance(q, E), limit)
  BY <1>1 DEF Closest, ByDistance
<1> QED BY <1>3, <1>4, TakeIs

LEMMA ByIndexInStock ==
  ASSUME NEW q, Query(q), NEW S, S \subseteq Stock, NEW limit \in Nat
  PROVE  ByIndex(q, S, limit) \in Seq(Stock)
<1>1. PICK R : R = {b \in S : b.id \in index.reach}
  OBVIOUS
<1>2. R \subseteq Stock
  BY <1>1
<1> QED BY <1>1, <1>2, ClosestInStock DEF ByIndex

LEMMA NearestInStock ==
  ASSUME NEW job, Fetchable(job)
  PROVE  Nearest(job) \in Seq(Stock)
<1>1. PICK C : C = InClasses(ClassesOf(job.name[2]))
  OBVIOUS
<1>2. C \subseteq Stock
  BY <1>1 DEF InClasses
<1>3. Closest(job.query, C, job.limit) \in Seq(Stock) /\ ByIndex(job.query, C, job.limit) \in Seq(Stock)
  BY <1>2, ClosestInStock, ByIndexInStock DEF Fetchable
<1>4. Nearest(job) \in {Closest(job.query, C, job.limit), ByIndex(job.query, C, job.limit)}
  BY <1>1, Zenon DEF Nearest
<1> QED BY <1>3, <1>4

LEMMA NumberedInStock ==
  ASSUME NEW name, NEW books \in Seq(Stock)
  PROVE  NumberedFirst(name, books) \in Seq(Stock)
<1>1. PICK n \in Nat : n = Len(books) /\ DOMAIN books = 1 .. n
  OBVIOUS
<1>2. PICK w : w = [i \in 1 .. n |-> IF ClassInterest(books[i].number) = name THEN 0 ELSE 1]
  OBVIOUS
<1>3. w \in [1 .. n -> Int]
  BY <1>2
<1>4. NumberedFirst(name, books) = SortedBy(books, w)
  <2>1. PICK P : P = {<<Append(<<IF ClassInterest(books[i].number) = name THEN 0 ELSE 1>>, i), i>> : i \in DOMAIN books}
    OBVIOUS
  <2>2. P = PlaceKeys(books, w)
    <3>1. \A i \in 1 .. n : w[i] = IF ClassInterest(books[i].number) = name THEN 0 ELSE 1
      BY <1>2
    <3> QED BY <1>1, <2>1, <3>1, Zenon DEF PlaceKeys
  <2>3. NumberedFirst(name, books) = [k \in 1 .. Len(books) |-> books[ByKey(P)[k]]]
    BY <2>1, Zenon DEF NumberedFirst, StableSort, Ordered
  <2> QED BY <2>2, <2>3, Zenon DEF SortedBy
<1> QED BY <1>1, <1>3, <1>4, StableIs

LEMMA OfAuthorInStock ==
  ASSUME NEW job, job.limit \in Nat
  PROVE  OfAuthor(job) \in Seq(Stock)
<1>1. PICK A : A = {b \in Stock : HasAuthor(b, job.name[2])}
  OBVIOUS
<1> DEFINE newest == Take(Ordered(A, LAMBDA b : <<-b.year, b.id>>), job.limit * ReadFactor)
           first == {i \in DOMAIN newest : \A j \in 1 .. i - 1 : newest[j].title # newest[i].title}
           S == {newest[i] : i \in first}
<1>2. newest \in Seq(A)
  <2>1. ReadFactor \in Nat
    BY InterestListAssumption
  <2>2. job.limit * ReadFactor \in Nat
    BY <2>1
  <2>3. Ordered(A, LAMBDA b : <<-b.year, b.id>>) \in Seq(A)
    BY <1>1, NewestAre
  <2> QED BY <2>2, <2>3, TakeIs
<1>3. S \subseteq Stock
  <2> HIDE DEF newest
  <2>1. S \subseteq A
    BY <1>2
  <2> QED BY <1>1, <2>1
<1>4. OfAuthor(job) = Take(Ordered(S, LAMBDA b : <<-b.year, b.id>>), job.limit)
  BY <1>1 DEF OfAuthor
<1> HIDE DEF S
<1>5. Ordered(S, LAMBDA b : <<-b.year, b.id>>) \in Seq(S)
  BY <1>3, NewestAre
<1>6. PICK r : r = Ordered(S, LAMBDA b : <<-b.year, b.id>>)
  OBVIOUS
<1>7. r \in Seq(S)
  BY <1>5, <1>6
<1>8. r \in Seq(Stock)
  BY <1>3, <1>7
<1>9. Take(r, job.limit) \in Seq(Stock)
  BY <1>8, TakeIs
<1> QED BY <1>4, <1>6, <1>9

LEMMA OfKeywordInStock ==
  ASSUME NEW job, Fetchable(job), NEW titles \in BOOLEAN
  PROVE  OfKeyword(job, titles) \in Seq(Stock)
<1> DEFINE near == ByIndex(job.query, Stock, job.limit)
           mentions(b) == job.name[2] \in b.says \cup b.titled
           titled == {b \in Stock : job.name[2] \in b.titled}
           more == IF titles THEN ToSet(Closest(job.query, titled, job.limit)) ELSE {}
           words == {b \in ToSet(near) : mentions(b)} \cup more
           others == {b \in ToSet(near) : ~mentions(b)}
<1>1. near \in Seq(Stock)
  BY ByIndexInStock DEF Fetchable
<1>2. more \subseteq Stock
  <2>1. titled \subseteq Stock
    OBVIOUS
  <2> HIDE DEF titled
  <2>2. Closest(job.query, titled, job.limit) \in Seq(Stock)
    BY <2>1, ClosestInStock DEF Fetchable
  <2>3. ToSet(Closest(job.query, titled, job.limit)) \subseteq Stock
    BY <2>2, SetOf
  <2> QED BY <2>3
<1>3. words \subseteq Stock
  <2> HIDE DEF near, more
  <2>1. ToSet(near) \subseteq Stock
    BY <1>1, SetOf
  <2> QED BY <1>2, <2>1
<1>4. Only(near, others) \in Seq(Stock)
  <2> HIDE DEF near, others
  <2>1. Only(near, others) \in Seq(Stock \cap others)
    BY <1>1, OnlyType
  <2> QED BY <2>1
<1>5. ByDistance(job.query, words) \in Seq(Stock)
  <2> HIDE DEF words
  <2>1. PICK q : q = job.query /\ Query(q)
    BY DEF Fetchable
  <2>2. ByDistance(q, words) \in Seq(Stock)
    BY <1>3, <2>1, ClosestAre
  <2> QED BY <2>1, <2>2
<1>6. OfKeyword(job, titles) = Take(ByDistance(job.query, words) \o Only(near, others), job.limit)
  BY DEF OfKeyword, ByDistance
<1> HIDE DEF words, near, others
<1>7. PICK r, o, s : r = ByDistance(job.query, words) /\ o = Only(near, others) /\ s = r \o o
  OBVIOUS
<1>8. r \in Seq(Stock) /\ o \in Seq(Stock)
  BY <1>4, <1>5, <1>7
<1>9. s \in Seq(Stock)
  BY <1>7, <1>8
<1>10. Take(s, job.limit) \in Seq(Stock)
  BY <1>9, TakeIs DEF Fetchable
<1> QED BY <1>6, <1>7, <1>10

LEMMA PopularInStock ==
  ASSUME NEW job, job.limit \in Nat
  PROVE  Popular(job) \in Seq(Stock)
<1>1. PICK C : C = IF job.name[1] = "named" THEN ClassesOf(job.name[2]) ELSE {}
  OBVIOUS
<1>2. PICK S : S = InClasses(C)
  OBVIOUS
<1>3. S \subseteq Stock
  BY <1>2 DEF InClasses
<1>4. PICK r : r = BySales(S) /\ r \in Seq(Stock)
  BY <1>3, BestsellersAre
<1>5. PICK t : t = Take(r, job.limit) /\ t \in Seq(Stock)
  BY <1>4, TakeIs
<1>6. Popular(job) = <<>> \/ Popular(job) = t
  BY <1>1, <1>2, <1>4, <1>5 DEF Popular, BySales
<1>7. <<>> \in Seq(Stock)
  OBVIOUS
<1> QED BY <1>5, <1>6, <1>7
-----------------------------------------------------------------------------
(* Every interest that is looked up has a place to look at.                *)

Legit(x) ==
  \/ x[1] \in {"author", "mood"}
  \/ x[1] = "keyword" /\ x[2] \in DOMAIN KeywordAt
  \/ x[1] = "named" /\ x[2] \in DOMAIN NameAt

LegitNames(s) == \A i \in DOMAIN s : Legit(s[i][1])

LEMMA KindsAre ==
  ASSUME NEW n
  PROVE  /\ n \in DOMAIN NameAt => Legit(<<"named", n>>)
         /\ n \in DOMAIN KeywordAt => Legit(<<"keyword", n>>)
BY DEF Legit

LEMMA OnlyHasAll ==
  ASSUME NEW T, NEW s \in Seq(T), NEW S
  PROVE  ToSet(Only(s, S)) = ToSet(s) \cap S
<1>1. PICK r \in Seq(T \cap S) : r = Only(s, S)
  BY OnlyType
<1>2. PICK m : Places(s, S, Len(s), r, m)
  BY <1>1, OnlyPlaces
<1>3. PICK l \in Nat, n \in Nat : l = Len(r) /\ n = Len(s) /\ DOMAIN r = 1 .. l /\ DOMAIN s = 1 .. n
  OBVIOUS
<1>4. /\ m \in [1 .. l -> 1 .. n] /\ \A k \in 1 .. l : s[m[k]] \in S /\ r[k] = s[m[k]]
      /\ \A i \in 1 .. n : s[i] \in S => \E k \in 1 .. l : m[k] = i
  BY <1>2, <1>3 DEF Places
<1>5. ASSUME NEW k \in 1 .. l PROVE r[k] \in ToSet(s) \cap S
  BY <1>3, <1>4 DEF ToSet
<1>6. ASSUME NEW i \in 1 .. n, s[i] \in S PROVE s[i] \in ToSet(r)
  <2>1. PICK k \in 1 .. l : m[k] = i
    BY <1>4, <1>6
  <2>2. r[k] = s[i]
    BY <1>4, <2>1
  <2> QED BY <1>3, <2>2 DEF ToSet
<1>7. ToSet(r) = {r[k] : k \in 1 .. l} /\ ToSet(s) = {s[i] : i \in 1 .. n}
  BY <1>3 DEF ToSet
<1> QED BY <1>1, <1>5, <1>6, <1>7

LEMMA OnboardingLegit ==
  ASSUME NEW o \in Onboardings
  PROVE  LegitNames(OnboardingScores(o.categories, o.tags))
<1>1. PICK U : o.tags \in Seq(U)
  BY RequestsAssumption
<1>2. PICK V : o.categories \in Seq(V)
  BY RequestsAssumption
<1>3. PICK known : known = Firsts(Only(o.tags, DOMAIN NameAt))
  OBVIOUS
<1>a. PICK N : N = DOMAIN NameAt
  OBVIOUS
<1>4. known \in Seq(N)
  <2>1. Only(o.tags, DOMAIN NameAt) \in Seq(U \cap DOMAIN NameAt)
    BY <1>1, OnlyType
  <2>2. Only(o.tags, DOMAIN NameAt) \in Seq(N)
    BY <1>a, <2>1
  <2> QED BY <1>3, <2>2, FirstsIs
<1> DEFINE narrowed == {Parent[t] : t \in ToSet(known) \cap DOMAIN Parent}
           S == {c \in ToSet(o.categories) : IsOnboarding(c) /\ c \notin narrowed}
<1>5. PICK wide : wide = Only(Firsts(o.categories), S)
  OBVIOUS
<1>6. wide \in Seq(N)
  <2>0. S \subseteq N
    BY <1>a, InterestsAssumption DEF IsOnboarding
  <2> HIDE DEF S
  <2>1. Firsts(o.categories) \in Seq(V)
    BY <1>2, FirstsIs
  <2>2. Only(Firsts(o.categories), S) \in Seq(V \cap S)
    BY <2>1, OnlyType
  <2> QED BY <1>5, <2>0, <2>2
<1>7. PICK all : all = Firsts(known \o wide)
  OBVIOUS
<1>9. all \in Seq(N)
  <2>1. known \o wide \in Seq(N)
    BY <1>4, <1>6, ConcatProperties
  <2> QED BY <1>7, <2>1, FirstsIs
<1>10. PICK n \in Nat : n = Len(all) /\ DOMAIN all = 1 .. n
  BY <1>9
<1>11. PICK s : s = [i \in 1 .. n |-> <<<<"named", all[i]>>, 1>>]
  OBVIOUS
<1>12. OnboardingScores(o.categories, o.tags) = s
  BY <1>3, <1>5, <1>7, <1>10, <1>11 DEF OnboardingScores
<1>13. ASSUME NEW i \in 1 .. n PROVE Legit(s[i][1])
  <2>1. all[i] \in DOMAIN NameAt
    BY <1>9, <1>10, <1>a
  <2>2. s[i][1] = <<"named", all[i]>>
    BY <1>11
  <2> QED BY <2>1, <2>2, KindsAre
<1> QED BY <1>11, <1>12, <1>13 DEF LegitNames

\* A line is about names that have a place.
LEMMA LinesLegit ==
  ASSUME NEW line \in Lines, NEW x \in ToSet(InterestsOf(line))
  PROVE  Legit(x)
<1>1. PICK T : line.names \in Seq(T)
  BY RequestsAssumption
<1>2. PICK o : o = Only(line.names, DOMAIN NameAt)
  OBVIOUS
<1>3. o \in Seq(DOMAIN NameAt) /\ ToSet(o) = ToSet(line.names) \cap DOMAIN NameAt
  <2>1. o \in Seq(T \cap DOMAIN NameAt)
    BY <1>1, <1>2, OnlyType
  <2> QED BY <1>1, <1>2, <2>1, OnlyHasAll
<1>4. PICK known : known = Firsts(o) /\ known \in Seq(DOMAIN NameAt)
  BY <1>3, FirstsIs
<1>5. PICK s : s = InterestsOf(line)
  OBVIOUS
<1>6. PICK i \in DOMAIN s : x = s[i]
  BY <1>5 DEF ToSet
<1>7. CASE line.type = "topic" /\ ~line.title
  <2>1. s = IF known = <<>> THEN <<<<"keyword", line.keyword>>>>
            ELSE [k \in DOMAIN known |-> <<"named", known[k]>>]
    BY <1>2, <1>4, <1>5, <1>7 DEF InterestsOf
  <2>2. CASE known = <<>>
    <3>1. x = <<"keyword", line.keyword>>
      BY <1>6, <2>1, <2>2
    <3>2. ToSet(o) = {}
      <4>1. \A k \in 1 .. Len(o) : FALSE
        <5>1. \A k \in 1 .. Len(o) : \E j \in 1 .. Len(known) : known[j] = o[k]
          BY <1>3, <1>4, FirstsIs
        <5>2. Len(known) = 0
          BY <2>2
        <5> QED BY <5>1, <5>2
      <4>2. DOMAIN o = 1 .. Len(o)
        BY <1>3
      <4> QED BY <4>1, <4>2 DEF ToSet
    <3>3. line.keyword \in DOMAIN KeywordAt
      BY <1>3, <1>7, <3>2, RequestsAssumption
    <3> QED BY <3>1, <3>3, KindsAre
  <2>3. CASE known # <<>>
    <3>1. i \in DOMAIN known /\ x = <<"named", known[i]>>
      BY <1>6, <2>1, <2>3
    <3>2. known[i] \in DOMAIN NameAt
      BY <1>4, <3>1
    <3> QED BY <3>1, <3>2, KindsAre
  <2> QED BY <2>2, <2>3
<1>8. CASE line.type \in {"author", "mood"}
  <2>1. s = <<<<line.type, line.keyword>>>>
    BY <1>5, <1>8 DEF InterestsOf
  <2>2. x = <<line.type, line.keyword>>
    BY <1>6, <2>1
  <2> QED BY <1>8, <2>2 DEF Legit
<1>9. CASE ~(line.type = "topic" /\ ~line.title) /\ line.type \notin {"author", "mood"}
  <2>1. s = <<>>
    BY <1>5, <1>9 DEF InterestsOf
  <2> QED BY <1>6, <2>1
<1> QED BY <1>7, <1>8, <1>9

LEMMA MemoryLegit ==
  ASSUME NEW lines \in Seq(Lines)
  PROVE  LegitNames(MemoryScores(lines))
<1> DEFINE S == {line \in ToSet(lines) : line.strength # RequestToAvoid}
<1>1. PICK said : said = Only(InOrder(lines), S)
  OBVIOUS
<1>2. said \in Seq(Lines)
  <2> HIDE DEF S
  <2>1. Only(InOrder(lines), S) \in Seq(Lines \cap S)
    BY InOrderIs, OnlyType
  <2> QED BY <1>1, <2>1
<1>3. PICK n \in Nat : n = Len(said) /\ DOMAIN said = 1 .. n
  BY <1>2
<1>4. PICK T : T = UNION {ToSet(InterestsOf(line)) : line \in Lines}
  OBVIOUS
<1>5. PICK h : h = [i \in 1 .. n |-> InterestsOf(said[i])]
  OBVIOUS
<1>6. h \in Seq(Seq(T))
  <2>1. ASSUME NEW i \in 1 .. n PROVE h[i] \in Seq(T)
    <3>1. said[i] \in Lines
      BY <1>2, <1>3
    <3>2. InterestsOf(said[i]) \in Seq(ToSet(InterestsOf(said[i])))
      BY <3>1, InterestsOfIsList
    <3>3. ToSet(InterestsOf(said[i])) \subseteq T
      BY <1>4, <3>1
    <3>4. InterestsOf(said[i]) \in Seq(T)
      BY <3>2, <3>3
    <3> QED BY <1>5, <3>4
  <2>2. h \in [1 .. n -> Seq(T)]
    BY <1>5, <2>1
  <2> QED BY <2>2, SeqDef
<1>7. PICK names : names = Firsts(FlattenSeq(h))
  OBVIOUS
<1>8. names \in Seq(T)
  BY <1>6, <1>7, FlattenType, FirstsIs
<1>9. PICK m \in Nat : m = Len(names) /\ DOMAIN names = 1 .. m
  BY <1>8
<1> DEFINE about(x) == Only(said, {line \in ToSet(said) : About(line, x)})
           values(x) == [i \in DOMAIN about(x) |-> (6 * about(x)[i].strength) \div Len(InterestsOf(about(x)[i]))]
<1>12. MemoryScores(lines) = [i \in DOMAIN names |-> <<names[i], LastRun(values(names[i]))>>]
  BY <1>1, <1>3, <1>5, <1>7, Zenon DEF MemoryScores
<1> HIDE DEF values
<1>13. ASSUME NEW i \in 1 .. m PROVE Legit(names[i])
  <2>1. names[i] \in T
    BY <1>8, <1>9
  <2>2. PICK line \in Lines : names[i] \in ToSet(InterestsOf(line))
    BY <1>4, <2>1
  <2> QED BY <2>2, LinesLegit
<1>14. PICK s : s = MemoryScores(lines)
  OBVIOUS
<1>15. DOMAIN s = 1 .. m /\ \A i \in 1 .. m : s[i][1] = names[i]
  BY <1>9, <1>12, <1>14
<1> QED BY <1>13, <1>14, <1>15 DEF LegitNames

\* A book is of no interest, or of one that has a place.
LEMMA BooksLegit ==
  ASSUME NEW b \in Stock, NEW named
  PROVE  BookInterest(b, named) = None \/ Legit(BookInterest(b, named))
<1>1. ClassInterest(b.number) = None \/ Legit(ClassInterest(b.number))
  <2>1. PICK known : known = {n \in 1 .. 3 : Len(b.number) = 3 /\ SubSeq(b.number, 1, n) \in DOMAIN ClassTable}
    OBVIOUS
  <2>2. CASE known # {}
    <3>1. IsFiniteSet(known) /\ known \subseteq Int
      <4>1. 1 \in Int /\ 3 \in Int /\ known \subseteq 1 .. 3
        BY <2>1
      <4>2. IsFiniteSet(1 .. 3)
        BY <4>1, FS_Interval
      <4>3. IsFiniteSet(known)
        BY <4>1, <4>2, FS_Subset
      <4> QED BY <4>1, <4>3
    <3>2. Max(known) \in known
      BY <2>2, <3>1, LargestIsThere
    <3>3. SubSeq(b.number, 1, Max(known)) \in DOMAIN ClassTable
      BY <2>1, <3>2
    <3>4. PICK n : n = ClassTable[SubSeq(b.number, 1, Max(known))] /\ n \in DOMAIN NameAt
      BY <3>3, TablesAssumption
    <3>5. ClassInterest(b.number) = <<"named", n>>
      BY <2>1, <2>2, <3>4 DEF ClassInterest
    <3> QED BY <3>4, <3>5, KindsAre
  <2>3. CASE known = {}
    BY <2>1, <2>3 DEF ClassInterest
  <2> QED BY <2>2, <2>3
<1>2. NearestSubcategory(b, named) = None \/ Legit(NearestSubcategory(b, named))
  <2>1. CASE b.embedded /\ (named) /\ Subcategories # <<>>
    <3>1. PICK n \in Nat : n = Len(Subcategories) /\ DOMAIN Subcategories = 1 .. n
      BY TablesAssumption
    <3>2. PICK S : S = 1 .. n
      OBVIOUS
    <3>3. \A k \in S : Subcategories[k] \in DOMAIN Parent /\ Subcategories[k] \in DOMAIN NameAt
      <4>1. \A k \in S : Subcategories[k] \in DOMAIN Parent
        BY <3>1, <3>2, TablesAssumption
      <4>2. DOMAIN Parent \subseteq DOMAIN NameAt
        BY InterestsAssumption
      <4> QED BY <4>1, <4>2
    <3>4. PICK f : f = [k \in S |-> <<Apart(b.at, NameAt[Subcategories[k]]), k>>]
      OBVIOUS
    <3>5. PICK m \in Nat : m = 2
      OBVIOUS
    <3>6. ASSUME NEW k \in S PROVE f[k] \in [1 .. m -> Int]
      <4>1. PICK q : q = [sum |-> NameAt[Subcategories[k]], weight |-> 1]
        OBVIOUS
      <4>2. Query(q)
        BY <3>3, <4>1, TablesAssumption DEF Query
      <4>3. b.at * q.weight = b.at
        BY <4>1, StockAssumption
      <4>4. Distance(q, b) = Apart(b.at, NameAt[Subcategories[k]])
        BY <4>1, <4>3 DEF Distance
      <4>5. PICK d \in Int, j \in Int : d = Apart(b.at, NameAt[Subcategories[k]]) /\ j = k
        BY <3>2, <4>2, <4>4, DistanceIsInt
      <4>6. f[k] = <<d, j>>
        BY <3>4, <4>5
      <4> QED BY <3>5, <4>6
    <3>7. f \in [S -> [1 .. m -> Int]]
      BY <3>4, <3>6
    <3>8. IsFiniteSet(S) /\ S # {}
      <4>1. 1 \in Int /\ n \in Int
        OBVIOUS
      <4>2. n # 0
        BY <2>1, <3>1, TablesAssumption
      <4>3. IsFiniteSet(S)
        BY <3>2, <4>1, FS_Interval
      <4>4. 1 \in S
        BY <3>2, <4>2
      <4> QED BY <4>3, <4>4
    <3>9. \E x \in S : \A y \in S : ~Before(f[y], f[x])
      BY <3>7, <3>8, LeastIsThere
    <3>10. PICK i : i = Least(S, LAMBDA k : <<Apart(b.at, NameAt[Subcategories[k]]), k>>)
      OBVIOUS
    <3>11. i \in S
      <4>1. \A x \in S : f[x] = <<Apart(b.at, NameAt[Subcategories[x]]), x>>
        BY <3>4
      <4>2. \E x \in S : \A y \in S : ~Before(<<Apart(b.at, NameAt[Subcategories[y]]), y>>,
                                            <<Apart(b.at, NameAt[Subcategories[x]]), x>>)
        BY <3>9, <4>1, Zenon
      <4> QED BY <3>10, <4>2, Zenon DEF Least
    <3>12. NearestSubcategory(b, named) = <<"named", Subcategories[i]>>
      BY <2>1, <3>1, <3>2, <3>10, Zenon DEF NearestSubcategory
    <3> QED BY <3>3, <3>11, <3>12, KindsAre
  <2>2. CASE ~(b.embedded /\ (named) /\ Subcategories # <<>>)
    BY <2>2, Zenon DEF NearestSubcategory
  <2> QED BY <2>1, <2>2
<1>3. ASSUME NEW n \in DOMAIN Core PROVE Legit(<<"named", n>>)
  BY InterestsAssumption, KindsAre
<1>4. PICK owners : owners = {n \in DOMAIN Core : b.category \in Core[n]}
  OBVIOUS
<1>5. \/ BookInterest(b, named) = ClassInterest(b.number)
      \/ owners # {} /\ BookInterest(b, named) = <<"named", CHOOSE n \in owners : TRUE>>
      \/ BookInterest(b, named) = NearestSubcategory(b, named)
  BY <1>4, Zenon DEF BookInterest
<1>6. owners # {} => Legit(<<"named", CHOOSE n \in owners : TRUE>>)
  BY <1>3, <1>4
<1>7. PICK bi, ci, ns, ow : /\ bi = BookInterest(b, named) /\ ci = ClassInterest(b.number)
                           /\ ns = NearestSubcategory(b, named)
                           /\ ow = <<"named", CHOOSE n \in owners : TRUE>>
  OBVIOUS
<1>8. /\ ci = None \/ Legit(ci)
      /\ ns = None \/ Legit(ns)
      /\ bi = ci \/ (owners # {} /\ bi = ow) \/ bi = ns
      /\ owners # {} => Legit(ow)
  BY <1>1, <1>2, <1>5, <1>6, <1>7
<1>9. bi = None \/ Legit(bi)
  <2> HIDE DEF Legit, None
  <2> QED BY <1>8
<1> QED BY <1>7, <1>9

LEMMA BookNamesLegit ==
  ASSUME NEW weights, NEW named, NEW books \in Seq(Stock),
         \A b \in ToSet(books) : BookInterest(b, named) # None
  PROVE  LegitNames(BookScores(books, weights, named))
<1>1. PICK n \in Nat : n = Len(books) /\ DOMAIN books = 1 .. n
  OBVIOUS
<1>2. PICK h : h = [i \in 1 .. n |-> BookInterest(books[i], named)]
  OBVIOUS
<1>3. PICK T : T = {h[i] : i \in 1 .. n}
  OBVIOUS
<1>4. h \in Seq(T)
  <2>1. h \in [1 .. n -> T]
    BY <1>2, <1>3
  <2> QED BY <2>1, SeqDef
<1>5. PICK names : names = Firsts(h)
  OBVIOUS
<1>6. names \in Seq(T)
  BY <1>4, <1>5, FirstsIs
<1>7. PICK m \in Nat : m = Len(names) /\ DOMAIN names = 1 .. m
  BY <1>6
<1> DEFINE mine(x) == {b \in ToSet(books) : BookInterest(b, named) = x}
           points(x) == [b \in mine(x) |-> weights[b.id]]
<1>8. BookScores(books, weights, named) = [i \in DOMAIN names |-> <<names[i], SumOf(points(names[i]))>>]
  BY <1>1, <1>2, <1>5, Zenon DEF BookScores
<1> HIDE DEF points
<1>9. ASSUME NEW i \in 1 .. m PROVE Legit(names[i])
  <2>1. names[i] \in T
    BY <1>6, <1>7
  <2>2. PICK k \in 1 .. n : names[i] = BookInterest(books[k], named)
    BY <1>2, <1>3, <2>1
  <2>3. books[k] \in Stock /\ books[k] \in ToSet(books)
    BY <1>1 DEF ToSet
  <2>4. BookInterest(books[k], named) # None
    BY <2>3
  <2>5. Legit(BookInterest(books[k], named))
    BY <2>3, <2>4, BooksLegit, Zenon
  <2> QED BY <2>2, <2>5
<1>10. PICK s : s = BookScores(books, weights, named)
  OBVIOUS
<1>11. DOMAIN s = 1 .. m /\ \A i \in 1 .. m : s[i][1] = names[i]
  BY <1>7, <1>8, <1>10
<1> QED BY <1>9, <1>10, <1>11 DEF LegitNames

LEMMA OfItsOwn ==
  ASSUME NEW T, NEW s \in Seq(T)
  PROVE  s \in Seq(ToSet(s))
<1>1. PICK n \in Nat : n = Len(s) /\ s = [i \in 1 .. n |-> s[i]]
  OBVIOUS
<1> QED BY <1>1, OfFunction

LEMMA CombinedLegit ==
  ASSUME NEW o, Points(o), LegitNames(o), NEW m, Points(m), LegitNames(m), NEW b, Points(b), LegitNames(b)
  PROVE  LegitNames(Combined(o, m, b))
<1>1. PICK h1 : h1 = [i \in DOMAIN o |-> o[i][1]] /\ \E T : h1 \in Seq(T)
  BY NamesAreList
<1>2. PICK h2 : h2 = [i \in DOMAIN m |-> m[i][1]] /\ \E T : h2 \in Seq(T)
  BY NamesAreList
<1>3. PICK h3 : h3 = [i \in DOMAIN b |-> b[i][1]] /\ \E T : h3 \in Seq(T)
  BY NamesAreList
<1>4. PICK T : T = ToSet(h1) \cup ToSet(h2) \cup ToSet(h3)
  OBVIOUS
<1>5. h1 \in Seq(T) /\ h2 \in Seq(T) /\ h3 \in Seq(T)
  <2>1. PICK T1, T2, T3 : h1 \in Seq(T1) /\ h2 \in Seq(T2) /\ h3 \in Seq(T3)
    BY <1>1, <1>2, <1>3
  <2>2. h1 \in Seq(ToSet(h1)) /\ h2 \in Seq(ToSet(h2)) /\ h3 \in Seq(ToSet(h3))
    BY <2>1, OfItsOwn
  <2> QED BY <1>4, <2>2
<1>6. \A x \in T : Legit(x)
  <2>1. \A x \in ToSet(h1) : Legit(x)
    BY <1>1 DEF LegitNames, ToSet
  <2>2. \A x \in ToSet(h2) : Legit(x)
    BY <1>2 DEF LegitNames, ToSet
  <2>3. \A x \in ToSet(h3) : Legit(x)
    BY <1>3 DEF LegitNames, ToSet
  <2> QED BY <1>4, <2>1, <2>2, <2>3
<1>7. PICK h : h = h1 \o h2 \o h3
  OBVIOUS
<1>8. h \in Seq(T)
  <2>1. h1 \o h2 \in Seq(T)
    BY <1>5, ConcatProperties
  <2>2. (h1 \o h2) \o h3 \in Seq(T)
    BY <1>5, <2>1, ConcatProperties
  <2> QED BY <1>7, <2>2
<1>9. PICK names : names = Firsts(h)
  OBVIOUS
<1>10. names \in Seq(T)
  BY <1>8, <1>9, FirstsIs
<1>11. PICK k \in Nat : k = Len(names) /\ DOMAIN names = 1 .. k
  BY <1>10
<1>12. PICK n : n = Max({1, Len(o)})
  OBVIOUS
<1> DEFINE parts(x) == [onboarding |-> 90 * ScoreOf(o, x), memory |-> 3 * n * ScoreOf(m, x),
                        books |-> 6 * n * ScoreOf(b, x)]
<1>13. Combined(o, m, b) = [i \in DOMAIN names |-> <<names[i], PartsTogether(parts(names[i]))>>]
  BY <1>1, <1>2, <1>3, <1>7, <1>9, <1>12, Zenon DEF Combined
<1> HIDE DEF parts
<1>14. PICK s : s = Combined(o, m, b)
  OBVIOUS
<1>15. DOMAIN s = 1 .. k /\ \A i \in 1 .. k : s[i][1] = names[i]
  BY <1>11, <1>13, <1>14
<1>16. \A i \in 1 .. k : Legit(names[i])
  <2>1. \A i \in 1 .. k : names[i] \in T
    BY <1>10, <1>11
  <2> QED BY <1>6, <2>1
<1> QED BY <1>14, <1>15, <1>16 DEF LegitNames

LEMMA MeanIsAQuery ==
  ASSUME NEW weights, NEW S, Weighed(S, weights), NEW books \in Seq(S), NEW named, NEW x
  PROVE  Query(BookMean(books, weights, named, x))
<1>1. PICK M : M = {b \in ToSet(books) : BookInterest(b, named) = x}
  OBVIOUS
<1>2. M \subseteq S
  <2>1. ToSet(books) \subseteq S
    BY SetOf
  <2> QED BY <1>1, <2>1
<1>3. IsFiniteSet(M)
  BY <1>2, StockAssumption, FS_Subset DEF Weighed
<1>4. PICK f : f = [b \in M |-> weights[b.id] * b.at]
  OBVIOUS
<1>5. PICK g : g = [b \in M |-> weights[b.id]]
  OBVIOUS
<1>6. \A b \in M : weights[b.id] \in Int /\ b.at \in Int
  BY <1>2, StockAssumption DEF Weighed
<1>7. g \in [M -> Int]
  BY <1>5, <1>6
<1>8. f \in [M -> Int]
  <2>1. ASSUME NEW b \in M PROVE weights[b.id] * b.at \in Int
    <3>1. PICK i \in Int, j \in Int : i = weights[b.id] /\ j = b.at
      BY <1>6
    <3>2. i * j \in Int
      OBVIOUS
    <3> QED BY <3>1, <3>2
  <2> QED BY <1>4, <2>1
<1>9. SumOf(f) \in Int /\ SumOf(g) \in Int
  BY <1>3, <1>7, <1>8, SumIsInt
<1>10. BookMean(books, weights, named, x) = [sum |-> SumOf(f), weight |-> SumOf(g)]
  BY <1>1, <1>4, <1>5, Zenon DEF BookMean
<1> QED BY <1>9, <1>10 DEF Query

LEMMA PlacesAreQueries ==
  /\ Query(NoQuery)
  /\ \A n \in Int : Query(AtPlace(n))
BY DEF Query, NoQuery, AtPlace

LEMMA JobCanBeDone ==
  ASSUME NEW s, s.count \in Nat, Legit(s.name), s.name[1] # "mood", NEW weights, NEW S, Weighed(S, weights),
         NEW mine \in Seq(S), NEW seen
  PROVE  Fetchable(Job(s, mine, weights, seen))
<1>1. PICK x : x = s.name
  OBVIOUS
<1>2. PICK own : own = Anchors(mine, seen, Named, x)
  OBVIOUS
<1>3. PICK limit : limit = Min({Max({s.count * PickFactor, PickMin}), PickMax})
  OBVIOUS
<1>4. PICK named : named = Named
  OBVIOUS
<1> DEFINE job(query, byName, anchors) ==
             [name |-> x, limit |-> limit, query |-> query, byName |-> byName, anchors |-> anchors]
<1>5. Job(s, mine, weights, seen) =
        IF x[1] = "author" THEN job(NoQuery, FALSE, {})
        ELSE IF x[1] = "keyword" THEN job(AtPlace(KeywordAt[x[2]]), TRUE, {})
        ELSE IF own # {} THEN job(BookMean(mine, weights, Named, x), FALSE, own)
        ELSE job(IF Named THEN AtPlace(NameAt[x[2]]) ELSE NoQuery, TRUE, {})
  BY <1>1, <1>2, <1>3, Zenon DEF Job
<1>7. PICK r : r = Job(s, mine, weights, seen)
  OBVIOUS
<1>8. CASE x[1] = "author"
  <2>1. r.query = NoQuery
    <3>1. r = job(NoQuery, FALSE, {})
      BY <1>5, <1>7, <1>8, Zenon
    <3> QED BY <3>1
  <2> QED BY <1>7, <2>1, JobIs, PlacesAreQueries DEF Fetchable
<1>9. CASE x[1] = "keyword"
  <2>1. r.query = AtPlace(KeywordAt[x[2]])
    <3>1. r = job(AtPlace(KeywordAt[x[2]]), TRUE, {})
      BY <1>5, <1>7, <1>9, Zenon
    <3> QED BY <3>1
  <2>2. x[2] \in DOMAIN KeywordAt
    BY <1>1, <1>9 DEF Legit
  <2>3. KeywordAt[x[2]] \in Int
    BY <2>2, RequestsAssumption
  <2> QED BY <1>7, <2>1, <2>3, JobIs, PlacesAreQueries DEF Fetchable
<1>10. CASE x[1] \notin {"author", "keyword"}
  <2>1. x[2] \in DOMAIN NameAt
    BY <1>1, <1>10 DEF Legit
  <2>2. NameAt[x[2]] \in Int
    BY <2>1, TablesAssumption
  <2>3. r = IF own # {} THEN job(BookMean(mine, weights, named, x), FALSE, own)
            ELSE job(IF named THEN AtPlace(NameAt[x[2]]) ELSE NoQuery, TRUE, {})
    BY <1>4, <1>5, <1>7, <1>10, Zenon
  <2>4. r.query \in {BookMean(mine, weights, named, x), AtPlace(NameAt[x[2]]), NoQuery}
    BY <2>3
  <2>5. Query(r.query)
    <3>1. Query(BookMean(mine, weights, named, x)) /\ Query(AtPlace(NameAt[x[2]])) /\ Query(NoQuery)
      BY <2>2, MeanIsAQuery, PlacesAreQueries
    <3> HIDE DEF Query
    <3> QED BY <2>4, <3>1
  <2> QED BY <1>7, <2>5, JobIs DEF Fetchable
<1> QED BY <1>8, <1>9, <1>10

\* What is picked are books of the catalogue.
StockInv ==
  ~Open => /\ \A i \in 1 .. Len(build.todo) : Fetchable(build.todo[i])
           /\ \A x \in DOMAIN build.picks : build.picks[x] \in Seq(Stock)

LEMMA ScoresLegit ==
  ASSUME NEW lines \in Seq(Lines), NEW o \in Onboardings, NEW liked, NEW rows, IsFiniteSet(rows),
         NEW named
  PROVE  LET weights == BookWeights(liked, rows)
             mine == MyBooks(weights, named)
         IN /\ LegitNames(Combined(OnboardingScores(o.categories, o.tags), MemoryScores(Used(lines)),
                                   BookScores(mine, weights, named)))
            /\ \E S : Weighed(S, weights) /\ mine \in Seq(S)
<1>1. PICK weights : weights = BookWeights(liked, rows)
  OBVIOUS
<1>2. PICK mine : mine = MyBooks(weights, named)
  OBVIOUS
<1>3. Points(OnboardingScores(o.categories, o.tags)) /\ Points(MemoryScores(Used(lines)))
  BY OnboardingPoints, UsedIs, MemoryPoints
<1>4. \A b \in DOMAIN weights : weights[b] \in Int
  BY <1>1, BookWeightIsInt
<1>5. PICK S : /\ Weighed(S, weights) /\ mine \in Seq(S)
               /\ \A b \in S : BookInterest(b, named) # None
  BY <1>2, <1>4, MyBooksAre
<1>6. Points(BookScores(mine, weights, named))
  BY <1>5, BookPoints
<1>7. LegitNames(OnboardingScores(o.categories, o.tags)) /\ LegitNames(MemoryScores(Used(lines)))
  BY OnboardingLegit, UsedIs, MemoryLegit
<1>8. LegitNames(BookScores(mine, weights, named))
  <2>1. ToSet(mine) \subseteq S
    BY <1>5, SetOf
  <2>2. mine \in Seq(Stock)
    BY <1>5 DEF Weighed
  <2>3. \A b \in ToSet(mine) : BookInterest(b, named) # None
    BY <1>5, <2>1
  <2> QED BY <2>2, <2>3, BookNamesLegit
<1>9. LegitNames(Combined(OnboardingScores(o.categories, o.tags), MemoryScores(Used(lines)),
                          BookScores(mine, weights, named)))
  BY <1>3, <1>6, <1>7, <1>8, CombinedLegit
<1> QED BY <1>1, <1>2, <1>5, <1>9

LEMMA StartKeepsStock ==
  ASSUME LateInv, Start
  PROVE  StockInv'
<1> DEFINE liked == LikedOf(onboarding.isbns, onboarding.ids)
           weights == BookWeights(liked, history)
           mine == MyBooks(weights, Named)
           lines == Used(told)
           seen == [b \in {o.id : o \in Stock} |->
                      Min({NoPrice} \cup {r.at : r \in {h \in history : h.book = b}})]
           scores == Combined(OnboardingScores(onboarding.categories, onboarding.tags),
                              MemoryScores(lines), BookScores(mine, weights, Named))
           seats == Allocate(scores)
           jobs == LargestFirst(seats)
           todo == [i \in DOMAIN jobs |-> Job(jobs[i], mine, weights, seen)]
           owned == Reviewed(history)
           negatives == {p[1] : p \in {q \in ToSet(scores) : q[2] < 0}}
           conditions == ConditionsOf(lines)
           taste == [likes |-> ToSet(LivingLikes(lines)),
                     tags |-> TagWeights(onboarding.tags, onboarding.categories, history),
                     cold |-> ColdStart(lines, weights,
                                        ToSet(onboarding.categories \o onboarding.tags),
                                        vectors # "none")]
<1>1. build' = [NoBuild EXCEPT !.pc = "fetching", !.seats = seats, !.todo = todo, !.owned = owned,
                  !.negatives = negatives, !.conditions = conditions, !.taste = taste]
  BY Zenon DEF Start
<1>2. Scored(scores) /\ LegitNames(scores)
  <2>1. Scored(scores)
    BY StartScores, Zenon DEF LateInv
  <2>2. LegitNames(scores)
    BY ScoresLegit, Zenon DEF LateInv
  <2> QED BY <2>1, <2>2
<1>3. PICK S : Weighed(S, weights) /\ mine \in Seq(S)
  BY ScoresLegit, Zenon DEF LateInv
<1> HIDE DEF scores, mine, weights, seen
<1>4. /\ SeatList(seats)
      /\ \A i \in DOMAIN seats : \E p \in ToSet(scores) :
           p[2] > 0 /\ p[1][1] # "mood" /\ seats[i].name = p[1]
  BY <1>2, AllocateIs
<1>5. \A i \in DOMAIN seats : Legit(seats[i].name) /\ seats[i].name[1] # "mood"
  <2>1. \A p \in ToSet(scores) : Legit(p[1])
    BY <1>2 DEF LegitNames, ToSet
  <2> HIDE DEF seats, Legit
  <2> QED BY <1>4, <2>1
<1> HIDE DEF seats
<1>6. PICK T : seats \in Seq(T)
  BY <1>4 DEF SeatList
<1>7. PICK n \in Nat : n = Len(jobs) /\ DOMAIN jobs = 1 .. n
  <2>1. \E U : jobs \in Seq(U)
    BY <1>4, LargestFirstIs
  <2> HIDE DEF jobs
  <2> QED BY <2>1
<1>8. ASSUME NEW k \in 1 .. n PROVE Fetchable(todo[k])
  <2>1. PICK i \in 1 .. Len(seats) : jobs[k] = seats[i]
    BY <1>4, <1>7, LargestFirstIs
  <2>2. i \in DOMAIN seats /\ seats[i].count \in Nat
    BY <1>4, <1>6 DEF SeatList
  <2>3. Legit(seats[i].name) /\ seats[i].name[1] # "mood"
    BY <1>5, <2>2
  <2>4. PICK s : s = jobs[k] /\ s.count \in Nat /\ Legit(s.name) /\ s.name[1] # "mood"
    BY <2>1, <2>2, <2>3
  <2>5. todo[k] = Job(s, mine, weights, seen)
    BY <1>7, <2>4
  <2> HIDE DEF todo, jobs
  <2> QED BY <1>3, <2>4, <2>5, JobCanBeDone
<1>9. \A k \in 1 .. Len(todo) : Fetchable(todo[k])
  <2>1. DOMAIN todo = 1 .. n
    BY <1>7
  <2>2. \E f : f = todo
    OBVIOUS
  <2>3. todo = [k \in 1 .. n |-> todo[k]]
    BY <2>1
  <2> HIDE DEF todo
  <2>4. Len(todo) = n
    BY <2>3, OfFunction
  <2> QED BY <1>8, <2>4
<1> HIDE DEF todo, owned, negatives, conditions, taste
<1>10. build'.pc = "fetching" /\ build'.todo = todo /\ DOMAIN build'.picks = {}
  BY <1>1 DEF NoBuild
<1> QED BY <1>9, <1>10 DEF StockInv, Open

\* Whatever was fetched, if it is in stock, what is picked and what is to do stay as they should
\* be.
LEMMA FetchedKeepsStock ==
  ASSUME LateInv, StockInv, Fetching, NEW books \in Seq(Stock), NEW substituted, NEW late, NEW missed,
         Fetched(books, substituted, late, missed)
  PROVE  StockInv'
<1>1. PICK job : job = build.todo[1]
  OBVIOUS
<1>2. PICK todo, picks : todo = build.todo /\ picks = build.picks
  OBVIOUS
<1>3. /\ \A i \in 1 .. Len(todo) : Fetchable(todo[i])
      /\ \A x \in DOMAIN picks : picks[x] \in Seq(Stock)
      /\ todo # <<>>
  BY <1>2 DEF StockInv, Fetching, Open
<1>4. PICK T : todo \in Seq(T)
  BY <1>2 DEF LateInv, Fetching, Open, Fair, Waiting
<1>5. PICK fetched : fetched = [x \in DOMAIN picks \cup {job.name} |-> IF x = job.name THEN books ELSE picks[x]]
  OBVIOUS
<1>6. build'.todo = Tail(todo) /\ build'.picks = fetched
  BY <1>1, <1>2, <1>5 DEF Fetched, LateInv, BuildFields
<1>7. \A x \in DOMAIN fetched : fetched[x] \in Seq(Stock)
  BY <1>3, <1>5
<1>8. PICK t : t = Tail(todo)
  OBVIOUS
<1>9. Len(t) = Len(todo) - 1 /\ \A i \in 1 .. Len(t) : t[i] = todo[i + 1]
  BY <1>3, <1>4, <1>8, HeadTailProperties
<1>10. \A i \in 1 .. Len(t) : Fetchable(t[i])
  <2> SUFFICES ASSUME NEW i \in 1 .. Len(t) PROVE Fetchable(t[i])
    OBVIOUS
  <2>1. PICK n \in Nat : n = Len(todo)
    BY <1>4
  <2>2. i + 1 \in 1 .. n
    BY <1>9, <2>1
  <2>3. t[i] = todo[i + 1]
    BY <1>9
  <2> QED BY <1>3, <2>1, <2>2, <2>3
<1> HIDE DEF Fetchable
<1> QED BY <1>6, <1>7, <1>8, <1>10 DEF StockInv

\* The job whose turn it is can be done.
LEMMA NextIsFetchable ==
  ASSUME LateInv, StockInv, Fetching
  PROVE  Fetchable(build.todo[1])
<1>1. PICK T : build.todo \in Seq(T)
  BY DEF LateInv, Fetching, Open, Fair, Waiting
<1>2. 1 \in 1 .. Len(build.todo)
  BY <1>1 DEF Fetching
<1> QED BY <1>2 DEF StockInv, Fetching, Open

\* An answer in time (interest_fetch.py) is made of books in stock.
LEMMA InTimeKeepsStock ==
  ASSUME LateInv, StockInv, FetchInTime
  PROVE  StockInv'
<1>1. Fetching
  BY DEF FetchInTime
<1> DEFINE job == build.todo[1]
<1>2. Fetchable(job)
  BY <1>1, NextIsFetchable
<1>3. /\ OfAuthor(job) \in Seq(Stock)
      /\ \A t \in BOOLEAN : OfKeyword(job, t) \in Seq(Stock)
      /\ NumberedFirst(job.name, Nearest(job)) \in Seq(Stock)
  <2>1. job.limit \in Nat
    BY <1>2 DEF Fetchable
  <2> HIDE DEF job
  <2>2. OfAuthor(job) \in Seq(Stock)
    BY <2>1, OfAuthorInStock
  <2>3. \A t \in BOOLEAN : OfKeyword(job, t) \in Seq(Stock)
    BY <1>2, OfKeywordInStock
  <2>4. NumberedFirst(job.name, Nearest(job)) \in Seq(Stock)
    BY <1>2, NearestInStock, NumberedInStock
  <2> QED BY <2>2, <2>3, <2>4
<1>4. CASE job.name[1] = "author" /\ Fetched(OfAuthor(job), {}, FALSE, {})
  BY <1>1, <1>3, <1>4, FetchedKeepsStock, Zenon
<1>5. CASE /\ job.name[1] = "keyword"
           /\ \E titles \in BOOLEAN :
                IF TooFew(job) THEN Fetched(OfKeyword(job, titles), {}, ~titles, {})
                ELSE Fetched(OfKeyword(job, FALSE), {}, FALSE, {})
  <2>1. PICK titles \in BOOLEAN : IF TooFew(job) THEN Fetched(OfKeyword(job, titles), {}, ~titles, {})
                                  ELSE Fetched(OfKeyword(job, FALSE), {}, FALSE, {})
    BY <1>5
  <2>2. \/ Fetched(OfKeyword(job, titles), {}, ~titles, {})
        \/ Fetched(OfKeyword(job, FALSE), {}, FALSE, {})
    BY <2>1, Zenon
  <2>3. FALSE \in BOOLEAN
    OBVIOUS
  <2>4. OfKeyword(job, titles) \in Seq(Stock) /\ OfKeyword(job, FALSE) \in Seq(Stock)
    BY <1>3, <2>3
  <2> QED BY <1>1, <2>2, <2>4, FetchedKeepsStock, Zenon
<1>6. CASE job.name[1] = "named" /\ Fetched(NumberedFirst(job.name, Nearest(job)), {}, FALSE, {})
  BY <1>1, <1>3, <1>6, FetchedKeepsStock, Zenon
<1> QED BY <1>4, <1>5, <1>6, Zenon DEF FetchInTime

\* So is what stands in for it.
LEMMA OthersKeepStock ==
  ASSUME LateInv, StockInv, FetchOthers
  PROVE  StockInv'
<1>1. PICK job : job = build.todo[1]
  OBVIOUS
<1>2. PICK nothing : nothing = (job.name[1] = "named" /\ job.query = NoQuery)
  OBVIOUS
<1>3. Fetching
  BY DEF FetchOthers
<1>4. \E books \in Substituted(job) :
        Fetched(books, {job.name}, build.late \/ ~nothing, IF nothing THEN {} ELSE {job.name})
  BY <1>1, <1>2, Zenon DEF FetchOthers
<1>5. PICK books, late, missed : books \in Substituted(job) /\ Fetched(books, {job.name}, late, missed)
  BY <1>4, Zenon
<1>6. books \in Seq(Stock)
  <2>1. job.limit \in Nat
    BY <1>1, <1>3, NextIsFetchable DEF Fetchable
  <2>2. Popular(job) \in Seq(Stock)
    BY <2>1, PopularInStock
  <2>3. <<>> \in Seq(Stock)
    OBVIOUS
  <2> QED BY <1>5, <2>2, <2>3 DEF Substituted
<1> QED BY <1>3, <1>5, <1>6, FetchedKeepsStock
-----------------------------------------------------------------------------
(* Taking turns (interest_list.py:96-132).                                 *)

\* The part i has of its seats is no larger than the part j has of its own.
Behind(p, c, i, j) == p[i] * c[j] <= p[j] * c[i]
GoesFirst(p, c, i, j) == Behind(p, c, i, j) /\ (Behind(p, c, j, i) => i <= j)

LEMMA TimesGrows ==
  ASSUME NEW a \in Nat, NEW b \in Nat, NEW c \in Nat, a <= b
  PROVE  a * c <= b * c
OBVIOUS

LEMMA TimesShrinks ==
  ASSUME NEW a \in Nat, NEW b \in Nat, NEW c \in Nat \ {0}, a * c <= b * c
  PROVE  a <= b
<1>1. PICK d \in Nat : d = c - 1 /\ c = d + 1
  OBVIOUS
<1> SUFFICES ASSUME b + 1 <= a PROVE FALSE
  OBVIOUS
<1>2. (b + 1) * c <= a * c
  BY TimesGrows
<1>3. (b + 1) * c = b * c + c
  OBVIOUS
<1>4. PICK m \in Nat, n \in Nat : m = a * c /\ n = b * c
  OBVIOUS
<1> QED BY <1>2, <1>3, <1>4

\* Fractions are compared by their cross products, and this is an order.
LEMMA PartsInOrder ==
  ASSUME NEW p1 \in Nat, NEW p2 \in Nat, NEW p3 \in Nat,
         NEW c1 \in Nat \ {0}, NEW c2 \in Nat \ {0}, NEW c3 \in Nat \ {0},
         p1 * c2 <= p2 * c1, p2 * c3 <= p3 * c2
  PROVE  p1 * c3 <= p3 * c1
<1>1. (p1 * c2) * c3 <= (p2 * c1) * c3
  <2>1. p1 * c2 \in Nat /\ p2 * c1 \in Nat /\ c3 \in Nat
    OBVIOUS
  <2> QED BY <2>1, TimesGrows
<1>2. (p2 * c3) * c1 <= (p3 * c2) * c1
  <2>1. p2 * c3 \in Nat /\ p3 * c2 \in Nat /\ c1 \in Nat
    OBVIOUS
  <2> QED BY <2>1, TimesGrows
<1>3. (p2 * c1) * c3 = (p2 * c3) * c1
  OBVIOUS
<1>4. (p1 * c2) * c3 = (p1 * c3) * c2 /\ (p3 * c2) * c1 = (p3 * c1) * c2
  OBVIOUS
<1>5. PICK a \in Nat, b \in Nat, u \in Nat, v \in Nat :
        a = p1 * c3 /\ b = p3 * c1 /\ u = (p2 * c1) * c3 /\ v = a * c2
  OBVIOUS
<1>6. PICK w \in Nat : w = b * c2
  OBVIOUS
<1>7. a * c2 <= b * c2
  BY <1>1, <1>2, <1>3, <1>4, <1>5, <1>6
<1>8. a <= b
  BY <1>7, TimesShrinks
<1> QED BY <1>5, <1>8

\* There is always one whose turn it is.
LEMMA FirstIsThere ==
  ASSUME NEW n \in Nat, NEW turn, turn \subseteq 1 .. n, turn # {},
         NEW p \in [1 .. n -> Nat], NEW c \in [1 .. n -> Nat \ {0}]
  PROVE  \E i \in turn : \A j \in turn : GoesFirst(p, c, i, j)
<1> DEFINE Upto(m) == {i \in turn : i <= m}
           M == {m \in Nat : Upto(m) # {} => \E i \in Upto(m) : \A j \in Upto(m) : GoesFirst(p, c, i, j)}
<1>1. \A i \in turn : i \in Nat /\ i >= 1 /\ i <= n /\ p[i] \in Nat /\ c[i] \in Nat \ {0}
  OBVIOUS
<1>2. \A i, j, k \in turn : Behind(p, c, i, j) /\ Behind(p, c, j, k) => Behind(p, c, i, k)
  <2> SUFFICES ASSUME NEW i \in turn, NEW j \in turn, NEW k \in turn,
                      Behind(p, c, i, j), Behind(p, c, j, k)
               PROVE  Behind(p, c, i, k)
    OBVIOUS
  <2>1. PICK p1 \in Nat, p2 \in Nat, p3 \in Nat : p1 = p[i] /\ p2 = p[j] /\ p3 = p[k]
    BY <1>1
  <2>2. PICK c1 \in Nat \ {0}, c2 \in Nat \ {0}, c3 \in Nat \ {0} : c1 = c[i] /\ c2 = c[j] /\ c3 = c[k]
    BY <1>1
  <2>3. p1 * c2 <= p2 * c1 /\ p2 * c3 <= p3 * c2
    BY <2>1, <2>2 DEF Behind
  <2>4. p1 * c3 <= p3 * c1
    BY <2>3, PartsInOrder
  <2> QED BY <2>1, <2>2, <2>4 DEF Behind
<1>3. \A i, j \in turn : Behind(p, c, i, j) \/ Behind(p, c, j, i)
  <2> SUFFICES ASSUME NEW i \in turn, NEW j \in turn PROVE Behind(p, c, i, j) \/ Behind(p, c, j, i)
    OBVIOUS
  <2>1. PICK p1 \in Nat, p2 \in Nat, c1 \in Nat, c2 \in Nat : p1 = p[i] /\ p2 = p[j] /\ c1 = c[i] /\ c2 = c[j]
    BY <1>1
  <2>2. p1 * c2 <= p2 * c1 \/ p2 * c1 <= p1 * c2
    OBVIOUS
  <2> QED BY <2>1, <2>2 DEF Behind
<1>4. 0 \in M
  <2>1. Upto(0) = {}
    <3>1. \A i \in turn : ~(i <= 0)
      BY <1>1
    <3> QED BY <3>1
  <2> QED BY <2>1
<1>5. ASSUME NEW m \in Nat, m \in M PROVE m + 1 \in M
  <2> SUFFICES ASSUME Upto(m + 1) # {}
               PROVE  \E i \in Upto(m + 1) : \A j \in Upto(m + 1) : GoesFirst(p, c, i, j)
    OBVIOUS
  <2>1. CASE m + 1 \notin turn
    <3>1. \A i \in turn : i <= m + 1 <=> i <= m
      BY <1>1, <2>1
    <3>2. Upto(m + 1) = Upto(m)
      BY <3>1
    <3> QED BY <1>5, <3>2
  <2>2. CASE m + 1 \in turn /\ Upto(m) = {}
    <3>1. \A j \in Upto(m + 1) : j = m + 1
      BY <1>1, <2>2
    <3>2. Behind(p, c, m + 1, m + 1)
      BY <1>3, <2>2
    <3>3. GoesFirst(p, c, m + 1, m + 1) /\ m + 1 \in Upto(m + 1)
      BY <2>2, <3>2 DEF GoesFirst
    <3> QED BY <3>1, <3>3
  <2>3. CASE m + 1 \in turn /\ Upto(m) # {}
    <3>1. PICK i \in Upto(m) : \A j \in Upto(m) : GoesFirst(p, c, i, j)
      BY <1>5, <2>3
    <3>2. \A j \in Upto(m + 1) : j \in Upto(m) \/ j = m + 1
      BY <1>1
    <3>3. i \in turn /\ i \in Upto(m + 1) /\ i <= m + 1 /\ m + 1 \in Upto(m + 1)
      BY <1>1, <2>3
    <3>4. CASE Behind(p, c, i, m + 1)
      <4>1. GoesFirst(p, c, i, m + 1)
        BY <3>3, <3>4 DEF GoesFirst
      <4> QED BY <3>1, <3>2, <3>3, <4>1
    <3>5. CASE ~Behind(p, c, i, m + 1)
      <4>1. Behind(p, c, m + 1, i)
        BY <1>3, <2>3, <3>3, <3>5
      <4>2. ASSUME NEW j \in Upto(m) PROVE GoesFirst(p, c, m + 1, j)
        <5>1. Behind(p, c, i, j) /\ j \in turn
          BY <3>1 DEF GoesFirst
        <5>2. Behind(p, c, m + 1, j)
          BY <1>2, <2>3, <3>3, <4>1, <5>1
        <5>3. ~Behind(p, c, j, m + 1)
          BY <1>2, <2>3, <3>3, <3>5, <5>1
        <5> QED BY <5>2, <5>3 DEF GoesFirst
      <4>3. GoesFirst(p, c, m + 1, m + 1)
        <5>1. Behind(p, c, m + 1, m + 1)
          BY <1>3, <2>3
        <5> QED BY <5>1 DEF GoesFirst
      <4> QED BY <3>2, <3>3, <4>2, <4>3
    <3> QED BY <3>4, <3>5
  <2> QED BY <2>1, <2>2, <2>3
<1>6. Nat \subseteq M
  <2> HIDE DEF M
  <2> QED BY <1>4, <1>5, EveryNumber
<1>7. Upto(n) = turn
  BY <1>1
<1> QED BY <1>6, <1>7

\* Who has what: the keys that are out, the places each has, and whose list has something left.
UsedIn(out) == {out[k].key : k \in DOMAIN out}
PlacedIn(seats, out) == [x \in Seated(seats) |-> Cardinality({k \in DOMAIN out : out[k].name = x})]
ReadyIn(lists, seats, out) == {x \in Seated(seats) : Left(lists[x], UsedIn(out)) # {}}
TurnIn(lists, seats, out) == MayCome(seats, PlacedIn(seats, out), ReadyIn(lists, seats, out))

\* What is out so far: each key for one of the seated, from its own list, no key twice.
Turned(lists, seats, T, out) ==
  /\ out \in Seq([name : Seated(seats), key : T])
  /\ \A k \in 1 .. Len(out) : out[k].key \in ToSet(lists[out[k].name])
  /\ \A k, l \in 1 .. Len(out) : out[k].key = out[l].key => k = l

LEMMA PlacesAreNumbers ==
  ASSUME NEW seats, NEW T, NEW out \in Seq(T)
  PROVE  PlacedIn(seats, out) \in [Seated(seats) -> Nat]
<1>1. PICK n \in Nat : n = Len(out) /\ DOMAIN out = 1 .. n
  OBVIOUS
<1>2. IsFiniteSet(1 .. n)
  <2>1. 1 \in Int /\ n \in Int
    OBVIOUS
  <2> QED BY <2>1, FS_Interval
<1>3. ASSUME NEW x PROVE Cardinality({k \in DOMAIN out : out[k].name = x}) \in Nat
  <2>1. PICK S : S = {k \in DOMAIN out : out[k].name = x}
    OBVIOUS
  <2>2. S \subseteq 1 .. n
    BY <1>1, <2>1
  <2>3. IsFiniteSet(S)
    BY <1>2, <2>2, FS_Subset
  <2> QED BY <2>1, <2>3, FS_CardinalityType
<1> QED BY <1>3 DEF PlacedIn

\* Somebody comes next if anybody has a book.
LEMMA TurnIsThere ==
  ASSUME NEW lists, NEW seats, SeatList(seats), NEW out
  PROVE  /\ TurnIn(lists, seats, out) \subseteq 1 .. Len(seats)
         /\ \A i \in TurnIn(lists, seats, out) : seats[i].name \in ReadyIn(lists, seats, out)
         /\ ReadyIn(lists, seats, out) # {} => TurnIn(lists, seats, out) # {}
         /\ ReadyIn(lists, seats, out) = {} => TurnIn(lists, seats, out) = {}
<1>1. PICK ready, placed : ready = ReadyIn(lists, seats, out) /\ placed = PlacedIn(seats, out)
  OBVIOUS
<1>2. DOMAIN seats = 1 .. Len(seats)
  BY DEF SeatList
<1>3. PICK all : all = {i \in 1 .. Len(seats) : seats[i].name \in ready}
  OBVIOUS
<1>4. TurnIn(lists, seats, out) = MayCome(seats, placed, ready)
  BY <1>1 DEF TurnIn
<1>5. TurnIn(lists, seats, out) \in {all, {i \in all : placed[seats[i].name] < seats[i].count}}
  BY <1>2, <1>3, <1>4 DEF MayCome
<1>6. TurnIn(lists, seats, out) \subseteq all
  BY <1>5
<1>7. all # {} => TurnIn(lists, seats, out) # {}
  BY <1>2, <1>3, <1>4 DEF MayCome
<1>8. ready # {} => all # {}
  <2> SUFFICES ASSUME NEW x \in ready PROVE all # {}
    OBVIOUS
  <2>1. x \in Seated(seats)
    BY <1>1 DEF ReadyIn
  <2>2. PICK i \in 1 .. Len(seats) : x = seats[i].name
    BY <1>2, <2>1 DEF Seated
  <2> QED BY <1>3, <2>2
<1>9. ready = {} => all = {}
  BY <1>3
<1> QED BY <1>1, <1>3, <1>6, <1>7, <1>8, <1>9

\* The first that is left is one of the list, and new.
LEMMA FirstLeftIs ==
  ASSUME NEW T, NEW list \in Seq(T), NEW used, Left(list, used) # {}
  PROVE  FirstLeft(list, used) \in ToSet(list) /\ FirstLeft(list, used) \notin used
<1>1. PICK S : S = Left(list, used)
  OBVIOUS
<1>2. S \subseteq Nat
  BY <1>1 DEF Left
<1>3. PICK i \in S : \A j \in S : i <= j
  BY <1>1, <1>2, LeastNumber
<1>4. Min(S) \in S
  BY <1>3 DEF Min
<1>5. Min(S) \in 1 .. Len(list) /\ list[Min(S)] \notin used
  BY <1>1, <1>4 DEF Left
<1>6. FirstLeft(list, used) = list[Min(S)]
  BY <1>1 DEF FirstLeft
<1> QED BY <1>5, <1>6, SetOf

\* A step of it: nobody is left, or somebody whose turn it is gets the first of what is left.
LEMMA NextTurnIs ==
  ASSUME NEW lists, NEW seats, SeatList(seats), NEW E, NEW out \in Seq(E)
  PROVE  IF TurnIn(lists, seats, out) = {} THEN NextTurn(lists, seats, out) = out
         ELSE \E i \in TurnIn(lists, seats, out) :
                NextTurn(lists, seats, out) =
                  Append(out, [name |-> seats[i].name, key |-> FirstLeft(lists[seats[i].name], UsedIn(out))])
<1> DEFINE placed == PlacedIn(seats, out)
           turn == TurnIn(lists, seats, out)
           behind(i, j) == placed[seats[i].name] * seats[j].count <= placed[seats[j].name] * seats[i].count
           next == CHOOSE i \in turn : \A j \in turn : behind(i, j) /\ (behind(j, i) => i <= j)
<1>1. NextTurn(lists, seats, out) =
        IF turn = {} THEN out
        ELSE Append(out, [name |-> seats[next].name, key |-> FirstLeft(lists[seats[next].name], UsedIn(out))])
  BY DEF NextTurn, TurnIn, PlacedIn, ReadyIn, UsedIn
<1>2. ASSUME turn # {} PROVE next \in turn
  <2>1. PICK n \in Nat : n = Len(seats) /\ DOMAIN seats = 1 .. n
    BY DEF SeatList
  <2>2. PICK p, c : p = [i \in 1 .. n |-> placed[seats[i].name]] /\ c = [i \in 1 .. n |-> seats[i].count]
    OBVIOUS
  <2>3. \A i \in 1 .. n : seats[i].name \in Seated(seats)
    BY <2>1 DEF Seated
  <2>4. placed \in [Seated(seats) -> Nat]
    BY PlacesAreNumbers
  <2>5. p \in [1 .. n -> Nat] /\ c \in [1 .. n -> Nat \ {0}]
    <3> HIDE DEF placed
    <3> QED BY <2>1, <2>2, <2>3, <2>4 DEF SeatList
  <2>6. turn \subseteq 1 .. n
    BY <2>1, TurnIsThere
  <2> HIDE DEF turn, placed
  <2>7. PICK i \in turn : \A j \in turn : GoesFirst(p, c, i, j)
    BY <1>2, <2>5, <2>6, FirstIsThere
  <2>8. \A j \in turn : p[j] = placed[seats[j].name] /\ c[j] = seats[j].count
    BY <2>2, <2>6
  <2>9. \A j \in turn : behind(i, j) /\ (behind(j, i) => i <= j)
    BY <2>7, <2>8 DEF GoesFirst, Behind
  <2> QED BY <2>9
<1> HIDE DEF next, placed, turn
<1>3. CASE turn = {}
  BY <1>1, <1>3 DEF turn
<1>4. CASE turn # {}
  BY <1>1, <1>2, <1>4, Zenon DEF turn
<1> QED BY <1>3, <1>4
LEMMA TurnKeeps ==
  ASSUME NEW seats, SeatList(seats), NEW T, NEW lists, \A x \in Seated(seats) : lists[x] \in Seq(T),
         NEW out, Turned(lists, seats, T, out)
  PROVE  Turned(lists, seats, T, NextTurn(lists, seats, out))
<1>1. PICK E : E = [name : Seated(seats), key : T]
  OBVIOUS
<1>2. out \in Seq(E)
  BY <1>1 DEF Turned
<1>3. CASE TurnIn(lists, seats, out) = {}
  BY <1>2, <1>3, NextTurnIs
<1>4. CASE TurnIn(lists, seats, out) # {}
  <2>1. PICK i \in TurnIn(lists, seats, out) :
          NextTurn(lists, seats, out) =
            Append(out, [name |-> seats[i].name, key |-> FirstLeft(lists[seats[i].name], UsedIn(out))])
    BY <1>2, <1>4, NextTurnIs
  <2>2. PICK x : x = seats[i].name
    OBVIOUS
  <2>3. x \in Seated(seats) /\ Left(lists[x], UsedIn(out)) # {}
    BY <2>1, <2>2, TurnIsThere DEF ReadyIn
  <2>4. PICK key : key = FirstLeft(lists[x], UsedIn(out))
    OBVIOUS
  <2>5. lists[x] \in Seq(T)
    BY <2>3
  <2>6. key \in ToSet(lists[x]) /\ key \notin UsedIn(out)
    BY <2>3, <2>4, <2>5, FirstLeftIs
  <2>7. key \in T
    BY <2>5, <2>6, SetOf
  <2>8. PICK e : e = [name |-> x, key |-> key]
    OBVIOUS
  <2>9. e \in E /\ e.name = x /\ e.key = key
    BY <1>1, <2>3, <2>7, <2>8
  <2>10. PICK r : r = Append(out, e)
    OBVIOUS
  <2>11. PICK n \in Nat : n = Len(out) /\ DOMAIN out = 1 .. n
    BY <1>2
  <2>12. /\ r \in Seq(E) /\ Len(r) = n + 1 /\ r[n + 1] = e
         /\ \A k \in 1 .. n : r[k] = out[k]
    BY <1>2, <2>9, <2>10, <2>11, AppendProperties
  <2>13. \A k \in 1 .. n + 1 : k \in 1 .. n \/ k = n + 1
    OBVIOUS
  <2>14. \A k \in 1 .. n + 1 : r[k].key \in ToSet(lists[r[k].name])
    <3> SUFFICES ASSUME NEW k \in 1 .. n + 1 PROVE r[k].key \in ToSet(lists[r[k].name])
      OBVIOUS
    <3>1. CASE k \in 1 .. n
      BY <2>11, <2>12, <3>1 DEF Turned
    <3>2. CASE k = n + 1
      BY <2>6, <2>9, <2>12, <3>2
    <3> QED BY <2>13, <3>1, <3>2
  <2>15. \A k \in 1 .. n : out[k].key # key
    BY <2>6, <2>11 DEF UsedIn
  <2>16. ASSUME NEW k \in 1 .. n + 1, NEW l \in 1 .. n + 1, r[k].key = r[l].key PROVE k = l
    <3>1. CASE k \in 1 .. n /\ l \in 1 .. n
      BY <2>11, <2>12, <2>16, <3>1 DEF Turned
    <3>2. CASE k = n + 1 /\ l \in 1 .. n
      BY <2>9, <2>12, <2>15, <2>16, <3>2
    <3>3. CASE k \in 1 .. n /\ l = n + 1
      BY <2>9, <2>12, <2>15, <2>16, <3>3
    <3> QED BY <2>13, <3>1, <3>2, <3>3
  <2>17. Turned(lists, seats, T, r)
    BY <1>1, <2>12, <2>14, <2>16 DEF Turned
  <2> QED BY <2>1, <2>2, <2>4, <2>8, <2>10, <2>17
<1> QED BY <1>3, <1>4

\* interleave: what is out is from the lists, no key twice.
LEMMA TurnsAre ==
  ASSUME NEW seats, SeatList(seats), NEW T, NEW lists, \A x \in Seated(seats) : lists[x] \in Seq(T)
  PROVE  Turned(lists, seats, T, TakeTurns(lists, seats))
<1>1. PICK g : TurnsSoFar(lists, seats, Total, g) /\ TakeTurns(lists, seats) = g[Total]
  BY TurnsAreLast
<1>2. Total \in Nat
  BY InterestListAssumption
<1> DEFINE M == {n \in Nat : n <= Total => Turned(lists, seats, T, g[n])}
<1>3. 0 \in M
  <2>1. PICK none : none = <<>>
    OBVIOUS
  <2>2. g[0] = none
    BY <1>1, <2>1 DEF TurnsSoFar
  <2>3. none \in Seq([name : Seated(seats), key : T]) /\ Len(none) = 0
    BY <2>1
  <2>4. Turned(lists, seats, T, none)
    BY <2>3 DEF Turned
  <2> QED BY <2>2, <2>4
<1>4. ASSUME NEW n \in Nat, n \in M PROVE n + 1 \in M
  <2> SUFFICES ASSUME n + 1 <= Total PROVE Turned(lists, seats, T, g[n + 1])
    OBVIOUS
  <2>1. Turned(lists, seats, T, g[n])
    BY <1>2, <1>4
  <2>2. g[n + 1] = NextTurn(lists, seats, g[n])
    BY <1>1 DEF TurnsSoFar
  <2> QED BY <2>1, <2>2, TurnKeeps
<1>5. Nat \subseteq M
  <2> HIDE DEF M
  <2> QED BY <1>3, <1>4, EveryNumber
<1> QED BY <1>1, <1>2, <1>5

-----------------------------------------------------------------------------
(* The list is put together (interest_list.py:179-222).                    *)

StockKeys == {KeyOf(o) : o \in Stock}

\* The first edition that was picked is one that was picked.
LEMMA ChosenIs ==
  ASSUME NEW books \in Seq(Stock), NEW o \in ToSet(books)
  PROVE  /\ Chosen(books, KeyOf(o)) \in ToSet(books)
         /\ KeyOf(Chosen(books, KeyOf(o))) = KeyOf(o)
<1>1. PICK key : key = KeyOf(o)
  OBVIOUS
<1>2. PICK S : S = {i \in DOMAIN books : KeyOf(books[i]) = key}
  OBVIOUS
<1>3. S \subseteq Nat /\ S # {}
  <2>1. PICK i \in 1 .. Len(books) : books[i] = o
    BY SetOf
  <2>2. DOMAIN books = 1 .. Len(books)
    OBVIOUS
  <2>3. i \in S
    BY <1>1, <1>2, <2>1, <2>2
  <2>4. S \subseteq 1 .. Len(books)
    BY <1>2, <2>2
  <2> QED BY <2>3, <2>4
<1>4. PICK i \in S : \A j \in S : i <= j
  BY <1>3, LeastNumber
<1>5. Min(S) \in S
  BY <1>4 DEF Min
<1>6. Chosen(books, key) = books[Min(S)]
  BY <1>2, Zenon DEF Chosen
<1>7. Min(S) \in 1 .. Len(books) /\ KeyOf(books[Min(S)]) = key
  BY <1>2, <1>5
<1> QED BY <1>1, <1>6, <1>7, SetOf

\* The keys of what was kept for an interest: those of all its books.
LEMMA KeysAre ==
  ASSUME NEW books \in Seq(Stock), NEW conditions
  PROVE  /\ SortedKeys(books, conditions) \in Seq(StockKeys)
         /\ ToSet(SortedKeys(books, conditions)) = {KeyOf(o) : o \in ToSet(books)}
<1>1. PICK n \in Nat : n = Len(books) /\ DOMAIN books = 1 .. n
  OBVIOUS
<1>2. PICK all : all = KeysOf(books)
  OBVIOUS
<1>3. all = [i \in 1 .. n |-> KeyOf(books[i])]
  BY <1>1, <1>2 DEF KeysOf
<1>4. \A i \in 1 .. n : all[i] \in StockKeys
  <2>1. \A i \in 1 .. n : books[i] \in Stock
    BY <1>1
  <2> QED BY <1>3, <2>1 DEF StockKeys
<1>5. all \in Seq(StockKeys) /\ Len(all) = n
  <2>1. all \in [1 .. n -> StockKeys]
    BY <1>3, <1>4
  <2> QED BY <2>1, SeqDef
<1>6. PICK keys : keys = Firsts(all)
  OBVIOUS
<1>7. /\ keys \in Seq(StockKeys)
      /\ \A i \in 1 .. n : \E k \in 1 .. Len(keys) : keys[k] = all[i]
      /\ \A k \in 1 .. Len(keys) : \E i \in 1 .. n : keys[k] = all[i]
  BY <1>5, <1>6, FirstsIs
<1>8. PICK m \in Nat : m = Len(keys) /\ DOMAIN keys = 1 .. m
  BY <1>7
<1>9. PICK w : w = [i \in 1 .. m |-> IF Meets(Chosen(books, keys[i]), conditions) THEN 0 ELSE 1]
  OBVIOUS
<1>10. w \in [1 .. Len(keys) -> Int]
  BY <1>8, <1>9
<1>11. PICK r : r = SortedKeys(books, conditions)
  OBVIOUS
<1>12. r = SortedBy(keys, w)
  <2>1. PICK P : P = {<<Append(<<IF Meets(Chosen(books, keys[i]), conditions) THEN 0 ELSE 1>>, i), i>> : i \in DOMAIN keys}
    OBVIOUS
  <2>2. P = PlaceKeys(keys, w)
    <3>1. \A i \in 1 .. m : w[i] = IF Meets(Chosen(books, keys[i]), conditions) THEN 0 ELSE 1
      BY <1>9
    <3> QED BY <1>8, <2>1, <3>1, Zenon DEF PlaceKeys
  <2>3. r = [k \in 1 .. Len(keys) |-> keys[ByKey(P)[k]]]
    BY <1>2, <1>6, <1>11, <2>1, Zenon DEF SortedKeys, StableSort, Ordered
  <2> QED BY <2>2, <2>3, Zenon DEF SortedBy
<1>13. r \in Seq(StockKeys) /\ Len(r) = m
  BY <1>7, <1>8, <1>10, <1>12, StableIs
<1>14. PICK p : Rearranged(keys, w, r, p)
  BY <1>7, <1>10, <1>12, StableIs
<1>15. /\ p \in Seq(1 .. m) /\ Len(p) = m
       /\ \A x \in 1 .. m : \E k \in 1 .. m : p[k] = x
  BY <1>8, <1>14 DEF Rearranged, Sorted
<1>16. \A k \in 1 .. m : r[k] = keys[p[k]] /\ p[k] \in 1 .. m
  <2>1. r = [i \in 1 .. m |-> keys[p[i]]]
    BY <1>8, <1>14 DEF Rearranged
  <2>2. ASSUME NEW k \in 1 .. m PROVE p[k] \in 1 .. m
    <3>1. p \in Seq(1 .. m) /\ Len(p) = m
      BY <1>15
    <3> QED BY <3>1
  <2> QED BY <2>1, <2>2
<1>17. ASSUME NEW key \in ToSet(r) PROVE \E o \in ToSet(books) : key = KeyOf(o)
  <2>1. PICK k \in 1 .. m : r[k] = key
    BY <1>13, <1>17, SetOf
  <2>2. PICK i \in 1 .. n : keys[p[k]] = all[i]
    BY <1>7, <1>8, <1>16
  <2>3. books[i] \in ToSet(books)
    BY <1>1, SetOf
  <2> QED BY <1>3, <1>16, <2>1, <2>2, <2>3
<1>18. ASSUME NEW o \in ToSet(books) PROVE KeyOf(o) \in ToSet(r)
  <2>1. PICK i \in 1 .. n : books[i] = o
    BY <1>1, SetOf
  <2>2. PICK a \in 1 .. m : keys[a] = all[i]
    BY <1>7, <1>8
  <2>3. PICK k \in 1 .. m : p[k] = a
    BY <1>15
  <2>4. r[k] = KeyOf(o)
    BY <1>3, <1>16, <2>1, <2>2, <2>3
  <2> QED BY <1>13, <2>4, SetOf
<1>19. ToSet(r) = {KeyOf(o) : o \in ToSet(books)}
  BY <1>17, <1>18
<1> QED BY <1>11, <1>13, <1>19

KeptBy(b, x) == KeptOf(b.owned, b.negatives, b.picks[x])
Entries(seats) == [name : Seated(seats), key : StockKeys, author : {o.author : o \in Stock}]

\* An entry of the list stands for a book that was kept for its interest.
Listed(b, entry, item) ==
  \E o \in ToSet(KeptBy(b, entry.name)) :
    /\ KeyOf(o) = entry.key /\ o.author = entry.author
    /\ item.book = o.id /\ item.interest = entry.name

SameEntry(turn, entry) == entry.name = turn.name /\ entry.key = turn.key

Assembled(b, lists, turns, placed, list) ==
  /\ \A x \in Seated(b.seats) : /\ lists[x] \in Seq(StockKeys)
                                /\ ToSet(lists[x]) = {KeyOf(o) : o \in ToSet(KeptBy(b, x))}
  /\ turns = TakeTurns(lists, b.seats) /\ Turned(lists, b.seats, StockKeys, turns)
  /\ placed \in Seq(Entries(b.seats)) /\ WellSpread(placed)
  /\ \A i, j \in 1 .. Len(placed) : placed[i].key = placed[j].key => i = j
  /\ Len(placed) = Len(turns)
  /\ \A i \in 1 .. Len(placed) : \E k \in 1 .. Len(turns) : SameEntry(turns[k], placed[i])
  /\ \A k \in 1 .. Len(turns) : \E i \in 1 .. Len(placed) : SameEntry(turns[k], placed[i])
  /\ list = [i \in 1 .. Len(placed) |-> list[i]]
  /\ \A i \in 1 .. Len(placed) : Listed(b, placed[i], list[i])

LEMMA KeptAre ==
  ASSUME NEW b, NEW x, b.picks[x] \in Seq(Stock)
  PROVE  /\ KeptBy(b, x) \in Seq(Stock) /\ ToSet(KeptBy(b, x)) \subseteq Stock
         /\ \A o \in ToSet(KeptBy(b, x)) : Keeps(o, b.owned, b.negatives)
         /\ ToSet(KeptBy(b, x)) \subseteq ToSet(b.picks[x])
<1>1. PICK books : books = b.picks[x]
  OBVIOUS
<1>2. PICK S : S = {o \in ToSet(books) : Keeps(o, b.owned, b.negatives)}
  OBVIOUS
<1>3. PICK r \in Seq(Stock \cap S) : r = Only(books, S)
  BY <1>1, OnlyType
<1>4. KeptBy(b, x) = r
  BY <1>1, <1>2, <1>3, Zenon DEF KeptBy, KeptOf
<1>5. ToSet(r) \subseteq Stock \cap S
  BY <1>3, SetOf
<1>6. r \in Seq(Stock)
  BY <1>3
<1> QED BY <1>1, <1>2, <1>4, <1>5, <1>6
InParts(b, kept, lists, turns, placed, score, list) ==
  /\ lists = [x \in DOMAIN b.picks |-> SortedKeys(kept[x], b.conditions)]
  /\ turns = TakeTurns(lists, b.seats)
  /\ placed = CapAuthors([i \in DOMAIN turns |->
                [name |-> turns[i].name, key |-> turns[i].key,
                 author |-> Chosen(kept[turns[i].name], turns[i].key).author]])
  /\ list = [i \in DOMAIN placed |->
               [book |-> Chosen(kept[placed[i].name], placed[i].key).id,
                interest |-> placed[i].name, score |-> score[i]]]

\* assemble, part by part.
LEMMA AssembleUnfolds ==
  ASSUME NEW b, NEW kept, kept = [x \in DOMAIN b.picks |-> KeptBy(b, x)]
  PROVE  \E lists, turns, placed, score : InParts(b, kept, lists, turns, placed, score, Assemble(b))
<1> DEFINE own == [x \in DOMAIN b.picks |-> KeptOf(b.owned, b.negatives, b.picks[x])]
           lists == [x \in DOMAIN own |-> SortedKeys(own[x], b.conditions)]
           turns == TakeTurns(lists, b.seats)
           placed == CapAuthors([i \in DOMAIN turns |->
             [name |-> turns[i].name, key |-> turns[i].key,
              author |-> Chosen(own[turns[i].name], turns[i].key).author]])
           job(x) == CHOOSE j \in b.asked : j.name = x
           best(key) == Max({Part(job(p[1]), p[2]) : p \in
                          UNION {{x} \X {o \in ToSet(own[x]) : KeyOf(o) = key} : x \in DOMAIN own}})
           most == Max({b.seats[i].count : i \in DOMAIN b.seats})
           score == [i \in DOMAIN placed |->
                       PlaceScore(best(placed[i].key), Count(b.seats, placed[i].name), most)]
<1>1. Assemble(b) =
        [i \in DOMAIN placed |->
          [book |-> Chosen(own[placed[i].name], placed[i].key).id, interest |-> placed[i].name,
           score |-> PlaceScore(best(placed[i].key), Count(b.seats, placed[i].name), most)]]
  BY DEF Assemble
<1>2. own = kept /\ DOMAIN own = DOMAIN b.picks
  BY DEF KeptBy
<1>3. lists = [x \in DOMAIN b.picks |-> SortedKeys(kept[x], b.conditions)]
  <2> HIDE DEF own
  <2> QED BY <1>2
<1> HIDE DEF own, lists, best, most
<1>4. turns = TakeTurns(lists, b.seats)
  OBVIOUS
<1> HIDE DEF turns
<1>5. placed = CapAuthors([i \in DOMAIN turns |->
                [name |-> turns[i].name, key |-> turns[i].key,
                 author |-> Chosen(kept[turns[i].name], turns[i].key).author]])
  BY <1>2
<1>6. Assemble(b) =
        [i \in DOMAIN placed |->
          [book |-> Chosen(kept[placed[i].name], placed[i].key).id, interest |-> placed[i].name,
           score |-> score[i]]]
  <2> HIDE DEF placed
  <2> QED BY <1>1, <1>2
<1> HIDE DEF placed, score
<1>7. InParts(b, kept, lists, turns, placed, score, Assemble(b))
  BY <1>3, <1>4, <1>5, <1>6 DEF InParts
<1> QED BY <1>7

LEMMA AssembleIs ==
  ASSUME NEW b, SeatList(b.seats), Seated(b.seats) \subseteq DOMAIN b.picks,
         \A x \in DOMAIN b.picks : b.picks[x] \in Seq(Stock)
  PROVE  \E lists, turns, placed : Assembled(b, lists, turns, placed, Assemble(b))
<1>2. PICK list : list = Assemble(b)
  OBVIOUS
<1>3. PICK kept : kept = [x \in DOMAIN b.picks |-> KeptBy(b, x)]
  OBVIOUS
<1>0. PICK lists, turns, placed, score : InParts(b, kept, lists, turns, placed, score, list)
  BY <1>2, <1>3, AssembleUnfolds
<1>1. /\ lists = [x \in DOMAIN b.picks |-> SortedKeys(kept[x], b.conditions)]
      /\ turns = TakeTurns(lists, b.seats)
      /\ placed = CapAuthors([i \in DOMAIN turns |->
                    [name |-> turns[i].name, key |-> turns[i].key,
                     author |-> Chosen(kept[turns[i].name], turns[i].key).author]])
      /\ list = [i \in DOMAIN placed |->
                   [book |-> Chosen(kept[placed[i].name], placed[i].key).id,
                    interest |-> placed[i].name, score |-> score[i]]]
  BY <1>0, Zenon DEF InParts
<1>4. \A x \in Seated(b.seats) : /\ kept[x] = KeptBy(b, x) /\ KeptBy(b, x) \in Seq(Stock)
                                 /\ ToSet(KeptBy(b, x)) \subseteq Stock
  BY <1>3, KeptAre
<1>5. \A x \in Seated(b.seats) : /\ lists[x] \in Seq(StockKeys)
                                 /\ ToSet(lists[x]) = {KeyOf(o) : o \in ToSet(KeptBy(b, x))}
  <2> SUFFICES ASSUME NEW x \in Seated(b.seats)
               PROVE  /\ lists[x] \in Seq(StockKeys)
                      /\ ToSet(lists[x]) = {KeyOf(o) : o \in ToSet(KeptBy(b, x))}
    OBVIOUS
  <2>1. lists[x] = SortedKeys(KeptBy(b, x), b.conditions)
    BY <1>1, <1>4
  <2>2. KeptBy(b, x) \in Seq(Stock)
    BY <1>4
  <2> QED BY <2>1, <2>2, KeysAre
<1>6. Turned(lists, b.seats, StockKeys, turns)
  BY <1>1, <1>5, TurnsAre
<1>7. PICK n \in Nat : n = Len(turns) /\ DOMAIN turns = 1 .. n
  <2>1. turns \in Seq([name : Seated(b.seats), key : StockKeys])
    BY <1>6 DEF Turned
  <2> QED BY <2>1
<1>8. ASSUME NEW k \in 1 .. n
      PROVE  /\ turns[k].name \in Seated(b.seats) /\ turns[k].key \in StockKeys
             /\ \E o \in ToSet(KeptBy(b, turns[k].name)) : turns[k].key = KeyOf(o)
  <2>1. turns[k] \in [name : Seated(b.seats), key : StockKeys]
    <3>1. PICK E : E = [name : Seated(b.seats), key : StockKeys]
      OBVIOUS
    <3>2. turns \in Seq(E)
      BY <1>6, <3>1 DEF Turned
    <3>3. turns[k] \in E
      BY <1>7, <3>2
    <3> QED BY <3>1, <3>3
  <2>2. turns[k].key \in ToSet(lists[turns[k].name])
    BY <1>6, <1>7 DEF Turned
  <2> QED BY <1>5, <2>1, <2>2
<1> DEFINE book(x, key) == Chosen(kept[x], key)
<1>9. ASSUME NEW k \in 1 .. n
      PROVE  /\ book(turns[k].name, turns[k].key) \in ToSet(KeptBy(b, turns[k].name))
             /\ book(turns[k].name, turns[k].key) \in Stock
             /\ KeyOf(book(turns[k].name, turns[k].key)) = turns[k].key
  <2>1. PICK x, key : x = turns[k].name /\ key = turns[k].key
    OBVIOUS
  <2>2. PICK o \in ToSet(KeptBy(b, x)) : key = KeyOf(o)
    BY <1>8, <2>1
  <2>3. x \in Seated(b.seats)
    BY <1>8, <2>1
  <2>4. kept[x] = KeptBy(b, x) /\ KeptBy(b, x) \in Seq(Stock) /\ ToSet(KeptBy(b, x)) \subseteq Stock
    BY <1>4, <2>3
  <2>5. Chosen(KeptBy(b, x), KeyOf(o)) \in ToSet(KeptBy(b, x)) /\ KeyOf(Chosen(KeptBy(b, x), KeyOf(o))) = KeyOf(o)
    BY <2>4, ChosenIs
  <2> QED BY <2>1, <2>2, <2>4, <2>5
<1>10. PICK items : items = [i \in 1 .. n |-> [name |-> turns[i].name, key |-> turns[i].key,
                                             author |-> book(turns[i].name, turns[i].key).author]]
  OBVIOUS
<1>11. placed = CapAuthors(items)
  BY <1>1, <1>3, <1>7, <1>10
<1> HIDE DEF book
<1>12. \A k \in 1 .. n : /\ items[k].name = turns[k].name /\ items[k].key = turns[k].key
                         /\ items[k].author = book(turns[k].name, turns[k].key).author
                         /\ items[k] \in Entries(b.seats)
  <2> SUFFICES ASSUME NEW k \in 1 .. n
               PROVE  /\ items[k].name = turns[k].name /\ items[k].key = turns[k].key
                      /\ items[k].author = book(turns[k].name, turns[k].key).author
                      /\ items[k] \in Entries(b.seats)
    OBVIOUS
  <2>1. PICK x, key, a : x = turns[k].name /\ key = turns[k].key /\ a = book(x, key).author
    OBVIOUS
  <2>2. items[k] = [name |-> x, key |-> key, author |-> a]
    BY <1>10, <2>1
  <2>3. x \in Seated(b.seats) /\ key \in StockKeys /\ a \in {o.author : o \in Stock}
    BY <1>8, <1>9, <2>1
  <2> QED BY <2>1, <2>2, <2>3 DEF Entries
<1>13. items \in Seq(Entries(b.seats)) /\ Len(items) = n
  <2>1. items \in [1 .. n -> Entries(b.seats)]
    BY <1>10, <1>12
  <2> QED BY <2>1, SeqDef
<1>14. Once(items)
  <2>1. ASSUME NEW i \in 1 .. n, NEW j \in 1 .. n, items[i] = items[j] PROVE i = j
    <3>1. turns[i].key = turns[j].key
      BY <1>12, <2>1
    <3> QED BY <1>6, <1>7, <3>1 DEF Turned
  <2> QED BY <1>13, <2>1 DEF Once
<1>15. /\ placed \in Seq(ToSet(items)) /\ Once(placed) /\ ToSet(placed) = ToSet(items)
       /\ Len(placed) = n /\ WellSpread(placed)
  BY <1>11, <1>13, <1>14, CapIs
<1>16. placed \in Seq(Entries(b.seats))
  <2>1. ToSet(items) \subseteq Entries(b.seats)
    BY <1>13, SetOf
  <2> QED BY <1>15, <2>1
<1>17. ASSUME NEW i \in 1 .. n PROVE \E k \in 1 .. n : placed[i] = items[k]
  <2>1. placed[i] \in ToSet(items)
    BY <1>15
  <2> QED BY <1>13, <2>1, SetOf
<1>18. ASSUME NEW k \in 1 .. n PROVE \E i \in 1 .. n : placed[i] = items[k]
  <2>1. items[k] \in ToSet(placed)
    BY <1>13, <1>15, SetOf
  <2> QED BY <1>15, <2>1, SetOf
<1>19. ASSUME NEW i \in 1 .. n PROVE \E k \in 1 .. n : SameEntry(turns[k], placed[i])
  <2>1. PICK k \in 1 .. n : placed[i] = items[k]
    BY <1>17
  <2>2. SameEntry(turns[k], placed[i])
    BY <1>12, <2>1 DEF SameEntry
  <2> QED BY <2>2
<1>20. ASSUME NEW k \in 1 .. n PROVE \E i \in 1 .. n : SameEntry(turns[k], placed[i])
  <2>1. PICK i \in 1 .. n : placed[i] = items[k]
    BY <1>18
  <2>2. SameEntry(turns[k], placed[i])
    BY <1>12, <2>1 DEF SameEntry
  <2> QED BY <2>2
<1>21. list = [i \in 1 .. n |-> [book |-> book(placed[i].name, placed[i].key).id,
                                interest |-> placed[i].name, score |-> score[i]]]
  <2>1. DOMAIN placed = 1 .. n
    BY <1>15
  <2> QED BY <1>1, <1>2, <1>3, <2>1 DEF book
<1>22. ASSUME NEW i \in 1 .. n PROVE Listed(b, placed[i], list[i])
  <2>1. PICK k \in 1 .. n : placed[i] = items[k]
    BY <1>17
  <2>2. PICK o : o = book(placed[i].name, placed[i].key)
    OBVIOUS
  <2>3. o = book(turns[k].name, turns[k].key) /\ placed[i].name = turns[k].name
    BY <1>12, <2>1, <2>2
  <2>4. o \in ToSet(KeptBy(b, placed[i].name)) /\ KeyOf(o) = placed[i].key /\ o.author = placed[i].author
    BY <1>9, <1>12, <2>1, <2>3 DEF book
  <2>5. list[i].book = o.id /\ list[i].interest = placed[i].name
    BY <1>21, <2>2
  <2> QED BY <2>4, <2>5 DEF Listed
<1>23. list = [i \in 1 .. n |-> list[i]]
  BY <1>21
<1>24. turns = TakeTurns(lists, b.seats) /\ Len(placed) = n /\ Len(turns) = n
  BY <1>1, <1>7, <1>15
<1>25. /\ \A i \in 1 .. n : \E k \in 1 .. n : SameEntry(turns[k], placed[i])
       /\ \A k \in 1 .. n : \E i \in 1 .. n : SameEntry(turns[k], placed[i])
       /\ \A i \in 1 .. n : Listed(b, placed[i], list[i])
  BY <1>19, <1>20, <1>22
<1>26. WellSpread(placed)
  BY <1>15
<1>28. ASSUME NEW i \in 1 .. n, NEW j \in 1 .. n, placed[i].key = placed[j].key PROVE i = j
  <2>1. PICK k \in 1 .. n, l \in 1 .. n : placed[i] = items[k] /\ placed[j] = items[l]
    BY <1>17
  <2>2. turns[k].key = turns[l].key
    BY <1>12, <1>28, <2>1
  <2>3. k = l
    BY <1>6, <1>7, <2>2 DEF Turned
  <2> QED BY <1>15, <2>1, <2>3 DEF Once
<1>29. \A i, j \in 1 .. n : placed[i].key = placed[j].key => i = j
  BY <1>28
<1>27. Assembled(b, lists, turns, placed, list)
  BY <1>5, <1>6, <1>16, <1>23, <1>24, <1>25, <1>26, <1>29, Zenon DEF Assembled
<1> QED BY <1>2, <1>27
-----------------------------------------------------------------------------
(* The list that is kept.                                                  *)

WellMade(b) == \E lists, turns, placed : Assembled(b, lists, turns, placed, b.list)

\* What is kept depends on the vectors only.
LEMMA WellMadeStays ==
  ASSUME vectors' = vectors
  PROVE  \A b : WellMade(b) => WellMade(b)'
<1>1. ASSUME NEW o, NEW owned, NEW negatives
      PROVE  Keeps(o, owned, negatives)' <=> Keeps(o, owned, negatives)
  <2>1. PICK n : n = Named
    OBVIOUS
  <2>2. Named' = n
    BY <2>1 DEF Named
  <2> QED BY <2>1, <2>2 DEF Keeps
<1>2. ASSUME NEW owned, NEW negatives, NEW books
      PROVE  KeptOf(owned, negatives, books)' = KeptOf(owned, negatives, books)
  BY <1>1 DEF KeptOf
<1>3. ASSUME NEW b, NEW x PROVE KeptBy(b, x)' = KeptBy(b, x)
  BY <1>2 DEF KeptBy
<1>4. ASSUME NEW b, NEW entry, NEW item PROVE Listed(b, entry, item)' <=> Listed(b, entry, item)
  BY <1>3 DEF Listed
<1>5. ASSUME NEW b, NEW lists, NEW turns, NEW placed, NEW list, Assembled(b, lists, turns, placed, list)
      PROVE  Assembled(b, lists, turns, placed, list)'
  BY <1>3, <1>4, <1>5 DEF Assembled
<1> QED BY <1>5 DEF WellMade

\* There is no list before it is put together; then it is what was put together, of books of
\* the catalogue.
ListInv ==
  /\ StockInv
  /\ Done => WellMade(build)
  /\ ~Done => build.list = <<>>

LEMMA FinishKeepsList ==
  ASSUME LateInv, ListInv, Finish
  PROVE  ListInv'
<1>1. PICK list : list = Assemble(build)
  OBVIOUS
<1>2. build' = [build EXCEPT !.pc = "done", !.list = list]
  BY <1>1 DEF Finish
<1>3. /\ build'.pc = "done" /\ build'.seats = build.seats /\ build'.list = list
      /\ build'.todo = build.todo /\ build'.picks = build.picks
      /\ build'.owned = build.owned /\ build'.negatives = build.negatives
  BY <1>2 DEF LateInv, BuildFields
<1>4. Fair(build) /\ build.todo = <<>> /\ ~Open
  BY DEF LateInv, Finish, Open
<1>5. Seated(build.seats) \subseteq DOMAIN build.picks
  <2> SUFFICES ASSUME NEW x \in Seated(build.seats) PROVE x \in DOMAIN build.picks
    OBVIOUS
  <2>1. Len(build.todo) = 0
    BY <1>4
  <2>2. PICK job \in build.asked : job.name = x
    BY <1>4, <2>1 DEF Fair, Begun
  <2> QED BY <1>4, <2>2 DEF Fair, Answered
<1>6. /\ SeatList(build.seats)
      /\ \A x \in DOMAIN build.picks : build.picks[x] \in Seq(Stock)
  BY <1>4 DEF Fair, ListInv, StockInv
<1>7. PICK b : b = build
  OBVIOUS
<1>8. \E lists, turns, placed : Assembled(b, lists, turns, placed, Assemble(b))
  <2>1. /\ SeatList(b.seats) /\ Seated(b.seats) \subseteq DOMAIN b.picks
        /\ \A x \in DOMAIN b.picks : b.picks[x] \in Seq(Stock)
    BY <1>5, <1>6, <1>7
  <2> QED BY <2>1, AssembleIs
<1>9. PICK lists, turns, placed : Assembled(build, lists, turns, placed, list)
  BY <1>1, <1>7, <1>8
<1>10. PICK c : c = build'
  OBVIOUS
<1>11. Assembled(c, lists, turns, placed, c.list)
  <2>1. c.seats = build.seats /\ c.owned = build.owned /\ c.negatives = build.negatives
        /\ c.picks = build.picks /\ c.list = list
    BY <1>3, <1>10
  <2>2. \A x : KeptBy(c, x) = KeptBy(build, x)
    BY <2>1 DEF KeptBy
  <2>3. \A entry, item : Listed(c, entry, item) <=> Listed(build, entry, item)
    BY <2>2 DEF Listed
  <2> QED BY <1>9, <2>1, <2>2, <2>3, Zenon DEF Assembled
<1>12. WellMade(c)'
  <2>1. vectors' = vectors
    BY DEF Finish
  <2>2. WellMade(c)
    BY <1>11 DEF WellMade
  <2> QED BY <2>1, <2>2, WellMadeStays
<1>13. StockInv'
  BY <1>3, <1>4 DEF ListInv, StockInv
<1>14. Done'
  BY <1>3 DEF Done
<1> QED BY <1>10, <1>12, <1>13, <1>14 DEF ListInv

LEMMA ListGoesOn ==
  ASSUME LateInv, ListInv, [ListNext]_listVars
  PROVE  ListInv'
<1>1. CASE UNCHANGED <<build, vectors>>
  <2>1. StockInv'
    BY <1>1 DEF ListInv, StockInv, Open
  <2>2. PICK b : b = build
    OBVIOUS
  <2>3. WellMade(b) => WellMade(b)'
    BY <1>1, WellMadeStays
  <2>4. build' = b
    BY <1>1, <2>2
  <2> QED BY <1>1, <2>1, <2>2, <2>3, <2>4 DEF ListInv, Done
<1>2. ASSUME NEW line \in Lines, Say(line) PROVE ListInv'
  BY <1>1, <1>2 DEF Say
<1>3. ASSUME NEW row \in Events, Happens(row) PROVE ListInv'
  BY <1>1, <1>3 DEF Happens
<1>4. ASSUME StockInv', build'.list = build.list, build'.pc = "fetching", ~Done
      PROVE  ListInv'
  BY <1>4 DEF ListInv, Done
<1>5. CASE Start
  <2>1. build'.pc = "fetching" /\ build'.list = <<>> /\ ~Done
    BY <1>5 DEF Start, NoBuild, Open, Done
  <2>2. build.list = <<>>
    BY <2>1 DEF ListInv
  <2> QED BY <1>4, <1>5, <2>1, <2>2, StartKeepsStock
<1>6. ASSUME NEW books, NEW substituted, NEW late, NEW missed, Fetched(books, substituted, late, missed),
             Fetching
      PROVE  build'.list = build.list /\ build'.pc = "fetching" /\ ~Done
  BY <1>6 DEF Fetched, Fetching, Done, LateInv, BuildFields
<1>7. CASE FetchInTime
  <2>1. \E books, substituted, late, missed : Fetched(books, substituted, late, missed)
    BY <1>7, Zenon DEF FetchInTime
  <2>2. Fetching
    BY <1>7 DEF FetchInTime
  <2>3. build'.list = build.list /\ build'.pc = "fetching" /\ ~Done
    BY <1>6, <2>1, <2>2
  <2> QED BY <1>4, <1>7, <2>3, InTimeKeepsStock DEF ListInv
<1>8. CASE FetchOthers
  <2>1. \E books, substituted, late, missed : Fetched(books, substituted, late, missed)
    BY <1>8, Zenon DEF FetchOthers
  <2>2. Fetching
    BY <1>8 DEF FetchOthers
  <2>3. build'.list = build.list /\ build'.pc = "fetching" /\ ~Done
    BY <1>6, <2>1, <2>2
  <2> QED BY <1>4, <1>8, <2>3, OthersKeepStock DEF ListInv
<1>9. CASE Finish
  BY <1>9, FinishKeepsList
<1>10. CASE UNCHANGED listVars
  BY <1>1, <1>10 DEF listVars
<1> QED BY <1>2, <1>3, <1>5, <1>7, <1>8, <1>9, <1>10 DEF ListNext

\* What is shown to a user is what was put together of the books that were kept for the user's
\* interests, all of them of the catalogue (interest_list.py:179-222).
THEOREM ListHolds == ListSpec => []ListInv
<1>1. ListInit => ListInv
  BY DEF ListInit, NoBuild, ListInv, StockInv, Open, Done
<1>2. LateInv /\ ListInv /\ [ListNext]_listVars => ListInv'
  BY ListGoesOn
<1> QED BY <1>1, <1>2, LateHolds, PTL DEF ListSpec

\* Of a book on the list: it is of the catalogue, and it is the one of its entry.
LEMMA EntryIs ==
  ASSUME StockInv, ~Open, NEW lists, NEW turns, NEW placed,
         Assembled(build, lists, turns, placed, build.list),
         Seated(build.seats) \subseteq DOMAIN build.picks,
         NEW i \in 1 .. Len(placed)
  PROVE  /\ BookOf(build.list[i].book) \in ToSet(KeptBy(build, placed[i].name))
         /\ BookOf(build.list[i].book) \in Stock
         /\ KeyOf(BookOf(build.list[i].book)) = placed[i].key
         /\ BookOf(build.list[i].book).author = placed[i].author
         /\ BookOf(build.list[i].book).id = build.list[i].book
         /\ build.list[i].interest = placed[i].name
         /\ placed[i].name \in Seated(build.seats)
<1>1. placed[i].name \in Seated(build.seats)
  <2>1. PICK E : E = Entries(build.seats)
    OBVIOUS
  <2>2. placed \in Seq(E)
    BY <2>1 DEF Assembled
  <2>3. placed[i] \in E
    BY <2>2
  <2> QED BY <2>1, <2>3 DEF Entries
<1>2. PICK o \in ToSet(KeptBy(build, placed[i].name)) :
        /\ KeyOf(o) = placed[i].key /\ o.author = placed[i].author
        /\ build.list[i].book = o.id /\ build.list[i].interest = placed[i].name
  BY DEF Assembled, Listed
<1>3. o \in Stock
  <2>1. build.picks[placed[i].name] \in Seq(Stock)
    BY <1>1 DEF StockInv
  <2> QED BY <1>2, <2>1, KeptAre
<1>4. BookOf(o.id) = o
  BY <1>3, StockAssumption DEF BookOf
<1> QED BY <1>1, <1>2, <1>3, <1>4

LEMMA SeatedArePicked ==
  ASSUME LateInv, Done
  PROVE  Seated(build.seats) \subseteq DOMAIN build.picks /\ SeatList(build.seats) /\ ~Open
<1>1. Fair(build) /\ build.todo = <<>> /\ ~Open
  BY DEF LateInv, Done, Open
<1> SUFFICES ASSUME NEW x \in Seated(build.seats) PROVE x \in DOMAIN build.picks
  BY <1>1 DEF Fair
<1>2. Len(build.todo) = 0
  BY <1>1
<1>3. PICK job \in build.asked : job.name = x
  BY <1>1, <1>2 DEF Fair, Begun
<1> QED BY <1>1, <1>3 DEF Fair, Answered

\* Whatever is picked for whom: on the first page of the list that is kept, an author has more
\* books than the limit only where no other is left (interest_list.py:135-162).
THEOREM AuthorsAreSpread == ListSpec => []AuthorsSpread
<1>1. LateInv /\ ListInv => AuthorsSpread
  <2> SUFFICES ASSUME LateInv, ListInv PROVE AuthorsSpread
    OBVIOUS
  <2>1. CASE ~Done
    <3>1. build.list = <<>>
      BY <2>1 DEF ListInv
    <3>2. DOMAIN build.list = {}
      BY <3>1
    <3> QED BY <3>2 DEF AuthorsSpread
  <2>2. CASE Done
    <3>1. PICK lists, turns, placed : Assembled(build, lists, turns, placed, build.list)
      BY <2>2 DEF ListInv, WellMade
    <3>2. PICK n \in Nat : n = Len(placed)
      <4>1. PICK E : placed \in Seq(E)
        BY <3>1 DEF Assembled
      <4> QED BY <4>1
    <3>3. DOMAIN build.list = 1 .. n /\ Len(build.list) = n
      <4>1. build.list = [i \in 1 .. n |-> build.list[i]]
        BY <3>1, <3>2, Zenon DEF Assembled
      <4> QED BY <4>1, OfFunction
    <3>4. \A i \in 1 .. n : BookOf(build.list[i].book).author = placed[i].author
      BY <2>2, <3>1, <3>2, SeatedArePicked, EntryIs DEF ListInv
    <3>5. ASSUME NEW i \in 1 .. n, NEW a
          PROVE  {j \in 1 .. i - 1 : BookOf(build.list[j].book).author = a} = BeforeOf(placed, i, a)
      <4>1. \A j \in 1 .. i - 1 : j \in 1 .. n
        BY <3>2
      <4> QED BY <3>4, <4>1 DEF BeforeOf
    <3>6. WellSpread(placed)
      BY <3>1 DEF Assembled
    <3> DEFINE author(i) == BookOf(build.list[i].book).author
               before(i, a) == Cardinality({j \in 1 .. i - 1 : author(j) = a})
    <3>7. ASSUME NEW i \in 1 .. n, i <= AuthorBlock, author(i) # 0, before(i, author(i)) >= AuthorPerBlock,
                 NEW k \in i .. n
          PROVE  author(k) # 0 /\ before(i, author(k)) >= AuthorPerBlock
      <4>1. k \in 1 .. n
        BY <3>2
      <4>2. author(i) = placed[i].author /\ author(k) = placed[k].author
        BY <3>4, <4>1
      <4>3. /\ before(i, author(i)) = Cardinality(BeforeOf(placed, i, placed[i].author))
            /\ before(i, author(k)) = Cardinality(BeforeOf(placed, i, placed[k].author))
        <5>1. \A a : before(i, a) = Cardinality(BeforeOf(placed, i, a))
          BY <3>5
        <5> HIDE DEF author, before
        <5> QED BY <4>2, <5>1
      <4> HIDE DEF author, before
      <4> QED BY <3>2, <3>6, <3>7, <4>2, <4>3 DEF WellSpread
    <3>8. \A i \in DOMAIN build.list :
            (i <= AuthorBlock /\ author(i) # 0 /\ before(i, author(i)) >= AuthorPerBlock) =>
              \A k \in i .. Len(build.list) : author(k) # 0 /\ before(i, author(k)) >= AuthorPerBlock
      <4> HIDE DEF author, before
      <4> QED BY <3>3, <3>7
    <3> QED BY <3>8, Zenon DEF AuthorsSpread
  <2> QED BY <2>1, <2>2
<1> QED BY <1>1, LateHolds, ListHolds, PTL
-----------------------------------------------------------------------------
(* What the user does not want has points below zero.                      *)

\* The last direction is that of the last value.
LEMMA LastRunIsNegative ==
  ASSUME NEW n \in Nat \ {0}, NEW v \in [1 .. n -> Int], v[n] < 0
  PROVE  LastRun(v) < 0
<1>0. Len(v) = n /\ DOMAIN v = 1 .. n
  <2>1. v \in Seq(Int)
    BY SeqDef
  <2> QED BY <2>1
<1>1. PICK B : B = {i \in 1 .. n : (v[i] > 0) # (v[n] > 0)}
  OBVIOUS
<1>2. PICK S : S = {0} \cup B
  OBVIOUS
<1>a. n \in 1 .. n /\ v[n] \in Int
  OBVIOUS
<1>b. B \subseteq 1 .. n - 1
  <2>1. n \notin B
    BY <1>1
  <2>2. B \subseteq 1 .. n
    BY <1>1
  <2> QED BY <2>1, <2>2
<1>3. IsFiniteSet(S) /\ S # {} /\ S \subseteq Int /\ S \subseteq 0 .. n - 1
  <2>1. IsFiniteSet(B)
    <3>1. 1 \in Int /\ n - 1 \in Int
      OBVIOUS
    <3> QED BY <1>b, <3>1, FS_Interval, FS_Subset
  <2>2. IsFiniteSet({0})
    BY FS_Singleton
  <2>3. IsFiniteSet(S)
    BY <1>2, <2>1, <2>2, FS_Union
  <2> QED BY <1>2, <1>b, <2>3
<1>4. Max(S) \in S /\ \A i \in S : i <= Max(S)
  BY <1>3, LargestIsThere
<1>c. PICK m \in 0 .. n - 1 : m = Max(S)
  BY <1>3, <1>4
<1>5. PICK k \in 1 .. n : k = Max(S) + 1
  BY <1>c
<1>6. PICK f : f = [i \in k .. n |-> v[i]]
  OBVIOUS
<1>7. LastRun(v) = SumOf(f)
  BY <1>0, <1>1, <1>2, <1>5, <1>6, Zenon DEF LastRun
<1>8. IsFiniteSet(k .. n)
  <2>1. k \in Int /\ n \in Int
    OBVIOUS
  <2> QED BY <2>1, FS_Interval
<1>9. f \in [k .. n -> Int] /\ DOMAIN f = k .. n
  BY <1>6
<1>10. n \in k .. n /\ f[n] < 0
  BY <1>6
<1>11. \A i \in k .. n : f[i] <= 0
  <2> SUFFICES ASSUME NEW i \in k .. n PROVE f[i] <= 0
    OBVIOUS
  <2>1. i \in 1 .. n /\ i \notin S
    BY <1>4, <1>5, <1>c
  <2>2. i \notin B
    BY <1>2, <2>1
  <2>3. PICK a \in Int, b \in Int : a = v[i] /\ b = v[n]
    BY <1>a, <2>1
  <2>4. (a > 0) = (b > 0)
    BY <1>1, <2>1, <2>2, <2>3
  <2>5. ~(b > 0)
    BY <2>3
  <2>6. ~(a > 0)
    BY <2>4, <2>5, Zenon
  <2> QED BY <1>6, <2>3, <2>6
<1>12. PICK c : Added(k .. n, f, c) /\ SumOf(f) = c[k .. n]
  BY <1>8, <1>9, SumIsAdded
<1> QED BY <1>7, <1>8, <1>9, <1>10, <1>11, <1>12, AddedIsNegative

\* What is flattened has all that was in its parts.
LEMMA FlattenHas ==
  ASSUME NEW T, NEW h \in Seq(Seq(T)), NEW i \in 1 .. Len(h), NEW x \in ToSet(h[i])
  PROVE  x \in ToSet(FlattenSeq(h))
<1>1. PICK n \in Nat : n = Len(h)
  OBVIOUS
<1>2. n \in Nat \ {0}
  BY <1>1
<1>3. PICK g : Flat(h, n, g) /\ FlattenSeq(h) = g[n]
  BY <1>1, <1>2, FlattenIsFlat
<1> DEFINE Has(m) == g[m] \in Seq(T) /\ \A j \in 1 .. m : ToSet(h[j]) \subseteq ToSet(g[m])
           M == {m \in Nat : m = 0 \/ m > n \/ Has(m)}
<1>4. \A j \in 1 .. n : h[j] \in Seq(T) /\ g[j] = IF j = 1 THEN h[j] ELSE g[j - 1] \o h[j]
  <2>1. \A j \in 1 .. n : h[j] \in Seq(T)
    BY <1>1
  <2>2. \A j \in 1 .. n : g[j] = IF j = 1 THEN h[j] ELSE g[j - 1] \o h[j]
    BY <1>3, FlatStep
  <2> QED BY <2>1, <2>2
<1>5. 0 \in M
  OBVIOUS
<1>6. ASSUME NEW m \in Nat, m \in M PROVE m + 1 \in M
  <2> SUFFICES ASSUME m + 1 <= n PROVE Has(m + 1)
    OBVIOUS
  <2>1. PICK k \in 1 .. n : k = m + 1 /\ k - 1 = m
    OBVIOUS
  <2>2. CASE m = 0
    <3>1. g[k] = h[k] /\ k = 1
      BY <1>4, <2>1, <2>2
    <3>2. \A j \in 1 .. k : j = k
      BY <3>1
    <3> QED BY <1>4, <2>1, <3>1, <3>2
  <2>3. CASE m # 0
    <3>1. Has(m)
      BY <1>6, <2>3
    <3>2. g[k] = g[m] \o h[k]
      <4>1. k # 1 /\ k - 1 = m
        BY <2>1, <2>3
      <4>2. g[k] = IF k = 1 THEN h[k] ELSE g[k - 1] \o h[k]
        BY <1>4
      <4> QED BY <4>1, <4>2, Zenon
    <3>3. PICK a \in Seq(T), b \in Seq(T) : a = g[m] /\ b = h[k]
      BY <1>4, <3>1
    <3>4. a \o b \in Seq(T) /\ ToSet(a \o b) = ToSet(a) \cup ToSet(b)
      BY TwoJoined
    <3>5. g[k] \in Seq(T) /\ ToSet(g[k]) = ToSet(g[m]) \cup ToSet(h[k])
      BY <3>2, <3>3, <3>4
    <3>6. \A j \in 1 .. k : j \in 1 .. m \/ j = k
      BY <2>1
    <3> QED BY <2>1, <3>1, <3>5, <3>6
  <2> QED BY <2>2, <2>3
<1>7. Nat \subseteq M
  <2> HIDE DEF M
  <2> QED BY <1>5, <1>6, EveryNumber
<1>8. Has(n)
  <2>1. n \in M
    <3> HIDE DEF M
    <3> QED BY <1>7
  <2> HIDE DEF Has
  <2>2. n # 0 /\ ~(n > n)
    BY <1>2
  <2> QED BY <2>1, <2>2
<1> QED BY <1>1, <1>3, <1>8

\* A member of s is in r, and what follows it in r follows it in s.
Followed(r, s, S, i) ==
  \E k \in 1 .. Len(r) :
    /\ r[k] = s[i]
    /\ \A j \in 1 .. Len(r) : j > k => \E l \in 1 .. Len(s) : l > i /\ r[j] = s[l] /\ s[l] \in S

LEMMA OnlyAt ==
  ASSUME NEW T, NEW s \in Seq(T), NEW S, NEW i \in 1 .. Len(s), s[i] \in S
  PROVE  Only(s, S) \in Seq(T) /\ Followed(Only(s, S), s, S, i)
<1>1. PICK r \in Seq(T \cap S) : r = Only(s, S)
  BY OnlyType
<1>2. PICK m : Places(s, S, Len(s), r, m)
  BY <1>1, OnlyPlaces
<1>3. PICK l \in Nat, n \in Nat : l = Len(r) /\ n = Len(s)
  OBVIOUS
<1>4. PICK k \in 1 .. l : m[k] = i
  BY <1>2, <1>3 DEF Places
<1>5. r[k] = s[i]
  BY <1>2, <1>3, <1>4 DEF Places
<1>6. ASSUME NEW j \in 1 .. l, j > k PROVE \E a \in 1 .. n : a > i /\ r[j] = s[a] /\ s[a] \in S
  <2>1. m[j] \in 1 .. n /\ r[j] = s[m[j]] /\ s[m[j]] \in S
    BY <1>2, <1>3 DEF Places
  <2>2. m[k] < m[j]
    BY <1>2, <1>3, <1>6 DEF Places
  <2> QED BY <1>4, <2>1, <2>2
<1>7. r \in Seq(T)
  BY <1>1
<1> QED BY <1>1, <1>3, <1>4, <1>5, <1>6, <1>7 DEF Followed

\* When the lines were said.
AtOf(lines) == [i \in 1 .. Len(lines) |-> lines[i].at]

LEMMA InOrderMoves ==
  ASSUME NEW lines \in Seq(Lines)
  PROVE  \E p : Rearranged(lines, AtOf(lines), InOrder(lines), p)
<1>1. PICK n \in Nat : n = Len(lines) /\ DOMAIN lines = 1 .. n
  OBVIOUS
<1>2. PICK w : w = AtOf(lines)
  OBVIOUS
<1>3. w \in [1 .. Len(lines) -> Int]
  <2>1. \A i \in 1 .. n : lines[i] \in Lines
    BY <1>1
  <2>2. \A i \in 1 .. n : lines[i].at \in Int
    BY <2>1, RequestsAssumption
  <2> QED BY <1>1, <1>2, <2>2 DEF AtOf
<1>4. PICK P : P = {<<Append(<<lines[i].at>>, i), i>> : i \in DOMAIN lines}
  OBVIOUS
<1>5. P = PlaceKeys(lines, w)
  BY <1>1, <1>2, <1>4 DEF PlaceKeys, AtOf
<1>6. InOrder(lines) = [k \in 1 .. Len(lines) |-> lines[ByKey(P)[k]]]
  BY <1>4, Zenon DEF InOrder, StableSort, Ordered
<1>7. InOrder(lines) = SortedBy(lines, w)
  BY <1>5, <1>6, Zenon DEF SortedBy
<1>8. \E p : Rearranged(lines, w, SortedBy(lines, w), p)
  BY <1>3, StableIs
<1> QED BY <1>2, <1>7, <1>8

\* What lines that are in order look like.
InTime(lines) == \A i, j \in 1 .. Len(lines) : i < j => lines[i].at <= lines[j].at

\* Where each line goes: the earlier first, of one time the one that was first.
Moved(lines, r, p) ==
  /\ Len(r) = Len(lines)
  /\ \A k \in 1 .. Len(lines) : p[k] \in 1 .. Len(lines) /\ r[k] = lines[p[k]]
  /\ \A i \in 1 .. Len(lines) : \E k \in 1 .. Len(lines) : p[k] = i
  /\ \A i, j \in 1 .. Len(lines) : i < j =>
       /\ p[i] # p[j] /\ lines[p[i]].at <= lines[p[j]].at
       /\ lines[p[i]].at = lines[p[j]].at => p[i] < p[j]

LEMMA InOrderIsMoved ==
  ASSUME NEW lines \in Seq(Lines)
  PROVE  \E p : Moved(lines, InOrder(lines), p)
<1>1. PICK p : Rearranged(lines, AtOf(lines), InOrder(lines), p)
  BY InOrderMoves
<1>2. PICK n \in Nat : n = Len(lines)
  OBVIOUS
<1>3. PICK S : S = 1 .. n
  OBVIOUS
<1>4. PICK w, r : w = AtOf(lines) /\ r = InOrder(lines)
  OBVIOUS
<1>5. Sorted(S, w, p) /\ Len(p) = n /\ r = [k \in 1 .. n |-> lines[p[k]]]
  BY <1>1, <1>2, <1>3, <1>4 DEF Rearranged
<1>6. ASSUME NEW k \in 1 .. n PROVE p[k] \in 1 .. n
  <2>1. p \in Seq(S) /\ Len(p) = n
    BY <1>5 DEF Sorted
  <2>2. p[k] \in S
    BY <2>1
  <2> QED BY <1>3, <2>2
<1>7. \A i \in 1 .. n : w[i] = lines[i].at
  BY <1>2, <1>4 DEF AtOf
<1>8. Len(r) = n
  BY <1>5, OfFunction
<1>9. \A i \in 1 .. n : \E k \in 1 .. n : p[k] = i
  BY <1>3, <1>5 DEF Sorted
<1>10. ASSUME NEW i \in 1 .. n, NEW j \in 1 .. n, i < j
       PROVE  /\ p[i] # p[j] /\ lines[p[i]].at <= lines[p[j]].at
              /\ lines[p[i]].at = lines[p[j]].at => p[i] < p[j]
  <2>1. /\ w[p[i]] <= w[p[j]] /\ p[i] # p[j]
        /\ w[p[i]] = w[p[j]] => p[i] < p[j]
    BY <1>5, <1>10 DEF Sorted
  <2>2. w[p[i]] = lines[p[i]].at /\ w[p[j]] = lines[p[j]].at
    BY <1>6, <1>7
  <2> QED BY <2>1, <2>2
<1>11. \A k \in 1 .. n : r[k] = lines[p[k]]
  BY <1>5
<1>12. Moved(lines, r, p)
  BY <1>2, <1>6, <1>8, <1>9, <1>10, <1>11 DEF Moved
<1> QED BY <1>4, <1>12

\* The lines that are used are in order, and were said.
LEMMA UsedInTime ==
  ASSUME NEW lines \in Seq(Lines)
  PROVE  InTime(Used(lines)) /\ ToSet(Used(lines)) \subseteq ToSet(lines)
<1>1. PICK s \in Seq(Lines) : s = InOrder(lines)
  BY InOrderIs
<1>2. PICK n \in Nat : n = Len(s)
  OBVIOUS
<1>3. PICK p : Moved(lines, s, p)
  BY <1>1, InOrderIsMoved
<1>4. n = Len(lines)
  BY <1>2, <1>3 DEF Moved
<1>5. PICK k \in Int : k = n - UsedMemories + 1
  BY InterestsAssumption
<1>6. PICK m \in Nat : m = Max({1, k}) /\ m >= 1
  <2>1. PICK S : S = {1, k}
    OBVIOUS
  <2>2. IsFiniteSet(S) /\ S # {} /\ S \subseteq Int
    <3>1. IsFiniteSet({1}) /\ IsFiniteSet({k})
      BY FS_Singleton
    <3>2. S = {1} \cup {k}
      BY <2>1
    <3>3. IsFiniteSet(S)
      BY <3>1, <3>2, FS_Union
    <3> QED BY <2>1, <3>3
  <2>3. Max(S) \in S /\ \A y \in S : y <= Max(S)
    BY <2>2, LargestIsThere
  <2> QED BY <2>1, <2>2, <2>3
<1>7. PICK u : u = SubSeq(s, m, n)
  OBVIOUS
<1>8. Used(lines) = u
  BY <1>1, <1>2, <1>5, <1>6, <1>7 DEF Used
<1>9. /\ u \in Seq(Lines) /\ Len(u) = IF m <= n THEN n - m + 1 ELSE 0
      /\ \A i \in 1 .. n - m + 1 : u[i] = s[m + i - 1]
  <2>1. m \in Int /\ n \in Int
    OBVIOUS
  <2>2. \A i \in m .. n : s[i] \in Lines
    BY <1>2, <1>6
  <2> QED BY <1>7, <2>1, <2>2, SubSeqProperties
<1>10. \A i \in 1 .. Len(u) : m + i - 1 \in 1 .. n /\ u[i] = s[m + i - 1]
  <2> SUFFICES ASSUME NEW i \in 1 .. Len(u) PROVE m + i - 1 \in 1 .. n /\ u[i] = s[m + i - 1]
    OBVIOUS
  <2>1. m <= n /\ i \in 1 .. n - m + 1
    BY <1>9
  <2>2. u[i] = s[m + i - 1]
    BY <1>9, <2>1
  <2>3. m \in Nat /\ m >= 1
    BY <1>6
  <2>4. m + i - 1 \in 1 .. n
    BY <2>1, <2>3
  <2> QED BY <2>2, <2>4
<1>11. InTime(u)
  <2> SUFFICES ASSUME NEW i \in 1 .. Len(u), NEW j \in 1 .. Len(u), i < j PROVE u[i].at <= u[j].at
    BY DEF InTime
  <2>1. PICK a \in 1 .. n, b \in 1 .. n : a = m + i - 1 /\ b = m + j - 1
    BY <1>10
  <2>2. a < b
    BY <1>9, <2>1
  <2>3. u[i] = s[a] /\ u[j] = s[b]
    BY <1>10, <2>1
  <2>4. s[a] = lines[p[a]] /\ s[b] = lines[p[b]]
    BY <1>3, <1>4 DEF Moved
  <2>5. lines[p[a]].at <= lines[p[b]].at
    BY <1>3, <1>4, <2>2 DEF Moved
  <2> QED BY <2>3, <2>4, <2>5
<1>12. ToSet(u) \subseteq ToSet(lines)
  <2> SUFFICES ASSUME NEW x \in ToSet(u) PROVE x \in ToSet(lines)
    OBVIOUS
  <2>1. PICK i \in 1 .. Len(u) : u[i] = x
    BY <1>9, SetOf
  <2>2. PICK a \in 1 .. n : a = m + i - 1
    BY <1>10
  <2>3. u[i] = s[a]
    BY <1>10, <2>2
  <2>4. s[a] = lines[p[a]] /\ p[a] \in 1 .. Len(lines)
    BY <1>3, <1>4 DEF Moved
  <2>5. lines[p[a]] \in ToSet(lines)
    BY <2>4, SetOf
  <2> QED BY <2>1, <2>3, <2>4, <2>5
<1> QED BY <1>8, <1>11, <1>12

\* The last of S in s is x.
LastIn(s, S, x) ==
  \E k \in 1 .. Len(s) : s[k] = x /\ x \in S /\ \A j \in 1 .. Len(s) : j > k => s[j] \notin S

LEMMA LastStays ==
  ASSUME NEW lines \in Seq(Lines), InTime(lines), NEW S, NEW x, LastIn(lines, S, x)
  PROVE  LastIn(InOrder(lines), S, x)
<1>1. PICK r : r = InOrder(lines)
  OBVIOUS
<1>2. PICK p : Moved(lines, r, p)
  BY <1>1, InOrderIsMoved
<1>3. PICK n \in Nat : n = Len(lines)
  OBVIOUS
<1>4. PICK i \in 1 .. n : lines[i] = x /\ x \in S /\ \A j \in 1 .. n : j > i => lines[j] \notin S
  BY <1>3 DEF LastIn
<1>5. PICK k \in 1 .. n : p[k] = i
  BY <1>2, <1>3, <1>4 DEF Moved
<1>6. r[k] = x /\ Len(r) = n
  BY <1>2, <1>3, <1>4, <1>5 DEF Moved
<1>7. ASSUME NEW j \in 1 .. n, j > k, r[j] \in S PROVE FALSE
  <2>1. PICK l \in 1 .. n : l = p[j] /\ r[j] = lines[l]
    BY <1>2, <1>3 DEF Moved
  <2>2. /\ p[k] # p[j] /\ lines[p[k]].at <= lines[p[j]].at
        /\ lines[p[k]].at = lines[p[j]].at => p[k] < p[j]
    BY <1>2, <1>3, <1>7 DEF Moved
  <2>3. i # l /\ lines[i].at <= lines[l].at /\ (lines[i].at = lines[l].at => i < l)
    BY <1>5, <2>1, <2>2
  <2>4. ~(l > i)
    BY <1>4, <1>7, <2>1
  <2>5. l < i
    BY <2>3, <2>4
  <2>6. lines[l].at <= lines[i].at
    BY <1>3, <2>5 DEF InTime
  <2>7. lines[i].at \in Int /\ lines[l].at \in Int
    <3>1. lines[i] \in Lines /\ lines[l] \in Lines
      BY <1>3
    <3> QED BY <3>1, RequestsAssumption
  <2>8. lines[i].at = lines[l].at
    BY <2>3, <2>6, <2>7
  <2> QED BY <2>3, <2>5, <2>8
<1>8. LastIn(r, S, x)
  BY <1>4, <1>6, <1>7 DEF LastIn
<1> QED BY <1>1, <1>8

\* Of some of them, it is the last as well.
LEMMA LastOfSome ==
  ASSUME NEW T, NEW s \in Seq(T), NEW S, NEW x, LastIn(s, S, x), NEW A, x \in A
  PROVE  LastIn(Only(s, A), S, x)
<1>1. PICK i \in 1 .. Len(s) : s[i] = x /\ x \in S /\ \A j \in 1 .. Len(s) : j > i => s[j] \notin S
  BY DEF LastIn
<1>2. s[i] \in A
  BY <1>1
<1>b. Followed(Only(s, A), s, A, i)
  BY <1>2, OnlyAt
<1>3. PICK k \in 1 .. Len(Only(s, A)) :
        /\ Only(s, A)[k] = s[i]
        /\ \A j \in 1 .. Len(Only(s, A)) : j > k =>
             \E l \in 1 .. Len(s) : l > i /\ Only(s, A)[j] = s[l] /\ s[l] \in A
  BY <1>b, Zenon DEF Followed
<1>4. \A j \in 1 .. Len(Only(s, A)) : j > k => Only(s, A)[j] \notin S
  BY <1>1, <1>3
<1> QED BY <1>1, <1>3, <1>4 DEF LastIn

LEMMA LastOf ==
  ASSUME NEW T, NEW s \in Seq(T), NEW S, NEW x, LastIn(s, S, x)
  PROVE  /\ Only(s, S) \in Seq(T) /\ Len(Only(s, S)) \in Nat \ {0}
         /\ Only(s, S)[Len(Only(s, S))] = x
<1>1. PICK i \in 1 .. Len(s) : s[i] = x /\ x \in S /\ \A j \in 1 .. Len(s) : j > i => s[j] \notin S
  BY DEF LastIn
<1>2. PICK r : r = Only(s, S)
  OBVIOUS
<1>3. s[i] \in S
  BY <1>1
<1>b. Followed(r, s, S, i)
  BY <1>2, <1>3, OnlyAt
<1>4. PICK k \in 1 .. Len(r) :
        /\ r[k] = s[i]
        /\ \A j \in 1 .. Len(r) : j > k => \E l \in 1 .. Len(s) : l > i /\ r[j] = s[l] /\ s[l] \in S
  BY <1>b, Zenon DEF Followed
<1>5. r \in Seq(T)
  BY <1>2, <1>3, OnlyAt
<1>6. PICK n \in Nat : n = Len(r)
  BY <1>5
<1>7. n \in 1 .. n
  BY <1>4, <1>6
<1>8. ~(n > k)
  BY <1>1, <1>4, <1>6, <1>7
<1>9. n = k
  BY <1>4, <1>6, <1>8
<1> QED BY <1>1, <1>2, <1>4, <1>5, <1>6, <1>7, <1>9

\* What is avoided has points, and all it has are below zero.
Avoids(s, x) ==
  /\ \E i \in DOMAIN s : s[i][1] = x
  /\ \A i \in DOMAIN s : s[i][1] = x => s[i][2] < 0

\* The lines that count for an interest: about it, and no request for once.
Counting(x) == {line \in Lines : About(line, x) /\ line.strength # RequestToAvoid}

\* The share of a dislike is below zero.
LEMMA ShareIsNegative ==
  ASSUME NEW line \in Lines, NEW x, About(line, x), line.strength < 0
  PROVE  Share(line) \in Int /\ Share(line) < 0
<1>1. PICK s : s = InterestsOf(line)
  OBVIOUS
<1>2. s \in Seq(ToSet(s)) /\ x \in ToSet(s)
  BY <1>1, InterestsOfIsList DEF About
<1>3. PICK i \in DOMAIN s : TRUE
  BY <1>2 DEF ToSet
<1>4. Len(s) \in Nat \ {0}
  BY <1>2, <1>3
<1>5. line.strength \in Int
  BY RequestsAssumption
<1>6. PICK k \in Int, m \in Nat \ {0} : k = 6 * line.strength /\ m = Len(s) /\ k < 0
  BY <1>4, <1>5
<1>7. k \div m \in Int /\ k \div m < 0
  <2>1. PICK q \in Int : q = k \div m
    OBVIOUS
  <2>2. m * q <= k
    BY <2>1
  <2>3. q >= 0 => m * q >= 0
    OBVIOUS
  <2> QED BY <1>6, <2>1, <2>2, <2>3
<1> QED BY <1>1, <1>6, <1>7 DEF Share

\* A dislike that is the last word has points below zero.
LEMMA MemoryAvoids ==
  ASSUME NEW lines \in Seq(Lines), InTime(lines), NEW x, NEW last, LastIn(lines, Counting(x), last),
         last.strength < 0
  PROVE  Avoids(MemoryScores(lines), x)
<1> DEFINE S == {line \in ToSet(lines) : line.strength # RequestToAvoid}
<1>1. PICK said : said = Only(InOrder(lines), S)
  OBVIOUS
<1>2. said \in Seq(Lines)
  <2> HIDE DEF S
  <2>1. Only(InOrder(lines), S) \in Seq(Lines \cap S)
    BY InOrderIs, OnlyType
  <2> QED BY <1>1, <2>1
<1>3. PICK n \in Nat : n = Len(said) /\ DOMAIN said = 1 .. n
  BY <1>2
<1>4. PICK C : C = Counting(x)
  OBVIOUS
<1>5. last \in Lines /\ About(last, x) /\ last.strength # RequestToAvoid /\ last \in ToSet(lines)
  <2>1. PICK i \in 1 .. Len(lines) : lines[i] = last /\ last \in Counting(x)
    BY DEF LastIn
  <2>2. lines[i] \in ToSet(lines)
    BY SetOf
  <2> QED BY <2>1, <2>2 DEF Counting
<1>6. LastIn(said, C, last)
  <2>1. PICK r \in Seq(Lines) : r = InOrder(lines)
    BY InOrderIs
  <2>2. LastIn(r, C, last)
    BY <1>4, <2>1, LastStays
  <2>3. PICK A : A = S
    OBVIOUS
  <2>4. last \in A
    BY <1>5, <2>3
  <2>5. said = Only(r, A)
    BY <1>1, <2>1, <2>3
  <2> HIDE DEF S
  <2> QED BY <2>2, <2>4, <2>5, LastOfSome
<1>7. PICK B : B = {line \in ToSet(said) : About(line, x)}
  OBVIOUS
<1>8. PICK k \in 1 .. n : said[k] = last /\ \A j \in 1 .. n : j > k => said[j] \notin C
  BY <1>3, <1>6 DEF LastIn
<1>9. LastIn(said, B, last)
  <2>1. last \in B
    <3>1. said[k] \in ToSet(said)
      BY <1>2, <1>3, SetOf
    <3> QED BY <1>5, <1>7, <1>8, <3>1
  <2>2. ASSUME NEW j \in 1 .. n, j > k PROVE said[j] \notin B
    <3>1. said[j] \in Lines /\ said[j] \in S
      <4>1. Only(InOrder(lines), S) \in Seq(Lines \cap S)
        <5> HIDE DEF S
        <5> QED BY InOrderIs, OnlyType
      <4> HIDE DEF S
      <4>2. said \in Seq(Lines \cap S)
        BY <1>1, <4>1
      <4>3. PICK U : U = Lines \cap S
        OBVIOUS
      <4>4. said[j] \in U
        BY <1>3, <4>2, <4>3
      <4> QED BY <4>3, <4>4
    <3>2. said[j] \notin C
      BY <1>8, <2>2
    <3> QED BY <1>4, <1>7, <3>1, <3>2 DEF Counting
  <2> QED BY <1>3, <1>8, <2>1, <2>2 DEF LastIn
<1>10. PICK a : a = Only(said, B)
  OBVIOUS
<1>11. PICK l \in Nat \ {0} : l = Len(a) /\ a[l] = last
  BY <1>2, <1>9, <1>10, LastOf
<1>12. a \in Seq(Lines \cap B)
  BY <1>2, <1>10, OnlyType
<1>13. DOMAIN a = 1 .. l
  BY <1>11, <1>12
<1>14. PICK T : T = UNION {ToSet(InterestsOf(line)) : line \in Lines}
  OBVIOUS
<1>15. PICK h : h = [i \in 1 .. n |-> InterestsOf(said[i])]
  OBVIOUS
<1>16. h \in Seq(Seq(T)) /\ Len(h) = n
  <2>1. ASSUME NEW i \in 1 .. n PROVE h[i] \in Seq(T)
    <3>1. said[i] \in Lines
      BY <1>2, <1>3
    <3>2. InterestsOf(said[i]) \in Seq(ToSet(InterestsOf(said[i])))
      BY <3>1, InterestsOfIsList
    <3>3. ToSet(InterestsOf(said[i])) \subseteq T
      BY <1>14, <3>1
    <3>4. InterestsOf(said[i]) \in Seq(T)
      BY <3>2, <3>3
    <3> QED BY <1>15, <3>4
  <2>2. h \in [1 .. n -> Seq(T)]
    BY <1>15, <2>1
  <2>3. h = [i \in 1 .. n |-> h[i]]
    BY <1>15
  <2>4. Len(h) = n
    BY <2>3, OfFunction
  <2> QED BY <2>2, <2>4, SeqDef
<1>17. PICK f : f = FlattenSeq(h)
  OBVIOUS
<1>18. f \in Seq(T) /\ x \in ToSet(f)
  <2>1. f \in Seq(T)
    BY <1>16, <1>17, FlattenType
  <2>2. h[k] = InterestsOf(last)
    BY <1>8, <1>15
  <2>3. x \in ToSet(h[k])
    BY <1>5, <2>2 DEF About
  <2>4. k \in 1 .. Len(h)
    BY <1>16
  <2>5. x \in ToSet(FlattenSeq(h))
    BY <1>16, <2>3, <2>4, FlattenHas
  <2> QED BY <1>17, <2>1, <2>5
<1>19. PICK names : names = Firsts(f)
  OBVIOUS
<1>20. PICK m \in Nat : m = Len(names) /\ DOMAIN names = 1 .. m
  BY <1>18, <1>19, FirstsIs
<1>21. \E i \in 1 .. m : names[i] = x
  <2>1. PICK j \in 1 .. Len(f) : f[j] = x
    BY <1>18, SetOf
  <2> QED BY <1>18, <1>19, <1>20, <2>1, FirstsIs
<1> DEFINE about(y) == Only(said, {line \in ToSet(said) : About(line, y)})
           values(y) == [i \in DOMAIN about(y) |-> (6 * about(y)[i].strength) \div Len(InterestsOf(about(y)[i]))]
<1>22. MemoryScores(lines) = [i \in DOMAIN names |-> <<names[i], LastRun(values(names[i]))>>]
  BY <1>1, <1>3, <1>15, <1>17, <1>19, Zenon DEF MemoryScores
<1>23. values(x) = [i \in 1 .. l |-> Share(a[i])]
  <2>1. about(x) = a
    BY <1>7, <1>10
  <2> QED BY <1>13, <2>1 DEF Share
<1>24. PICK v : v = [i \in 1 .. l |-> Share(a[i])]
  OBVIOUS
<1>25. v \in [1 .. l -> Int]
  <2>1. ASSUME NEW i \in 1 .. l PROVE Share(a[i]) \in Int
    <3>1. PICK U : U = Lines \cap B
      OBVIOUS
    <3>2. a[i] \in U
      BY <1>12, <1>13, <3>1
    <3>3. a[i] \in Lines /\ About(a[i], x)
      BY <1>7, <3>1, <3>2
    <3> QED BY <3>3, ShareIsInt
  <2> QED BY <1>24, <2>1
<1>26. v[l] < 0
  <2>1. Share(last) < 0
    BY <1>5, ShareIsNegative
  <2> QED BY <1>11, <1>24, <2>1
<1>27. LastRun(values(x)) < 0
  <2>1. LastRun(v) < 0
    BY <1>25, <1>26, LastRunIsNegative
  <2> HIDE DEF values
  <2> QED BY <1>23, <1>24, <2>1
<1> HIDE DEF values
<1>28. PICK s : s = MemoryScores(lines)
  OBVIOUS
<1>29. /\ DOMAIN s = 1 .. m
       /\ \A i \in 1 .. m : s[i][1] = names[i] /\ s[i][2] = LastRun(values(names[i]))
  BY <1>20, <1>22, <1>28
<1>30. Avoids(s, x)
  BY <1>21, <1>27, <1>29 DEF Avoids
<1> QED BY <1>28, <1>30

\* Nothing that was picked or bought makes up for it.
LEMMA CombinedAvoids ==
  ASSUME NEW o, Points(o), NEW m, Points(m), NEW b, Points(b), NEW x, Avoids(m, x)
  PROVE  Avoids(Combined(o, m, b), x)
<1>1. PICK h1 : h1 = [i \in DOMAIN o |-> o[i][1]] /\ \E T : h1 \in Seq(T)
  BY NamesAreList
<1>2. PICK h2 : h2 = [i \in DOMAIN m |-> m[i][1]] /\ \E T : h2 \in Seq(T)
  BY NamesAreList
<1>3. PICK h3 : h3 = [i \in DOMAIN b |-> b[i][1]] /\ \E T : h3 \in Seq(T)
  BY NamesAreList
<1>4. PICK T1, T2, T3 : h1 \in Seq(T1) /\ h2 \in Seq(T2) /\ h3 \in Seq(T3)
  BY <1>1, <1>2, <1>3
<1>5. PICK T : T = T1 \cup T2 \cup T3
  OBVIOUS
<1>6. PICK h : h = h1 \o h2 \o h3
  OBVIOUS
<1>7. h \in Seq(T) /\ ToSet(h2) \subseteq ToSet(h)
  <2>1. h1 \in Seq(T) /\ h2 \in Seq(T) /\ h3 \in Seq(T)
    BY <1>4, <1>5
  <2>2. PICK g : g = h1 \o h2
    OBVIOUS
  <2>3. g \in Seq(T) /\ ToSet(g) = ToSet(h1) \cup ToSet(h2)
    BY <2>1, <2>2, TwoJoined
  <2>4. g \o h3 \in Seq(T) /\ ToSet(g \o h3) = ToSet(g) \cup ToSet(h3)
    BY <2>1, <2>3, TwoJoined
  <2> QED BY <1>6, <2>2, <2>3, <2>4
<1>8. x \in ToSet(h)
  <2>1. PICK i \in DOMAIN m : m[i][1] = x
    BY DEF Avoids
  <2>2. i \in DOMAIN h2 /\ h2[i] = x
    BY <1>2, <2>1
  <2>3. x \in ToSet(h2)
    BY <2>2 DEF ToSet
  <2> QED BY <1>7, <2>3
<1>9. PICK names : names = Firsts(h)
  OBVIOUS
<1>10. PICK k \in Nat : k = Len(names) /\ DOMAIN names = 1 .. k
  BY <1>7, <1>9, FirstsIs
<1>11. \E i \in 1 .. k : names[i] = x
  <2>1. PICK j \in 1 .. Len(h) : h[j] = x
    BY <1>7, <1>8, SetOf
  <2> QED BY <1>7, <1>9, <1>10, <2>1, FirstsIs
<1>12. PICK n \in Int : n = Max({1, Len(o)}) /\ n >= 1
  <2>1. PICK l \in Nat : l = Len(o)
    BY DEF Points
  <2>2. PICK S : S = {1, l}
    OBVIOUS
  <2>3. IsFiniteSet(S) /\ S # {} /\ S \subseteq Int
    <3>1. IsFiniteSet({1}) /\ IsFiniteSet({l})
      BY FS_Singleton
    <3>2. S = {1} \cup {l}
      BY <2>2
    <3>3. IsFiniteSet(S)
      BY <3>1, <3>2, FS_Union
    <3> QED BY <2>2, <3>3
  <2>4. Max(S) \in S /\ \A y \in S : y <= Max(S)
    BY <2>3, LargestIsThere
  <2> QED BY <2>1, <2>2, <2>3, <2>4
<1> DEFINE parts(y) == [onboarding |-> 90 * ScoreOf(o, y), memory |-> 3 * n * ScoreOf(m, y),
                        books |-> 6 * n * ScoreOf(b, y)]
<1>13. Combined(o, m, b) = [i \in DOMAIN names |-> <<names[i], PartsTogether(parts(names[i]))>>]
  BY <1>1, <1>2, <1>3, <1>6, <1>9, <1>12, Zenon DEF Combined
<1>14. ScoreOf(m, x) < 0
  <2>1. PICK i : i = CHOOSE c \in DOMAIN m : m[c][1] = x
    OBVIOUS
  <2>2. \E c \in DOMAIN m : m[c][1] = x
    BY DEF Avoids
  <2>3. i \in DOMAIN m /\ m[i][1] = x
    BY <2>1, <2>2
  <2>4. ScoreOf(m, x) = m[i][2]
    BY <2>1, <2>2 DEF ScoreOf
  <2> QED BY <2>3, <2>4 DEF Avoids
<1>15. PartsTogether(parts(x)) < 0
  <2>1. PICK sm \in Int : sm = ScoreOf(m, x)
    BY ScoreIsInt
  <2>2. 3 * n * sm < 0
    <3>1. sm <= -1
      BY <1>14, <2>1
    <3>2. n * sm <= -1
      BY <1>12, <3>1
    <3>3. 3 * n * sm = 3 * (n * sm)
      OBVIOUS
    <3>4. PICK q \in Int : q = n * sm
      OBVIOUS
    <3> QED BY <3>2, <3>3, <3>4
  <2>3. PICK p : p = parts(x)
    OBVIOUS
  <2>4. p.memory = 3 * n * sm
    BY <2>1, <2>3
  <2>5. PartsTogether(p) = p.memory
    BY <2>2, <2>4 DEF PartsTogether
  <2> QED BY <2>2, <2>3, <2>4, <2>5
<1> HIDE DEF parts
<1>16. PICK s : s = Combined(o, m, b)
  OBVIOUS
<1>17. /\ DOMAIN s = 1 .. k
       /\ \A i \in 1 .. k : s[i][1] = names[i] /\ s[i][2] = PartsTogether(parts(names[i]))
  BY <1>10, <1>13, <1>16
<1>18. Avoids(s, x)
  BY <1>11, <1>15, <1>17 DEF Avoids
<1> QED BY <1>16, <1>18

\* What has points below zero gets no seat.
LEMMA NoSeatIsGiven ==
  ASSUME NEW scores, Scored(scores), NEW x, Avoids(scores, x)
  PROVE  /\ x \notin Seated(Allocate(scores))
         /\ x \in {p[1] : p \in {q \in ToSet(scores) : q[2] < 0}}
<1>1. PICK T : scores \in Seq(T \X Int)
  BY DEF Scored, Points
<1>2. PICK E : E = T \X Int
  OBVIOUS
<1>3. \A i \in DOMAIN scores : scores[i][2] \in Int
  <2>1. \A i \in DOMAIN scores : scores[i] \in E
    BY <1>1, <1>2
  <2> QED BY <1>2, <2>1
<1>4. ASSUME x \in Seated(Allocate(scores)) PROVE FALSE
  <2>1. PICK i \in DOMAIN Allocate(scores) : Allocate(scores)[i].name = x
    BY <1>4 DEF Seated
  <2>2. PICK p \in ToSet(scores) : p[2] > 0 /\ x = p[1]
    BY <2>1, AllocateIs
  <2>3. PICK j \in DOMAIN scores : scores[j] = p
    BY <2>2 DEF ToSet
  <2>4. scores[j][2] > 0 /\ scores[j][2] < 0
    BY <2>2, <2>3 DEF Avoids
  <2> QED BY <1>3, <2>4
<1>5. PICK i \in DOMAIN scores : scores[i][1] = x /\ scores[i][2] < 0
  BY DEF Avoids
<1>6. scores[i] \in ToSet(scores)
  BY DEF ToSet
<1> QED BY <1>4, <1>5, <1>6

-----------------------------------------------------------------------------
(* What was heard.                                                         *)

\* What was kept of the words and the history when the request began is still so: nothing is
\* said and nothing happens meanwhile.
Heard(b) ==
  /\ b.owned = Reviewed(history)
  /\ b.taste.likes = ToSet(LivingLikes(Used(told)))
  /\ \A x \in SpokenOf : LastAvoided(x) => x \in b.negatives /\ x \notin Seated(b.seats)

HeardInv == ~Open => Heard(build)

\* The last word, said in terms of the list.
LEMMA LastAvoidedIs ==
  ASSUME told \in Seq(Lines), NEW x, LastAvoided(x)
  PROVE  \E last : LastIn(Used(told), Counting(x), last) /\ last.strength < 0
<1>1. PICK lines \in Seq(Lines) : lines = Used(told)
  BY UsedIs
<1>2. PICK n \in Nat : n = Len(lines) /\ DOMAIN lines = 1 .. n
  OBVIOUS
<1>3. PICK about : about = {i \in DOMAIN lines : About(lines[i], x) /\ lines[i].strength # RequestToAvoid}
  OBVIOUS
<1>4. about # {} /\ lines[Max(about)].strength < 0
  BY <1>1, <1>3, Zenon DEF LastAvoided
<1>5. IsFiniteSet(about) /\ about \subseteq Int /\ about \subseteq 1 .. n
  <2>1. 1 \in Int /\ n \in Int
    OBVIOUS
  <2>2. about \subseteq 1 .. n
    BY <1>2, <1>3
  <2>3. IsFiniteSet(1 .. n)
    BY <2>1, FS_Interval
  <2>4. IsFiniteSet(about)
    BY <2>2, <2>3, FS_Subset
  <2>5. about \subseteq Int
    BY <2>2
  <2> QED BY <2>2, <2>4, <2>5
<1>6. Max(about) \in about /\ \A i \in about : i <= Max(about)
  BY <1>4, <1>5, LargestIsThere
<1>7. PICK k \in 1 .. n : k = Max(about)
  BY <1>5, <1>6
<1>8. \A i \in 1 .. n : lines[i] \in Counting(x) <=> i \in about
  <2> SUFFICES ASSUME NEW i \in 1 .. n PROVE lines[i] \in Counting(x) <=> i \in about
    OBVIOUS
  <2>1. lines[i] \in Lines
    BY <1>2
  <2> QED BY <1>2, <1>3, <2>1 DEF Counting
<1>9. ASSUME NEW j \in 1 .. n, j > k PROVE lines[j] \notin Counting(x)
  <2>1. j \notin about
    BY <1>6, <1>7, <1>9
  <2> QED BY <1>8, <2>1
<1>10. LastIn(lines, Counting(x), lines[k])
  BY <1>2, <1>6, <1>7, <1>8, <1>9 DEF LastIn
<1> QED BY <1>1, <1>4, <1>7, <1>10

\* Of what is put together when the request begins, nothing speaks for an interest whose last
\* word is a dislike.
LEMMA StartAvoids ==
  ASSUME NEW lines \in Seq(Lines), NEW o \in Onboardings, NEW liked, NEW rows, IsFiniteSet(rows),
         NEW named, NEW x, NEW last, LastIn(Used(lines), Counting(x), last), last.strength < 0
  PROVE  LET weights == BookWeights(liked, rows)
             mine == MyBooks(weights, named)
         IN Avoids(Combined(OnboardingScores(o.categories, o.tags), MemoryScores(Used(lines)),
                            BookScores(mine, weights, named)), x)
<1>1. PICK weights : weights = BookWeights(liked, rows)
  OBVIOUS
<1>2. PICK mine : mine = MyBooks(weights, named)
  OBVIOUS
<1>3. PICK po : po = OnboardingScores(o.categories, o.tags)
  OBVIOUS
<1>4. PICK pm : pm = MemoryScores(Used(lines))
  OBVIOUS
<1>5. PICK pb : pb = BookScores(mine, weights, named)
  OBVIOUS
<1>6. Points(po)
  BY <1>3, OnboardingPoints
<1>7. Points(pm) /\ Avoids(pm, x)
  <2>1. PICK u \in Seq(Lines) : u = Used(lines)
    BY UsedIs
  <2>2. InTime(u)
    BY <2>1, UsedInTime
  <2> QED BY <1>4, <2>1, <2>2, MemoryPoints, MemoryAvoids
<1>8. Points(pb)
  <2>1. \A b \in DOMAIN weights : weights[b] \in Int
    BY <1>1, BookWeightIsInt
  <2>2. PICK S : Weighed(S, weights) /\ mine \in Seq(S)
    BY <1>2, <2>1, MyBooksAre
  <2> QED BY <1>5, <2>2, BookPoints
<1>9. Avoids(Combined(po, pm, pb), x)
  BY <1>6, <1>7, <1>8, CombinedAvoids
<1> QED BY <1>1, <1>2, <1>3, <1>4, <1>5, <1>9

LEMMA StartHears ==
  ASSUME LateInv, Start
  PROVE  HeardInv'
<1> DEFINE liked == LikedOf(onboarding.isbns, onboarding.ids)
           weights == BookWeights(liked, history)
           mine == MyBooks(weights, Named)
           lines == Used(told)
           seen == [b \in {o.id : o \in Stock} |->
                      Min({NoPrice} \cup {r.at : r \in {h \in history : h.book = b}})]
           scores == Combined(OnboardingScores(onboarding.categories, onboarding.tags),
                              MemoryScores(lines), BookScores(mine, weights, Named))
           seats == Allocate(scores)
           jobs == LargestFirst(seats)
           todo == [i \in DOMAIN jobs |-> Job(jobs[i], mine, weights, seen)]
           owned == Reviewed(history)
           negatives == {p[1] : p \in {q \in ToSet(scores) : q[2] < 0}}
           conditions == ConditionsOf(lines)
           tags == TagWeights(onboarding.tags, onboarding.categories, history)
           cold == ColdStart(lines, weights, ToSet(onboarding.categories \o onboarding.tags),
                             vectors # "none")
           likes == ToSet(LivingLikes(lines))
           taste == [likes |-> likes, tags |-> tags, cold |-> cold]
<1>1. /\ build' = [NoBuild EXCEPT !.pc = "fetching", !.seats = seats, !.todo = todo, !.owned = owned,
                     !.negatives = negatives, !.conditions = conditions, !.taste = taste]
      /\ UNCHANGED <<told, onboarding, history, index, vectors>>
  BY Zenon DEF Start
<1>2. Scored(scores)
  BY StartScores, Zenon DEF LateInv
<1>3. ASSUME NEW x, LastAvoided(x) PROVE Avoids(scores, x)
  <2>1. told \in Seq(Lines) /\ onboarding \in Onboardings /\ IsFiniteSet(history)
    BY DEF LateInv
  <2>2. PICK last : LastIn(Used(told), Counting(x), last) /\ last.strength < 0
    BY <1>3, <2>1, LastAvoidedIs
  <2> QED BY <2>1, <2>2, StartAvoids, Zenon
<1> HIDE DEF scores
<1>4. \A x : LastAvoided(x) => x \in negatives /\ x \notin Seated(seats)
  BY <1>2, <1>3, NoSeatIsGiven
<1> HIDE DEF seats, todo, owned, negatives, conditions, tags, cold, likes
<1>5. /\ build'.owned = owned /\ build'.negatives = negatives /\ build'.seats = seats
      /\ build'.taste.likes = likes
  BY <1>1 DEF NoBuild
<1>6. \A x : LastAvoided(x)' => LastAvoided(x)
  <2>1. PICK u : u = Used(told)
    OBVIOUS
  <2>2. Used(told)' = u
    BY <1>1, <2>1
  <2> QED BY <2>1, <2>2 DEF LastAvoided
<1>7. history' = history /\ told' = told
  BY <1>1
<1>8. build'.owned = Reviewed(history') /\ build'.taste.likes = ToSet(LivingLikes(Used(told')))
  BY <1>5, <1>7 DEF owned, likes
<1>9. \A x : LastAvoided(x)' => x \in build'.negatives /\ x \notin Seated(build'.seats)
  BY <1>4, <1>5, <1>6
<1> QED BY <1>8, <1>9 DEF HeardInv, Heard

\* Whatever else happens, nothing is heard.
LEMMA HeardStays ==
  ASSUME HeardInv, ~Open, told' = told, history' = history,
         build'.owned = build.owned, build'.negatives = build.negatives,
         build'.seats = build.seats, build'.taste = build.taste
  PROVE  HeardInv'
<1>1. Heard(build)
  BY DEF HeardInv
<1>2. \A x : LastAvoided(x)' => LastAvoided(x)
  <2>1. PICK u : u = Used(told)
    OBVIOUS
  <2>2. Used(told)' = u
    BY <2>1
  <2> QED BY <2>1, <2>2 DEF LastAvoided
<1>3. SpokenOf' = SpokenOf
  BY DEF SpokenOf
<1>4. build'.owned = Reviewed(history') /\ build'.taste.likes = ToSet(LivingLikes(Used(told')))
  BY <1>1 DEF Heard
<1>5. \A x \in SpokenOf' : LastAvoided(x)' => x \in build'.negatives /\ x \notin Seated(build'.seats)
  BY <1>1, <1>2, <1>3 DEF Heard
<1> QED BY <1>4, <1>5 DEF HeardInv, Heard

LEMMA HearingGoesOn ==
  ASSUME LateInv, HeardInv, [ListNext]_listVars
  PROVE  HeardInv'
<1>1. ASSUME NEW line \in Lines, Say(line) PROVE HeardInv'
  BY <1>1 DEF Say, HeardInv, Open
<1>2. ASSUME NEW row \in Events, Happens(row) PROVE HeardInv'
  BY <1>2 DEF Happens, HeardInv, Open
<1>3. CASE Start
  BY <1>3, StartHears
<1>4. ASSUME NEW books, NEW substituted, NEW late, NEW missed, Fetched(books, substituted, late, missed),
             Fetching, told' = told, history' = history
      PROVE  HeardInv'
  <2>1. /\ build'.owned = build.owned /\ build'.negatives = build.negatives
        /\ build'.seats = build.seats /\ build'.taste = build.taste
    BY <1>4 DEF Fetched, LateInv, BuildFields
  <2>2. ~Open
    BY <1>4 DEF Fetching, Open
  <2> QED BY <1>4, <2>1, <2>2, HeardStays
<1>5. CASE FetchInTime
  <2>1. \E books, substituted, late, missed : Fetched(books, substituted, late, missed)
    BY <1>5, Zenon DEF FetchInTime
  <2>2. Fetching /\ told' = told /\ history' = history
    BY <1>5 DEF FetchInTime
  <2> QED BY <1>4, <2>1, <2>2
<1>6. CASE FetchOthers
  <2>1. \E books, substituted, late, missed : Fetched(books, substituted, late, missed)
    BY <1>6, Zenon DEF FetchOthers
  <2>2. Fetching /\ told' = told /\ history' = history
    BY <1>6 DEF FetchOthers
  <2> QED BY <1>4, <2>1, <2>2
<1>7. CASE Finish
  <2>1. PICK list : build' = [build EXCEPT !.pc = "done", !.list = list]
    BY <1>7 DEF Finish
  <2>2. /\ build'.owned = build.owned /\ build'.negatives = build.negatives
        /\ build'.seats = build.seats /\ build'.taste = build.taste
    BY <2>1 DEF LateInv, BuildFields
  <2>3. ~Open /\ told' = told /\ history' = history
    BY <1>7 DEF Finish, Open
  <2> QED BY <2>2, <2>3, HeardStays
<1>8. CASE UNCHANGED listVars
  <2>1. build' = build /\ told' = told /\ history' = history
    BY <1>8 DEF listVars
  <2>2. CASE Open
    BY <2>1, <2>2 DEF HeardInv, Open
  <2>3. CASE ~Open
    BY <2>1, <2>3, HeardStays
  <2> QED BY <2>2, <2>3
<1> QED BY <1>1, <1>2, <1>3, <1>5, <1>6, <1>7, <1>8 DEF ListNext

\* From its start on, a list is made of what was said and had by then (service.py:154-255): what
\* is owned, what is liked, and what was disliked last has no seat.
THEOREM HearingHolds == ListSpec => []HeardInv
<1>1. ListInit => HeardInv
  BY DEF ListInit, NoBuild, HeardInv, Open
<1>2. LateInv /\ HeardInv /\ [ListNext]_listVars => HeardInv'
  BY HearingGoesOn
<1> QED BY <1>1, <1>2, LateHolds, PTL DEF ListSpec

\* The class of a book is a category or a sub category.
LEMMA OwnIsNamed ==
  ASSUME NEW b \in Stock, NEW named
  PROVE  BookInterest(b, named) = None \/ BookInterest(b, named)[1] = "named"
<1>1. ClassInterest(b.number) = None \/ \E n : ClassInterest(b.number) = <<"named", n>>
  BY Zenon DEF ClassInterest
<1>2. NearestSubcategory(b, named) = None \/ \E n : NearestSubcategory(b, named) = <<"named", n>>
  BY Zenon DEF NearestSubcategory
<1>3. \/ BookInterest(b, named) = ClassInterest(b.number)
      \/ \E n : BookInterest(b, named) = <<"named", n>>
      \/ BookInterest(b, named) = NearestSubcategory(b, named)
  BY Zenon DEF BookInterest
<1>4. BookInterest(b, named) = None \/ \E n : BookInterest(b, named) = <<"named", n>>
  BY <1>1, <1>2, <1>3, Zenon
<1>5. CASE \E n : BookInterest(b, named) = <<"named", n>>
  BY <1>5
<1> QED BY <1>4, <1>5

\* Two editions of a book are one book for the list.
LEMMA EditionsAreOne ==
  ASSUME NEW a, NEW b, SameEdition(a, b)
  PROVE  KeyOf(a) = KeyOf(b)
BY DEF SameEdition, KeyOf

\* A line that is liked and about what was disliked last was said at the time of a dislike.
LEMMA LikesAreNotAvoided ==
  ASSUME told \in Seq(Lines), NEW line \in ToSet(LivingLikes(Used(told))), NEW x, LastAvoided(x),
         About(line, x)
  PROVE  \E l \in ToSet(told) : About(l, x) /\ l.strength < 0 /\ l.at = line.at
<1>1. PICK lines \in Seq(Lines) : lines = Used(told)
  BY UsedIs
<1>2. PICK n \in Nat : n = Len(lines) /\ DOMAIN lines = 1 .. n
  OBVIOUS
<1>3. PICK last : LastIn(lines, Counting(x), last) /\ last.strength < 0
  BY <1>1, LastAvoidedIs
<1>4. PICK k \in 1 .. n : /\ lines[k] = last /\ last \in Counting(x)
                          /\ \A j \in 1 .. n : j > k => lines[j] \notin Counting(x)
  BY <1>2, <1>3 DEF LastIn
<1> DEFINE avoided(y, at) == \E i \in DOMAIN lines :
             lines[i].strength < RequestToAvoid /\ About(lines[i], y) /\ lines[i].at > at
<1>5. PICK S : S = {l \in ToSet(lines) : /\ l.strength > 0 /\ l.type # "condition"
                                         /\ \A y \in ToSet(InterestsOf(l)) : ~avoided(y, l.at)}
  OBVIOUS
<1>6. LivingLikes(lines) = Only(lines, S)
  BY <1>5, Zenon DEF LivingLikes
<1>7. line \in ToSet(lines) /\ line \in S
  <2>1. line \in ToSet(Only(lines, S))
    BY <1>1, <1>6
  <2>2. ToSet(Only(lines, S)) = ToSet(lines) \cap S
    BY OnlyHasAll
  <2> QED BY <2>1, <2>2
<1>8. line.strength > 0 /\ ~avoided(x, line.at)
  BY <1>5, <1>7 DEF About
<1>9. PICK i \in 1 .. n : lines[i] = line
  BY <1>2, <1>7, SetOf
<1>10. line \in Lines /\ last \in Lines
  BY <1>2, <1>4, <1>9
<1>11. PICK sl \in Int, ll \in Int, at \in Int, al \in Int :
         sl = line.strength /\ ll = last.strength /\ at = line.at /\ al = last.at
  BY <1>10, RequestsAssumption
<1>12. line \in Counting(x)
  <2>1. line.strength # RequestToAvoid
    BY <1>8, <1>11 DEF RequestToAvoid
  <2> QED BY <1>10, <2>1 DEF Counting
<1>13. i <= k /\ i # k
  <2>1. ~(i > k)
    BY <1>4, <1>9, <1>12
  <2>2. line # last
    BY <1>3, <1>8, <1>11
  <2> QED BY <1>4, <1>9, <2>1, <2>2
<1>14. at <= al
  <2>1. i < k
    BY <1>13
  <2>2. InTime(lines)
    BY <1>1, UsedInTime
  <2>3. lines[i].at <= lines[k].at
    BY <1>2, <2>1, <2>2 DEF InTime
  <2> QED BY <1>4, <1>9, <1>11, <2>3
<1>15. ~(al > at)
  <2>1. About(last, x) /\ last.strength # RequestToAvoid
    BY <1>4 DEF Counting
  <2>2. lines[k].strength < RequestToAvoid
    BY <1>3, <1>4, <1>11, <2>1 DEF RequestToAvoid
  <2>3. k \in DOMAIN lines /\ About(lines[k], x)
    BY <1>2, <1>4, <2>1
  <2>4. ~(lines[k].at > line.at)
    BY <1>8, <2>2, <2>3
  <2> QED BY <1>4, <1>11, <2>4
<1>16. last.at = line.at
  BY <1>11, <1>14, <1>15
<1>17. last \in ToSet(told)
  <2>1. lines[k] \in ToSet(lines)
    BY <1>2, SetOf
  <2>2. ToSet(lines) \subseteq ToSet(told)
    BY <1>1, UsedInTime
  <2> QED BY <1>4, <2>1, <2>2
<1> QED BY <1>3, <1>4, <1>16, <1>17 DEF Counting

\* Whatever was said, picked, bought and found, and however long it took: nothing is on the list
\* that the user has or does not want (interests.py:298-300, interest_feed.py:227-231).
THEOREM NothingIsUnwanted == ListSpec => []NothingUnwanted
<1>1. LateInv /\ ListInv /\ HeardInv => NothingUnwanted
  <2> SUFFICES ASSUME LateInv, ListInv, HeardInv, Done PROVE NothingUnwanted
    BY DEF NothingUnwanted
  <2>1. /\ Seated(build.seats) \subseteq DOMAIN build.picks /\ ~Open
        /\ told \in Seq(Lines) /\ StockInv /\ Heard(build)
    BY SeatedArePicked DEF ListInv, LateInv, HeardInv
  <2>2. PICK lists, turns, placed : Assembled(build, lists, turns, placed, build.list)
    BY DEF ListInv, WellMade
  <2>3. PICK n \in Nat : n = Len(placed)
    <3>1. PICK E : placed \in Seq(E)
      BY <2>2 DEF Assembled
    <3> QED BY <3>1
  <2>4. DOMAIN build.list = 1 .. n
    <3>1. build.list = [i \in 1 .. n |-> build.list[i]]
      BY <2>2, <2>3, Zenon DEF Assembled
    <3> QED BY <3>1
  <2> DEFINE book(i) == BookOf(build.list[i].book)
  <2>5. \A i \in 1 .. n : /\ book(i) \in ToSet(KeptBy(build, placed[i].name)) /\ book(i) \in Stock
                          /\ KeyOf(book(i)) = placed[i].key /\ book(i).id = build.list[i].book
                          /\ build.list[i].interest = placed[i].name
                          /\ placed[i].name \in Seated(build.seats)
    BY <2>1, <2>2, <2>3, EntryIs
  <2>6. \A i, j \in 1 .. n : placed[i].key = placed[j].key => i = j
    BY <2>2, <2>3 DEF Assembled
  <2>7. ASSUME NEW i \in 1 .. n PROVE Keeps(book(i), build.owned, build.negatives)
    <3>1. placed[i].name \in DOMAIN build.picks
      BY <2>1, <2>5
    <3>2. build.picks[placed[i].name] \in Seq(Stock)
      BY <2>1, <3>1 DEF StockInv
    <3>3. PICK b, x : b = build /\ x = placed[i].name
      OBVIOUS
    <3>4. \A o \in ToSet(KeptBy(b, x)) : Keeps(o, b.owned, b.negatives)
      BY <3>2, <3>3, KeptAre
    <3> HIDE DEF book
    <3> QED BY <2>5, <3>3, <3>4
  <2> HIDE DEF book
  <2> DEFINE avoided == {x \in SpokenOf : LastAvoided(x)}
  <2>8. \A x \in avoided : x \in build.negatives /\ x \notin Seated(build.seats)
    BY <2>1 DEF Heard
  <2>9. ASSUME NEW i \in 1 .. n, NEW r \in history
        PROVE  r.book # book(i).id /\ ~SameEdition(BookOf(r.book), book(i))
    <3>1. r.book \in build.owned
      BY <2>1 DEF Heard, Reviewed
    <3> QED BY <2>7, <3>1 DEF Keeps
  <2>10. ASSUME NEW i \in 1 .. n, NEW j \in 1 .. n, i # j
         PROVE  build.list[j].book # book(i).id /\ ~SameEdition(book(j), book(i))
    <3>1. placed[i].key # placed[j].key
      BY <2>6, <2>10
    <3>2. KeyOf(book(i)) # KeyOf(book(j))
      BY <2>5, <3>1
    <3>3. ~SameEdition(book(j), book(i))
      BY <3>2, EditionsAreOne
    <3>4. build.list[j].book # book(i).id
      BY <2>5, <3>2 DEF book
    <3> QED BY <3>3, <3>4
  <2>11. ASSUME NEW i \in 1 .. n, NEW x \in avoided
         PROVE  /\ build.list[i].interest # x
                /\ x[1] = "author" => x[2] \notin book(i).names
                /\ x[1] = "named" /\ x[2] \in DOMAIN Core => book(i).category \notin Core[x[2]]
                /\ BookInterest(book(i), Named) # x
                /\ BookInterest(book(i), Named)[2] \in DOMAIN Parent =>
                     <<"named", Parent[BookInterest(book(i), Named)[2]]>> # x
    <3> HIDE DEF avoided
    <3>1. x \in build.negatives /\ build.list[i].interest # x
      BY <2>5, <2>8
    <3>2. PICK own : own = BookInterest(book(i), Named)
      OBVIOUS
    <3>3. /\ x[1] = "named" /\ x[2] \in DOMAIN Core => book(i).category \notin Core[x[2]]
          /\ x[1] = "author" => ~HasAuthor(book(i), x[2])
          /\ own \notin build.negatives
          /\ (IF own[1] = "named" /\ own[2] \in DOMAIN Parent THEN <<"named", Parent[own[2]]>> ELSE None)
               \notin build.negatives
      BY <2>7, <3>1, <3>2, Zenon DEF Keeps
    <3>4. own = None \/ own[1] = "named"
      BY <2>5, <3>2, OwnIsNamed
    <3>5. own[2] \in DOMAIN Parent => own[1] = "named"
      <4>1. None[2] = ""
        BY DEF None
      <4>2. CASE own = None
        <5>1. own[2] = ""
          BY <4>1, <4>2, Zenon
        <5> QED BY <5>1, NoEmptyName
      <4> QED BY <3>4, <4>2
    <3>6. own[2] \in DOMAIN Parent => <<"named", Parent[own[2]]>> # x
      BY <3>1, <3>3, <3>5
    <3> QED BY <3>1, <3>2, <3>3, <3>6 DEF HasAuthor
  <2>12. ASSUME NEW line \in build.taste.likes, NEW x \in avoided, About(line, x)
         PROVE  \E l \in ToSet(told) : About(l, x) /\ l.strength < 0 /\ l.at = line.at
    <3>1. line \in ToSet(LivingLikes(Used(told)))
      BY <2>1 DEF Heard
    <3> QED BY <2>1, <2>12, <3>1, LikesAreNotAvoided
  <2>13. \A i \in DOMAIN build.list :
           /\ \A r \in history : r.book # book(i).id /\ ~SameEdition(BookOf(r.book), book(i))
           /\ \A j \in DOMAIN build.list \ {i} :
                build.list[j].book # book(i).id /\ ~SameEdition(book(j), book(i))
           /\ \A x \in avoided :
                /\ build.list[i].interest # x
                /\ x[1] = "author" => x[2] \notin book(i).names
                /\ x[1] = "named" /\ x[2] \in DOMAIN Core => book(i).category \notin Core[x[2]]
                /\ BookInterest(book(i), Named) # x
                /\ BookInterest(book(i), Named)[2] \in DOMAIN Parent =>
                     <<"named", Parent[BookInterest(book(i), Named)[2]]>> # x
    <3> HIDE DEF avoided
    <3> QED BY <2>4, <2>9, <2>10, <2>11
  <2>14. \A line \in build.taste.likes, x \in avoided :
           About(line, x) => \E l \in ToSet(told) : About(l, x) /\ l.strength < 0 /\ l.at = line.at
    <3> HIDE DEF avoided
    <3> QED BY <2>12
  <2> QED BY <2>13, <2>14, Zenon DEF NothingUnwanted, book
<1> QED BY <1>1, LateHolds, ListHolds, HearingHolds, PTL

-----------------------------------------------------------------------------
(* Who has filled its seats waits for the others (interest_list.py:102-104). *)

CountsOf(seats) == [i \in 1 .. Len(seats) |-> seats[i].count]
HadBy(seats, out) ==
  [i \in 1 .. Len(seats) |-> Cardinality({k \in DOMAIN out : out[k].name = seats[i].name})]

\* Nobody has more than its seats while another that has a book has not filled its own.
SharedOut(lists, seats, out) ==
  /\ \A i, j \in 1 .. Len(seats) :
       HadBy(seats, out)[i] > seats[i].count /\ seats[j].name \in ReadyIn(lists, seats, out) =>
         HadBy(seats, out)[j] >= seats[j].count
  /\ SumOf(HadBy(seats, out)) = Len(out)

LEMMA HadIs ==
  ASSUME NEW seats, SeatList(seats), NEW T, NEW out \in Seq(T)
  PROVE  /\ HadBy(seats, out) \in [1 .. Len(seats) -> Nat]
         /\ \A i \in 1 .. Len(seats) : HadBy(seats, out)[i] = PlacedIn(seats, out)[seats[i].name]
<1>1. DOMAIN seats = 1 .. Len(seats)
  BY DEF SeatList
<1>2. PlacedIn(seats, out) \in [Seated(seats) -> Nat]
  BY PlacesAreNumbers
<1>3. \A i \in 1 .. Len(seats) : seats[i].name \in Seated(seats)
  BY <1>1 DEF Seated
<1>4. \A i \in 1 .. Len(seats) : HadBy(seats, out)[i] = PlacedIn(seats, out)[seats[i].name]
  BY <1>3 DEF HadBy, PlacedIn
<1>5. \A i \in 1 .. Len(seats) : HadBy(seats, out)[i] \in Nat
  BY <1>2, <1>3, <1>4
<1>6. HadBy(seats, out) = [i \in 1 .. Len(seats) |-> HadBy(seats, out)[i]]
  BY DEF HadBy
<1> QED BY <1>4, <1>5, <1>6

\* Whoever comes next with its seats filled finds those of all others filled that have a book.
LEMMA TurnIsFair ==
  ASSUME NEW lists, NEW seats, SeatList(seats), NEW T, NEW out \in Seq(T),
         NEW i \in TurnIn(lists, seats, out), HadBy(seats, out)[i] >= seats[i].count,
         NEW j \in 1 .. Len(seats), seats[j].name \in ReadyIn(lists, seats, out)
  PROVE  HadBy(seats, out)[j] >= seats[j].count
<1>1. PICK ready, placed : ready = ReadyIn(lists, seats, out) /\ placed = PlacedIn(seats, out)
  OBVIOUS
<1>2. DOMAIN seats = 1 .. Len(seats)
  BY DEF SeatList
<1>3. PICK all : all = {k \in 1 .. Len(seats) : seats[k].name \in ready}
  OBVIOUS
<1>4. PICK short : short = {k \in all : placed[seats[k].name] < seats[k].count}
  OBVIOUS
<1>5. TurnIn(lists, seats, out) = IF short = {} THEN all ELSE short
  BY <1>1, <1>2, <1>3, <1>4 DEF TurnIn, MayCome
<1>6. \A k \in 1 .. Len(seats) : /\ placed[seats[k].name] = HadBy(seats, out)[k]
                                 /\ HadBy(seats, out)[k] \in Nat /\ seats[k].count \in Nat
  <2>1. HadBy(seats, out) \in [1 .. Len(seats) -> Nat]
    BY HadIs
  <2>2. \A k \in 1 .. Len(seats) : HadBy(seats, out)[k] = placed[seats[k].name]
    BY <1>1, HadIs
  <2> QED BY <2>1, <2>2 DEF SeatList
<1>7. i \in 1 .. Len(seats)
  BY TurnIsThere
<1>8. i \notin short
  BY <1>4, <1>6, <1>7
<1>9. short = {}
  BY <1>5, <1>8
<1>10. j \in all /\ j \notin short
  BY <1>1, <1>3, <1>9
<1> QED BY <1>4, <1>6, <1>10

\* One place more for one of them.
LEMMA TurnMore ==
  ASSUME NEW seats, SeatList(seats), NEW T, NEW out \in Seq(T), NEW e \in T,
         NEW i \in 1 .. Len(seats), e.name = seats[i].name, NEW j \in 1 .. Len(seats)
  PROVE  HadBy(seats, Append(out, e))[j] = HadBy(seats, out)[j] + IF j = i THEN 1 ELSE 0
<1>1. PICK n \in Nat : n = Len(out) /\ DOMAIN out = 1 .. n
  OBVIOUS
<1>2. PICK r : r = Append(out, e)
  OBVIOUS
<1>3. r \in Seq(T) /\ Len(r) = n + 1 /\ r[n + 1] = e /\ \A k \in 1 .. n : r[k] = out[k]
  BY <1>1, <1>2, AppendProperties
<1>4. DOMAIN r = 1 .. n + 1
  BY <1>3
<1>5. PICK A, B : /\ A = {k \in DOMAIN out : out[k].name = seats[j].name}
                  /\ B = {k \in DOMAIN r : r[k].name = seats[j].name}
  OBVIOUS
<1>6. HadBy(seats, out)[j] = Cardinality(A) /\ HadBy(seats, r)[j] = Cardinality(B)
  BY <1>5 DEF HadBy
<1>7. IsFiniteSet(A) /\ Cardinality(A) \in Nat /\ n + 1 \notin A
  <2>1. 1 \in Int /\ n \in Int
    OBVIOUS
  <2>2. IsFiniteSet(1 .. n)
    BY <2>1, FS_Interval
  <2>3. A \subseteq 1 .. n
    BY <1>1, <1>5
  <2>4. IsFiniteSet(A)
    BY <2>2, <2>3, FS_Subset
  <2>5. n + 1 \notin 1 .. n
    OBVIOUS
  <2> QED BY <2>3, <2>4, <2>5, FS_CardinalityType
<1>8. \A k \in 1 .. n + 1 : k \in 1 .. n \/ k = n + 1
  OBVIOUS
<1>9. \A k \in 1 .. n : k \in 1 .. n + 1
  OBVIOUS
<1>10. n + 1 \in 1 .. n + 1
  OBVIOUS
<1>11. CASE j = i
  <2>1. B = A \cup {n + 1}
    BY <1>1, <1>3, <1>4, <1>5, <1>8, <1>9, <1>10, <1>11
  <2>2. Cardinality(B) = Cardinality(A) + 1
    BY <1>7, <2>1, FS_AddElement
  <2> QED BY <1>2, <1>6, <1>11, <2>2
<1>12. CASE j # i
  <2>1. seats[j].name # e.name
    BY <1>12 DEF SeatList
  <2>2. B = A
    BY <1>1, <1>3, <1>4, <1>5, <1>8, <1>9, <2>1
  <2> QED BY <1>2, <1>6, <1>7, <1>12, <2>2
<1> QED BY <1>11, <1>12

\* A turn keeps it so.
LEMMA TurnShares ==
  ASSUME NEW seats, SeatList(seats), NEW T, NEW lists, \A x \in Seated(seats) : lists[x] \in Seq(T),
         NEW out, Turned(lists, seats, T, out), SharedOut(lists, seats, out)
  PROVE  /\ SharedOut(lists, seats, NextTurn(lists, seats, out))
         /\ ReadyIn(lists, seats, out) = {} => NextTurn(lists, seats, out) = out
         /\ ReadyIn(lists, seats, out) # {} => Len(NextTurn(lists, seats, out)) = Len(out) + 1
<1>1. PICK E : E = [name : Seated(seats), key : T]
  OBVIOUS
<1>2. out \in Seq(E)
  BY <1>1 DEF Turned
<1>3. CASE TurnIn(lists, seats, out) = {}
  <2>1. NextTurn(lists, seats, out) = out
    BY <1>2, <1>3, NextTurnIs
  <2>2. ReadyIn(lists, seats, out) = {}
    BY <1>3, TurnIsThere
  <2> QED BY <2>1, <2>2
<1>4. CASE TurnIn(lists, seats, out) # {}
  <2>1. PICK i \in TurnIn(lists, seats, out) :
          NextTurn(lists, seats, out) =
            Append(out, [name |-> seats[i].name, key |-> FirstLeft(lists[seats[i].name], UsedIn(out))])
    BY <1>2, <1>4, NextTurnIs
  <2>2. PICK x : x = seats[i].name
    OBVIOUS
  <2>3. x \in Seated(seats) /\ Left(lists[x], UsedIn(out)) # {} /\ i \in 1 .. Len(seats)
    BY <2>1, <2>2, TurnIsThere DEF ReadyIn
  <2>4. PICK key : key = FirstLeft(lists[x], UsedIn(out))
    OBVIOUS
  <2>5. lists[x] \in Seq(T)
    BY <2>3
  <2>6. key \in ToSet(lists[x])
    BY <2>3, <2>4, <2>5, FirstLeftIs
  <2>7. key \in T
    BY <2>5, <2>6, SetOf
  <2>8. PICK e : e = [name |-> x, key |-> key]
    OBVIOUS
  <2>9. e \in E /\ e.name = x /\ e.key = key
    BY <1>1, <2>3, <2>7, <2>8
  <2>10. PICK r : r = Append(out, e)
    OBVIOUS
  <2>11. PICK n \in Nat : n = Len(out) /\ DOMAIN out = 1 .. n
    BY <1>2
  <2>12. /\ r \in Seq(E) /\ Len(r) = n + 1 /\ r[n + 1] = e
         /\ \A k \in 1 .. n : r[k] = out[k]
    BY <1>2, <2>9, <2>10, <2>11, AppendProperties
  <2>13. UsedIn(out) \subseteq UsedIn(r)
    <3> SUFFICES ASSUME NEW k \in 1 .. n PROVE out[k].key \in UsedIn(r)
      BY <2>11 DEF UsedIn
    <3>1. k \in DOMAIN r
      BY <2>12
    <3> QED BY <2>12, <3>1 DEF UsedIn
  <2>14. \A y \in ReadyIn(lists, seats, r) : y \in ReadyIn(lists, seats, out)
    BY <2>13 DEF ReadyIn, Left
  <2>15. PICK m \in Nat : m = Len(seats)
    BY DEF SeatList
  <2>16. PICK had, more : had = HadBy(seats, out) /\ more = HadBy(seats, r)
    OBVIOUS
  <2>17. had \in [1 .. m -> Nat] /\ more \in [1 .. m -> Nat]
    BY <1>2, <2>12, <2>15, <2>16, HadIs
  <2>18. \A j \in 1 .. m : more[j] = had[j] + IF j = i THEN 1 ELSE 0
    BY <1>2, <2>2, <2>3, <2>9, <2>10, <2>15, <2>16, TurnMore
  <2>19. \A j \in 1 .. m : seats[j].count \in Nat
    BY <2>15 DEF SeatList
  <2>20. ASSUME NEW a \in 1 .. m, NEW j \in 1 .. m, more[a] > seats[a].count,
                seats[j].name \in ReadyIn(lists, seats, r)
         PROVE  more[j] >= seats[j].count
    <3>1. seats[j].name \in ReadyIn(lists, seats, out)
      BY <2>14, <2>20
    <3>2. had[j] >= seats[j].count
      <4>1. CASE had[a] > seats[a].count
        BY <2>15, <2>16, <3>1, <4>1 DEF SharedOut
      <4>2. CASE ~(had[a] > seats[a].count)
        <5>1. a = i
          BY <2>17, <2>18, <2>20, <4>2
        <5>2. had[i] >= seats[i].count
          BY <2>17, <2>18, <2>19, <2>20, <5>1
        <5> QED BY <1>2, <2>1, <2>15, <2>16, <3>1, <5>2, TurnIsFair
      <4> QED BY <4>1, <4>2
    <3>3. PICK h \in Int : h = had[j]
      BY <2>17
    <3>4. PICK c \in Int : c = seats[j].count
      BY <2>19
    <3>5. more[j] >= h
      <4>1. CASE j = i
        <5>1. more[j] = h + 1
          BY <2>18, <3>3, <4>1
        <5> QED BY <5>1
      <4>2. CASE j # i
        <5>1. more[j] = h + 0
          BY <2>18, <3>3, <4>2
        <5> QED BY <5>1
      <4> QED BY <4>1, <4>2
    <3>6. PICK q \in Int : q = more[j]
      BY <2>17
    <3>7. h >= c
      BY <3>2, <3>3, <3>4
    <3>8. q >= c
      BY <3>3, <3>4, <3>5, <3>6, <3>7
    <3> QED BY <3>4, <3>6, <3>8
  <2>21. SumOf(more) = Len(r)
    <3>1. PICK S : S = 1 .. m
      OBVIOUS
    <3>2. IsFiniteSet(S)
      <4>1. 1 \in Int /\ m \in Int
        OBVIOUS
      <4> QED BY <3>1, <4>1, FS_Interval
    <3>3. PICK ones : ones = Ones(S, {i})
      OBVIOUS
    <3>4. ones \in [S -> Int] /\ SumOf(ones) = 1
      <4>1. {i} \subseteq S
        BY <2>3, <2>15, <3>1
      <4>2. Cardinality({i}) = 1
        BY FS_Singleton
      <4> QED BY <3>2, <3>3, <4>1, <4>2, SumOfOnes
    <3>5. PICK k \in Int : k = 1
      OBVIOUS
    <3>6. \A j \in S : more[j] = k * had[j] + ones[j]
      <4> SUFFICES ASSUME NEW j \in S PROVE more[j] = k * had[j] + ones[j]
        OBVIOUS
      <4>1. more[j] = had[j] + ones[j] /\ had[j] \in Nat
        BY <2>17, <2>18, <3>1, <3>3 DEF Ones
      <4> QED BY <3>5, <4>1
    <3>7. more \in [S -> Int] /\ had \in [S -> Int]
      BY <2>17, <3>1
    <3>8. Together(more, k, had, ones)
      <4>1. Mixed(S, more, k, had, ones)
        BY <3>6 DEF Mixed
      <4> QED BY <3>2, <3>4, <3>7, <4>1, SumTogether
    <3>9. SumOf(had) = n
      BY <2>11, <2>16 DEF SharedOut
    <3> QED BY <2>12, <3>4, <3>5, <3>8, <3>9 DEF Together
  <2>22. SharedOut(lists, seats, r)
    BY <2>15, <2>16, <2>20, <2>21 DEF SharedOut
  <2>23. NextTurn(lists, seats, out) = r
    BY <2>1, <2>2, <2>4, <2>8, <2>10
  <2>24. ReadyIn(lists, seats, out) # {}
    BY <1>4, TurnIsThere
  <2> QED BY <2>11, <2>12, <2>22, <2>23, <2>24
<1> QED BY <1>3, <1>4

\* interleave: the list is full, or nobody has a book any more.
LEMMA TurnsShare ==
  ASSUME NEW seats, SeatList(seats), NEW T, NEW lists, \A x \in Seated(seats) : lists[x] \in Seq(T),
         NEW turns, turns = TakeTurns(lists, seats)
  PROVE  /\ SharedOut(lists, seats, turns)
         /\ Len(turns) = Total \/ ReadyIn(lists, seats, turns) = {}
<1>1. PICK g : TurnsSoFar(lists, seats, Total, g) /\ turns = g[Total]
  BY TurnsAreLast
<1>2. Total \in Nat
  BY InterestListAssumption
<1> DEFINE Good(n) == /\ Turned(lists, seats, T, g[n]) /\ SharedOut(lists, seats, g[n])
                      /\ Len(g[n]) = n \/ ReadyIn(lists, seats, g[n]) = {}
           M == {n \in Nat : n <= Total => Good(n)}
<1>3. 0 \in M
  <2>1. PICK none : none = <<>>
    OBVIOUS
  <2>2. g[0] = none
    BY <1>1, <2>1 DEF TurnsSoFar
  <2>3. none \in Seq([name : Seated(seats), key : T]) /\ Len(none) = 0 /\ DOMAIN none = {}
    BY <2>1
  <2>4. Turned(lists, seats, T, none)
    BY <2>3 DEF Turned
  <2>5. PICK S : S = 1 .. Len(seats)
    OBVIOUS
  <2>6. IsFiniteSet(S)
    <3>1. 1 \in Int /\ Len(seats) \in Int
      BY DEF SeatList
    <3> QED BY <2>5, <3>1, FS_Interval
  <2>7. \A i \in S : HadBy(seats, none)[i] = 0
    <3> SUFFICES ASSUME NEW i \in S PROVE HadBy(seats, none)[i] = 0
      OBVIOUS
    <3>1. {k \in DOMAIN none : none[k].name = seats[i].name} = {}
      BY <2>3
    <3>2. Cardinality({}) = 0
      BY FS_EmptySet
    <3> QED BY <2>5, <3>1, <3>2 DEF HadBy
  <2>8. HadBy(seats, none) = Ones(S, {})
    BY <2>5, <2>7 DEF HadBy, Ones
  <2>9. SumOf(HadBy(seats, none)) = 0
    <3>1. {} \subseteq S
      OBVIOUS
    <3>2. Cardinality({}) = 0
      BY FS_EmptySet
    <3> QED BY <2>6, <2>8, <3>1, <3>2, SumOfOnes
  <2>10. \A i \in S : seats[i].count > 0 /\ seats[i].count \in Nat
    BY <2>5 DEF SeatList
  <2>11. SharedOut(lists, seats, none)
    BY <2>3, <2>5, <2>7, <2>9, <2>10 DEF SharedOut
  <2> QED BY <2>2, <2>3, <2>4, <2>11
<1>4. ASSUME NEW n \in Nat, n \in M PROVE n + 1 \in M
  <2> SUFFICES ASSUME n + 1 <= Total PROVE Good(n + 1)
    OBVIOUS
  <2>1. Good(n)
    BY <1>2, <1>4
  <2>2. PICK out : out = g[n]
    OBVIOUS
  <2>3. g[n + 1] = NextTurn(lists, seats, out)
    BY <1>1, <2>2 DEF TurnsSoFar
  <2>4. Turned(lists, seats, T, g[n + 1])
    BY <2>1, <2>2, <2>3, TurnKeeps
  <2>5. /\ SharedOut(lists, seats, g[n + 1])
        /\ ReadyIn(lists, seats, out) = {} => g[n + 1] = out
        /\ ReadyIn(lists, seats, out) # {} => Len(g[n + 1]) = Len(out) + 1
    BY <2>1, <2>2, <2>3, TurnShares
  <2>6. Len(g[n + 1]) = n + 1 \/ ReadyIn(lists, seats, g[n + 1]) = {}
    BY <2>1, <2>2, <2>5
  <2> QED BY <2>4, <2>5, <2>6
<1>5. Nat \subseteq M
  <2> HIDE DEF M
  <2> QED BY <1>3, <1>4, EveryNumber
<1>6. Good(Total)
  BY <1>2, <1>5
<1> QED BY <1>1, <1>6

\* Turns and places that are the same entries, each once.
Paired(n, turns, placed) ==
  /\ \A i \in 1 .. n : \E k \in 1 .. n : SameEntry(turns[k], placed[i])
  /\ \A k \in 1 .. n : \E i \in 1 .. n : SameEntry(turns[k], placed[i])
  /\ \A i, j \in 1 .. n : placed[i].key = placed[j].key => i = j
  /\ \A k, l \in 1 .. n : turns[k].key = turns[l].key => k = l
OfName(n, s, x, P) == P = {i \in 1 .. n : s[i].name = x}

\* The places of an interest on the list are its turns.
LEMMA SameMany ==
  ASSUME NEW n \in Nat, NEW turns, NEW placed, NEW x, NEW P, NEW Q,
         Paired(n, turns, placed), OfName(n, placed, x, P), OfName(n, turns, x, Q)
  PROVE  Cardinality(P) = Cardinality(Q)
<1>0. /\ \A i \in 1 .. n : \E k \in 1 .. n : SameEntry(turns[k], placed[i])
      /\ \A k \in 1 .. n : \E i \in 1 .. n : SameEntry(turns[k], placed[i])
      /\ \A i, j \in 1 .. n : placed[i].key = placed[j].key => i = j
      /\ \A k, l \in 1 .. n : turns[k].key = turns[l].key => k = l
  BY DEF Paired
<1>a. P = {i \in 1 .. n : placed[i].name = x} /\ Q = {k \in 1 .. n : turns[k].name = x}
  BY DEF OfName
<1>b. P \subseteq 1 .. n /\ Q \subseteq 1 .. n
  BY <1>a
<1>1. PICK f : f = [i \in P |-> CHOOSE k \in Q : SameEntry(turns[k], placed[i])]
  OBVIOUS
<1>2. ASSUME NEW i \in P PROVE f[i] \in Q /\ SameEntry(turns[f[i]], placed[i])
  <2>1. PICK k \in 1 .. n : SameEntry(turns[k], placed[i])
    BY <1>0, <1>b
  <2>2. k \in Q
    BY <1>a, <2>1 DEF SameEntry
  <2> QED BY <1>1, <2>1, <2>2
<1>3. ASSUME NEW i \in P, NEW j \in P, f[i] = f[j] PROVE i = j
  <2>1. placed[i].key = turns[f[i]].key /\ placed[j].key = turns[f[j]].key
    BY <1>2 DEF SameEntry
  <2>2. placed[i].key = placed[j].key
    BY <1>3, <2>1
  <2> QED BY <1>0, <1>b, <2>2
<1>4. ASSUME NEW k \in Q PROVE \E i \in P : f[i] = k
  <2>1. PICK i \in 1 .. n : SameEntry(turns[k], placed[i])
    BY <1>0, <1>b
  <2>2. i \in P
    BY <1>a, <2>1 DEF SameEntry
  <2>3. f[i] \in Q /\ SameEntry(turns[f[i]], placed[i])
    BY <1>2, <2>2
  <2>4. turns[f[i]].key = turns[k].key
    BY <2>1, <2>3 DEF SameEntry
  <2> QED BY <1>0, <1>b, <2>2, <2>3, <2>4
<1>5. f \in [P -> Q]
  BY <1>1, <1>2
<1>6. f \in Bijection(P, Q)
  BY <1>3, <1>4, <1>5 DEF Bijection, Injection, Surjection, IsInjective
<1>7. ExistsBijection(P, Q)
  BY <1>6 DEF ExistsBijection
<1>8. IsFiniteSet(P)
  <2>1. 1 \in Int /\ n \in Int
    OBVIOUS
  <2>2. IsFiniteSet(1 .. n)
    BY <2>1, FS_Interval
  <2> QED BY <1>b, <2>2, FS_Subset
<1> QED BY <1>7, <1>8, FS_Bijection

-----------------------------------------------------------------------------
(* The seats of a request.                                                 *)

\* From its start on, a request has given all its seats away, if anyone has one.
GivenInv == ~Open => SeatsGiven(build.seats)

LEMMA StartGives ==
  ASSUME LateInv, Start
  PROVE  GivenInv'
<1> DEFINE liked == LikedOf(onboarding.isbns, onboarding.ids)
           weights == BookWeights(liked, history)
           mine == MyBooks(weights, Named)
           lines == Used(told)
           scores == Combined(OnboardingScores(onboarding.categories, onboarding.tags),
                              MemoryScores(lines), BookScores(mine, weights, Named))
<1>1. build'.seats = Allocate(scores)
  BY DEF Start, NoBuild
<1>2. Scored(scores)
  BY StartScores, Zenon DEF LateInv
<1> HIDE DEF scores
<1>3. SeatsGiven(Allocate(scores))
  BY <1>2, AllocateIs
<1> QED BY <1>1, <1>3 DEF GivenInv

LEMMA GivingGoesOn ==
  ASSUME LateInv, GivenInv, [ListNext]_listVars
  PROVE  GivenInv'
<1>0. ASSUME ~Open, build'.seats = build.seats PROVE GivenInv'
  BY <1>0 DEF GivenInv
<1>1. ASSUME NEW line \in Lines, Say(line) PROVE GivenInv'
  BY <1>1 DEF Say, GivenInv, Open
<1>2. ASSUME NEW row \in Events, Happens(row) PROVE GivenInv'
  BY <1>2 DEF Happens, GivenInv, Open
<1>3. CASE Start
  BY <1>3, StartGives
<1>4. ASSUME NEW books, NEW substituted, NEW late, NEW missed, Fetched(books, substituted, late, missed), Fetching
      PROVE  GivenInv'
  <2>1. build'.seats = build.seats
    BY <1>4 DEF Fetched, LateInv, BuildFields
  <2>2. ~Open
    BY <1>4 DEF Fetching, Open
  <2> QED BY <1>0, <2>1, <2>2
<1>5. CASE FetchInTime
  <2>1. \E books, substituted, late, missed : Fetched(books, substituted, late, missed)
    BY <1>5, Zenon DEF FetchInTime
  <2>2. Fetching
    BY <1>5 DEF FetchInTime
  <2> QED BY <1>4, <2>1, <2>2
<1>6. CASE FetchOthers
  <2>1. \E books, substituted, late, missed : Fetched(books, substituted, late, missed)
    BY <1>6, Zenon DEF FetchOthers
  <2>2. Fetching
    BY <1>6 DEF FetchOthers
  <2> QED BY <1>4, <2>1, <2>2
<1>7. CASE Finish
  <2>1. PICK list : build' = [build EXCEPT !.pc = "done", !.list = list]
    BY <1>7 DEF Finish
  <2>2. build'.seats = build.seats
    BY <2>1 DEF LateInv, BuildFields
  <2>3. ~Open
    BY <1>7 DEF Finish, Open
  <2> QED BY <1>0, <2>2, <2>3
<1>8. CASE UNCHANGED listVars
  BY <1>8 DEF listVars, GivenInv, Open
<1> QED BY <1>1, <1>2, <1>3, <1>5, <1>6, <1>7, <1>8 DEF ListNext

\* All seats of a request are given away, whatever the points of its interests leave over
\* (interest_list.py:84-100).
THEOREM SeatsAreGiven == ListSpec => []GivenInv
<1>1. ListInit => GivenInv
  BY DEF ListInit, NoBuild, GivenInv, Open
<1>2. LateInv /\ GivenInv /\ [ListNext]_listVars => GivenInv'
  BY GivingGoesOn
<1> QED BY <1>1, <1>2, LateHolds, PTL DEF ListSpec

\* Whatever was kept for whom: the seats are all given away, an interest is below its own only if
\* all that was kept for it is on the list, and the list is short only if all of everyone's is
\* (interest_list.py:102-132).
THEOREM SeatsAreShared == ListSpec => []SeatsShared
<1>1. LateInv /\ ListInv /\ GivenInv => SeatsShared
  <2> SUFFICES ASSUME LateInv, ListInv, GivenInv, Done PROVE SeatsShared
    BY DEF SeatsShared
  <2>1. PICK lists, turns, placed : Assembled(build, lists, turns, placed, build.list)
    BY DEF ListInv, WellMade
  <2>2. StockInv /\ Seated(build.seats) \subseteq DOMAIN build.picks /\ SeatList(build.seats) /\ ~Open
    BY SeatedArePicked DEF ListInv
  <2>3. PICK seats : seats = build.seats
    OBVIOUS
  <2>4. PICK m \in Nat : m = Len(seats) /\ DOMAIN seats = 1 .. m
    BY <2>2, <2>3 DEF SeatList
  <2>5. /\ \A x \in Seated(seats) : /\ lists[x] \in Seq(StockKeys)
                                    /\ ToSet(lists[x]) = {KeyOf(o) : o \in ToSet(KeptBy(build, x))}
        /\ turns = TakeTurns(lists, seats) /\ Turned(lists, seats, StockKeys, turns)
    BY <2>1, <2>3 DEF Assembled
  <2>6. /\ SharedOut(lists, seats, turns)
        /\ Len(turns) = Total \/ ReadyIn(lists, seats, turns) = {}
    BY <2>2, <2>3, <2>5, TurnsShare
  <2>7. PICK n \in Nat : n = Len(placed)
    <3>1. PICK E : placed \in Seq(E)
      BY <2>1 DEF Assembled
    <3> QED BY <3>1
  <2>8. DOMAIN build.list = 1 .. n /\ Len(build.list) = n
    <3>1. build.list = [i \in 1 .. n |-> build.list[i]]
      BY <2>1, <2>7, Zenon DEF Assembled
    <3> QED BY <3>1, OfFunction
  <2>9. turns \in Seq([name : Seated(seats), key : StockKeys])
    BY <2>5 DEF Turned
  <2>10. Len(turns) = n /\ DOMAIN turns = 1 .. n
    <3>1. Len(turns) = n
      BY <2>1, <2>7 DEF Assembled
    <3> QED BY <2>9, <3>1
  <2>11. \A i \in 1 .. n : /\ build.list[i].interest = placed[i].name
                           /\ KeyOf(BookOf(build.list[i].book)) = placed[i].key
    BY <2>1, <2>2, <2>7, EntryIs
  <2> DEFINE mine(x) == Cardinality({i \in DOMAIN build.list : build.list[i].interest = x})
             all(x) == \A b \in ToSet(KeptOf(build.owned, build.negatives, build.picks[x])) : OnList(b)
  <2>12. ASSUME NEW i \in 1 .. m PROVE mine(seats[i].name) = HadBy(seats, turns)[i]
    <3>1. PICK x : x = seats[i].name
      OBVIOUS
    <3>2. PICK P, Q : P = {k \in 1 .. n : placed[k].name = x} /\ Q = {k \in 1 .. n : turns[k].name = x}
      OBVIOUS
    <3>3. {k \in DOMAIN build.list : build.list[k].interest = x} = P
      BY <2>8, <2>11, <3>2
    <3>4. HadBy(seats, turns)[i] = Cardinality(Q)
      BY <2>4, <2>10, <3>1, <3>2 DEF HadBy
    <3>5. /\ \A j \in 1 .. n : \E k \in 1 .. n : SameEntry(turns[k], placed[j])
          /\ \A k \in 1 .. n : \E j \in 1 .. n : SameEntry(turns[k], placed[j])
          /\ \A j, k \in 1 .. n : placed[j].key = placed[k].key => j = k
      BY <2>1, <2>7, <2>10 DEF Assembled
    <3>6. \A k, l \in 1 .. n : turns[k].key = turns[l].key => k = l
      BY <2>5, <2>10 DEF Turned
    <3>7. Cardinality(P) = Cardinality(Q)
      <4>1. Paired(n, turns, placed)
        BY <3>5, <3>6 DEF Paired
      <4>2. OfName(n, placed, x, P) /\ OfName(n, turns, x, Q)
        BY <3>2 DEF OfName
      <4> QED BY <4>1, <4>2, SameMany
    <3> QED BY <3>1, <3>3, <3>4, <3>7
  <2>13. ASSUME NEW x \in Seated(seats), x \notin ReadyIn(lists, seats, turns) PROVE all(x)
    <3> SUFFICES ASSUME NEW b \in ToSet(KeptOf(build.owned, build.negatives, build.picks[x])) PROVE OnList(b)
      OBVIOUS
    <3>1. b \in ToSet(KeptBy(build, x))
      BY DEF KeptBy
    <3>2. KeyOf(b) \in ToSet(lists[x])
      BY <2>5, <3>1
    <3>3. PICK k \in 1 .. Len(lists[x]) : lists[x][k] = KeyOf(b)
      BY <2>5, <3>2, SetOf
    <3>4. Left(lists[x], UsedIn(turns)) = {}
      BY <2>13 DEF ReadyIn
    <3>5. k \in DOMAIN lists[x]
      BY <2>5
    <3>6. KeyOf(b) \in UsedIn(turns)
      BY <3>3, <3>4, <3>5 DEF Left
    <3>7. PICK t \in 1 .. n : turns[t].key = KeyOf(b)
      BY <2>10, <3>6 DEF UsedIn
    <3>8. PICK i \in 1 .. n : SameEntry(turns[t], placed[i])
      BY <2>1, <2>7, <2>10 DEF Assembled
    <3>9. placed[i].key = KeyOf(b)
      BY <3>7, <3>8 DEF SameEntry
    <3> QED BY <2>8, <2>11, <3>9 DEF OnList
  <2>14. PICK counts, had : counts = CountsOf(seats) /\ had = HadBy(seats, turns)
    OBVIOUS
  <2>15. counts \in [1 .. m -> Int] /\ had \in [1 .. m -> Int] /\ \A i \in 1 .. m : counts[i] = seats[i].count
    <3>1. had \in [1 .. m -> Nat]
      BY <2>2, <2>3, <2>4, <2>9, <2>14, HadIs
    <3>2. \A i \in 1 .. m : seats[i].count \in Nat
      BY <2>2, <2>3, <2>4 DEF SeatList
    <3>3. counts \in [1 .. m -> Nat] /\ \A i \in 1 .. m : counts[i] = seats[i].count
      BY <2>4, <2>14, <3>2 DEF CountsOf
    <3> QED BY <3>1, <3>3
  <2>16. seats # <<>> => SumOf(counts) = Total
    <3>1. [i \in DOMAIN seats |-> seats[i].count] = counts
      BY <2>4, <2>14 DEF CountsOf
    <3>2. SeatsGiven(seats)
      BY <2>2, <2>3 DEF GivenInv
    <3> QED BY <3>1, <3>2 DEF SeatsGiven
  <2>17. ASSUME NEW i \in 1 .. m, mine(seats[i].name) < seats[i].count PROVE all(seats[i].name)
    <3>1. had[i] < seats[i].count
      BY <2>12, <2>14, <2>17
    <3>2. seats[i].name \in Seated(seats)
      BY <2>4 DEF Seated
    <3>3. ASSUME seats[i].name \in ReadyIn(lists, seats, turns) PROVE FALSE
      <4>1. \A a \in 1 .. m : had[a] <= counts[a]
        <5> SUFFICES ASSUME NEW a \in 1 .. m, counts[a] < had[a] PROVE FALSE
          BY <2>15
        <5>1. had[a] > seats[a].count
          BY <2>15
        <5>2. had[i] >= seats[i].count
          BY <2>4, <2>6, <2>14, <3>3, <5>1 DEF SharedOut
        <5> QED BY <2>15, <3>1, <5>2
      <4>2. had[i] < counts[i]
        BY <2>15, <3>1
      <4>3. PICK S : S = 1 .. m
        OBVIOUS
      <4>4. IsFiniteSet(S)
        <5>1. 1 \in Int /\ m \in Int
          OBVIOUS
        <5> QED BY <4>3, <5>1, FS_Interval
      <4>5. SumOf(had) < SumOf(counts)
        BY <2>15, <4>1, <4>2, <4>3, <4>4, SumIsLess
      <4>6. SumOf(had) = Total
        BY <2>6, <2>14, <3>3 DEF SharedOut
      <4>7. SumOf(counts) = Total
        <5>1. Len(seats) # 0
          BY <2>4
        <5>2. seats # <<>>
          BY <5>1
        <5> QED BY <2>16, <5>2
      <4>8. Total \in Nat
        BY InterestListAssumption
      <4> QED BY <4>5, <4>6, <4>7, <4>8
    <3> HIDE DEF all
    <3> QED BY <2>13, <3>2, <3>3
  <2>18. Len(build.list) < Total => \A x \in Seated(seats) : all(x)
    <3> HIDE DEF all
    <3>1. Total \in Nat
      BY InterestListAssumption
    <3>2. ASSUME Len(build.list) < Total PROVE ReadyIn(lists, seats, turns) = {}
      BY <2>6, <2>8, <2>10, <3>1, <3>2
    <3> QED BY <2>13, <3>2
  <2>19. seats # <<>> => SumOf([i \in DOMAIN seats |-> seats[i].count]) = Total
    BY <2>2, <2>3 DEF GivenInv, SeatsGiven
  <2>20. \A i \in DOMAIN seats : mine(seats[i].name) < seats[i].count => all(seats[i].name)
    <3> HIDE DEF mine, all
    <3> QED BY <2>4, <2>17
  <2> QED BY <2>3, <2>18, <2>19, <2>20, Zenon DEF SeatsShared
<1> QED BY <1>1, LateHolds, ListHolds, SeatsAreGiven, PTL

=============================================================================
