---------------------------- MODULE PagesProofs ----------------------------
(***************************************************************************)
(* Proofs about the pages of the feed. A scroll is quiet as long as what   *)
(* its list is made from stands; the invariant says what that is for each  *)
(* mode, and that the list made of it now is the list of the first page.   *)
(***************************************************************************)
EXTENDS FeedPages, SearchPages, SequenceFacts

\* s is a sequence of something.
IsList(s) == \E T : s \in Seq(T)

\* A saved list: a first version has no version before it.
SavedShape(s) == s \in Saves /\ s.version # 0 /\ (s.version = 1 <=> s.prev = None)

FieldNames ==
  {"pc", "ask", "size", "cursor", "page", "seen", "owned", "last", "shown", "modes", "promised",
   "quiet", "steady", "split", "began", "at", "excused"}
Fields(s) == DOMAIN s = FieldNames

\* The cursor the client holds came with the latest page of this scroll.
CursorFits(s, t) ==
  /\ s.cursor.offset \in Nat \ {0} /\ s.cursor.ver \in Nat
  /\ s.cursor.mode \in s.modes /\ s.cursor.mode \in Modes
  /\ s.cursor.conditions = Conditions(s.ask)
  /\ s.cursor.issued = Second(s.began) /\ s.cursor.made = Second(s.at)
  /\ s.ask \in Asks /\ s.began \in Nat /\ s.began <= t /\ s.at \in Nat

NothingShown(s) == s.shown = <<>> /\ s.modes = {}

\* What it reads: the first page has a time of its own, the others have that of the cursor.
PageFits(s, t) ==
  /\ s.ask \in Asks /\ s.size \in Nat \ {0}
  /\ s.cursor = None =>
       /\ s.page.offset = 0 /\ s.page.mode = None /\ s.page.ver = 0
       /\ s.page.issued \in Nat /\ s.page.issued <= t
  /\ s.cursor # None =>
       /\ s.page.offset = s.cursor.offset /\ s.page.mode = s.cursor.mode
       /\ s.page.ver = s.cursor.ver /\ s.page.issued = s.cursor.issued

\* The saved list may have moved on since it was read.
Evolved(old, new) ==
  old # None =>
    /\ SavedShape(old) /\ new # None /\ old.version <= new.version
    /\ new.version = old.version => new = old
    /\ new.version = old.version + 1 => new.prev = old.books

OwnOf(a, sent) == IF a.sent THEN sent ELSE {}

\* The books the backend sent are those it would send now.
OwnedStand(s, sent) ==
  /\ ~s.ask.sent => s.owned = {}
  /\ s.ask.sent /\ s.cursor # None /\ s.quiet => s.owned = sent

\* The version of the saved list the cursor is for, among those a list holds.
BooksOf(list, ver) == IF list.version = ver THEN list.books ELSE list.prev

\* The list of this mode, of what there is now, is the promised one.
Stands(promised, mode, ver, a, own, read, list, p, i) ==
  /\ mode = "interest" =>
       /\ ver # 0 /\ list # None /\ list.version \in {ver, ver + 1}
       /\ promised = SavedList(a, own, read, BooksOf(list, ver))
  /\ mode = "cold-start" =>
       ~HasVector(p) /\ promised = Take(ColdList(a, own, read), ListLimit)
  /\ mode = "personalized" =>
       HasVector(p) /\ i.up /\ promised = TasteList(a, own, read, p, i)
  /\ mode = "rule-only" =>
       /\ HasVector(p) /\ promised = RuleList(a, own, read, p)
       /\ i.up => TasteList(a, own, read, p, i) = <<>> /\ Embedded(Books, i) = {}

\* What was shown is the promised list up to the cursor, and there is more.
Halfway(s) ==
  /\ IsList(s.promised)
  /\ s.shown = SubSeq(s.promised, 1, s.cursor.offset)
  /\ s.cursor.offset < Len(s.promised)

\* A scroll that nothing disturbed.
Whole(s) == s.quiet /\ ~s.split

Undisturbed(s, sent, hist, list, p, i) ==
  /\ Halfway(s)
  /\ Stands(s.promised, s.cursor.mode, s.cursor.ver, s.ask, OwnOf(s.ask, sent),
            RowsUntil(hist, Second(s.began)), list, p, i)

\* This mode is the one that is to be had.
ModeStands(mode, p, i) ==
  /\ mode = "cold-start" => ~HasVector(p)
  /\ mode = "personalized" => HasVector(p) /\ Answering(i)
  /\ mode = "rule-only" => HasVector(p) /\ ~Answering(i)

\* A saved list never goes; the other modes are there as long as the scroll is steady.
ToBeHad(s, list, p, i) ==
  /\ s.cursor.mode = "interest" => list # None
  /\ s.steady => ModeStands(s.cursor.mode, p, i)

ReadsWell(s, t, sent, list) ==
  /\ PageFits(s, t) /\ OwnedStand(s, sent) /\ Evolved(s.seen, list)
  /\ s.cursor # None /\ s.cursor.mode = "interest" =>
       s.seen # None /\ (Whole(s) => s.cursor.ver <= s.seen.version)

Joins(s) ==
  Whole(s) /\ s.last.status = 200 =>
    /\ IsPrefix(s.shown, s.promised)
    /\ s.last.next = None => s.shown = s.promised

ScrollFits(s, t, sent, hist, list, p, i) ==
  /\ Fields(s) /\ s.pc \in {"idle", "reading"}
  /\ s.cursor = None => NothingShown(s)
  /\ s.cursor # None => CursorFits(s, t) /\ ToBeHad(s, list, p, i)
  /\ s.pc = "reading" => ReadsWell(s, t, sent, list)
  /\ s.cursor # None /\ Whole(s) => Undisturbed(s, sent, hist, list, p, i)
  /\ s.last.status # 410
  /\ Joins(s)

SavedFit(t, list) == t \in Nat /\ (list # None => SavedShape(list))

WellCut(s) == s.last.status = 410 => s.excused \/ ~s.steady

\* Once the client is done nothing more happens.
Fits(s, t, sent, hist, list, p, i) ==
  \/ s.pc = "ended" /\ Joins(s) /\ WellCut(s)
  \/ SavedFit(t, list) /\ ScrollFits(s, t, sent, hist, list, p, i)

FeedInv == Fits(scroll, now, Owned(past), rows, saved, profile, index)

-----------------------------------------------------------------------------
(* The clock and the second.                                               *)

LEMMA SecondIsOne ==
  ASSUME NEW n \in Nat \ {0}, NEW q \in Int
  PROVE  (n * q) % n = 0
<1>1. PICK k \in Int : k = (n * q) \div n
  OBVIOUS
<1>2. PICK r \in Int : r = (n * q) % n
  OBVIOUS
<1>3. n * q = n * k + r /\ 0 <= r /\ r < n
  BY <1>1, <1>2
<1>4. n * (q - k) = r
  BY <1>3
<1>5. CASE q - k >= 1
  <2>1. n * (q - k) >= n
    BY <1>5
  <2> QED BY <1>3, <1>4, <2>1
<1>6. CASE q - k <= -1
  <2>1. n * (q - k) <= -n
    BY <1>6
  <2> QED BY <1>3, <1>4, <2>1
<1>7. CASE q = k
  BY <1>2, <1>4, <1>7
<1> QED BY <1>5, <1>6, <1>7

LEMMA SecondFits ==
  ASSUME NEW t \in Nat
  PROVE  /\ Second(t) \in Nat /\ Second(t) <= t /\ t < Second(t) + TicksASecond
         /\ Second(Second(t)) = Second(t)
<1>1. PICK n \in Nat \ {0} : n = TicksASecond
  BY FeedPagesAssumption
<1>2. PICK q \in Nat, r \in Nat : q = t \div n /\ r = t % n /\ t = n * q + r /\ r < n
  OBVIOUS
<1>3. Second(t) = n * q
  BY <1>1, <1>2 DEF Second
<1>4. n * q \in Nat /\ n * q <= t /\ t < n * q + n
  BY <1>2
<1>5. (n * q) % n = 0
  BY SecondIsOne
<1>6. Second(n * q) = n * q
  BY <1>1, <1>4, <1>5 DEF Second
<1> QED BY <1>1, <1>3, <1>4, <1>6

-----------------------------------------------------------------------------
(* Whatever it is made from, a list is a sequence.                         *)

LEMMA ImageIsFinite ==
  ASSUME NEW S, IsFiniteSet(S), NEW f
  PROVE  IsFiniteSet({f[x] : x \in S})
<1> DEFINE T == {f[x] : x \in S}
           g == [x \in S |-> f[x]]
<1>1. g \in Surjection(S, T)
  BY DEF Surjection
<1>2. IsFiniteSet(T)
  <2> HIDE DEF T, g
  <2> QED BY <1>1, FS_Surjection
<1> QED BY <1>2

LEMMA HeldIsFinite ==
  ASSUME NEW T, NEW s \in Seq(T)
  PROVE  IsFiniteSet(ToSet(s)) /\ ToSet(s) \subseteq T
<1>1. PICK n \in Nat : n = Len(s)
  OBVIOUS
<1>2. ToSet(s) = {s[i] : i \in 1 .. n}
  BY <1>1 DEF ToSet
<1>3. IsFiniteSet(1 .. n)
  <2>1. 1 \in Int /\ n \in Int
    OBVIOUS
  <2> QED BY <2>1, FS_Interval
<1>4. IsFiniteSet(ToSet(s))
  BY <1>2, <1>3, ImageIsFinite
<1>5. ToSet(s) \subseteq T
  BY <1>1, <1>2
<1> QED BY <1>4, <1>5

LEMMA ListOf ==
  ASSUME NEW n \in Nat, NEW f, f = [i \in 1 .. n |-> f[i]]
  PROVE  IsList(f) /\ Len(f) = n
<1>1. DOMAIN f = 1 .. n
  BY Zenon
<1>2. f = [i \in DOMAIN f |-> f[i]]
  BY <1>1
<1>3. f \in Seq({f[i] : i \in 1 .. n}) /\ Len(f) = n
  BY <1>1, <1>2, Indexed
<1> QED BY <1>3 DEF IsList

LEMMA ListIsFinite ==
  ASSUME NEW s, IsList(s)
  PROVE  IsFiniteSet(ToSet(s)) /\ Len(s) \in Nat
<1>1. PICK T : s \in Seq(T)
  BY DEF IsList
<1> QED BY <1>1, HeldIsFinite

LEMMA KeyedList ==
  ASSUME NEW S, IsFiniteSet(S), NEW f
  PROVE  IsList(ByKey({f[x] : x \in S}))
<1>1. PICK keyed : keyed = {f[x] : x \in S}
  OBVIOUS
<1>2. IsFiniteSet(keyed)
  BY <1>1, ImageIsFinite
<1>3. IsList(ByKey(keyed))
  BY <1>2, ByKeyIsAList DEF IsList
<1> QED BY <1>1, <1>3

LEMMA TakeIsList ==
  ASSUME NEW s, IsList(s), NEW n \in Nat
  PROVE  IsList(Take(s, n))
<1>1. PICK T : s \in Seq(T)
  BY DEF IsList
<1>2. Take(s, n) \in Seq(T)
  BY <1>1, TakeIs
<1> QED BY <1>2 DEF IsList

LEMMA EligibleIsFinite ==
  ASSUME NEW a, NEW owned, NEW read
  PROVE  Eligible(a, owned, read) \subseteq Books /\ IsFiniteSet(Eligible(a, owned, read))
<1>1. Eligible(a, owned, read) \subseteq Books
  BY DEF Eligible
<1> QED BY <1>1, FeedPagesAssumption, FS_Subset

LEMMA RankedIsList ==
  ASSUME NEW a, NEW scored, IsFiniteSet(scored)
  PROVE  IsList(Ranked(a, scored))
<1> DEFINE S == {p \in scored : p[2] >= a.min}
           order == ByKey({<<TasteKey(a, p[1], p[2]), p>> : p \in S})
<1>1. IsFiniteSet(S)
  <2>1. S \subseteq scored
    OBVIOUS
  <2> QED BY <2>1, FS_Subset
<1>2. IsList(order)
  <2>1. PICK f : f = [p \in S |-> <<TasteKey(a, p[1], p[2]), p>>]
    OBVIOUS
  <2>2. {<<TasteKey(a, p[1], p[2]), p>> : p \in S} = {f[p] : p \in S}
    BY <2>1
  <2> QED BY <1>1, <2>2, KeyedList
<1>3. PICK n \in Nat : n = Len(order)
  <2> HIDE DEF order
  <2> QED BY <1>2, ListIsFinite
<1>4. DOMAIN order = 1 .. n
  <2> HIDE DEF order
  <2> QED BY <1>2, <1>3 DEF IsList
<1>5. Ranked(a, scored) = [i \in DOMAIN order |-> Item(order[i][1], order[i][2])]
  BY DEF Ranked, Ordered
<1>6. PICK f : f = [i \in 1 .. n |-> Item(order[i][1], order[i][2])]
  OBVIOUS
<1>7. Ranked(a, scored) = f
  BY <1>4, <1>5, <1>6
<1>8. IsList(f)
  <2> HIDE DEF order
  <2> QED BY <1>6, ListOf
<1> QED BY <1>7, <1>8

LEMMA ByDistanceIsList ==
  ASSUME NEW S, IsFiniteSet(S)
  PROVE  IsList(ByDistance(S))
<1>1. PICK f : f = [b \in S |-> <<<<-b.similar, b.id>>, b>>]
  OBVIOUS
<1>2. {<<<<-b.similar, b.id>>, b>> : b \in S} = {f[b] : b \in S}
  BY <1>1
<1>3. IsList(ByKey({<<<<-b.similar, b.id>>, b>> : b \in S}))
  BY <1>2, KeyedList
<1>4. ListLimit \in Nat
  BY FeedPagesAssumption
<1> QED BY <1>3, <1>4, TakeIsList DEF ByDistance, Ordered

LEMMA TasteIsList ==
  ASSUME NEW a, NEW owned, NEW read, NEW p, NEW i
  PROVE  IsList(TasteList(a, owned, read, p, i))
<1> DEFINE near == Nearest(a, owned, read, i)
           S == ToSet(near)
           Scored(b) == <<b, MatchScore(SimilarityPoints(b.similar), TagWeight(read, p, b.category),
                                        b.sales, BestSales)>>
<1>1. IsList(near)
  <2> DEFINE all == Embedded(Eligible(a, owned, read), i)
             few == {b \in all : b.id \in i.reach}
  <2>1. all \subseteq Eligible(a, owned, read) /\ few \subseteq Eligible(a, owned, read)
    BY DEF Embedded
  <2>2. IsFiniteSet(all) /\ IsFiniteSet(few)
    <3> HIDE DEF all, few
    <3> QED BY <2>1, EligibleIsFinite, FS_Subset
  <2>3. IsList(ByDistance(all)) /\ IsList(ByDistance(few))
    <3> HIDE DEF all, few
    <3> QED BY <2>2, ByDistanceIsList
  <2>4. near = ByDistance(all) \/ near = ByDistance(few)
    BY DEF Nearest
  <2> QED BY <2>3, <2>4
<1>2. IsFiniteSet(S)
  <2> HIDE DEF near
  <2> QED BY <1>1, ListIsFinite
<1>3. IsFiniteSet({Scored(b) : b \in S})
  <2>1. PICK f : f = [b \in S |-> Scored(b)]
    OBVIOUS
  <2>2. {Scored(b) : b \in S} = {f[b] : b \in S}
    <3> HIDE DEF Scored, S
    <3> QED BY <2>1
  <2>3. IsFiniteSet({f[b] : b \in S})
    <3> HIDE DEF S
    <3> QED BY <1>2, ImageIsFinite
  <2> QED BY <2>2, <2>3
<1>4. TasteList(a, owned, read, p, i) = Ranked(a, {Scored(b) : b \in S})
  BY DEF TasteList
<1>5. IsList(Ranked(a, {Scored(b) : b \in S}))
  <2> HIDE DEF Scored, S
  <2> QED BY <1>3, RankedIsList
<1> QED BY <1>4, <1>5

LEMMA RuleIsList ==
  ASSUME NEW a, NEW owned, NEW read, NEW p
  PROVE  IsList(RuleList(a, owned, read, p))
<1> DEFINE all == Eligible(a, owned, read)
           liked == {b \in all : TagWeight(read, p, b.category) > 0}
           LikedKey(b) == <<-TagWeight(read, p, b.category)>> \o PopularKey(b)
           first == Take(ByKey({<<LikedKey(b), b>> : b \in liked}), ListLimit)
           second == Take(ByKey({<<PopularKey(b), b>> : b \in all}), ListLimit)
           S == RuleCandidates(a, owned, read, p)
           Scored(b) == <<b, MatchScore(0, TagWeight(read, p, b.category), b.sales, BestSales)>>
<1>1. S = ToSet(first) \cup ToSet(second)
  BY DEF RuleCandidates, Ordered
<1>2. IsFiniteSet(all) /\ IsFiniteSet(liked)
  <2>1. liked \subseteq all
    OBVIOUS
  <2> QED BY <2>1, EligibleIsFinite, FS_Subset
<1>3. IsList(first)
  <2>1. PICK f : f = [b \in liked |-> <<LikedKey(b), b>>]
    OBVIOUS
  <2>2. {<<LikedKey(b), b>> : b \in liked} = {f[b] : b \in liked}
    <3> HIDE DEF LikedKey, liked
    <3> QED BY <2>1
  <2>3. IsList(ByKey({<<LikedKey(b), b>> : b \in liked}))
    <3> HIDE DEF LikedKey, liked
    <3> QED BY <1>2, <2>2, KeyedList
  <2> HIDE DEF LikedKey, liked
  <2> QED BY <2>3, TakeIsList, FeedPagesAssumption
<1>4. IsList(second)
  <2>1. PICK f : f = [b \in all |-> <<PopularKey(b), b>>]
    OBVIOUS
  <2>2. {<<PopularKey(b), b>> : b \in all} = {f[b] : b \in all}
    <3> HIDE DEF all
    <3> QED BY <2>1
  <2>3. IsList(ByKey({<<PopularKey(b), b>> : b \in all}))
    <3> HIDE DEF all
    <3> QED BY <1>2, <2>2, KeyedList
  <2> HIDE DEF all
  <2> QED BY <2>3, TakeIsList, FeedPagesAssumption
<1>5. IsFiniteSet(S)
  <2>1. IsFiniteSet(ToSet(first)) /\ IsFiniteSet(ToSet(second))
    <3> HIDE DEF first, second
    <3> QED BY <1>3, <1>4, ListIsFinite
  <2> HIDE DEF first, second, S
  <2> QED BY <1>1, <2>1, FS_Union
<1>6. IsFiniteSet({Scored(b) : b \in S})
  <2>1. PICK f : f = [b \in S |-> Scored(b)]
    OBVIOUS
  <2>2. {Scored(b) : b \in S} = {f[b] : b \in S}
    <3> HIDE DEF Scored, S
    <3> QED BY <2>1
  <2>3. IsFiniteSet({f[b] : b \in S})
    <3> HIDE DEF S
    <3> QED BY <1>5, ImageIsFinite
  <2> QED BY <2>2, <2>3
<1>7. RuleList(a, owned, read, p) = Ranked(a, {Scored(b) : b \in S})
  BY DEF RuleList
<1>8. IsList(Ranked(a, {Scored(b) : b \in S}))
  <2> HIDE DEF Scored, S
  <2> QED BY <1>6, RankedIsList
<1> QED BY <1>7, <1>8

\* A list of items for what a sorted set holds.
LEMMA ItemsOfList ==
  ASSUME NEW s, IsList(s), NEW f, f = [i \in DOMAIN s |-> f[i]]
  PROVE  IsList(f)
<1>1. PICK n \in Nat : n = Len(s)
  BY ListIsFinite
<1>2. DOMAIN s = 1 .. n
  BY <1>1 DEF IsList
<1>3. f = [i \in 1 .. n |-> f[i]]
  BY <1>2
<1> QED BY <1>3, ListOf

\* The products of some books, each with its book.
OffersOf(S) == {<<o[1].price, o[2]>> : o \in UNION {b.products \X {b} : b \in S}}

LEMMA OffersAreFinite ==
  ASSUME NEW S, S \subseteq Books
  PROVE  IsFiniteSet(OffersOf(S))
<1> DEFINE sold == {b.products \X {b} : b \in S}
<1>1. IsFiniteSet(S)
  BY FeedPagesAssumption, FS_Subset
<1>2. IsFiniteSet(sold)
  <2>1. PICK f : f = [b \in S |-> b.products \X {b}]
    OBVIOUS
  <2>2. sold = {f[b] : b \in S}
    BY <2>1
  <2> QED BY <1>1, <2>2, ImageIsFinite
<1>3. \A P \in sold : IsFiniteSet(P)
  <2> SUFFICES ASSUME NEW b \in S PROVE IsFiniteSet(b.products \X {b})
    OBVIOUS
  <2>1. IsFiniteSet(b.products) /\ IsFiniteSet({b})
    BY FeedPagesAssumption, FS_Singleton
  <2> QED BY <2>1, FS_Product
<1>4. IsFiniteSet(UNION sold)
  <2> HIDE DEF sold
  <2> QED BY <1>2, <1>3, FS_UNION
<1>5. PICK f : f = [o \in UNION sold |-> <<o[1].price, o[2]>>]
  OBVIOUS
<1>6. OffersOf(S) = {f[o] : o \in UNION sold}
  <2>1. OffersOf(S) = {<<o[1].price, o[2]>> : o \in UNION sold}
    BY DEF OffersOf
  <2> HIDE DEF sold
  <2> QED BY <1>5, <2>1
<1> HIDE DEF sold
<1> QED BY <1>4, <1>6, ImageIsFinite

LEMMA ByProductIsList ==
  ASSUME NEW S, S \subseteq Books
  PROVE  IsList(ByProduct(S))
<1>1. PICK offers : offers = OffersOf(S)
  OBVIOUS
<1>2. IsFiniteSet(offers)
  BY <1>1, OffersAreFinite
<1>3. PICK order : order = ByKey({<<<<o[1], o[2].id>>, o>> : o \in offers})
  OBVIOUS
<1>4. IsList(order)
  <2>1. PICK f : f = [o \in offers |-> <<<<o[1], o[2].id>>, o>>]
    OBVIOUS
  <2>2. {<<<<o[1], o[2].id>>, o>> : o \in offers} = {f[o] : o \in offers}
    BY <2>1
  <2> QED BY <1>2, <1>3, <2>2, KeyedList
<1>5. ByProduct(S) = [i \in DOMAIN order |-> order[i][2]]
  BY <1>1, <1>3 DEF ByProduct, Ordered, OffersOf
<1>6. PICK f : f = [i \in DOMAIN order |-> order[i][2]]
  OBVIOUS
<1>7. f = [i \in DOMAIN order |-> f[i]]
  BY <1>6
<1>8. IsList(f)
  BY <1>4, <1>7, ItemsOfList
<1> QED BY <1>5, <1>6, <1>8

LEMMA ColdIsList ==
  ASSUME NEW a \in Asks, NEW owned, NEW read
  PROVE  IsList(ColdList(a, owned, read))
<1> DEFINE all == Eligible(a, owned, read)
           popular == ByKey({<<PopularKey(b), b>> : b \in all})
           newest == ByKey({<<<<-b.year, b.id>>, b>> : b \in all})
           order == CASE a.sort = "match" -> popular
                      [] a.sort = "newest" -> newest
                      [] a.sort = "price_asc" -> ByProduct(all)
<1>1. IsFiniteSet(all) /\ all \subseteq Books
  BY EligibleIsFinite
<1>2. IsList(popular)
  <2>1. PICK f : f = [b \in all |-> <<PopularKey(b), b>>]
    OBVIOUS
  <2>2. {<<PopularKey(b), b>> : b \in all} = {f[b] : b \in all}
    <3> HIDE DEF all
    <3> QED BY <2>1
  <2> HIDE DEF all
  <2> QED BY <1>1, <2>2, KeyedList
<1>3. IsList(newest)
  <2>1. PICK f : f = [b \in all |-> <<<<-b.year, b.id>>, b>>]
    OBVIOUS
  <2>2. {<<<<-b.year, b.id>>, b>> : b \in all} = {f[b] : b \in all}
    <3> HIDE DEF all
    <3> QED BY <2>1
  <2> HIDE DEF all
  <2> QED BY <1>1, <2>2, KeyedList
<1>4. IsList(ByProduct(all))
  <2> HIDE DEF all
  <2> QED BY <1>1, ByProductIsList
<1>5. IsList(order)
  <2>1. a.sort \in {"match", "newest", "price_asc"}
    BY AsksAssumption
  <2> HIDE DEF popular, newest, all
  <2> QED BY <1>2, <1>3, <1>4, <2>1
<1>6. PICK f : f = [i \in DOMAIN order |-> Item(order[i], 0)]
  OBVIOUS
<1>7. f = [i \in DOMAIN order |-> f[i]]
  <2> HIDE DEF order
  <2> QED BY <1>6
<1>8. IsList(f)
  <2> HIDE DEF order
  <2> QED BY <1>5, <1>7, ItemsOfList
<1>9. ColdList(a, owned, read) = IF a.min > 0 THEN <<>> ELSE [i \in DOMAIN order |-> Item(order[i], 0)]
  BY DEF ColdList, Ordered
<1>10. IsList(<<>>)
  BY DEF IsList
<1> QED BY <1>6, <1>8, <1>9, <1>10

LEMMA KeptIsList ==
  ASSUME NEW a, NEW owned, NEW read, NEW T, NEW list \in Seq(T)
  PROVE  Kept(a, owned, read, list) \in Seq(T)
<1> DEFINE S == {e \in ToSet(list) :
                  /\ e.book \notin Excluded(a, owned, read)
                  /\ a.sent => \A o \in owned : ~SameEdition(TheBook(o), TheBook(e.book))}
<1>1. Kept(a, owned, read, list) = Only(list, S)
  BY DEF Kept
<1>2. Only(list, S) \in Seq(T \cap S)
  <2> HIDE DEF S
  <2> QED BY OnlyType
<1>3. Only(list, S) \in Seq(T)
  <2> HIDE DEF S
  <2> QED BY <1>2
<1> QED BY <1>1, <1>3

LEMMA SavedIsList ==
  ASSUME NEW a, NEW owned, NEW read, NEW list \in SavedLists
  PROVE  IsList(SavedList(a, owned, read, list))
<1>1. PICK T : list \in Seq(T)
  BY SavedListsAssumption
<1>2. PICK kept \in Seq(T) : kept = Kept(a, owned, read, list)
  BY <1>1, KeptIsList
<1>3. CASE a.surface = "home"
  <2>1. SavedList(a, owned, read, list) = kept
    BY <1>2, <1>3 DEF SavedList, Arrange
  <2> QED BY <2>1 DEF IsList
<1>4. CASE a.surface # "home"
  <2> DEFINE S == {e \in ToSet(kept) : PassesSaved(a, e)}
             s == Only(kept, S)
             place == Ordered(DOMAIN s, LAMBDA i : Append(SavedKey(a, s[i]), i))
  <2>1. s \in Seq(T \cap S)
    <3> HIDE DEF S
    <3> QED BY OnlyType
  <2>2. PICK n \in Nat : n = Len(s)
    <3> HIDE DEF s
    <3> QED BY <2>1
  <2>3. SavedList(a, owned, read, list) = [k \in 1 .. Len(s) |-> s[place[k]]]
    <3>1. SavedList(a, owned, read, list) = Arrange(a, kept)
      BY <1>2 DEF SavedList
    <3>2. Arrange(a, kept) = [k \in 1 .. Len(s) |-> s[place[k]]]
      BY <1>4 DEF Arrange, StableSort
    <3> QED BY <3>1, <3>2
  <2>4. PICK f : f = [k \in 1 .. n |-> s[place[k]]]
    OBVIOUS
  <2>5. f = [k \in 1 .. n |-> f[k]]
    <3> HIDE DEF s, place
    <3> QED BY <2>4
  <2>6. IsList(f)
    BY <2>5, ListOf
  <2>7. SavedList(a, owned, read, list) = f
    <3> HIDE DEF s, place
    <3> QED BY <2>2, <2>3, <2>4
  <2> QED BY <2>6, <2>7
<1> QED BY <1>3, <1>4

-----------------------------------------------------------------------------
(* The windows: what is shown grows along the list.                        *)

LEMMA PrefixOfPrefix ==
  ASSUME NEW T, NEW s \in Seq(T), NEW k \in 0 .. Len(s), NEW m \in 0 .. k
  PROVE  SubSeq(SubSeq(s, 1, k), 1, m) = SubSeq(s, 1, m)
<1>1. PICK p : p = SubSeq(s, 1, k)
  OBVIOUS
<1>2. \A i \in 1 .. k : s[i] \in T
  OBVIOUS
<1>3. /\ p \in Seq(T) /\ Len(p) = IF 1 <= k THEN k - 1 + 1 ELSE 0
      /\ \A i \in 1 .. k - 1 + 1 : p[i] = s[1 + i - 1]
  <2>1. 1 \in Int /\ k \in Int
    OBVIOUS
  <2> QED BY <1>1, <1>2, <2>1, SubSeqProperties
<1>4. \A i \in 1 .. m : p[i] = s[i] /\ p[i] \in T /\ s[i] \in T
  BY <1>2, <1>3
<1>5. PICK a : a = SubSeq(p, 1, m)
  OBVIOUS
<1>6. PICK b : b = SubSeq(s, 1, m)
  OBVIOUS
<1>7. 1 \in Int /\ m \in Int
  OBVIOUS
<1>8. /\ a \in Seq(T) /\ Len(a) = IF 1 <= m THEN m - 1 + 1 ELSE 0
      /\ \A i \in 1 .. m - 1 + 1 : a[i] = p[1 + i - 1]
  BY <1>4, <1>5, <1>7, SubSeqProperties
<1>9. /\ b \in Seq(T) /\ Len(b) = IF 1 <= m THEN m - 1 + 1 ELSE 0
      /\ \A i \in 1 .. m - 1 + 1 : b[i] = s[1 + i - 1]
  BY <1>4, <1>6, <1>7, SubSeqProperties
<1>10. Len(a) = m /\ Len(b) = m /\ \A i \in 1 .. m : a[i] = b[i]
  BY <1>4, <1>8, <1>9
<1>11. a = b
  BY <1>8, <1>9, <1>10, SeqEqual
<1> QED BY <1>1, <1>5, <1>6, <1>11

LEMMA LeastOfTwo ==
  ASSUME NEW m \in Int, NEW n \in Int
  PROVE  Min({m, n}) = IF m <= n THEN m ELSE n
<1>1. \E x \in {m, n} : \A y \in {m, n} : x <= y
  OBVIOUS
<1>2. PICK x : x = Min({m, n})
  OBVIOUS
<1>3. x \in {m, n} /\ \A y \in {m, n} : x <= y
  BY <1>1, <1>2 DEF Min
<1> QED BY <1>2, <1>3

\* Showing the list from where it was left to end.
LEMMA WindowJoins ==
  ASSUME NEW T, NEW list \in Seq(T), NEW off \in 0 .. Len(list), NEW n \in Nat,
         NEW e \in Nat, e = IF off + n <= Len(list) THEN off + n ELSE Len(list)
  PROVE  SubSeq(list, 1, off) \o SubSeq(list, off + 1, Min({off + n, Len(list)}))
           = SubSeq(list, 1, e)
<1>1. PICK l \in Nat : l = Len(list)
  OBVIOUS
<1>2. Min({off + n, Len(list)}) = e
  <2>1. off + n \in Int /\ l \in Int
    OBVIOUS
  <2> QED BY <1>1, <2>1, LeastOfTwo
<1>3. 1 \in 1 .. Len(list) + 1 /\ off \in 1 - 1 .. Len(list) /\ e \in off .. Len(list)
  BY <1>1
<1>4. SubSeq(list, 1, off) \o SubSeq(list, off + 1, e) = SubSeq(list, 1, e)
  BY <1>3, ConcatAdjacentSubSeq
<1> QED BY <1>2, <1>4

CutOf(mode, list, size, page) ==
  IF mode = "cold-start" THEN LimitedWindow(list, size, page) ELSE Window(list, size, page)
WholeList(mode, list) == IF mode = "cold-start" THEN Take(list, ListLimit) ELSE list

\* What a page shows goes on where the last one ended.
GoesOn(whole, off, size, cut) ==
  /\ cut.more \in BOOLEAN
  /\ cut.more => /\ off + size < Len(whole)
                 /\ SubSeq(whole, 1, off) \o cut.items = SubSeq(whole, 1, off + size)
  /\ ~cut.more => SubSeq(whole, 1, off) \o cut.items = whole

LEMMA WindowGoesOn ==
  ASSUME NEW list, IsList(list), NEW size \in Nat \ {0}, NEW page, page.offset \in Nat,
         page.offset <= Len(list)
  PROVE  GoesOn(list, page.offset, size, Window(list, size, page))
<1>1. PICK off \in Nat : off = page.offset
  OBVIOUS
<1>2. PICK l \in Nat : l = Len(list)
  BY ListIsFinite
<1>3. PICK w : w = Window(list, size, page)
  OBVIOUS
<1>4. /\ w.items = SubSeq(list, off + 1, Min({off + size, Len(list)}))
      /\ w.more \in BOOLEAN /\ (w.more <=> l > off + size)
  <2>1. PICK shown : shown = SubSeq(list, off + 1, Min({off + size, Len(list)}))
    OBVIOUS
  <2>2. w = [items |-> shown, more |-> l > off + size]
    BY <1>1, <1>2, <1>3, <2>1 DEF Window
  <2>3. CASE l > off + size
    <3>1. w = [items |-> shown, more |-> TRUE]
      BY <2>2, <2>3
    <3> QED BY <2>1, <2>3, <3>1
  <2>4. CASE ~(l > off + size)
    <3>1. (l > off + size) = FALSE
      BY <2>4
    <3>2. w = [items |-> shown, more |-> FALSE]
      BY <2>2, <3>1, Zenon
    <3> QED BY <2>1, <2>4, <3>2
  <2> QED BY <2>3, <2>4
<1>5. PICK T : list \in Seq(T)
  BY DEF IsList
<1>6. PICK e \in Nat : e = IF off + size <= l THEN off + size ELSE l
  OBVIOUS
<1>7. SubSeq(list, 1, off) \o w.items = SubSeq(list, 1, e)
  <2>1. off \in 0 .. Len(list) /\ size \in Nat
    BY <1>1, <1>2
  <2>2. e = IF off + size <= Len(list) THEN off + size ELSE Len(list)
    BY <1>2, <1>6
  <2>3. SubSeq(list, 1, off) \o SubSeq(list, off + 1, Min({off + size, Len(list)})) = SubSeq(list, 1, e)
    BY <1>5, <2>1, <2>2, WindowJoins
  <2> QED BY <1>4, <2>3, Zenon
<1>8. CASE l > off + size
  <2>1. e = off + size /\ off + size < Len(list) /\ w.more /\ w.more \in BOOLEAN
    BY <1>2, <1>4, <1>6, <1>8
  <2>2. SubSeq(list, 1, off) \o w.items = SubSeq(list, 1, off + size)
    BY <1>7, <2>1, Zenon
  <2>3. GoesOn(list, off, size, w)
    BY <2>1, <2>2, Zenon DEF GoesOn
  <2> QED BY <1>1, <1>3, <2>3, Zenon
<1>9. CASE ~(l > off + size)
  <2>1. e = Len(list)
    BY <1>2, <1>6, <1>9
  <2>2. SubSeq(list, 1, e) = list
    BY <1>5, <2>1, SubSeqFull
  <2>3. ~w.more /\ w.more \in BOOLEAN
    BY <1>4, <1>9
  <2>4. SubSeq(list, 1, off) \o w.items = list
    BY <1>7, <2>2, Zenon
  <2>5. GoesOn(list, off, size, w)
    BY <2>3, <2>4, Zenon DEF GoesOn
  <2> QED BY <1>1, <1>3, <2>5, Zenon
<1> QED BY <1>8, <1>9

LEMMA LimitedWindowGoesOn ==
  ASSUME NEW list, IsList(list), NEW size \in Nat \ {0}, NEW page, page.offset \in Nat,
         page.offset = 0 \/ page.offset < Len(Take(list, ListLimit))
  PROVE  GoesOn(Take(list, ListLimit), page.offset, size, LimitedWindow(list, size, page))
<1>1. PICK off \in Nat : off = page.offset
  OBVIOUS
<1>2. PICK l \in Nat : l = Len(list)
  BY ListIsFinite
<1>3. PICK m \in Nat \ {0} : m = ListLimit
  BY FeedPagesAssumption
<1>4. PICK k \in Nat : k = IF m <= l THEN m ELSE l
  OBVIOUS
<1>5. PICK T : list \in Seq(T)
  BY DEF IsList
<1>6. PICK p : p = Take(list, ListLimit)
  OBVIOUS
<1>7. p = SubSeq(list, 1, k) /\ p \in Seq(T) /\ Len(p) = k
  BY <1>2, <1>3, <1>4, <1>5, <1>6, TakeIs
<1>8. off <= k /\ off < m
  BY <1>1, <1>3, <1>4, <1>6, <1>7
<1>9. PICK n \in Nat \ {0} : n = IF size <= m - off THEN size ELSE m - off
  <2>1. m - off \in Nat \ {0}
    BY <1>8
  <2> QED BY <2>1
<1>10. Min({size, ListLimit - page.offset}) = n
  <2>1. size \in Int /\ m - off \in Int
    OBVIOUS
  <2> QED BY <1>1, <1>3, <1>9, <2>1, LeastOfTwo
<1>11. PICK w : w = LimitedWindow(list, size, page)
  OBVIOUS
<1>12. /\ w.items = SubSeq(list, off + 1, Min({off + n, Len(list)}))
       /\ w.more \in BOOLEAN /\ (w.more <=> l > off + n /\ off + n < m)
  <2>1. ~(n <= 0)
    OBVIOUS
  <2> QED BY <1>1, <1>2, <1>3, <1>10, <1>11, <2>1 DEF LimitedWindow
<1>13. off <= Len(list)
  BY <1>2, <1>4, <1>8
<1>14. PICK e \in 0 .. k : e = IF off + n <= l THEN off + n ELSE l
  BY <1>4, <1>8, <1>9
<1>15. SubSeq(list, 1, off) \o w.items = SubSeq(list, 1, e)
  <2>1. off \in 0 .. Len(list) /\ n \in Nat /\ e \in Nat
    BY <1>2, <1>13
  <2>2. e = IF off + n <= Len(list) THEN off + n ELSE Len(list)
    BY <1>2, <1>14
  <2>3. SubSeq(list, 1, off) \o SubSeq(list, off + 1, Min({off + n, Len(list)})) = SubSeq(list, 1, e)
    BY <1>5, <2>1, <2>2, WindowJoins
  <2> QED BY <1>12, <2>3, Zenon
<1>16. SubSeq(p, 1, off) = SubSeq(list, 1, off) /\ SubSeq(p, 1, e) = SubSeq(list, 1, e)
  <2>1. k \in 0 .. Len(list) /\ off \in 0 .. k
    BY <1>2, <1>4, <1>8
  <2> QED BY <1>5, <1>7, <2>1, PrefixOfPrefix
<1>17. SubSeq(p, 1, off) \o w.items = SubSeq(p, 1, e)
  BY <1>15, <1>16
<1>18. CASE l > off + n /\ off + n < m
  <2>1. n = size
    BY <1>9, <1>18
  <2>2. off + size < k /\ e = off + size
    BY <1>4, <1>14, <1>18, <2>1
  <2> QED BY <1>1, <1>6, <1>7, <1>11, <1>12, <1>17, <1>18, <2>2 DEF GoesOn
<1>19. CASE ~(l > off + n /\ off + n < m)
  <2>1. off + n <= m
    BY <1>8, <1>9
  <2>2. e = k
    BY <1>4, <1>14, <1>19, <2>1
  <2>3. SubSeq(p, 1, e) = p
    BY <1>7, <2>2, SubSeqFull
  <2> QED BY <1>1, <1>6, <1>11, <1>12, <1>17, <1>19, <2>3 DEF GoesOn
<1> QED BY <1>18, <1>19

LEMMA CutGoesOn ==
  ASSUME NEW mode, NEW list, IsList(list), NEW size \in Nat \ {0}, NEW page, page.offset \in Nat,
         page.offset = 0 \/ page.offset < Len(WholeList(mode, list))
  PROVE  /\ GoesOn(WholeList(mode, list), page.offset, size, CutOf(mode, list, size, page))
         /\ IsList(WholeList(mode, list))
<1>1. CASE mode = "cold-start"
  <2>1. IsList(Take(list, ListLimit))
    BY TakeIsList, FeedPagesAssumption
  <2>2. WholeList(mode, list) = Take(list, ListLimit)
    BY <1>1 DEF WholeList
  <2>3. CutOf(mode, list, size, page) = LimitedWindow(list, size, page)
    BY <1>1 DEF CutOf
  <2> QED BY <2>1, <2>2, <2>3, LimitedWindowGoesOn
<1>2. CASE mode # "cold-start"
  <2>1. WholeList(mode, list) = list
    BY <1>2 DEF WholeList
  <2>2. CutOf(mode, list, size, page) = Window(list, size, page)
    BY <1>2 DEF CutOf
  <2>3. page.offset <= Len(list)
    BY <2>1, ListIsFinite
  <2> QED BY <2>1, <2>2, <2>3, WindowGoesOn
<1> QED BY <1>1, <1>2

LEMMA PrefixIs ==
  ASSUME NEW s, IsList(s), NEW k \in 0 .. Len(s)
  PROVE  IsPrefix(SubSeq(s, 1, k), s) /\ Len(SubSeq(s, 1, k)) = k
<1>1. PICK T : s \in Seq(T)
  BY DEF IsList
<1>2. PICK p : p = SubSeq(s, 1, k)
  OBVIOUS
<1>3. p \in Seq(T) /\ Len(p) = k
  <2>1. \A i \in 1 .. k : s[i] \in T
    BY <1>1
  <2>2. 1 \in Int /\ k \in Int
    OBVIOUS
  <2> QED BY <1>2, <2>1, <2>2, SubSeqProperties
<1>4. SubSeq(p, 1, Len(p)) = SubSeq(s, 1, Len(p))
  <2>1. SubSeq(p, 1, Len(p)) = p
    BY <1>3, SubSeqFull
  <2> QED BY <1>2, <1>3, <2>1
<1>5. k <= Len(s)
  BY <1>1
<1> QED BY <1>2, <1>3, <1>4, <1>5 DEF IsPrefix

LEMMA NothingYet ==
  ASSUME NEW s, IsList(s)
  PROVE  SubSeq(s, 1, 0) = <<>> /\ IsPrefix(s, s)
<1>1. PICK T : s \in Seq(T)
  BY DEF IsList
<1>2. SubSeq(s, 1, 0) = <<>>
  <2>1. 1 \in Int /\ 0 \in Int /\ 1 > 0
    OBVIOUS
  <2> QED BY <1>1, <2>1, SubSeqEmpty
<1>3. IsPrefix(s, s)
  BY <1>1 DEF IsPrefix
<1> QED BY <1>2, <1>3

\* A window that starts inside the list shows something; one of an empty list nothing.
LEMMA WindowShows ==
  ASSUME NEW list, IsList(list), NEW size \in Nat \ {0}, NEW page, page.offset \in Nat
  PROVE  /\ page.offset < Len(list) => Window(list, size, page).items # <<>>
         /\ list = <<>> => Window(list, size, page).items = <<>>
         /\ page.offset = 0 /\ Window(list, size, page).items = <<>> => list = <<>>
<1>1. PICK off \in Nat : off = page.offset
  OBVIOUS
<1>2. PICK l \in Nat : l = Len(list)
  BY ListIsFinite
<1>3. PICK T : list \in Seq(T)
  BY DEF IsList
<1>4. PICK e \in Nat : e = IF off + size <= l THEN off + size ELSE l
  OBVIOUS
<1>5. PICK items : items = SubSeq(list, off + 1, e)
  OBVIOUS
<1>6. Window(list, size, page).items = items
  <2>1. Min({off + size, Len(list)}) = e
    BY <1>2, <1>4, LeastOfTwo
  <2> QED BY <1>1, <1>5, <2>1 DEF Window
<1>7. items \in Seq(T) /\ Len(items) = IF off + 1 <= e THEN e - (off + 1) + 1 ELSE 0
  <2>1. \A i \in off + 1 .. e : list[i] \in T
    BY <1>2, <1>3, <1>4
  <2>2. off + 1 \in Int /\ e \in Int
    OBVIOUS
  <2> QED BY <1>5, <2>1, <2>2, SubSeqProperties
<1>8. ASSUME off < l PROVE items # <<>>
  <2>1. off + 1 <= e
    BY <1>4, <1>8
  <2>2. Len(items) # 0
    BY <1>7, <2>1
  <2> QED BY <2>2
<1>9. ASSUME list = <<>> PROVE items = <<>>
  <2>1. l = 0
    BY <1>2, <1>9
  <2>2. ~(off + 1 <= e)
    BY <1>4, <2>1
  <2>3. Len(items) = 0
    BY <1>7, <2>2
  <2> QED BY <1>7, <2>3, EmptySeq
<1>10. ASSUME off = 0, items = <<>> PROVE list = <<>>
  <2>1. ~(off < l)
    BY <1>8, <1>10
  <2>2. Len(list) = 0
    BY <1>2, <1>10, <2>1
  <2> QED BY <1>3, <2>2, EmptySeq
<1> QED BY <1>1, <1>2, <1>6, <1>8, <1>9, <1>10

-----------------------------------------------------------------------------
(* Without vectors there is no list by taste.                              *)

LEMMA NothingSorted == ByKey({}) = <<>>
<1>1. PICK placed :
        placed = {<<Cardinality({y \in {} : Before(y[1], x[1])}), x[2]>> : x \in {}}
  OBVIOUS
<1>2. placed = {} /\ Cardinality(placed) = 0
  BY <1>1, FS_EmptySet
<1>3. ByKey({}) = [i \in 1 .. Cardinality(placed) |-> (CHOOSE p \in placed : p[1] = i - 1)[2]]
  BY <1>1 DEF ByKey
<1>4. ByKey({}) = [i \in 1 .. 0 |-> (CHOOSE p \in placed : p[1] = i - 1)[2]]
  BY <1>2, <1>3
<1>5. DOMAIN ByKey({}) = {} /\ ByKey({}) = [i \in {} |-> ByKey({})[i]]
  BY <1>4
<1> QED BY <1>5

LEMMA TasteNeedsVectors ==
  ASSUME NEW a, NEW own, NEW read, NEW p, NEW i, Embedded(Books, i) = {}
  PROVE  TasteList(a, own, read, p, i) = <<>>
<1>1. PICK all : all = Embedded(Eligible(a, own, read), i)
  OBVIOUS
<1>2. all = {}
  BY <1>1, EligibleIsFinite DEF Embedded
<1>3. PICK few : few = {b \in all : b.id \in i.reach}
  OBVIOUS
<1>4. few = {}
  BY <1>2, <1>3
<1>5. Nearest(a, own, read, i) = ByDistance(all) \/ Nearest(a, own, read, i) = ByDistance(few)
  BY <1>1, <1>3 DEF Nearest
<1>6. ByDistance({}) = <<>>
  <2>1. {<<<<-b.similar, b.id>>, b>> : b \in {}} = {}
    OBVIOUS
  <2>2. ByDistance({}) = Take(ByKey({}), ListLimit)
    BY <2>1 DEF ByDistance, Ordered
  <2>3. <<>> \in Seq({})
    OBVIOUS
  <2>4. Take(<<>>, ListLimit) \in Seq({})
    BY <2>3, TakeIs, FeedPagesAssumption
  <2>5. Take(<<>>, ListLimit) = <<>>
    BY <2>4
  <2> QED BY <2>2, <2>5, NothingSorted
<1>7. PICK near : near = Nearest(a, own, read, i) /\ near = <<>>
  BY <1>2, <1>4, <1>5, <1>6
<1>8. ToSet(near) = {}
  BY <1>7 DEF ToSet
<1>9. PICK scored : scored = {<<b, MatchScore(SimilarityPoints(b.similar),
                                  TagWeight(read, p, b.category), b.sales, BestSales)>> : b \in ToSet(near)}
  OBVIOUS
<1>10. scored = {}
  BY <1>8, <1>9
<1>11. TasteList(a, own, read, p, i) = Ranked(a, scored)
  BY <1>7, <1>9 DEF TasteList
<1>12. PICK order : order = ByKey({<<TasteKey(a, q[1], q[2]), q>> : q \in {x \in scored : x[2] >= a.min}})
  OBVIOUS
<1>13. order = <<>>
  <2>1. {<<TasteKey(a, q[1], q[2]), q>> : q \in {x \in scored : x[2] >= a.min}} = {}
    BY <1>10
  <2> QED BY <1>12, <2>1, NothingSorted
<1>14. Ranked(a, scored) = [k \in DOMAIN order |-> Item(order[k][1], order[k][2])]
  BY <1>12 DEF Ranked, Ordered
<1>15. PICK list : list = [k \in DOMAIN order |-> Item(order[k][1], order[k][2])]
  OBVIOUS
<1>16. DOMAIN list = {} /\ list = [k \in {} |-> list[k]]
  BY <1>13, <1>15
<1>17. list = <<>>
  BY <1>16
<1> QED BY <1>11, <1>14, <1>15, <1>17

\* The vectors serve a page if and only if they answer.
LEMMA TasteServes ==
  ASSUME NEW a, NEW own, NEW read, NEW p, NEW size \in Nat \ {0}, NEW page, page.offset \in Nat
  PROVE  VectorsServe(TasteList(a, own, read, p, index), size, page) <=> Answering(index)
<1>1. PICK taste : taste = TasteList(a, own, read, p, index)
  OBVIOUS
<1>2. IsList(taste)
  BY <1>1, TasteIsList
<1>3. Embedded(Books, index) = {} => Window(taste, size, page).items = <<>>
  BY <1>1, <1>2, TasteNeedsVectors, WindowShows
<1> QED BY <1>1, <1>3 DEF VectorsServe, Answering

-----------------------------------------------------------------------------
(* The saved list, as it was at the first page.                            *)

LEMMA SavedFits ==
  ASSUME NEW s, SavedShape(s)
  PROVE  /\ s.books \in SavedLists /\ s.version \in Nat \ {0}
         /\ s.prev \in SavedLists \cup {None} /\ s # None
         /\ s.version = 1 <=> s.prev = None
BY NoneAssumption DEF SavedShape, Saves

LEMMA SavedAt ==
  ASSUME NEW s, SavedShape(s), NEW ver \in Nat
  PROVE  /\ ListAt(s, ver).books \in SavedLists /\ ListAt(s, ver).ver \in Nat
         /\ ver = 0 => ListAt(s, ver).books = s.books /\ ListAt(s, ver).ver = s.version
         /\ ver # 0 /\ s.version \in {ver, ver + 1} =>
              ListAt(s, ver).books = BooksOf(s, ver) /\ ListAt(s, ver).ver = ver
<1>1. /\ s.books \in SavedLists /\ s.version \in Nat \ {0} /\ s.prev \in SavedLists \cup {None}
      /\ s.version = 1 <=> s.prev = None
  BY SavedFits
<1>2. CASE ver = s.version - 1 /\ s.prev # None
  <2>1. ListAt(s, ver).books = s.prev /\ ListAt(s, ver).ver = ver
    BY <1>2 DEF ListAt
  <2>2. ver # 0 /\ s.version = ver + 1 /\ s.version # ver
    BY <1>1, <1>2
  <2> QED BY <1>1, <1>2, <2>1, <2>2 DEF BooksOf
<1>3. CASE ~(ver = s.version - 1 /\ s.prev # None)
  <2>1. ListAt(s, ver).books = s.books /\ ListAt(s, ver).ver = s.version
    BY <1>3 DEF ListAt
  <2>2. ver # 0 /\ s.version \in {ver, ver + 1} => s.version = ver
    BY <1>1, <1>3
  <2> QED BY <1>1, <2>1, <2>2 DEF BooksOf
<1> QED BY <1>2, <1>3

LEMMA StillThere ==
  ASSUME NEW seen, NEW list, seen # None, Evolved(seen, list), SavedShape(list),
         NEW ver \in Nat \ {0}, ver <= seen.version, list.version \in {ver, ver + 1}
  PROVE  seen.version \in {ver, ver + 1} /\ BooksOf(seen, ver) = BooksOf(list, ver)
<1>1. /\ SavedShape(seen) /\ seen.version <= list.version
      /\ list.version = seen.version => list = seen
      /\ list.version = seen.version + 1 => list.prev = seen.books
  BY DEF Evolved
<1>2. seen.version \in Nat /\ list.version \in Nat
  BY <1>1, SavedFits
<1>3. CASE seen.version = list.version
  BY <1>1, <1>3
<1>4. CASE seen.version # list.version
  <2>1. seen.version = ver /\ list.version = ver + 1 /\ list.version # ver
    BY <1>1, <1>2, <1>4
  <2> QED BY <1>1, <2>1 DEF BooksOf
<1> QED BY <1>3, <1>4

-----------------------------------------------------------------------------
(* The list a page is made from.                                           *)


LEMMA MadeIs ==
  ASSUME NEW a, NEW size, NEW own, NEW page, NEW seen, NEW made, NEW read,
         read = RowsUntil(rows, page.issued), made = Made(a, size, own, page, seen)
  PROVE  \/ /\ page.mode \in {None, "interest"} /\ ~LeavesIt(a, size, own, read, page, seen)
            /\ made.mode = "interest" /\ made.ver = ListAt(seen, page.ver).ver
            /\ made.list = SavedList(a, own, read, ListAt(seen, page.ver).books)
         \/ /\ ~(page.mode \in {None, "interest"} /\ ~LeavesIt(a, size, own, read, page, seen))
            /\ made.ver = 0
            /\ \/ ~HasVector(profile) /\ made.mode = "cold-start" /\ made.list = ColdList(a, own, read)
               \/ /\ HasVector(profile)
                  /\ VectorsServe(TasteList(a, own, read, profile, index), size, page)
                  /\ made.mode = "personalized" /\ made.list = TasteList(a, own, read, profile, index)
               \/ /\ HasVector(profile)
                  /\ ~VectorsServe(TasteList(a, own, read, profile, index), size, page)
                  /\ made.mode = "rule-only" /\ made.list = RuleList(a, own, read, profile)
<1>1. Personal <=> HasVector(profile)
  BY DEF Personal, HasVector
<1>2. PICK taste : taste = TasteList(a, own, read, profile, index)
  OBVIOUS
<1>3. CASE page.mode \in {None, "interest"} /\ ~LeavesIt(a, size, own, read, page, seen)
  <2>1. made = [mode |-> "interest", ver |-> ListAt(seen, page.ver).ver,
                list |-> SavedList(a, own, read, ListAt(seen, page.ver).books)]
    BY <1>3 DEF Made
  <2> QED BY <1>3, <2>1
<1>4. CASE ~(page.mode \in {None, "interest"} /\ ~LeavesIt(a, size, own, read, page, seen))
  <2>1. CASE ~Personal
    <3>1. made = [mode |-> "cold-start", ver |-> 0, list |-> ColdList(a, own, read)]
      BY <1>4, <2>1 DEF Made
    <3> QED BY <1>1, <1>4, <2>1, <3>1
  <2>2. CASE Personal /\ VectorsServe(taste, size, page)
    <3>1. made = [mode |-> "personalized", ver |-> 0, list |-> taste]
      BY <1>2, <1>4, <2>2 DEF Made
    <3> QED BY <1>1, <1>2, <1>4, <2>2, <3>1
  <2>3. CASE Personal /\ ~VectorsServe(taste, size, page)
    <3>1. made = [mode |-> "rule-only", ver |-> 0, list |-> RuleList(a, own, read, profile)]
      BY <1>2, <1>4, <2>3 DEF Made
    <3> QED BY <1>1, <1>2, <1>4, <2>3, <3>1
  <2> QED BY <2>1, <2>2, <2>3
<1> QED BY <1>3, <1>4

LEMMA MadeFits ==
  ASSUME NEW a \in Asks, NEW size, NEW own, NEW page, page.ver \in Nat, NEW seen,
         seen # None => SavedShape(seen), NEW made, made = Made(a, size, own, page, seen)
  PROVE  made.mode \in Modes /\ made.ver \in Nat /\ IsList(made.list)
<1>1. PICK read : read = RowsUntil(rows, page.issued)
  OBVIOUS
<1>2. CASE /\ ~LeavesIt(a, size, own, read, page, seen)
           /\ made.mode = "interest" /\ made.ver = ListAt(seen, page.ver).ver
           /\ made.list = SavedList(a, own, read, ListAt(seen, page.ver).books)
  <2>1. SavedShape(seen)
    BY <1>2 DEF LeavesIt
  <2>2. ListAt(seen, page.ver).books \in SavedLists /\ ListAt(seen, page.ver).ver \in Nat
    BY <2>1, SavedAt
  <2> QED BY <1>2, <2>2, SavedIsList DEF Modes
<1>3. CASE made.ver = 0 /\ made.mode = "cold-start" /\ made.list = ColdList(a, own, read)
  BY <1>3, ColdIsList DEF Modes
<1>4. CASE /\ made.ver = 0 /\ made.mode = "personalized"
           /\ made.list = TasteList(a, own, read, profile, index)
  BY <1>4, TasteIsList DEF Modes
<1>5. CASE made.ver = 0 /\ made.mode = "rule-only" /\ made.list = RuleList(a, own, read, profile)
  BY <1>5, RuleIsList DEF Modes
<1> QED BY <1>1, <1>2, <1>3, <1>4, <1>5, MadeIs

\* The mode of a page is to be had, and a page of the saved list has read one.
LEMMA ModeMade ==
  ASSUME NEW a, NEW size \in Nat \ {0}, NEW own, NEW page, page.offset \in Nat, NEW seen,
         NEW made, made = Made(a, size, own, page, seen)
  PROVE  ModeStands(made.mode, profile, index) /\ (made.mode = "interest" => seen # None)
<1>1. PICK read : read = RowsUntil(rows, page.issued)
  OBVIOUS
<1>2. PICK taste : taste = TasteList(a, own, read, profile, index)
  OBVIOUS
<1>3. VectorsServe(taste, size, page) <=> Answering(index)
  BY <1>2, TasteServes
<1>4. \/ ~LeavesIt(a, size, own, read, page, seen) /\ made.mode = "interest"
      \/ ~HasVector(profile) /\ made.mode = "cold-start"
      \/ HasVector(profile) /\ VectorsServe(taste, size, page) /\ made.mode = "personalized"
      \/ HasVector(profile) /\ ~VectorsServe(taste, size, page) /\ made.mode = "rule-only"
  BY <1>1, <1>2, MadeIs
<1> QED BY <1>3, <1>4 DEF ModeStands, LeavesIt

\* A later page comes in the mode of the first if that is to be had.
LEMMA ModeKeeps ==
  ASSUME NEW a, NEW size \in Nat \ {0}, NEW own, NEW page, page.offset \in Nat, page.mode \in Modes,
         NEW seen, page.mode = "interest" => seen # None, ModeStands(page.mode, profile, index),
         NEW made, made = Made(a, size, own, page, seen)
  PROVE  made.mode = page.mode
<1>1. PICK read : read = RowsUntil(rows, page.issued)
  OBVIOUS
<1>2. PICK taste : taste = TasteList(a, own, read, profile, index)
  OBVIOUS
<1>3. VectorsServe(taste, size, page) <=> Answering(index)
  BY <1>2, TasteServes
<1>4. page.mode # None
  BY NoneAssumption
<1>5. \/ /\ page.mode \in {None, "interest"} /\ ~LeavesIt(a, size, own, read, page, seen)
         /\ made.mode = "interest"
      \/ /\ ~(page.mode \in {None, "interest"} /\ ~LeavesIt(a, size, own, read, page, seen))
         /\ \/ ~HasVector(profile) /\ made.mode = "cold-start"
            \/ HasVector(profile) /\ VectorsServe(taste, size, page) /\ made.mode = "personalized"
            \/ HasVector(profile) /\ ~VectorsServe(taste, size, page) /\ made.mode = "rule-only"
  BY <1>1, <1>2, MadeIs
<1>6. CASE page.mode = "interest"
  <2>1. ~LeavesIt(a, size, own, read, page, seen)
    BY <1>4, <1>6 DEF LeavesIt
  <2> QED BY <1>5, <1>6, <2>1
<1>7. CASE page.mode # "interest"
  BY <1>3, <1>4, <1>5, <1>7 DEF ModeStands, Modes
<1> QED BY <1>6, <1>7

\* The first page of a scroll makes the list that the later ones have to make again.
LEMMA FirstMade ==
  ASSUME NEW a \in Asks, NEW size \in Nat \ {0}, NEW own, NEW page,
         page.mode = None, page.offset = 0, page.ver = 0, NEW seen, NEW made,
         made = Made(a, size, own, page, seen),
         Evolved(seen, saved), saved # None => SavedShape(saved),
         seen # None => saved.version <= seen.version + 1
  PROVE  Stands(WholeList(made.mode, made.list), made.mode, made.ver, a, own,
                RowsUntil(rows, page.issued), saved, profile, index)
<1>1. PICK read : read = RowsUntil(rows, page.issued)
  OBVIOUS
<1>2. PICK taste : taste = TasteList(a, own, read, profile, index)
  OBVIOUS
<1>3. CASE /\ ~LeavesIt(a, size, own, read, page, seen)
           /\ made.mode = "interest" /\ made.ver = ListAt(seen, page.ver).ver
           /\ made.list = SavedList(a, own, read, ListAt(seen, page.ver).books)
  <2>1. seen # None /\ SavedShape(seen)
    BY <1>3 DEF LeavesIt, Evolved
  <2>2. made.ver = seen.version /\ made.list = SavedList(a, own, read, seen.books)
    <3>1. ListAt(seen, 0).books = seen.books /\ ListAt(seen, 0).ver = seen.version
      BY <2>1, SavedAt
    <3> QED BY <1>3, <3>1
  <2>3. /\ saved # None /\ saved.version \in Nat /\ seen.version \in Nat \ {0}
        /\ saved.version \in {seen.version, seen.version + 1}
    BY <2>1, SavedFits DEF Evolved
  <2>4. BooksOf(saved, seen.version) = seen.books
    BY <2>1, <2>3 DEF Evolved, BooksOf
  <2>5. WholeList(made.mode, made.list) = SavedList(a, own, read, seen.books)
    BY <1>3, <2>2 DEF WholeList
  <2> QED BY <1>1, <1>3, <2>2, <2>3, <2>4, <2>5 DEF Stands
<1>4. CASE ~HasVector(profile) /\ made.mode = "cold-start" /\ made.list = ColdList(a, own, read)
  BY <1>1, <1>4 DEF Stands, WholeList
<1>5. CASE /\ HasVector(profile) /\ VectorsServe(taste, size, page)
           /\ made.mode = "personalized" /\ made.list = taste
  BY <1>1, <1>2, <1>5 DEF Stands, WholeList, VectorsServe
<1>6. CASE /\ HasVector(profile) /\ ~VectorsServe(taste, size, page)
           /\ made.mode = "rule-only" /\ made.list = RuleList(a, own, read, profile)
  <2>1. ASSUME index.up PROVE taste = <<>> /\ Embedded(Books, index) = {}
    <3>1. Window(taste, size, page).items = <<>> /\ Embedded(Books, index) = {}
      BY <1>6, <2>1 DEF VectorsServe
    <3>2. IsList(taste)
      BY <1>2, TasteIsList
    <3>3. page.offset \in Nat
      OBVIOUS
    <3>4. page.offset = 0 /\ Window(taste, size, page).items = <<>> => taste = <<>>
      BY <3>2, <3>3, WindowShows
    <3> QED BY <3>1, <3>4
  <2>2. WholeList(made.mode, made.list) = RuleList(a, own, read, profile)
    BY <1>6 DEF WholeList
  <2> QED BY <1>1, <1>2, <1>6, <2>1, <2>2 DEF Stands
<1> QED BY <1>1, <1>2, <1>3, <1>4, <1>5, <1>6, MadeIs

\* A later page makes it again if all it is made of stands.
LEMMA LaterMade ==
  ASSUME NEW a \in Asks, NEW size \in Nat \ {0}, NEW own, NEW page,
         page.mode \in Modes, page.offset \in Nat, page.ver \in Nat, NEW seen, NEW made,
         made = Made(a, size, own, page, seen), Evolved(seen, saved),
         saved # None => SavedShape(saved),
         page.mode = "interest" => seen # None /\ page.ver <= seen.version,
         NEW promised, page.offset < Len(promised),
         Stands(promised, page.mode, page.ver, a, own, RowsUntil(rows, page.issued),
                saved, profile, index)
  PROVE  /\ made.mode = page.mode /\ WholeList(made.mode, made.list) = promised
         /\ Stands(promised, made.mode, made.ver, a, own, RowsUntil(rows, page.issued),
                   saved, profile, index)
<1>1. PICK read : read = RowsUntil(rows, page.issued)
  OBVIOUS
<1>2. PICK taste : taste = TasteList(a, own, read, profile, index)
  OBVIOUS
<1>3. IsList(taste)
  BY <1>2, TasteIsList
<1>4. page.mode # None
  BY NoneAssumption
<1>5. CASE page.mode = "interest"
  <2>1. /\ seen # None /\ SavedShape(seen) /\ SavedShape(saved) /\ page.ver # 0
        /\ saved.version \in {page.ver, page.ver + 1}
        /\ promised = SavedList(a, own, read, BooksOf(saved, page.ver))
    BY <1>1, <1>5 DEF Evolved, Stands
  <2>2. seen.version \in {page.ver, page.ver + 1} /\ BooksOf(seen, page.ver) = BooksOf(saved, page.ver)
    BY <1>5, <2>1, StillThere
  <2>3. ListAt(seen, page.ver).books = BooksOf(saved, page.ver) /\ ListAt(seen, page.ver).ver = page.ver
    BY <2>1, <2>2, SavedAt
  <2>4. ~LeavesIt(a, size, own, read, page, seen)
    BY <1>4, <2>1 DEF LeavesIt
  <2>5. made.mode = "interest" /\ made.ver = page.ver /\ made.list = promised
    <3>1. page.mode \in {None, "interest"} /\ ~LeavesIt(a, size, own, read, page, seen)
      BY <1>5, <2>4
    <3>2. made.mode = "interest" /\ made.ver = ListAt(seen, page.ver).ver
          /\ made.list = SavedList(a, own, read, ListAt(seen, page.ver).books)
      BY <1>1, <3>1, MadeIs
    <3> QED BY <2>1, <2>3, <3>2
  <2> QED BY <1>5, <2>5 DEF WholeList
<1>6. CASE page.mode # "interest"
  <2>1. ~(page.mode \in {None, "interest"})
    BY <1>4, <1>6
  <2>2. \/ ~HasVector(profile) /\ made.mode = "cold-start" /\ made.list = ColdList(a, own, read)
        \/ /\ HasVector(profile) /\ VectorsServe(taste, size, page)
           /\ made.mode = "personalized" /\ made.list = taste
        \/ /\ HasVector(profile) /\ ~VectorsServe(taste, size, page)
           /\ made.mode = "rule-only" /\ made.list = RuleList(a, own, read, profile)
    BY <1>1, <1>2, <2>1, MadeIs
  <2>3. CASE page.mode = "cold-start"
    <3>1. ~HasVector(profile) /\ promised = Take(ColdList(a, own, read), ListLimit)
      BY <1>1, <2>3 DEF Stands
    <3>2. made.mode = "cold-start" /\ WholeList(made.mode, made.list) = promised
      BY <2>2, <3>1 DEF WholeList
    <3> QED BY <1>1, <2>3, <3>1, <3>2 DEF Stands
  <2>4. CASE page.mode = "personalized"
    <3>1. HasVector(profile) /\ index.up /\ promised = taste
      BY <1>1, <1>2, <2>4 DEF Stands
    <3>2. VectorsServe(taste, size, page)
      BY <1>3, <3>1, WindowShows DEF VectorsServe
    <3>3. made.mode = "personalized" /\ WholeList(made.mode, made.list) = promised
      BY <2>2, <3>1, <3>2 DEF WholeList
    <3> QED BY <1>1, <1>2, <2>4, <3>1, <3>3 DEF Stands
  <2>5. CASE page.mode = "rule-only"
    <3>1. /\ HasVector(profile) /\ promised = RuleList(a, own, read, profile)
          /\ index.up => taste = <<>> /\ Embedded(Books, index) = {}
      BY <1>1, <1>2, <2>5 DEF Stands
    <3>2. ~VectorsServe(taste, size, page)
      BY <1>3, <3>1, WindowShows DEF VectorsServe
    <3>3. made.mode = "rule-only" /\ WholeList(made.mode, made.list) = promised
      BY <2>2, <3>1, <3>2 DEF WholeList
    <3> QED BY <1>1, <1>2, <2>5, <3>1, <3>3 DEF Stands
  <2> QED BY <1>6, <2>3, <2>4, <2>5 DEF Modes
<1> QED BY <1>5, <1>6

-----------------------------------------------------------------------------
(* The steps of the client.                                                *)

LEMMA BegunIs ==
  ASSUME NEW s, s = scroll, Fields(s), NEW made, NEW b, b = Begun(made)
  PROVE  /\ b.pc = s.pc /\ b.ask = s.ask /\ b.size = s.size /\ b.page = s.page /\ b.seen = s.seen
         /\ b.owned = s.owned /\ b.excused = s.excused /\ b.steady = s.steady
         /\ Fields(b) /\ b.promised = WholeList(made.mode, made.list) /\ b.began = s.page.issued
         /\ b.quiet = UndisturbedSince(s.ask) /\ b.split = SameSecond(s.page.issued)
<1>1. PICK promised : promised = WholeList(made.mode, made.list)
  OBVIOUS
<1>2. PICK began : began = s.page.issued
  OBVIOUS
<1>3. PICK quiet : quiet = UndisturbedSince(s.ask)
  OBVIOUS
<1>4. PICK split : split = SameSecond(s.page.issued)
  OBVIOUS
<1>5. b = [s EXCEPT !.promised = promised, !.began = began, !.quiet = quiet, !.split = split]
  BY <1>1, <1>2, <1>3, <1>4, Zenon DEF Begun, WholeList
<1>6. /\ Fields(b) /\ b.pc = s.pc /\ b.ask = s.ask /\ b.size = s.size /\ b.page = s.page
      /\ b.seen = s.seen /\ b.owned = s.owned /\ b.excused = s.excused /\ b.steady = s.steady
      /\ b.promised = promised /\ b.began = began /\ b.quiet = quiet /\ b.split = split
  BY <1>5 DEF Fields, FieldNames
<1> QED BY <1>1, <1>2, <1>3, <1>4, <1>6

\* What a reply leaves with the client, and what the first one adds.
Replied(r, s, made, reply) ==
  /\ Fields(r) /\ r.pc = (IF reply.next = None THEN "ended" ELSE "idle")
  /\ r.ask = s.ask /\ r.cursor = reply.next /\ r.last = reply /\ r.at = now
  /\ r.shown = s.shown \o reply.items
  /\ r.modes = (IF reply.status = 200 THEN s.modes \cup {made.mode} ELSE s.modes)
  /\ r.excused = s.excused /\ r.steady = s.steady

Starts(r, s, made) ==
  /\ r.promised = WholeList(made.mode, made.list) /\ r.began = s.page.issued
  /\ r.quiet <=> UndisturbedSince(s.ask)
  /\ r.split <=> SameSecond(s.page.issued)

Continues(r, s) ==
  r.promised = s.promised /\ r.began = s.began /\ r.quiet = s.quiet /\ r.split = s.split

LEMMA AnsweredIs ==
  ASSUME NEW s, s = scroll, Fields(s), NEW made, NEW reply, NEW r, r = Answered(made, reply)
  PROVE  /\ Replied(r, s, made, reply)
         /\ s.page.mode = None => Starts(r, s, made)
         /\ s.page.mode # None => Continues(r, s)
<1>1. PICK pc : pc = IF reply.next = None THEN "ended" ELSE "idle"
  OBVIOUS
<1>2. PICK modes : modes = IF reply.status = 200 THEN s.modes \cup {made.mode} ELSE s.modes
  OBVIOUS
<1>3. PICK shown : shown = s.shown \o reply.items
  OBVIOUS
<1>4. PICK next : next = reply.next
  OBVIOUS
<1>5. PICK b : b = IF s.page.mode = None THEN Begun(made) ELSE s
  OBVIOUS
<1>6. r = [b EXCEPT !.pc = pc, !.cursor = next, !.last = reply, !.at = now, !.shown = shown,
             !.modes = modes]
  BY <1>1, <1>2, <1>3, <1>4, <1>5, Zenon DEF Answered
<1>7. /\ Fields(b) /\ b.ask = s.ask /\ b.size = s.size /\ b.page = s.page /\ b.seen = s.seen
      /\ b.owned = s.owned /\ b.excused = s.excused /\ b.steady = s.steady
      /\ s.page.mode = None =>
           /\ b.promised = WholeList(made.mode, made.list) /\ b.began = s.page.issued
           /\ b.quiet = UndisturbedSince(s.ask) /\ b.split = SameSecond(s.page.issued)
      /\ s.page.mode # None =>
           b.promised = s.promised /\ b.began = s.began /\ b.quiet = s.quiet /\ b.split = s.split
  <2>1. CASE s.page.mode = None
    <3>1. b = Begun(made)
      BY <1>5, <2>1
    <3> QED BY <2>1, <3>1, BegunIs
  <2>2. CASE s.page.mode # None
    BY <1>5, <2>2
  <2> QED BY <2>1, <2>2
<1>8. /\ Fields(r) /\ r.pc = pc /\ r.cursor = next /\ r.last = reply /\ r.at = now
      /\ r.shown = shown /\ r.modes = modes
  BY <1>6, <1>7 DEF Fields, FieldNames
<1>9. /\ r.ask = b.ask /\ r.size = b.size /\ r.page = b.page /\ r.seen = b.seen /\ r.owned = b.owned
      /\ r.promised = b.promised /\ r.began = b.began /\ r.quiet = b.quiet /\ r.split = b.split
      /\ r.excused = b.excused /\ r.steady = b.steady
  BY <1>6, <1>7 DEF Fields, FieldNames
<1>10. Replied(r, s, made, reply)
  BY <1>1, <1>2, <1>3, <1>4, <1>7, <1>8, <1>9 DEF Replied
<1>11. ASSUME s.page.mode = None PROVE Starts(r, s, made)
  <2>1. /\ r.promised = WholeList(made.mode, made.list) /\ r.began = s.page.issued
        /\ r.quiet = UndisturbedSince(s.ask) /\ r.split = SameSecond(s.page.issued)
    BY <1>7, <1>9, <1>11
  <2> QED BY <2>1, Zenon DEF Starts
<1>12. ASSUME s.page.mode # None PROVE Continues(r, s)
  BY <1>7, <1>9, <1>12 DEF Continues
<1> QED BY <1>10, <1>11, <1>12

LEMMA IssueIs ==
  ASSUME NEW a \in Asks, NEW size \in Nat \ {0}, NEW page, page.offset \in Nat, page.issued \in Nat,
         NEW mode \in Modes, NEW ver \in Nat, now \in Nat, NEW c, c = Issue(a, size, page, mode, ver)
  PROVE  /\ c # None /\ c.offset = page.offset + size /\ c.offset \in Nat \ {0}
         /\ c.conditions = Conditions(a) /\ c.mode = mode /\ c.ver = ver
         /\ c.issued = Second(page.issued) /\ c.made = Second(now)
<1>1. PICK off \in Nat \ {0} : off = page.offset + size
  OBVIOUS
<1>2. PICK issued \in Nat : issued = Second(page.issued)
  BY SecondFits
<1>3. PICK at \in Nat : at = Second(now)
  BY SecondFits
<1>4. PICK asked : asked = Conditions(a)
  OBVIOUS
<1>5. c = [offset |-> off, conditions |-> asked, mode |-> mode, issued |-> issued, ver |-> ver,
           made |-> at]
  BY <1>1, <1>2, <1>3, <1>4 DEF Issue
<1>6. c \in Cursors
  <2>1. asked \in {Conditions(x) : x \in Asks}
    BY <1>4
  <2> QED BY <1>5, <2>1 DEF Cursors
<1> QED BY <1>1, <1>2, <1>3, <1>4, <1>5, <1>6, NoneAssumption

LEMMA OutcomeIs ==
  ASSUME NEW a, NEW size, NEW page, NEW made, NEW reply, reply = Outcome(a, size, page, made),
         NEW cut, cut = CutOf(made.mode, made.list, size, page), cut.more \in BOOLEAN
  PROVE  /\ reply.status = 200 /\ reply.items = cut.items
         /\ cut.more => reply.next = Issue(a, size, page, made.mode, made.ver)
         /\ ~cut.more => reply.next = None
<1>1. PICK next : next = IF cut.more THEN Issue(a, size, page, made.mode, made.ver) ELSE None
  OBVIOUS
<1>2. PICK degraded : degraded = (made.mode = "rule-only")
  OBVIOUS
<1>3. reply = [status |-> 200, mode |-> made.mode, ver |-> made.ver, items |-> cut.items,
               degraded |-> degraded, next |-> next]
  BY <1>1, <1>2, Zenon DEF Outcome, CutOf
<1> QED BY <1>1, <1>3

\* The cursor that goes with a page.
CursorFor(c, a, size, page, made) ==
  /\ c.offset = page.offset + size /\ c.offset \in Nat \ {0}
  /\ c.conditions = Conditions(a) /\ c.mode = made.mode /\ c.ver = made.ver
  /\ c.issued = Second(page.issued) /\ c.made = Second(now)

\* What it shows after the first off of the list, size of them or to the end.
Shows(reply, whole, off, size) ==
  /\ reply.next = None => SubSeq(whole, 1, off) \o reply.items = whole
  /\ reply.next # None =>
       SubSeq(whole, 1, off) \o reply.items = SubSeq(whole, 1, off + size) /\ off + size < Len(whole)

\* A page that is served: what was shown grows, and the cursor is the one for the rest.
LEMMA ServedFits ==
  ASSUME NEW a \in Asks, NEW size \in Nat \ {0}, NEW page, page.offset \in Nat, page.issued \in Nat,
         now \in Nat, NEW made, made.mode \in Modes, made.ver \in Nat, IsList(made.list),
         NEW reply, reply = Outcome(a, size, page, made)
  PROVE  /\ reply.status = 200 /\ (reply.next # None => CursorFor(reply.next, a, size, page, made))
         /\ page.offset = 0 \/ page.offset < Len(WholeList(made.mode, made.list)) =>
              Shows(reply, WholeList(made.mode, made.list), page.offset, size)
<1>1. PICK cut : cut = CutOf(made.mode, made.list, size, page)
  OBVIOUS
<1>2. cut.more \in BOOLEAN
  <2>1. CASE made.mode = "cold-start"
    <3>1. cut = LimitedWindow(made.list, size, page)
      BY <1>1, <2>1 DEF CutOf
    <3>2. PICK l \in Nat, m \in Nat : l = Len(made.list) /\ m = ListLimit
      BY ListIsFinite, FeedPagesAssumption
    <3>3. PICK n : n = Min({size, ListLimit - page.offset})
      OBVIOUS
    <3>4. n \in Int
      <4>1. size \in Int /\ m - page.offset \in Int
        OBVIOUS
      <4> QED BY <3>2, <3>3, <4>1, LeastOfTwo
    <3>5. CASE n <= 0
      BY <3>1, <3>3, <3>5 DEF LimitedWindow
    <3>6. CASE ~(n <= 0)
      <4>1. PICK more \in BOOLEAN : more = (Len(made.list) > page.offset + n /\ page.offset + n < ListLimit)
        OBVIOUS
      <4>2. PICK items : items = SubSeq(made.list, page.offset + 1, Min({page.offset + n, Len(made.list)}))
        OBVIOUS
      <4>3. cut = [items |-> items, more |-> more]
        BY <3>1, <3>3, <3>6, <4>1, <4>2, Zenon DEF LimitedWindow
      <4> QED BY <4>3
    <3> QED BY <3>5, <3>6, <3>4
  <2>2. CASE made.mode # "cold-start"
    <3>1. PICK l \in Nat : l = Len(made.list)
      BY ListIsFinite
    <3>2. PICK more \in BOOLEAN : more = (l > page.offset + size)
      <4>1. (l > page.offset + size) \in BOOLEAN
        OBVIOUS
      <4> QED BY <4>1
    <3>3. PICK items : items = SubSeq(made.list, page.offset + 1, Min({page.offset + size, Len(made.list)}))
      OBVIOUS
    <3>4. cut = [items |-> items, more |-> more]
      BY <1>1, <2>2, <3>1, <3>2, <3>3, Zenon DEF CutOf, Window
    <3> QED BY <3>4
  <2> QED BY <2>1, <2>2
<1>3. /\ reply.status = 200 /\ reply.items = cut.items
      /\ cut.more => reply.next = Issue(a, size, page, made.mode, made.ver)
      /\ ~cut.more => reply.next = None
  BY <1>1, <1>2, OutcomeIs
<1>4. PICK c : c = Issue(a, size, page, made.mode, made.ver)
  OBVIOUS
<1>5. /\ c # None /\ c.offset = page.offset + size /\ c.offset \in Nat \ {0}
      /\ c.conditions = Conditions(a) /\ c.mode = made.mode /\ c.ver = made.ver
      /\ c.issued = Second(page.issued) /\ c.made = Second(now)
  BY <1>4, IssueIs
<1>6. reply.next # None <=> cut.more
  BY <1>3, <1>4, <1>5
<1>7. reply.next # None => reply.next = c
  BY <1>3, <1>4, <1>6
<1> DEFINE whole == WholeList(made.mode, made.list)
<1>8. ASSUME page.offset = 0 \/ page.offset < Len(whole)
      PROVE  GoesOn(whole, page.offset, size, cut)
  BY <1>1, <1>8, CutGoesOn
<1>9. ASSUME page.offset = 0 \/ page.offset < Len(whole)
      PROVE  /\ ~cut.more => SubSeq(whole, 1, page.offset) \o cut.items = whole
             /\ cut.more => /\ SubSeq(whole, 1, page.offset) \o cut.items = SubSeq(whole, 1, page.offset + size)
                            /\ page.offset + size < Len(whole)
  <2> HIDE DEF whole
  <2> QED BY <1>8, <1>9, Zenon DEF GoesOn
<1> HIDE DEF whole
<1>10. reply.items = cut.items
  BY <1>3
<1>11. page.offset = 0 \/ page.offset < Len(whole) => Shows(reply, whole, page.offset, size)
  BY <1>6, <1>9, <1>10, Zenon DEF Shows
<1>12. reply.next # None => CursorFor(reply.next, a, size, page, made)
  BY <1>5, <1>7 DEF CursorFor
<1> QED BY <1>3, <1>11, <1>12, Zenon DEF whole

LEMMA RefusedIs ==
  ASSUME NEW code \in Nat
  PROVE  /\ Refused(code).status = code /\ Refused(code).next = None /\ Refused(code).items = <<>>
BY DEF Refused

LEMMA FirstPageFits ==
  ASSUME NEW s, s = scroll, SavedFit(now, saved),
         ScrollFits(s, now, Owned(past), rows, saved, profile, index), s.pc = "reading", s.cursor = None,
         NEW made, made = Made(s.ask, s.size, s.owned, s.page, s.seen),
         NEW reply, reply = Outcome(s.ask, s.size, s.page, made), NEW r, r = Answered(made, reply)
  PROVE  Fits(r, now, Owned(past), rows, saved, profile, index)
<1>1. /\ Fields(s) /\ NothingShown(s) /\ ReadsWell(s, now, Owned(past), saved)
  BY DEF ScrollFits
<1>2. /\ s.ask \in Asks /\ s.size \in Nat \ {0} /\ s.page.offset = 0 /\ s.page.mode = None
      /\ s.page.ver = 0 /\ s.page.issued \in Nat /\ s.page.issued <= now
      /\ OwnedStand(s, Owned(past)) /\ Evolved(s.seen, saved)
  BY <1>1 DEF ReadsWell, PageFits
<1>3. now \in Nat /\ (saved # None => SavedShape(saved)) /\ (s.seen # None => SavedShape(s.seen))
  BY <1>2 DEF SavedFit, Evolved
<1>4. made.mode \in Modes /\ made.ver \in Nat /\ IsList(made.list)
  <2>1. s.page.ver \in Nat
    BY <1>2
  <2> QED BY <1>2, <1>3, <2>1, MadeFits
<1>5. PICK whole : whole = WholeList(made.mode, made.list)
  OBVIOUS
<1>6. PICK size \in Nat \ {0} : size = s.size
  BY <1>2
<1>7. /\ reply.status = 200 /\ (reply.next # None => CursorFor(reply.next, s.ask, size, s.page, made))
      /\ Shows(reply, whole, 0, size)
  <2>1. PICK a \in Asks : a = s.ask
    BY <1>2
  <2>2. PICK page : page = s.page
    OBVIOUS
  <2>3. page.offset \in Nat /\ page.offset = 0 /\ page.issued \in Nat
    BY <1>2, <2>1, <2>2
  <2>4. reply = Outcome(a, size, page, made)
    BY <1>6, <2>1, <2>2
  <2>5. /\ reply.status = 200 /\ (reply.next # None => CursorFor(reply.next, a, size, page, made))
        /\ page.offset = 0 \/ page.offset < Len(WholeList(made.mode, made.list)) =>
              Shows(reply, WholeList(made.mode, made.list), page.offset, size)
    BY <1>3, <1>4, <2>3, <2>4, ServedFits
  <2> QED BY <1>5, <2>1, <2>2, <2>3, <2>5
<1>8. Replied(r, s, made, reply) /\ Starts(r, s, made)
  BY <1>1, <1>2, AnsweredIs
<1>9. /\ Fields(r) /\ r.pc = (IF reply.next = None THEN "ended" ELSE "idle")
       /\ r.ask = s.ask /\ r.cursor = reply.next /\ r.last = reply /\ r.at = now
       /\ r.modes = s.modes \cup {made.mode} /\ r.promised = whole /\ r.began = s.page.issued
  BY <1>5, <1>7, <1>8 DEF Replied, Starts
<1>10. IsList(whole)
  <2>1. CASE made.mode = "cold-start"
    BY <1>4, <1>5, <2>1, TakeIsList, FeedPagesAssumption DEF WholeList
  <2>2. CASE made.mode # "cold-start"
    BY <1>4, <1>5, <2>2 DEF WholeList
  <2> QED BY <2>1, <2>2
<1>11. r.shown = SubSeq(whole, 1, 0) \o reply.items
  <2>1. s.shown = <<>> /\ SubSeq(whole, 1, 0) = <<>>
    BY <1>1, <1>10, NothingYet DEF NothingShown
  <2>2. r.shown = s.shown \o reply.items
    BY <1>8 DEF Replied
  <2> QED BY <2>1, <2>2, Zenon
<1>12. CASE reply.next = None
  <2>1. r.shown = whole
    BY <1>7, <1>11, <1>12, Zenon DEF Shows
  <2>2. IsPrefix(r.shown, r.promised)
    BY <1>9, <1>10, <2>1, NothingYet
  <2>3. r.pc = "ended" /\ Joins(r) /\ WellCut(r)
    BY <1>7, <1>9, <1>12, <2>1, <2>2 DEF Joins, WellCut
  <2> QED BY <2>3 DEF Fits
<1>13. CASE reply.next # None
  <2>1. r.shown = SubSeq(whole, 1, size) /\ size < Len(whole)
    <3>1. SubSeq(whole, 1, 0) \o reply.items = SubSeq(whole, 1, 0 + size) /\ 0 + size < Len(whole)
      BY <1>7, <1>13, Zenon DEF Shows
    <3>2. 0 + size = size
      OBVIOUS
    <3> QED BY <1>11, <3>1, <3>2, Zenon
  <2>2. IsPrefix(r.shown, r.promised)
    <3>1. size \in 0 .. Len(whole)
      BY <1>10, <2>1, ListIsFinite
    <3>2. IsPrefix(SubSeq(whole, 1, size), whole)
      BY <1>10, <3>1, PrefixIs
    <3> QED BY <1>9, <2>1, <3>2
  <2>3. Joins(r) /\ r.last.status # 410
    BY <1>7, <1>9, <1>13, <2>2 DEF Joins
  <2>4. CursorFor(r.cursor, s.ask, size, s.page, made)
    BY <1>7, <1>9, <1>13
  <2>5. CursorFits(r, now)
    <3>1. /\ r.cursor.offset \in Nat \ {0} /\ r.cursor.ver \in Nat
          /\ r.cursor.mode \in r.modes /\ r.cursor.mode \in Modes
      BY <1>4, <1>9, <2>4 DEF CursorFor
    <3>2. /\ r.cursor.conditions = Conditions(r.ask)
          /\ r.cursor.issued = Second(r.began) /\ r.cursor.made = Second(r.at)
      BY <1>9, <2>4 DEF CursorFor
    <3>3. r.ask \in Asks /\ r.began \in Nat /\ r.began <= now /\ r.at \in Nat
      BY <1>2, <1>3, <1>9
    <3> QED BY <3>1, <3>2, <3>3 DEF CursorFits
  <2>6. ASSUME Whole(r) PROVE Undisturbed(r, Owned(past), rows, saved, profile, index)
    <3>1. Halfway(r)
      <4>1. r.cursor.offset = size
        <5>1. 0 + size = size
          OBVIOUS
        <5> QED BY <1>2, <1>7, <1>13, <1>9, <5>1 DEF CursorFor
      <4> QED BY <1>10, <1>9, <2>1, <4>1 DEF Halfway
    <3>2. ~SameSecond(s.page.issued) /\ UndisturbedSince(s.ask)
      BY <1>8, <2>6 DEF Whole, Starts
    <3>3. /\ s.ask.sent => Owned(past) = s.owned
          /\ s.seen # None => saved.version <= s.seen.version + 1
      BY <3>2 DEF UndisturbedSince
    <3>4. s.owned = OwnOf(s.ask, Owned(past))
      BY <1>2, <3>3 DEF OwnedStand, OwnOf
    <3>5. Stands(whole, made.mode, made.ver, s.ask, s.owned, RowsUntil(rows, s.page.issued),
                 saved, profile, index)
      BY <1>2, <1>3, <1>5, <3>3, FirstMade
    <3>6. r.cursor.mode = made.mode /\ r.cursor.ver = made.ver
      BY <2>4 DEF CursorFor
    <3>7. RowsUntil(rows, Second(s.page.issued)) = RowsUntil(rows, s.page.issued)
      BY <3>2 DEF SameSecond
    <3>8. Stands(r.promised, r.cursor.mode, r.cursor.ver, r.ask, OwnOf(r.ask, Owned(past)),
                 RowsUntil(rows, Second(r.began)), saved, profile, index)
      BY <1>9, <3>4, <3>5, <3>6, <3>7
    <3> QED BY <3>1, <3>8 DEF Undisturbed
  <2>7. r.pc = "idle" /\ r.cursor # None
    BY <1>9, <1>13
  <2>8. ToBeHad(r, saved, profile, index)
    <3>1. PICK page, own, seen : page = s.page /\ own = s.owned /\ seen = s.seen
      OBVIOUS
    <3>2. made = Made(s.ask, size, own, page, seen) /\ page.offset \in Nat
      BY <1>2, <1>6, <3>1
    <3>3. ModeStands(made.mode, profile, index) /\ (made.mode = "interest" => s.seen # None)
      BY <3>1, <3>2, ModeMade
    <3>4. s.seen # None => saved # None
      BY <1>2 DEF Evolved
    <3> QED BY <2>4, <3>3, <3>4 DEF ToBeHad, CursorFor
  <2>9. ScrollFits(r, now, Owned(past), rows, saved, profile, index)
    BY <1>9, <2>3, <2>6, <2>7, <2>5, <2>8 DEF ScrollFits
  <2> QED BY <2>9 DEF Fits
<1> QED BY <1>12, <1>13

\* The list of an undisturbed scroll, made again.
LEMMA MadeAgain ==
  ASSUME NEW s, SavedFit(now, saved),
         ScrollFits(s, now, Owned(past), rows, saved, profile, index), s.pc = "reading", s.cursor # None,
         NEW made, made = Made(s.ask, s.size, s.owned, s.page, s.seen), Whole(s)
  PROVE  /\ made.mode = s.page.mode /\ WholeList(made.mode, made.list) = s.promised
         /\ IsList(s.promised)
         /\ s.page.offset < Len(s.promised) /\ s.shown = SubSeq(s.promised, 1, s.page.offset)
         /\ Stands(s.promised, made.mode, made.ver, s.ask, OwnOf(s.ask, Owned(past)),
                   RowsUntil(rows, Second(s.began)), saved, profile, index)
<1>1. Fields(s) /\ CursorFits(s, now) /\ ReadsWell(s, now, Owned(past), saved)
  BY DEF ScrollFits
<1>2. /\ s.ask \in Asks /\ s.size \in Nat \ {0} /\ s.page.mode \in Modes /\ s.page.mode # None
      /\ s.page.offset = s.cursor.offset /\ s.page.mode = s.cursor.mode /\ s.page.ver = s.cursor.ver
      /\ s.page.offset \in Nat /\ s.page.ver \in Nat /\ s.began \in Nat /\ s.began <= now
      /\ s.page.issued = Second(s.began) /\ s.cursor.mode \in s.modes
      /\ OwnedStand(s, Owned(past)) /\ Evolved(s.seen, saved)
  BY <1>1, NoneAssumption DEF ReadsWell, PageFits, CursorFits
<1>3. now \in Nat /\ (saved # None => SavedShape(saved)) /\ (s.seen # None => SavedShape(s.seen))
  BY <1>2 DEF SavedFit, Evolved
<1>4. PICK size \in Nat \ {0} : size = s.size
  BY <1>2
<1>5. Undisturbed(s, Owned(past), rows, saved, profile, index)
  BY DEF ScrollFits
<1>6. /\ IsList(s.promised) /\ s.shown = SubSeq(s.promised, 1, s.page.offset) /\ s.page.offset < Len(s.promised)
      /\ Stands(s.promised, s.page.mode, s.page.ver, s.ask, OwnOf(s.ask, Owned(past)),
                RowsUntil(rows, Second(s.began)), saved, profile, index)
  BY <1>2, <1>4, <1>5 DEF Undisturbed, Halfway
<1>7. RowsUntil(rows, s.page.issued) = RowsUntil(rows, Second(s.began))
  BY <1>2
<1>8. s.owned = OwnOf(s.ask, Owned(past))
  BY <1>2 DEF OwnedStand, OwnOf, Whole
<1>9. s.page.mode = "interest" => s.seen # None /\ s.page.ver <= s.seen.version
  BY <1>1, <1>2 DEF ReadsWell
<1>10. /\ made.mode = s.page.mode /\ WholeList(made.mode, made.list) = s.promised
      /\ Stands(s.promised, made.mode, made.ver, s.ask, s.owned, RowsUntil(rows, s.page.issued),
                saved, profile, index)
  <2>1. PICK a \in Asks : a = s.ask
    BY <1>2
  <2>2. PICK page, own, seen : page = s.page /\ own = s.owned /\ seen = s.seen
    OBVIOUS
  <2>3. PICK promised : promised = s.promised
    OBVIOUS
  <2>4. Stands(promised, page.mode, page.ver, a, own, RowsUntil(rows, page.issued), saved, profile, index)
    BY <1>6, <1>7, <1>8, <2>1, <2>2, <2>3
  <2>5. made = Made(a, size, own, page, seen)
    BY <1>4, <2>1, <2>2
  <2>6. page.offset < Len(promised) /\ page.mode \in Modes /\ page.offset \in Nat /\ page.ver \in Nat
    BY <1>2, <1>4, <1>6, <2>1, <2>2, <2>3
  <2>7. page.mode = "interest" => seen # None /\ page.ver <= seen.version
    BY <1>9, <2>1, <2>2
  <2>8. Evolved(seen, saved)
    BY <1>2, <2>1, <2>2
  <2>9. saved # None => SavedShape(saved)
    BY <1>3
  <2>10. /\ made.mode = page.mode /\ WholeList(made.mode, made.list) = promised
        /\ Stands(promised, made.mode, made.ver, a, own, RowsUntil(rows, page.issued),
                  saved, profile, index)
    BY <2>4, <2>5, <2>6, <2>7, <2>8, <2>9, LaterMade, ZenonT(30)
  <2> QED BY <2>1, <2>2, <2>3, <2>10
<1> QED BY <1>6, <1>7, <1>8, <1>10

LEMMA LaterPageFits ==
  ASSUME NEW s, s = scroll, SavedFit(now, saved),
         ScrollFits(s, now, Owned(past), rows, saved, profile, index), s.pc = "reading", s.cursor # None,
         NEW made, made = Made(s.ask, s.size, s.owned, s.page, s.seen), Serves(s.page, made.mode),
         NEW reply, reply = Outcome(s.ask, s.size, s.page, made), NEW r, r = Answered(made, reply)
  PROVE  Fits(r, now, Owned(past), rows, saved, profile, index)
<1>1. Fields(s) /\ CursorFits(s, now) /\ ReadsWell(s, now, Owned(past), saved)
  BY DEF ScrollFits
<1>2. /\ s.ask \in Asks /\ s.size \in Nat \ {0} /\ s.page.mode \in Modes /\ s.page.mode # None
      /\ s.page.offset = s.cursor.offset /\ s.page.mode = s.cursor.mode /\ s.page.ver = s.cursor.ver
      /\ s.page.offset \in Nat /\ s.page.ver \in Nat /\ s.began \in Nat /\ s.began <= now
      /\ s.page.issued = Second(s.began) /\ s.cursor.mode \in s.modes
      /\ OwnedStand(s, Owned(past)) /\ Evolved(s.seen, saved)
  BY <1>1, NoneAssumption DEF ReadsWell, PageFits, CursorFits
<1>3. now \in Nat /\ (saved # None => SavedShape(saved)) /\ (s.seen # None => SavedShape(s.seen))
  BY <1>2 DEF SavedFit, Evolved
<1>4. made.mode \in Modes /\ made.ver \in Nat /\ IsList(made.list)
  BY <1>2, <1>3, MadeFits
<1>5. made.mode = s.page.mode
  BY <1>2 DEF Serves, SameMode
<1>6. PICK whole : whole = WholeList(made.mode, made.list)
  OBVIOUS
<1>7. PICK size \in Nat \ {0}, off \in Nat : size = s.size /\ off = s.page.offset
  BY <1>2
<1>8. Second(s.began) \in Nat /\ Second(Second(s.began)) = Second(s.began)
  BY <1>2, SecondFits
<1>9. /\ reply.status = 200 /\ (reply.next # None => CursorFor(reply.next, s.ask, size, s.page, made))
      /\ off < Len(whole) => Shows(reply, whole, off, size)
  <2>1. PICK a \in Asks : a = s.ask
    BY <1>2
  <2>2. PICK page : page = s.page
    OBVIOUS
  <2>3. page.offset \in Nat /\ page.offset = off /\ page.issued \in Nat
    BY <1>2, <1>7, <1>8, <2>1, <2>2
  <2>4. reply = Outcome(a, size, page, made)
    BY <1>7, <2>1, <2>2
  <2>5. /\ reply.status = 200 /\ (reply.next # None => CursorFor(reply.next, a, size, page, made))
        /\ page.offset = 0 \/ page.offset < Len(WholeList(made.mode, made.list)) =>
              Shows(reply, WholeList(made.mode, made.list), page.offset, size)
    BY <1>3, <1>4, <2>3, <2>4, ServedFits
  <2> QED BY <1>6, <2>1, <2>2, <2>3, <2>5
<1>10. Replied(r, s, made, reply) /\ Continues(r, s)
  BY <1>1, <1>2, AnsweredIs
<1>11. /\ Fields(r) /\ r.pc = (IF reply.next = None THEN "ended" ELSE "idle")
       /\ r.ask = s.ask /\ r.cursor = reply.next /\ r.last = reply /\ r.at = now
       /\ r.modes = s.modes \cup {made.mode} /\ r.promised = s.promised /\ r.began = s.began
  BY <1>9, <1>10 DEF Replied, Continues
<1>12. ASSUME Whole(s)
       PROVE  /\ IsList(s.promised) /\ whole = s.promised
              /\ off < Len(whole) /\ s.shown = SubSeq(whole, 1, off)
              /\ Stands(whole, made.mode, made.ver, s.ask, OwnOf(s.ask, Owned(past)),
                        RowsUntil(rows, Second(s.began)), saved, profile, index)
  BY <1>6, <1>7, <1>12, MadeAgain
<1>13. ASSUME Whole(s)
       PROVE  /\ reply.next = None => r.shown = whole
              /\ reply.next # None => r.shown = SubSeq(whole, 1, off + size) /\ off + size < Len(whole)
  <2>1. Shows(reply, whole, off, size) /\ s.shown = SubSeq(whole, 1, off)
    BY <1>9, <1>12, <1>13
  <2>2. r.shown = s.shown \o reply.items
    BY <1>10 DEF Replied
  <2>3. r.shown = SubSeq(whole, 1, off) \o reply.items
    BY <2>1, <2>2, Zenon
  <2> QED BY <2>1, <2>3, Zenon DEF Shows
<1>14. Whole(r) <=> Whole(s)
  BY <1>10, Zenon DEF Whole, Continues
<1>15. r.last.status = 200 /\ r.last.next = reply.next
  BY <1>9, <1>11
<1>16. CASE reply.next = None
  <2>1. ASSUME Whole(s) PROVE r.shown = r.promised /\ IsPrefix(r.shown, r.promised)
    <3>1. r.shown = whole /\ r.promised = whole /\ IsList(whole)
      BY <1>11, <1>12, <1>13, <1>16, <2>1
    <3> QED BY <3>1, NothingYet
  <2>2. r.pc = "ended" /\ Joins(r) /\ WellCut(r)
    BY <1>11, <1>14, <1>15, <1>16, <2>1 DEF Joins, WellCut
  <2> QED BY <2>2 DEF Fits
<1>17. CASE reply.next # None
  <2>1. CursorFor(r.cursor, s.ask, size, s.page, made)
    BY <1>9, <1>11, <1>17
  <2>2. r.cursor.offset = off + size /\ off + size \in Nat
    BY <1>7, <2>1 DEF CursorFor
  <2>3. ASSUME Whole(s) PROVE IsPrefix(r.shown, r.promised) /\ Halfway(r)
    <3>1. r.shown = SubSeq(whole, 1, off + size) /\ off + size < Len(whole)
          /\ r.promised = whole /\ IsList(whole)
      BY <1>11, <1>12, <1>13, <1>17, <2>3
    <3>2. off + size \in 0 .. Len(whole)
      BY <2>2, <3>1, ListIsFinite
    <3>3. IsPrefix(SubSeq(whole, 1, off + size), whole)
      BY <3>1, <3>2, PrefixIs
    <3> QED BY <2>2, <3>1, <3>3 DEF Halfway
  <2>4. Joins(r) /\ r.last.status # 410
    BY <1>14, <1>15, <1>17, <2>3 DEF Joins
  <2>5. CursorFits(r, now)
    <3>1. /\ r.cursor.offset \in Nat \ {0} /\ r.cursor.ver \in Nat
          /\ r.cursor.mode \in r.modes /\ r.cursor.mode \in Modes
      BY <1>4, <1>11, <2>1 DEF CursorFor
    <3>2. /\ r.cursor.conditions = Conditions(r.ask)
          /\ r.cursor.issued = Second(r.began) /\ r.cursor.made = Second(r.at)
      BY <1>2, <1>8, <1>11, <2>1 DEF CursorFor
    <3>3. r.ask \in Asks /\ r.began \in Nat /\ r.began <= now /\ r.at \in Nat
      BY <1>2, <1>3, <1>11
    <3> QED BY <3>1, <3>2, <3>3 DEF CursorFits
  <2>6. ASSUME Whole(r) PROVE Undisturbed(r, Owned(past), rows, saved, profile, index)
    <3>1. Halfway(r)
      BY <1>14, <2>3, <2>6
    <3>2. Stands(r.promised, made.mode, made.ver, r.ask, OwnOf(r.ask, Owned(past)),
                 RowsUntil(rows, Second(r.began)), saved, profile, index)
      BY <1>11, <1>12, <1>14, <2>6
    <3>3. r.cursor.mode = made.mode /\ r.cursor.ver = made.ver
      BY <2>1 DEF CursorFor
    <3> QED BY <3>1, <3>2, <3>3 DEF Undisturbed
  <2>7. r.pc = "idle" /\ r.cursor # None
    BY <1>11, <1>17
  <2>8. ToBeHad(r, saved, profile, index)
    <3>1. PICK page, own, seen : page = s.page /\ own = s.owned /\ seen = s.seen
      OBVIOUS
    <3>2. made = Made(s.ask, size, own, page, seen) /\ page.offset \in Nat
      BY <1>2, <1>7, <3>1
    <3>3. ModeStands(made.mode, profile, index) /\ (made.mode = "interest" => s.seen # None)
      BY <3>1, <3>2, ModeMade
    <3>4. s.seen # None => saved # None
      BY <1>2 DEF Evolved
    <3> QED BY <2>1, <3>3, <3>4 DEF ToBeHad, CursorFor
  <2>9. ScrollFits(r, now, Owned(past), rows, saved, profile, index)
    BY <1>11, <1>14, <2>4, <2>5, <2>6, <2>7, <2>8 DEF ScrollFits
  <2> QED BY <2>9 DEF Fits
<1> QED BY <1>16, <1>17

LEMMA AnswerFits ==
  ASSUME SavedFit(now, saved), ScrollFits(scroll, now, Owned(past), rows, saved, profile, index), Answer
  PROVE  FeedInv'
<1>1. PICK s : s = scroll
  OBVIOUS
<1>2. PICK made : made = Made(s.ask, s.size, s.owned, s.page, s.seen)
  OBVIOUS
<1>3. PICK reply : reply = IF Serves(s.page, made.mode) THEN Outcome(s.ask, s.size, s.page, made)
                           ELSE Refused(410)
  OBVIOUS
<1>4. PICK r : r = Answered(made, reply)
  OBVIOUS
<1>5. s.pc = "reading" /\ scroll' = r /\ UNCHANGED <<now, past, rows, profile, saved, index>>
  BY <1>1, <1>2, <1>3, <1>4, Zenon DEF Answer
<1>6. ScrollFits(s, now, Owned(past), rows, saved, profile, index)
  BY <1>1
<1>7. Fits(r, now, Owned(past), rows, saved, profile, index)
  <2>1. CASE s.cursor = None
    <3>1. s.page.mode = None
      BY <1>5, <1>6, <2>1 DEF ScrollFits, ReadsWell, PageFits
    <3>2. Serves(s.page, made.mode)
      BY <3>1 DEF Serves, SameMode
    <3>3. reply = Outcome(s.ask, s.size, s.page, made)
      BY <1>3, <3>2
    <3> QED BY <1>1, <1>2, <1>4, <1>5, <1>6, <2>1, <3>3, FirstPageFits
  <2>2. CASE s.cursor # None /\ Serves(s.page, made.mode)
    <3>1. reply = Outcome(s.ask, s.size, s.page, made)
      BY <1>3, <2>2
    <3> QED BY <1>1, <1>2, <1>4, <1>5, <1>6, <2>2, <3>1, LaterPageFits
  <2>3. CASE s.cursor # None /\ ~Serves(s.page, made.mode)
    <3>1. ~s.steady
      <4> SUFFICES ASSUME s.steady PROVE FALSE
        OBVIOUS
      <4>1. /\ CursorFits(s, now) /\ ToBeHad(s, saved, profile, index) /\ PageFits(s, now)
            /\ s.cursor.mode = "interest" => s.seen # None
        BY <1>5, <1>6, <2>3 DEF ScrollFits, ReadsWell
      <4>2. /\ s.page.mode = s.cursor.mode /\ s.page.mode \in Modes /\ s.page.offset \in Nat
            /\ s.size \in Nat \ {0} /\ ModeStands(s.page.mode, profile, index)
        BY <2>3, <4>1 DEF CursorFits, PageFits, ToBeHad
      <4>3. PICK a, size : a = s.ask /\ size = s.size /\ size \in Nat \ {0}
        BY <4>2
      <4>4. PICK page, own, seen : page = s.page /\ own = s.owned /\ seen = s.seen
        OBVIOUS
      <4>5. made = Made(a, size, own, page, seen)
        BY <1>2, <4>3, <4>4
      <4>6. /\ page.offset \in Nat /\ page.mode \in Modes /\ (page.mode = "interest" => seen # None)
            /\ ModeStands(page.mode, profile, index)
        BY <4>1, <4>2, <4>4
      <4>7. made.mode = s.page.mode
        BY <4>3, <4>4, <4>5, <4>6, ModeKeeps
      <4> QED BY <2>3, <4>7 DEF Serves, SameMode
    <3>2. reply = Refused(410)
      BY <1>3, <2>3
    <3>3. reply.status = 410 /\ reply.next = None
      BY <3>2, RefusedIs
    <3>4. s.page.mode # None
      BY <1>5, <1>6, <2>3, NoneAssumption DEF ScrollFits, ReadsWell, PageFits, CursorFits
    <3>5. Fields(s)
      BY <1>6 DEF ScrollFits
    <3>6. Replied(r, s, made, reply) /\ Continues(r, s)
      BY <1>1, <1>4, <3>4, <3>5, AnsweredIs
    <3>7. r.pc = "ended" /\ r.last = reply
      BY <3>3, <3>6 DEF Replied
    <3>8. ~r.steady
      BY <3>1, <3>6, Zenon DEF Replied
    <3> QED BY <3>3, <3>7, <3>8 DEF Fits, Joins, WellCut
  <2> QED BY <2>1, <2>2, <2>3
<1> QED BY <1>5, <1>7 DEF FeedInv

\* A later page is asked for with the request of the first.
LEMMA SameAsk ==
  ASSUME NEW a \in Asks, NEW s, NEW t, CursorFits(s, t), ~Expired(a, s.cursor),
         a.surface = s.ask.surface, a.sent = s.ask.sent
  PROVE  s.ask = a
<1>1. s.cursor.conditions = Conditions(s.ask) /\ s.ask \in Asks
  BY DEF CursorFits
<1>2. Conditions(a) = Conditions(s.ask)
  BY <1>1 DEF Expired
<1>3. a.sort = s.ask.sort /\ a.filter = s.ask.filter /\ a.min = s.ask.min
  BY <1>2 DEF Conditions
<1>4. a = [surface |-> a.surface, sort |-> a.sort, filter |-> a.filter, min |-> a.min, sent |-> a.sent]
  BY AsksAssumption
<1>5. s.ask = [surface |-> s.ask.surface, sort |-> s.ask.sort, filter |-> s.ask.filter,
               min |-> s.ask.min, sent |-> s.ask.sent]
  BY <1>1, AsksAssumption
<1> QED BY <1>3, <1>4, <1>5

\* The client asks: a refusal ends the scroll, and is excused if it is for the cursor.
LEMMA OpenFits ==
  ASSUME SavedFit(now, saved), ScrollFits(scroll, now, Owned(past), rows, saved, profile, index),
         NEW a \in Asks, NEW size \in Sizes, Open(a, size)
  PROVE  FeedInv'
<1>1. PICK s : s = scroll
  OBVIOUS
<1>2. PICK c : c = s.cursor
  OBVIOUS
<1>3. PICK r : r = scroll'
  OBVIOUS
<1>4. ScrollFits(s, now, Owned(past), rows, saved, profile, index) /\ Fields(s) /\ now \in Nat
  BY <1>1 DEF ScrollFits, SavedFit
<1>5. PICK refusal : refusal = Refusal(a, c)
  OBVIOUS
<1>6. /\ s.pc = "idle" /\ UNCHANGED <<now, past, rows, profile, saved, index>>
      /\ c # None => a.surface = s.ask.surface /\ a.sent = s.ask.sent
      /\ refusal # 0 => r = Rejected(a, c, refusal)
      /\ refusal = 0 => r = Asking(a, size, c)
  BY <1>1, <1>2, <1>3, <1>5, Zenon DEF Open
<1>7. CASE refusal # 0
  <2>1. refusal \in {400, 410}
    BY <1>5, <1>7 DEF Refusal
  <2>2. Refused(refusal).status = refusal
    BY <2>1, RefusedIs
  <2>3. PICK excused \in BOOLEAN :
          excused <=> c # None /\ (\/ now - s.at > Lifetime - TicksASecond
                                   \/ Conditions(a) # Conditions(s.ask))
    OBVIOUS
  <2>4. PICK why : why = (c # None /\ (\/ now - s.at > Lifetime - TicksASecond
                                       \/ Conditions(a) # Conditions(s.ask)))
    OBVIOUS
  <2>5. why <=> excused
    BY <2>3, <2>4, Zenon
  <2>6. PICK last : last = Refused(refusal)
    OBVIOUS
  <2>7. r = [s EXCEPT !.pc = "ended", !.ask = a, !.last = last, !.excused = why]
    BY <1>1, <1>6, <1>7, <2>4, <2>6, Zenon DEF Rejected
  <2>8. r.pc = "ended" /\ r.last = last /\ r.excused = why
    BY <1>4, <2>7 DEF Fields, FieldNames
  <2>9. Joins(r)
    <3>1. r.last.status # 200
      BY <2>1, <2>2, <2>6, <2>8
    <3> QED BY <3>1 DEF Joins
  <2>10. ASSUME refusal = 410 PROVE excused
    <3>1. c # None /\ Expired(a, c)
      BY <1>5, <2>10 DEF Refusal
    <3>2. CursorFits(s, now)
      BY <1>2, <1>4, <3>1 DEF ScrollFits
    <3>3. PICK at \in Nat : at = s.at
      BY <3>2 DEF CursorFits
    <3>4. PICK made \in Nat : made = Second(at) /\ at < made + TicksASecond
      BY SecondFits
    <3>5. c.made = made /\ c.conditions = Conditions(s.ask)
      BY <1>2, <3>2, <3>3, <3>4 DEF CursorFits
    <3>6. CASE now - made > Lifetime
      <4>1. now - at > Lifetime - TicksASecond
        BY <1>4, <3>4, <3>6, FeedPagesAssumption
      <4> QED BY <2>3, <3>1, <3>3, <4>1
    <3>7. CASE Conditions(s.ask) # Conditions(a)
      BY <2>3, <3>1, <3>7
    <3> QED BY <3>1, <3>5, <3>6, <3>7 DEF Expired
  <2>11. WellCut(r)
    <3>1. r.last.status = refusal
      BY <2>2, <2>6, <2>8
    <3>2. refusal = 410 => r.excused
      BY <2>5, <2>8, <2>10
    <3> QED BY <3>1, <3>2 DEF WellCut
  <2> QED BY <1>3, <2>8, <2>9, <2>11 DEF FeedInv, Fits
<1>8. CASE refusal = 0
  <2>1. PICK owned : owned = IF a.sent THEN Owned(past) ELSE {}
    OBVIOUS
  <2>2. PICK page : page = PageOf(c)
    OBVIOUS
  <2>3. r = [s EXCEPT !.pc = "reading", !.ask = a, !.size = size, !.page = page,
               !.seen = saved, !.owned = owned]
    BY <1>1, <1>6, <1>8, <2>1, <2>2, Zenon DEF Asking
  <2>4. /\ Fields(r) /\ r.pc = "reading" /\ r.ask = a /\ r.size = size /\ r.page = page
        /\ r.seen = saved /\ r.owned = owned
    BY <1>4, <2>3 DEF Fields, FieldNames
  <2>5. /\ r.cursor = c /\ r.last = s.last /\ r.shown = s.shown /\ r.modes = s.modes
        /\ r.promised = s.promised /\ r.quiet = s.quiet /\ r.split = s.split /\ r.began = s.began
        /\ r.at = s.at /\ r.steady = s.steady
    BY <1>2, <1>4, <2>3 DEF Fields, FieldNames
  <2>6. Whole(r) <=> Whole(s)
    BY <2>5, Zenon DEF Whole
  <2>7. ASSUME c # None PROVE CursorFits(s, now) /\ s.ask = a
    <3>1. CursorFits(s, now)
      BY <1>2, <1>4, <2>7 DEF ScrollFits
    <3>2. ~Expired(a, c)
      BY <1>5, <1>8, <2>7 DEF Refusal
    <3>3. s.ask = a
      BY <1>2, <1>6, <2>7, <3>1, <3>2, SameAsk
    <3> QED BY <3>1, <3>3
  <2>8. /\ c = None => NothingShown(r)
        /\ c # None => CursorFits(r, now) /\ ToBeHad(r, saved, profile, index)
    <3>1. CASE c = None
      <4>1. NothingShown(s)
        BY <1>2, <1>4, <3>1 DEF ScrollFits
      <4> QED BY <2>5, <3>1, <4>1 DEF NothingShown
    <3>2. CASE c # None
      <4>1. CursorFits(s, now) /\ s.ask = a /\ ToBeHad(s, saved, profile, index)
        BY <1>2, <1>4, <2>7, <3>2 DEF ScrollFits
      <4>2. CursorFits(r, now)
        BY <1>2, <2>4, <2>5, <3>2, <4>1 DEF CursorFits
      <4>3. ToBeHad(r, saved, profile, index)
        <5>1. r.cursor = s.cursor /\ r.steady = s.steady
          BY <1>2, <2>5
        <5> QED BY <4>1, <5>1, Zenon DEF ToBeHad
      <4> QED BY <3>2, <4>2, <4>3
    <3> QED BY <3>1, <3>2
  <2>9. PageFits(r, now)
    <3>1. size \in Nat \ {0}
      BY FeedPagesAssumption
    <3>2. CASE c = None
      <4>1. page = [offset |-> 0, mode |-> None, issued |-> now, ver |-> 0]
        BY <2>2, <3>2 DEF PageOf
      <4> QED BY <1>4, <2>4, <2>5, <3>1, <3>2, <4>1 DEF PageFits
    <3>3. CASE c # None
      <4>1. page = [offset |-> c.offset, mode |-> c.mode, issued |-> c.issued, ver |-> c.ver]
        BY <2>2, <3>3 DEF PageOf
      <4> QED BY <2>4, <2>5, <3>1, <3>3, <4>1 DEF PageFits
    <3> QED BY <3>2, <3>3
  <2>10. OwnedStand(r, Owned(past))
    BY <2>1, <2>4 DEF OwnedStand
  <2>11. Evolved(r.seen, saved)
    <3>1. saved # None => SavedShape(saved) /\ saved.version \in Nat
      BY SavedFits DEF SavedFit
    <3> QED BY <2>4, <3>1 DEF Evolved
  <2>12. ASSUME c # None, Whole(s)
         PROVE  Undisturbed(r, Owned(past), rows, saved, profile, index)
    <3>1. Undisturbed(s, Owned(past), rows, saved, profile, index) /\ s.ask = a
      BY <1>2, <1>4, <2>7, <2>12 DEF ScrollFits
    <3> QED BY <1>2, <2>4, <2>5, <3>1 DEF Undisturbed, Halfway
  <2>13. ASSUME c # None, Whole(s), c.mode = "interest"
         PROVE  c.ver <= saved.version
    <3>1. c.ver \in Nat /\ saved.version \in {c.ver, c.ver + 1}
      BY <1>2, <2>5, <2>7, <2>12, <2>13 DEF Undisturbed, Stands, CursorFits
    <3> QED BY <3>1
  <2>14. ReadsWell(r, now, Owned(past), saved)
    <3>1. c # None /\ c.mode = "interest" => saved # None
      BY <2>5, <2>8 DEF ToBeHad
    <3> QED BY <2>4, <2>5, <2>6, <2>9, <2>10, <2>11, <2>13, <3>1 DEF ReadsWell
  <2>15. Joins(r) /\ r.last.status # 410
    BY <1>4, <2>5, <2>6 DEF Joins, ScrollFits
  <2>16. ScrollFits(r, now, Owned(past), rows, saved, profile, index)
    BY <2>4, <2>5, <2>6, <2>8, <2>12, <2>14, <2>15 DEF ScrollFits
  <2> QED BY <1>3, <1>6, <2>16 DEF FeedInv, Fits
<1> QED BY <1>7, <1>8

\* A failed page leaves the cursor as it was.
LEMMA FailFits ==
  ASSUME SavedFit(now, saved), ScrollFits(scroll, now, Owned(past), rows, saved, profile, index), Fail
  PROVE  FeedInv'
<1>1. PICK s, r : s = scroll /\ r = scroll'
  OBVIOUS
<1>2. PICK last : last = Refused(500)
  OBVIOUS
<1>3. r = [s EXCEPT !.pc = "idle", !.last = last] /\ UNCHANGED <<now, past, rows, profile, saved, index>>
  BY <1>1, <1>2 DEF Fail
<1>4. Fields(s)
  BY <1>1 DEF ScrollFits
<1>5. /\ Fields(r) /\ r.pc = "idle" /\ r.last = last /\ r.ask = s.ask /\ r.cursor = s.cursor
      /\ r.shown = s.shown /\ r.modes = s.modes /\ r.promised = s.promised /\ r.quiet = s.quiet
      /\ r.split = s.split /\ r.began = s.began /\ r.at = s.at /\ r.steady = s.steady
  BY <1>3, <1>4 DEF Fields, FieldNames
<1>6. Whole(r) <=> Whole(s)
  BY <1>5, Zenon DEF Whole
<1>7. r.last.status = 500
  BY <1>2, <1>5, RefusedIs
<1>8. /\ r.cursor = None => NothingShown(r)
      /\ r.cursor # None => CursorFits(r, now) /\ ToBeHad(r, saved, profile, index)
  <2>1. r.cursor = None => NothingShown(r)
    BY <1>1, <1>5 DEF ScrollFits, NothingShown
  <2>2. ASSUME r.cursor # None PROVE CursorFits(s, now) /\ ToBeHad(s, saved, profile, index)
    BY <1>1, <1>5, <2>2 DEF ScrollFits
  <2>3. ASSUME r.cursor # None PROVE CursorFits(r, now)
    BY <1>5, <2>2, <2>3 DEF CursorFits
  <2>4. ASSUME r.cursor # None PROVE ToBeHad(r, saved, profile, index)
    <3>1. r.cursor = s.cursor /\ r.steady = s.steady
      BY <1>5
    <3> QED BY <2>2, <2>4, <3>1, Zenon DEF ToBeHad
  <2> QED BY <2>1, <2>3, <2>4
<1>9. ASSUME r.cursor # None, Whole(r) PROVE Undisturbed(r, Owned(past), rows, saved, profile, index)
  <2>1. Undisturbed(s, Owned(past), rows, saved, profile, index)
    BY <1>1, <1>5, <1>6, <1>9 DEF ScrollFits
  <2> QED BY <1>5, <2>1 DEF Undisturbed, Halfway
<1>10. ScrollFits(r, now, Owned(past), rows, saved, profile, index)
  BY <1>5, <1>7, <1>8, <1>9 DEF ScrollFits, Joins
<1> QED BY <1>1, <1>3, <1>10 DEF FeedInv, Fits

-----------------------------------------------------------------------------
(* What goes on meanwhile.                                                 *)

\* The scroll but for whether it is quiet and steady.
Hushed(r, s) ==
  /\ Fields(r) /\ r.pc = s.pc /\ r.ask = s.ask /\ r.size = s.size /\ r.cursor = s.cursor
  /\ r.page = s.page /\ r.seen = s.seen /\ r.owned = s.owned /\ r.last = s.last
  /\ r.shown = s.shown /\ r.modes = s.modes /\ r.promised = s.promised
  /\ r.split = s.split /\ r.began = s.began /\ r.at = s.at /\ r.excused = s.excused
  /\ r.quiet => s.quiet
  /\ r.steady => s.steady

LEMMA HushedIs ==
  ASSUME NEW s, Fields(s), NEW quiet, quiet => s.quiet, NEW r, r = [s EXCEPT !.quiet = quiet]
  PROVE  Hushed(r, s) /\ r.quiet = quiet /\ r.steady = s.steady
<1>1. r.steady = s.steady /\ r.quiet = quiet
  BY DEF Fields, FieldNames
<1>2. r.steady => s.steady
  BY <1>1, Zenon
<1> QED BY <1>1, <1>2 DEF Fields, FieldNames, Hushed

\* What has to be seen to when the world moves on: the books sent along, the saved list, what an
\* undisturbed scroll is made of, and the mode of a steady one.
LEMMA MeanwhileFits ==
  ASSUME NEW s, NEW r, Hushed(r, s), NEW t \in Nat, NEW u \in Nat, t <= u,
         NEW sent, NEW hist, NEW list, NEW p, NEW i, ScrollFits(s, t, sent, hist, list, p, i),
         NEW sent2, NEW hist2, NEW list2, NEW p2, NEW i2,
         s.pc = "reading" => OwnedStand(r, sent2) /\ Evolved(s.seen, list2),
         s.cursor # None => ToBeHad(r, list2, p2, i2),
         s.cursor # None /\ Whole(r) => Undisturbed(r, sent2, hist2, list2, p2, i2)
  PROVE  ScrollFits(r, u, sent2, hist2, list2, p2, i2)
<1>1. Whole(r) => Whole(s)
  BY Zenon DEF Hushed, Whole
<1>2. /\ r.cursor = None => NothingShown(r)
      /\ r.cursor # None => CursorFits(r, u) /\ ToBeHad(r, list2, p2, i2)
  <2>1. CASE r.cursor = None
    BY <2>1 DEF ScrollFits, NothingShown, Hushed
  <2>2. CASE r.cursor # None
    <3>1. CursorFits(s, t) /\ s.cursor # None
      BY <2>2 DEF ScrollFits, Hushed
    <3>2. CursorFits(r, u)
      BY <3>1, <2>2 DEF CursorFits, Hushed
    <3> QED BY <2>2, <3>1, <3>2
  <2> QED BY <2>1, <2>2
<1>3. ASSUME r.pc = "reading" PROVE ReadsWell(r, u, sent2, list2)
  <2>1. ReadsWell(s, t, sent, list)
    BY <1>3 DEF ScrollFits, Hushed
  <2>2. PageFits(r, u)
    BY <2>1 DEF ReadsWell, PageFits, Hushed
  <2>3. OwnedStand(r, sent2) /\ Evolved(r.seen, list2)
    BY <1>3 DEF Hushed
  <2>4. r.cursor # None /\ r.cursor.mode = "interest" =>
          r.seen # None /\ (Whole(r) => r.cursor.ver <= r.seen.version)
    BY <1>1, <2>1 DEF ReadsWell, Hushed
  <2> QED BY <2>2, <2>3, <2>4 DEF ReadsWell
<1>4. Joins(r) /\ r.last.status # 410
  BY <1>1 DEF ScrollFits, Joins, Hushed
<1>5. Fields(r) /\ r.pc \in {"idle", "reading"}
  BY DEF ScrollFits, Hushed
<1>6. r.cursor # None /\ Whole(r) => Undisturbed(r, sent2, hist2, list2, p2, i2)
  BY DEF Hushed
<1> QED BY <1>2, <1>3, <1>4, <1>5, <1>6 DEF ScrollFits

LEMMA HushedOwned ==
  ASSUME NEW s, NEW r, Hushed(r, s), NEW sent, OwnedStand(s, sent)
  PROVE  OwnedStand(r, sent)
BY DEF Hushed, OwnedStand

\* The mode is still to be had if what it depends on stands.
LEMMA HushedMode ==
  ASSUME NEW s, NEW r, Hushed(r, s), NEW list, NEW list2, list # None => list2 # None,
         NEW p, NEW i, ToBeHad(s, list, p, i)
  PROVE  ToBeHad(r, list2, p, i)
BY DEF Hushed, ToBeHad

\* What the backend has and would send may change, but not for a quiet scroll that it sends it for.
LEMMA PastStepFits ==
  ASSUME SavedFit(now, saved), ScrollFits(scroll, now, Owned(past), rows, saved, profile, index),
         now' = now \/ now' = now + 1,
         Hushed(scroll', scroll),
         scroll.ask # None /\ scroll'.quiet /\ scroll.ask.sent => Owned(past') = Owned(past),
         UNCHANGED <<rows, profile, saved, index>>
  PROVE  FeedInv'
<1>1. PICK s, r : s = scroll /\ r = scroll'
  OBVIOUS
<1>2. PICK sent, sent2 : sent = Owned(past) /\ sent2 = Owned(past')
  OBVIOUS
<1>3. ScrollFits(s, now, sent, rows, saved, profile, index) /\ Hushed(r, s)
  BY <1>1, <1>2
<1>4. PICK t \in Nat, u \in Nat : t = now /\ u = now' /\ t <= u
  <2>1. now \in Nat /\ now + 1 \in Nat /\ now <= now + 1 /\ now <= now
    BY DEF SavedFit
  <2> QED BY <2>1
<1>5. s.ask # None /\ r.quiet /\ s.ask.sent => sent2 = sent
  BY <1>1, <1>2
<1>6. ASSUME s.pc = "reading" PROVE OwnedStand(r, sent2) /\ Evolved(s.seen, saved)
  <2>1. OwnedStand(s, sent) /\ Evolved(s.seen, saved) /\ s.ask # None
    BY <1>3, <1>6, NoneAssumption DEF ScrollFits, ReadsWell, PageFits
  <2>2. OwnedStand(r, sent)
    BY <1>3, <2>1, HushedOwned
  <2>3. r.ask = s.ask
    BY <1>3 DEF Hushed
  <2> QED BY <1>5, <2>1, <2>2, <2>3 DEF OwnedStand
<1>7. ASSUME s.cursor # None PROVE ToBeHad(r, saved, profile, index)
  BY <1>3, <1>7, HushedMode DEF ScrollFits
<1>8. ASSUME s.cursor # None, Whole(r) PROVE Undisturbed(r, sent2, rows, saved, profile, index)
  <2>1. Whole(s) /\ r.quiet
    BY <1>3, <1>8, Zenon DEF Hushed, Whole
  <2>2. Undisturbed(s, sent, rows, saved, profile, index) /\ s.ask # None
    BY <1>3, <1>8, <2>1, NoneAssumption DEF ScrollFits, CursorFits
  <2>3. OwnOf(s.ask, sent2) = OwnOf(s.ask, sent)
    BY <1>5, <2>1, <2>2 DEF OwnOf
  <2>4. Undisturbed(s, sent2, rows, saved, profile, index)
    BY <2>2, <2>3 DEF Undisturbed
  <2> QED BY <1>3, <2>4 DEF Undisturbed, Halfway, Hushed
<1>9. ScrollFits(r, u, sent2, rows, saved, profile, index)
  <2>1. ScrollFits(s, t, sent, rows, saved, profile, index)
    BY <1>3, <1>4
  <2> QED BY <1>3, <1>4, <1>6, <1>7, <1>8, <2>1, MeanwhileFits
<1>10. SavedFit(u, saved)
  BY DEF SavedFit
<1> QED BY <1>1, <1>2, <1>4, <1>9, <1>10 DEF FeedInv, Fits

LEMMA TickFits ==
  ASSUME SavedFit(now, saved), ScrollFits(scroll, now, Owned(past), rows, saved, profile, index), Tick
  PROVE  FeedInv'
<1>1. now' = now + 1 /\ scroll' = scroll /\ UNCHANGED <<past, rows, profile, saved, index>>
  BY DEF Tick
<1>2. Hushed(scroll, scroll)
  BY DEF Hushed, ScrollFits
<1> QED BY <1>1, <1>2, PastStepFits

\* A change of what the backend would send disturbs a scroll that it sends its books for.
LEMMA DisturbsOwnedIs ==
  ASSUME Fields(scroll), NEW hist, scroll' = DisturbsOwned(hist)
  PROVE  /\ Hushed(scroll', scroll)
         /\ scroll.ask # None /\ scroll'.quiet /\ scroll.ask.sent => Owned(hist) = Owned(past)
<1>1. PICK s, r : s = scroll /\ r = scroll'
  OBVIOUS
<1>2. PICK quiet : quiet = (s.quiet /\ (s.ask # None /\ s.ask.sent => Owned(hist) = Owned(past)))
  OBVIOUS
<1>3. r = [s EXCEPT !.quiet = quiet]
  BY <1>1, <1>2, Zenon DEF DisturbsOwned
<1>4. quiet => s.quiet
  BY <1>2, Zenon
<1>5. Hushed(r, s) /\ r.quiet = quiet
  BY <1>1, <1>3, <1>4, HushedIs
<1>6. s.ask # None /\ r.quiet /\ s.ask.sent => Owned(hist) = Owned(past)
  BY <1>2, <1>5, Zenon
<1> QED BY <1>1, <1>5, <1>6

LEMMA HistoryStepFits ==
  ASSUME SavedFit(now, saved), ScrollFits(scroll, now, Owned(past), rows, saved, profile, index),
         \/ \E h : AddToHistory(h)
         \/ \E x : ChangeStatus(x)
  PROVE  FeedInv'
<1>1. /\ scroll' = DisturbsOwned(past') /\ (now' = now \/ now' = now + 1)
      /\ UNCHANGED <<rows, profile, saved, index>>
  BY DEF AddToHistory, ChangeStatus
<1>2. Fields(scroll)
  BY DEF ScrollFits
<1>3. PICK hist : hist = past'
  OBVIOUS
<1>4. /\ Hushed(scroll', scroll)
      /\ scroll.ask # None /\ scroll'.quiet /\ scroll.ask.sent => Owned(hist) = Owned(past)
  BY <1>1, <1>2, <1>3, DisturbsOwnedIs
<1> QED BY <1>1, <1>3, <1>4, PastStepFits

\* Where the books are sent along, what the rows say is only in the tag weights.
LEMMA SentStands ==
  ASSUME NEW a, a.sent, NEW own, NEW read, NEW read2, NEW promised, NEW ver, NEW list, NEW p, NEW i,
         NEW mode, mode \notin {"personalized", "rule-only"},
         Stands(promised, mode, ver, a, own, read, list, p, i)
  PROVE  Stands(promised, mode, ver, a, own, read2, list, p, i)
<1>1. Excluded(a, own, read) = own /\ Excluded(a, own, read2) = own
  BY DEF Excluded
<1>2. ASSUME NEW l PROVE SavedList(a, own, read, l) = SavedList(a, own, read2, l)
  <2>1. Kept(a, own, read, l) = Kept(a, own, read2, l)
    BY <1>1 DEF Kept
  <2> QED BY <2>1 DEF SavedList
<1>3. ColdList(a, own, read) = ColdList(a, own, read2)
  <2> DEFINE ColdOf(all) ==
        LET order == CASE a.sort = "match" -> ByKey({<<PopularKey(b), b>> : b \in all})
                       [] a.sort = "newest" -> ByKey({<<<<-b.year, b.id>>, b>> : b \in all})
                       [] a.sort = "price_asc" -> ByProduct(all)
        IN IF a.min > 0 THEN <<>> ELSE [k \in DOMAIN order |-> Item(order[k], 0)]
  <2>1. Eligible(a, own, read) = Eligible(a, own, read2)
    BY <1>1 DEF Eligible
  <2>2. /\ ColdList(a, own, read) = ColdOf(Eligible(a, own, read))
        /\ ColdList(a, own, read2) = ColdOf(Eligible(a, own, read2))
    BY DEF ColdList, Ordered
  <2> HIDE DEF ColdOf
  <2> QED BY <2>1, <2>2
<1> QED BY <1>2, <1>3 DEF Stands

\* A late row leaves what was read so far, or disturbs.
LEMMA ReplicaStepFits ==
  ASSUME SavedFit(now, saved), ScrollFits(scroll, now, Owned(past), rows, saved, profile, index),
         NEW x, Replicate(x)
  PROVE  FeedInv'
<1>1. PICK s, r, sent, hist : s = scroll /\ r = scroll' /\ sent = Owned(past) /\ hist = rows'
  OBVIOUS
<1>2. ScrollFits(s, now, sent, rows, saved, profile, index) /\ Fields(s)
  BY <1>1 DEF ScrollFits
<1>3. UNCHANGED <<now, past, profile, saved, index>> /\ scroll' = DisturbsRows(hist)
  BY <1>1 DEF Replicate
<1>4. PICK quiet :
        quiet = (s.quiet /\ (\/ s.ask.sent /\ s.modes \cap {"personalized", "rule-only"} = {}
                             \/ RowsUntil(hist, Second(s.began)) = RowsUntil(rows, Second(s.began))))
  OBVIOUS
<1>5. r = [s EXCEPT !.quiet = quiet]
  BY <1>1, <1>3, <1>4, Zenon DEF DisturbsRows
<1>6. Hushed(r, s) /\ r.quiet = quiet
  <2>1. quiet => s.quiet
    BY <1>4, Zenon
  <2> QED BY <1>2, <1>5, <2>1, HushedIs
<1>7. r.quiet => \/ s.ask.sent /\ s.modes \cap {"personalized", "rule-only"} = {}
                 \/ RowsUntil(hist, Second(s.began)) = RowsUntil(rows, Second(s.began))
  BY <1>4, <1>6, Zenon
<1>8. ASSUME s.pc = "reading" PROVE OwnedStand(r, sent) /\ Evolved(s.seen, saved)
  BY <1>2, <1>6, <1>8, HushedOwned DEF ScrollFits, ReadsWell
<1>9. ASSUME s.cursor # None PROVE ToBeHad(r, saved, profile, index)
  BY <1>2, <1>6, <1>9, HushedMode DEF ScrollFits
<1>10. ASSUME s.cursor # None, Whole(r) PROVE Undisturbed(r, sent, hist, saved, profile, index)
  <2>1. Whole(s) /\ r.quiet
    BY <1>6, <1>10, Zenon DEF Hushed, Whole
  <2>2. Undisturbed(s, sent, rows, saved, profile, index) /\ CursorFits(s, now)
    BY <1>2, <1>10, <2>1 DEF ScrollFits
  <2>3. Stands(s.promised, s.cursor.mode, s.cursor.ver, s.ask, OwnOf(s.ask, sent),
               RowsUntil(rows, Second(s.began)), saved, profile, index)
    BY <2>2 DEF Undisturbed
  <2>4. PICK read, read2 : read = RowsUntil(rows, Second(s.began)) /\ read2 = RowsUntil(hist, Second(s.began))
    OBVIOUS
  <2>5. Stands(s.promised, s.cursor.mode, s.cursor.ver, s.ask, OwnOf(s.ask, sent),
               read2, saved, profile, index)
    <3>1. CASE read2 = read
      BY <2>3, <2>4, <3>1
    <3>2. CASE s.ask.sent /\ s.modes \cap {"personalized", "rule-only"} = {}
      <4>1. s.cursor.mode \notin {"personalized", "rule-only"}
        BY <2>2, <3>2 DEF CursorFits
      <4> QED BY <2>3, <2>4, <3>2, <4>1, SentStands
    <3> QED BY <1>7, <2>1, <2>4, <3>1, <3>2
  <2>6. Undisturbed(s, sent, hist, saved, profile, index)
    BY <2>2, <2>4, <2>5 DEF Undisturbed
  <2> QED BY <1>6, <2>6 DEF Undisturbed, Halfway, Hushed
<1>11. PICK t \in Nat : t = now /\ t <= t
  <2>1. now \in Nat /\ now <= now
    BY DEF SavedFit
  <2> QED BY <2>1
<1>12. ScrollFits(r, t, sent, hist, saved, profile, index)
  <2>1. ScrollFits(s, t, sent, rows, saved, profile, index)
    BY <1>2, <1>11
  <2> QED BY <1>6, <1>8, <1>9, <1>10, <1>11, <2>1, MeanwhileFits
<1> QED BY <1>1, <1>3, <1>11, <1>12 DEF FeedInv, Fits

\* A change of what only the lists of these modes are made of; it sways which mode there is or not.
LEMMA DisturbsFits ==
  ASSUME SavedFit(now, saved), ScrollFits(scroll, now, Owned(past), rows, saved, profile, index),
         NEW modes, NEW p, NEW i, NEW sways, scroll' = Disturbs(modes, sways),
         ~sways => (HasVector(p) <=> HasVector(profile)) /\ (Answering(i) <=> Answering(index)),
         profile' = p, index' = i, UNCHANGED <<now, past, rows, saved>>,
         {"personalized", "rule-only"} \subseteq modes, p # profile => "cold-start" \in modes
  PROVE  FeedInv'
<1>1. PICK s, r, sent : s = scroll /\ r = scroll' /\ sent = Owned(past)
  OBVIOUS
<1>2. PICK apart : apart = (s.modes \cap modes = {})
  OBVIOUS
<1>3. PICK quiet, steady : quiet = (s.quiet /\ apart) /\ steady = (s.steady /\ (apart \/ ~sways))
  OBVIOUS
<1>4. r = [s EXCEPT !.quiet = quiet, !.steady = steady]
  BY <1>1, <1>2, <1>3, Zenon DEF Disturbs
<1>5. ScrollFits(s, now, sent, rows, saved, profile, index) /\ Fields(s)
  BY <1>1 DEF ScrollFits
<1>6. Hushed(r, s) /\ r.quiet = quiet /\ r.steady = steady
  <2>1. (quiet => s.quiet) /\ (steady => s.steady)
    BY <1>3, Zenon
  <2> QED BY <1>4, <1>5, <2>1 DEF Fields, FieldNames, Hushed
<1>7. (r.quiet => s.modes \cap modes = {}) /\ (r.steady => s.modes \cap modes = {} \/ ~sways)
  BY <1>2, <1>3, <1>6, Zenon
<1>8. ASSUME s.pc = "reading" PROVE OwnedStand(r, sent) /\ Evolved(s.seen, saved)
  BY <1>5, <1>6, <1>8, HushedOwned DEF ScrollFits, ReadsWell
<1>9. ASSUME s.cursor # None PROVE ToBeHad(r, saved, p, i)
  <2>1. ToBeHad(s, saved, profile, index) /\ CursorFits(s, now)
    BY <1>5, <1>9 DEF ScrollFits
  <2>2. r.cursor = s.cursor /\ (r.steady => s.steady)
    BY <1>6 DEF Hushed
  <2>3. ASSUME r.steady PROVE ModeStands(s.cursor.mode, p, i)
    <3>1. ModeStands(s.cursor.mode, profile, index)
      BY <2>1, <2>2, <2>3 DEF ToBeHad
    <3>2. CASE s.modes \cap modes = {}
      <4>1. s.cursor.mode \notin modes
        BY <2>1, <3>2 DEF CursorFits
      <4> QED BY <3>1, <4>1 DEF ModeStands
    <3>3. CASE ~sways
      BY <3>1, <3>3 DEF ModeStands
    <3> QED BY <1>7, <2>3, <3>2, <3>3
  <2> QED BY <2>1, <2>2, <2>3 DEF ToBeHad
<1>10. ASSUME s.cursor # None, Whole(r) PROVE Undisturbed(r, sent, rows, saved, p, i)
  <2>1. Whole(s) /\ r.quiet
    BY <1>6, <1>10, Zenon DEF Hushed, Whole
  <2>2. Undisturbed(s, sent, rows, saved, profile, index) /\ CursorFits(s, now)
    BY <1>5, <1>10, <2>1 DEF ScrollFits
  <2>3. s.cursor.mode \in Modes /\ s.cursor.mode \notin modes
    BY <1>7, <2>1, <2>2 DEF CursorFits
  <2>4. Stands(s.promised, s.cursor.mode, s.cursor.ver, s.ask, OwnOf(s.ask, sent),
               RowsUntil(rows, Second(s.began)), saved, profile, index)
    BY <2>2 DEF Undisturbed
  <2>5. Stands(s.promised, s.cursor.mode, s.cursor.ver, s.ask, OwnOf(s.ask, sent),
               RowsUntil(rows, Second(s.began)), saved, p, i)
    BY <2>3, <2>4 DEF Stands
  <2> QED BY <1>6, <2>2, <2>5 DEF Undisturbed, Halfway, Hushed
<1>11. PICK t \in Nat : t = now /\ t <= t
  <2>1. now \in Nat /\ now <= now
    BY DEF SavedFit
  <2> QED BY <2>1
<1>12. ScrollFits(r, t, sent, rows, saved, p, i)
  <2>1. ScrollFits(s, t, sent, rows, saved, profile, index)
    BY <1>5, <1>11
  <2> QED BY <1>6, <1>8, <1>9, <1>10, <1>11, <2>1, MeanwhileFits
<1> QED BY <1>1, <1>11, <1>12 DEF FeedInv, Fits

LEMMA ProfileStepFits ==
  ASSUME SavedFit(now, saved), ScrollFits(scroll, now, Owned(past), rows, saved, profile, index),
         NEW p, NewProfile(p)
  PROVE  FeedInv'
<1>1. PICK modes : modes = {"cold-start", "personalized", "rule-only"}
  OBVIOUS
<1>2. PICK sways : sways = (HasVector(p) # Personal)
  OBVIOUS
<1>3. /\ scroll' = Disturbs(modes, sways) /\ profile' = p /\ index' = index
      /\ UNCHANGED <<now, past, rows, saved>>
  BY <1>1, <1>2, Zenon DEF NewProfile
<1>4. {"personalized", "rule-only"} \subseteq modes /\ "cold-start" \in modes
  BY <1>1
<1>5. ~sways => (HasVector(p) <=> HasVector(profile))
  BY <1>2, Zenon DEF Personal
<1> QED BY <1>3, <1>4, <1>5, DisturbsFits

LEMMA IndexStepFits ==
  ASSUME SavedFit(now, saved), ScrollFits(scroll, now, Owned(past), rows, saved, profile, index),
         NEW i, NewIndex(i)
  PROVE  FeedInv'
<1>1. PICK modes : modes = {"personalized", "rule-only"}
  OBVIOUS
<1>2. PICK sways : sways = (Answering(i) # Answering(index))
  OBVIOUS
<1>3. /\ scroll' = Disturbs(modes, sways) /\ index' = i /\ profile' = profile
      /\ UNCHANGED <<now, past, rows, saved>>
  BY <1>1, <1>2, Zenon DEF NewIndex
<1>4. {"personalized", "rule-only"} \subseteq modes
  BY <1>1
<1>5. ~sways => (Answering(i) <=> Answering(index))
  BY <1>2, Zenon
<1> QED BY <1>3, <1>4, <1>5, DisturbsFits

\* A rebuild keeps the books of the version before, so a scroll outlives the first one.
LEMMA ListStepFits ==
  ASSUME SavedFit(now, saved), ScrollFits(scroll, now, Owned(past), rows, saved, profile, index),
         NEW l \in SavedLists, NewList(l)
  PROVE  FeedInv'
<1>1. PICK s, r, new : s = scroll /\ r = scroll' /\ new = saved'
  OBVIOUS
<1>2. ScrollFits(s, now, Owned(past), rows, saved, profile, index) /\ Fields(s) /\ now \in Nat
  BY <1>1 DEF ScrollFits, SavedFit
<1>3. UNCHANGED <<now, past, rows, profile, index>>
  BY DEF NewList
<1>4. CASE saved = None
  <2>1. r = s /\ new = [books |-> l, version |-> 1, prev |-> None]
    BY <1>1, <1>4, Zenon DEF NewList
  <2>2. new.books = l /\ new.version = 1 /\ new.prev = None
    BY <2>1
  <2>3. SavedShape(new)
    <3>1. new \in Saves
      BY <2>1 DEF Saves
    <3> QED BY <2>2, <3>1 DEF SavedShape
  <2>4. SavedFit(now, new)
    BY <2>3 DEF SavedFit
  <2>5. Hushed(r, s)
    BY <1>2, <2>1 DEF Hushed
  <2>6. ASSUME s.pc = "reading" PROVE OwnedStand(r, Owned(past)) /\ Evolved(s.seen, new)
    <3>1. OwnedStand(s, Owned(past)) /\ Evolved(s.seen, saved)
      BY <1>2, <2>6 DEF ScrollFits, ReadsWell
    <3>2. s.seen = None
      BY <1>4, <3>1 DEF Evolved
    <3> QED BY <2>1, <3>1, <3>2 DEF Evolved
  <2>7. ASSUME s.cursor # None, Whole(r) PROVE Undisturbed(r, Owned(past), rows, new, profile, index)
    <3>1. Undisturbed(s, Owned(past), rows, saved, profile, index)
      BY <1>2, <2>1, <2>7 DEF ScrollFits
    <3> QED BY <1>4, <2>1, <3>1 DEF Undisturbed, Stands
  <2>8. ScrollFits(r, now, Owned(past), rows, new, profile, index)
    <3>1. PICK t \in Nat : t = now /\ t <= t
      <4>1. now <= now
        BY <1>2
      <4> QED BY <1>2, <4>1
    <3>2. s.cursor # None => ToBeHad(r, new, profile, index)
      BY <1>2, <1>4, <2>1 DEF ScrollFits, ToBeHad
    <3>3. ScrollFits(r, t, Owned(past), rows, new, profile, index)
      BY <1>2, <2>5, <2>6, <2>7, <3>1, <3>2, MeanwhileFits
    <3> QED BY <3>1, <3>3
  <2> QED BY <1>1, <1>3, <2>4, <2>8 DEF FeedInv, Fits
<1>5. CASE saved # None
  <2>1. r = DisturbsSaved /\ new = [books |-> l, version |-> saved.version + 1, prev |-> saved.books]
    BY <1>1, <1>5, Zenon DEF NewList
  <2>2. SavedShape(saved) /\ saved.version \in Nat \ {0} /\ saved.books \in SavedLists
    BY <1>5, SavedFits DEF SavedFit
  <2>3. new.books = l /\ new.version = saved.version + 1 /\ new.prev = saved.books
    BY <2>1
  <2>4. SavedShape(new)
    <3>1. new \in Saves
      BY <2>1, <2>2 DEF Saves
    <3>2. new.prev # None
      BY <2>2, <2>3, NoneAssumption
    <3> QED BY <2>2, <2>3, <3>1, <3>2 DEF SavedShape
  <2>5. SavedFit(now, new)
    BY <2>4 DEF SavedFit
  <2>6. PICK quiet : quiet = (s.quiet /\ ~(/\ s.cursor # None /\ s.cursor.mode = "interest"
                                           /\ saved.version > s.cursor.ver))
    OBVIOUS
  <2>7. r = [s EXCEPT !.quiet = quiet]
    BY <1>1, <2>1, <2>6, Zenon DEF DisturbsSaved
  <2>8. Hushed(r, s) /\ r.quiet = quiet
    <3>1. quiet => s.quiet
      BY <2>6, Zenon
    <3> QED BY <1>2, <2>7, <3>1, HushedIs
  <2>9. r.quiet => ~(s.cursor # None /\ s.cursor.mode = "interest" /\ saved.version > s.cursor.ver)
    BY <2>6, <2>8, Zenon
  <2>10. ASSUME s.pc = "reading" PROVE OwnedStand(r, Owned(past)) /\ Evolved(s.seen, new)
    <3>1. OwnedStand(s, Owned(past)) /\ Evolved(s.seen, saved)
      BY <1>2, <2>10 DEF ScrollFits, ReadsWell
    <3>2. CASE s.seen = None
      BY <2>8, <3>1, <3>2, HushedOwned DEF Evolved
    <3>3. CASE s.seen # None
      <4>1. /\ SavedShape(s.seen) /\ s.seen.version <= saved.version
            /\ saved.version = s.seen.version => saved = s.seen
        BY <3>1, <3>3 DEF Evolved
      <4>2. s.seen.version \in Nat
        BY <4>1, SavedFits
      <4>3. new # None
        BY <2>4, SavedFits
      <4>4. s.seen.version <= new.version /\ new.version # s.seen.version
        BY <2>2, <2>3, <4>1, <4>2
      <4>5. new.version = s.seen.version + 1 => new.prev = s.seen.books
        BY <2>2, <2>3, <4>1, <4>2
      <4> QED BY <2>8, <3>1, <4>1, <4>3, <4>4, <4>5, HushedOwned DEF Evolved
    <3> QED BY <3>2, <3>3
  <2>11. ASSUME s.cursor # None, Whole(r) PROVE Undisturbed(r, Owned(past), rows, new, profile, index)
    <3>1. Whole(s) /\ r.quiet
      BY <2>8, <2>11, Zenon DEF Hushed, Whole
    <3>2. Undisturbed(s, Owned(past), rows, saved, profile, index) /\ CursorFits(s, now)
      BY <1>2, <2>11, <3>1 DEF ScrollFits
    <3>3. Stands(s.promised, s.cursor.mode, s.cursor.ver, s.ask, OwnOf(s.ask, Owned(past)),
                 RowsUntil(rows, Second(s.began)), saved, profile, index)
      BY <3>2 DEF Undisturbed
    <3>4. Stands(s.promised, s.cursor.mode, s.cursor.ver, s.ask, OwnOf(s.ask, Owned(past)),
                 RowsUntil(rows, Second(s.began)), new, profile, index)
      <4>1. CASE s.cursor.mode = "interest"
        <5>1. /\ s.cursor.ver # 0 /\ saved.version \in {s.cursor.ver, s.cursor.ver + 1}
              /\ s.promised = SavedList(s.ask, OwnOf(s.ask, Owned(past)), RowsUntil(rows, Second(s.began)),
                                        BooksOf(saved, s.cursor.ver))
          BY <3>3, <4>1 DEF Stands
        <5>2. s.cursor.ver \in Nat
          BY <3>2 DEF CursorFits
        <5>3. saved.version = s.cursor.ver
          BY <2>2, <2>9, <2>11, <3>1, <4>1, <5>1, <5>2
        <5>4. /\ new # None /\ new.version = s.cursor.ver + 1 /\ new.version # s.cursor.ver
              /\ BooksOf(new, s.cursor.ver) = BooksOf(saved, s.cursor.ver)
          BY <2>3, <2>4, <5>2, <5>3, SavedFits DEF BooksOf
        <5> QED BY <4>1, <5>1, <5>4 DEF Stands
      <4>2. CASE s.cursor.mode # "interest"
        BY <3>3, <4>2 DEF Stands
      <4> QED BY <4>1, <4>2
    <3> QED BY <2>8, <3>2, <3>4 DEF Undisturbed, Halfway, Hushed
  <2>12. ScrollFits(r, now, Owned(past), rows, new, profile, index)
    <3>1. PICK t \in Nat : t = now /\ t <= t
      <4>1. now <= now
        BY <1>2
      <4> QED BY <1>2, <4>1
    <3>2. new # None
      BY <2>4, SavedFits
    <3>3. ASSUME s.cursor # None PROVE ToBeHad(r, new, profile, index)
      BY <1>2, <2>8, <3>2, <3>3, HushedMode DEF ScrollFits
    <3>4. ScrollFits(r, t, Owned(past), rows, new, profile, index)
      BY <1>2, <2>8, <2>10, <2>11, <3>1, <3>3, MeanwhileFits
    <3> QED BY <3>1, <3>4
  <2> QED BY <1>1, <1>3, <2>5, <2>12 DEF FeedInv, Fits
<1> QED BY <1>4, <1>5

-----------------------------------------------------------------------------
(* The theorems.                                                           *)

LEMMA FeedStarts == FeedInit => FeedInv
<1> SUFFICES ASSUME FeedInit PROVE FeedInv
  OBVIOUS
<1>1. now = 0 /\ scroll = NewScroll
  BY DEF FeedInit
<1>2. saved # None => SavedShape(saved)
  <2> SUFFICES ASSUME saved # None PROVE SavedShape(saved)
    OBVIOUS
  <2>1. PICK l \in SavedLists : saved = [books |-> l, version |-> 1, prev |-> None]
    BY DEF FeedInit
  <2> QED BY <2>1 DEF SavedShape, Saves
<1>3. SavedFit(now, saved)
  BY <1>1, <1>2 DEF SavedFit
<1>4. /\ scroll.pc = "idle" /\ scroll.cursor = None /\ scroll.shown = <<>> /\ scroll.modes = {}
      /\ scroll.last = Refused(0)
  BY <1>1 DEF NewScroll
<1>5. Fields(scroll)
  BY <1>1 DEF NewScroll, Fields, FieldNames
<1>6. scroll.last.status = 0
  BY <1>4, RefusedIs
<1>7. ScrollFits(scroll, now, Owned(past), rows, saved, profile, index)
  BY <1>4, <1>5, <1>6 DEF ScrollFits, NothingShown, Joins
<1> QED BY <1>3, <1>7 DEF FeedInv, Fits

LEMMA FeedGoesOn == FeedInv /\ [FeedNext]_feedVars => FeedInv'
<1> SUFFICES ASSUME FeedInv, [FeedNext]_feedVars PROVE FeedInv'
  OBVIOUS
<1>1. CASE UNCHANGED feedVars
  BY <1>1 DEF feedVars, FeedInv
<1>2. CASE FeedNext
  <2>1. scroll.pc # "ended"
    BY <1>2 DEF FeedNext, Reads, Answer, Open, Fail, Tick, AddToHistory, ChangeStatus, Replicate,
                NewProfile, NewList, NewIndex, Meanwhile, Change
  <2>2. SavedFit(now, saved) /\ ScrollFits(scroll, now, Owned(past), rows, saved, profile, index)
    BY <2>1 DEF FeedInv, Fits
  <2>3. CASE Answer
    BY <2>2, <2>3, AnswerFits
  <2>4. CASE \E a \in Asks, size \in Sizes : Open(a, size)
    BY <2>2, <2>4, OpenFits
  <2>5. CASE Fail
    BY <2>2, <2>5, FailFits
  <2>6. CASE Tick
    BY <2>2, <2>6, TickFits
  <2>7. CASE \E h \in Happenings : AddToHistory(h)
    BY <2>2, <2>7, HistoryStepFits
  <2>8. CASE \E x \in past : ChangeStatus(x)
    BY <2>2, <2>8, HistoryStepFits
  <2>9. CASE \E x \in past : Replicate(x)
    BY <2>2, <2>9, ReplicaStepFits
  <2>10. CASE \E p \in Profiles : NewProfile(p)
    BY <2>2, <2>10, ProfileStepFits
  <2>11. CASE \E l \in SavedLists : NewList(l)
    BY <2>2, <2>11, ListStepFits
  <2>12. CASE \E i \in Indexes : NewIndex(i)
    BY <2>2, <2>12, IndexStepFits
  <2> QED BY <1>2, <2>3, <2>4, <2>5, <2>6, <2>7, <2>8, <2>9, <2>10, <2>11, <2>12
    DEF FeedNext, Reads
<1> QED BY <1>1, <1>2

\* The inductive invariant of the scroll.
THEOREM FeedFits == FeedSpec => []FeedInv
<1>1. FeedInit => FeedInv
  BY FeedStarts
<1>2. FeedInv /\ [FeedNext]_feedVars => FeedInv'
  BY FeedGoesOn
<1> QED BY <1>1, <1>2, PTL DEF FeedSpec

\* Whatever the page sizes, the failures and the order of the changes, the pages of a scroll
\* that nothing disturbed join to the whole list of the first one (cursor.py:9-10).
THEOREM PagesJoin == FeedSpec => []FeedPagesJoin
<1>1. FeedInv => FeedPagesJoin
  BY DEF FeedInv, Fits, ScrollFits, Joins, Whole, FeedPagesJoin, Joined
<1> QED BY <1>1, FeedFits, PTL

\* A scroll is cut off only if the client was late or changed its request, or if the user got or
\* lost a taste vector, or the vectors failed or came back (service.py:145-147).
THEOREM NotCutOff == FeedSpec => []FeedNotCutOff
<1>1. FeedInv => FeedNotCutOff
  BY DEF FeedInv, Fits, ScrollFits, WellCut, FeedNotCutOff
<1> QED BY <1>1, FeedFits, PTL

-----------------------------------------------------------------------------
(* The pages of the search. Every ranking is a list of books there are.    *)

IdsOfShelf == {b.id : b \in Shelf}

LEMMA ListedIsFinite ==
  ASSUME NEW f, NEW there
  PROVE  Listed(f, there) \subseteq Shelf /\ IsFiniteSet(Listed(f, there))
<1>1. Listed(f, there) \subseteq Shelf
  BY DEF Listed
<1> QED BY <1>1, ShelfAssumption, FS_Subset

LEMMA HeadsAreFinite ==
  ASSUME NEW s, IsList(s), NEW n \in Int
  PROVE  IsFiniteSet(ToSet(Take(s, n)))
<1>1. PICK T : s \in Seq(T)
  BY DEF IsList
<1>2. CASE n \in Nat
  <2>1. Take(s, n) \in Seq(T)
    BY <1>1, <1>2, TakeIs
  <2> QED BY <2>1, HeldIsFinite
<1>3. CASE n \notin Nat
  <2>1. Min({n, Len(s)}) = n
    <3>1. Len(s) \in Nat /\ n <= Len(s)
      BY <1>1, <1>3
    <3> QED BY <3>1, LeastOfTwo
  <2>2. SubSeq(s, 1, n) = <<>>
    <3>1. 1 \in Int /\ 1 > n
      BY <1>3
    <3> QED BY <1>1, <3>1, SubSeqEmpty
  <2>3. Take(s, n) = <<>>
    BY <2>1, <2>2 DEF Take
  <2>4. <<>> \in Seq({})
    OBVIOUS
  <2> QED BY <2>3, <2>4, HeldIsFinite
<1> QED BY <1>2, <1>3

LEMMA FoundIsFinite ==
  ASSUME NEW S, IsFiniteSet(S), NEW n \in Int
  PROVE  IsFiniteSet(Found(S, n))
<1>1. PICK f : f = [b \in S |-> <<<<Scan[b.id]>>, b>>]
  OBVIOUS
<1>2. {<<<<Scan[b.id]>>, b>> : b \in S} = {f[b] : b \in S}
  BY <1>1
<1>3. IsList(ByKey({<<<<Scan[b.id]>>, b>> : b \in S}))
  BY <1>2, KeyedList
<1>4. IsFiniteSet(ToSet(Take(ByKey({<<<<Scan[b.id]>>, b>> : b \in S}), n)))
  BY <1>3, HeadsAreFinite
<1> QED BY <1>4 DEF Found, Ordered

LEMMA IdsAreAList ==
  ASSUME NEW s, IsList(s)
  PROVE  IsList(Ids(s)) /\ DOMAIN Ids(s) = DOMAIN s
<1>1. PICK n \in Nat : n = Len(s)
  BY ListIsFinite
<1>2. DOMAIN s = 1 .. n
  BY <1>1 DEF IsList
<1>3. PICK f : f = [i \in 1 .. n |-> s[i].id]
  OBVIOUS
<1>4. Ids(s) = f
  BY <1>2, <1>3 DEF Ids
<1> QED BY <1>2, <1>3, <1>4, ListOf

LEMMA BestIsList ==
  ASSUME NEW q, NEW cand, IsFiniteSet(cand)
  PROVE  IsList(Best(q, cand))
<1> DEFINE S == {b \in cand : Coverage(q, b) >= 6 * Cardinality(Words(q))}
           order == ByKey({<<<<-WordScore(q, b), b.id>>, b>> : b \in S})
<1>1. IsFiniteSet(S)
  <2>1. S \subseteq cand
    OBVIOUS
  <2> QED BY <2>1, FS_Subset
<1>2. IsList(order)
  <2>1. PICK f : f = [b \in S |-> <<<<-WordScore(q, b), b.id>>, b>>]
    OBVIOUS
  <2>2. {<<<<-WordScore(q, b), b.id>>, b>> : b \in S} = {f[b] : b \in S}
    <3> HIDE DEF S
    <3> QED BY <2>1
  <2>3. IsList(ByKey({f[b] : b \in S}))
    <3> HIDE DEF S
    <3> QED BY <1>1, KeyedList
  <2> QED BY <2>2, <2>3
<1>3. Best(q, cand) = Ids(Take(order, CandidateLimit))
  BY DEF Best, Ordered
<1>4. CandidateLimit \in Nat
  BY SearchAssumption
<1> HIDE DEF order
<1> QED BY <1>2, <1>3, <1>4, TakeIsList, IdsAreAList

\* Limits are whole numbers.
LEMMA LookupIsInt ==
  ASSUME NEW n \in Nat, n # 0
  PROVE  LookupFor(n) \in Int
<1>1. LookupLimit \in Int /\ LookupMin \in Int /\ LookupBudget \in Nat
  BY SearchAssumption
<1>2. PICK d \in Int : d = LookupBudget \div n
  BY <1>1
<1>3. PICK m : m = Max({LookupMin, d})
  OBVIOUS
<1>4. m \in Int
  <2>1. \E x \in {LookupMin, d} : \A y \in {LookupMin, d} : x >= y
    BY <1>1
  <2>2. m \in {LookupMin, d}
    BY <1>3, <2>1 DEF Max
  <2> QED BY <1>1, <2>2
<1>5. Min({LookupLimit, m}) \in Int
  BY <1>1, <1>4, LeastOfTwo
<1> QED BY <1>2, <1>3, <1>5 DEF LookupFor

LEMMA CandidatesAreFinite ==
  ASSUME NEW q \in DOMAIN Fit, NEW S, IsFiniteSet(S)
  PROVE  /\ IsFiniteSet(WithAllWords(q, S))
         /\ Words(q) # {} => IsFiniteSet(WithEachWord(q, S))
<1>1. IsFiniteSet(SameTitle(q, S))
  <2>1. SameTitle(q, S) \subseteq S
    BY DEF SameTitle
  <2> QED BY <2>1, FS_Subset
<1>2. IsFiniteSet(WithAllWords(q, S))
  <2>1. PICK T : T = {b \in S : \A w \in Words(q) : Near(q, w, b)}
    OBVIOUS
  <2>2. IsFiniteSet(T)
    BY <2>1, FS_Subset
  <2>3. LookupLimit \in Int
    BY SearchAssumption
  <2>4. IsFiniteSet(Found(T, LookupLimit))
    BY <2>2, <2>3, FoundIsFinite
  <2> QED BY <1>1, <2>1, <2>4, FS_Union DEF WithAllWords
<1>3. ASSUME Words(q) # {} PROVE IsFiniteSet(WithEachWord(q, S))
  <2>1. IsFiniteSet(Words(q))
    BY FitAssumption
  <2>2. PICK n \in Nat : n = Cardinality(Words(q)) /\ n # 0
    BY <1>3, <2>1, FS_CardinalityType, FS_EmptySet
  <2>3. PICK f : f = [w \in Words(q) |-> Found({b \in S : Near(q, w, b)}, LookupFor(n))]
    OBVIOUS
  <2>4. IsFiniteSet({f[w] : w \in Words(q)})
    BY <2>1, ImageIsFinite
  <2>5. ASSUME NEW w \in Words(q) PROVE IsFiniteSet(f[w])
    <3>1. PICK T : T = {b \in S : Near(q, w, b)}
      OBVIOUS
    <3>2. IsFiniteSet(T)
      BY <3>1, FS_Subset
    <3>3. IsFiniteSet(Found(T, LookupFor(n)))
      BY <2>2, <3>2, LookupIsInt, FoundIsFinite
    <3> QED BY <2>3, <3>1, <3>3
  <2>6. IsFiniteSet(UNION {f[w] : w \in Words(q)})
    BY <2>4, <2>5, FS_UNION
  <2>7. UNION {f[w] : w \in Words(q)}
          = UNION {Found({b \in S : Near(q, w, b)}, LookupFor(Cardinality(Words(q)))) : w \in Words(q)}
    BY <2>2, <2>3
  <2> QED BY <1>1, <2>6, <2>7, FS_Union DEF WithEachWord
<1> QED BY <1>2, <1>3

LEMMA KeywordsAreAList ==
  ASSUME NEW q \in DOMAIN Fit, NEW S, IsFiniteSet(S)
  PROVE  IsList(KeywordIds(q, S))
<1>1. CASE Words(q) = {}
  <2>1. KeywordIds(q, S) = <<>> /\ <<>> \in Seq({})
    BY <1>1 DEF KeywordIds
  <2> QED BY <2>1 DEF IsList
<1>2. CASE Words(q) # {}
  <2>1. IsList(Best(q, WithAllWords(q, S))) /\ IsList(Best(q, WithEachWord(q, S)))
    BY <1>2, CandidatesAreFinite, BestIsList
  <2>2. \/ KeywordIds(q, S) = Best(q, WithAllWords(q, S))
        \/ KeywordIds(q, S) = Best(q, WithEachWord(q, S))
    BY <1>2 DEF KeywordIds
  <2> QED BY <2>1, <2>2
<1> QED BY <1>1, <1>2

LEMMA VectorIdsListed ==
  ASSUME NEW q \in DOMAIN Fit, NEW f, NEW there
  PROVE  VectorIds(q, Listed(f, there)) \in Seq(there)
<1> DEFINE S == {b \in Listed(f, there) : b.embedded}
           order == ByKey({<<<<-Closeness[q][b.id], b.id>>, b>> : b \in S})
<1>1. S \subseteq Shelf /\ IsFiniteSet(S) /\ \A b \in S : b.id \in there
  <2>1. S \subseteq Listed(f, there)
    OBVIOUS
  <2>2. \A b \in Listed(f, there) : b.id \in there
    BY DEF Listed
  <2> HIDE DEF S
  <2> QED BY <2>1, <2>2, ListedIsFinite, FS_Subset
<1>2. order \in Seq(S)
  <2>1. PICK key : key = [b \in S |-> <<-Closeness[q][b.id], b.id>>]
    OBVIOUS
  <2>2. key \in [S -> [1 .. 2 -> Int]]
    <3>1. ASSUME NEW b \in S PROVE <<-Closeness[q][b.id], b.id>> \in [1 .. 2 -> Int]
      <4>1. -Closeness[q][b.id] \in Int /\ b.id \in Int
        BY <1>1, FitAssumption, ShelfAssumption
      <4> HIDE DEF S
      <4> QED BY <4>1
    <3> HIDE DEF S
    <3> QED BY <2>1, <3>1
  <2>3. \A x, y \in S : key[x] = key[y] => x = y
    <3>1. \A x, y \in S : key[x] = key[y] => x.id = y.id
      BY <2>1
    <3> HIDE DEF S
    <3> QED BY <1>1, <3>1, ShelfAssumption
  <2>4. {<<<<-Closeness[q][b.id], b.id>>, b>> : b \in S} = WithKeys(key, S)
    <3> HIDE DEF S
    <3> QED BY <2>1 DEF WithKeys
  <2>5. 2 \in Nat
    OBVIOUS
  <2>6. ByKey(WithKeys(key, S)) \in Seq(S)
    <3> HIDE DEF S
    <3> QED BY <1>1, <2>2, <2>3, <2>5, SortedList
  <2> QED BY <2>4, <2>6
<1>3. PICK top : top = Take(order, VectorLimit)
  OBVIOUS
<1>4. top \in Seq(S)
  <2>1. VectorLimit \in Nat
    BY SearchAssumption
  <2> HIDE DEF order, S
  <2> QED BY <1>2, <1>3, <2>1, TakeIs
<1>5. VectorIds(q, Listed(f, there)) = [i \in DOMAIN top |-> top[i].id]
  BY <1>3 DEF VectorIds, Ordered, Ids
<1>6. PICK n \in Nat : n = Len(top) /\ DOMAIN top = 1 .. n
  BY <1>4
<1>7. \A i \in 1 .. n : top[i].id \in there
  <2>1. \A i \in 1 .. n : top[i] \in S
    BY <1>4, <1>6
  <2> HIDE DEF S
  <2> QED BY <1>1, <2>1
<1>8. [i \in 1 .. n |-> top[i].id] \in [1 .. n -> there]
  BY <1>7
<1> QED BY <1>5, <1>6, <1>8, SeqDef

\* The place of a member of a list.
LEMMA PlaceIs ==
  ASSUME NEW T, NEW s \in Seq(T), NEW x \in ToSet(s)
  PROVE  Place(s, x) \in Nat \ {0}
<1>1. \E i \in DOMAIN s : s[i] = x
  BY DEF ToSet
<1>2. Place(s, x) \in DOMAIN s
  BY <1>1 DEF Place
<1> QED BY <1>2

LEMMA LargestOfTwo ==
  ASSUME NEW m \in Int, NEW n \in Int
  PROVE  Max({m, n}) = IF m >= n THEN m ELSE n
<1>1. \E x \in {m, n} : \A y \in {m, n} : x >= y
  OBVIOUS
<1>2. PICK x : x = Max({m, n})
  OBVIOUS
<1>3. x \in {m, n} /\ \A y \in {m, n} : x >= y
  BY <1>1, <1>2 DEF Max
<1> QED BY <1>2, <1>3

\* A common denominator.
Common(words, near) == ProductSet({K + r : r \in 1 .. Max({Len(words), Len(near)})})
Share(s, weight, common, id) ==
  IF id \in ToSet(s) THEN weight * (common \div (K + Place(s, id))) ELSE 0

LEMMA CommonIsInt ==
  ASSUME NEW T, NEW words \in Seq(T), NEW near \in Seq(T)
  PROVE  Common(words, near) \in Int
<1>1. PICK n \in Nat : n = Max({Len(words), Len(near)})
  BY LargestOfTwo
<1>2. PICK f : f = [r \in 1 .. n |-> 60 + r]
  OBVIOUS
<1>3. {f[r] : r \in 1 .. n} \subseteq Int /\ {60 + r : r \in 1 .. n} = {f[r] : r \in 1 .. n}
  BY <1>2
<1>4. IsFiniteSet(1 .. n)
  <2>1. 1 \in Int /\ n \in Int
    OBVIOUS
  <2> QED BY <2>1, FS_Interval
<1>5. ProductSet({60 + r : r \in 1 .. n}) \in Int
  <2>1. PICK S : S = {f[r] : r \in 1 .. n}
    OBVIOUS
  <2>2. IsFiniteSet(S)
    BY <1>4, <2>1, ImageIsFinite
  <2>3. ProductSet(S) \in Int
    BY <1>3, <2>1, <2>2, ProductIsInt
  <2> QED BY <1>3, <2>1, <2>3
<1> QED BY <1>1, <1>5 DEF Common, K

LEMMA ShareIsInt ==
  ASSUME NEW T, NEW s \in Seq(T), NEW weight \in Int, NEW common \in Int, NEW id
  PROVE  Share(s, weight, common, id) \in Int
<1>1. CASE id \in ToSet(s)
  <2>1. PICK n \in Nat \ {0} : n = K + Place(s, id)
    BY <1>1, PlaceIs DEF K
  <2>2. PICK d \in Int : d = common \div n
    OBVIOUS
  <2> QED BY <1>1, <2>1, <2>2 DEF Share
<1> QED BY <1>1 DEF Share

LEMMA FuseHolds ==
  ASSUME NEW words, NEW near, NEW T, T \subseteq Int, words \in Seq(T), near \in Seq(T)
  PROVE  Fuse(words, near) \in Seq(ToSet(words) \cup ToSet(near))
<1>1. PICK S : S = ToSet(words) \cup ToSet(near)
  OBVIOUS
<1>2. IsFiniteSet(S) /\ S \subseteq Int
  <2>1. IsFiniteSet(ToSet(words)) /\ IsFiniteSet(ToSet(near))
    BY HeldIsFinite
  <2>2. IsFiniteSet(S)
    BY <1>1, <2>1, FS_Union
  <2>3. ToSet(words) \subseteq T /\ ToSet(near) \subseteq T
    BY HeldIsFinite
  <2> QED BY <1>1, <2>2, <2>3
<1>3. PICK common \in Int : common = Common(words, near)
  BY CommonIsInt
<1>4. PICK key : key = [id \in S |-> <<-(Share(words, KeywordWeight, common, id)
                                         + Share(near, VectorWeight, common, id)), id>>]
  OBVIOUS
<1>5. CASE words = <<>> /\ near = <<>>
  <2>1. Fuse(words, near) = <<>>
    BY <1>5, Zenon DEF Fuse
  <2> QED BY <2>1
<1>6. CASE ~(words = <<>> /\ near = <<>>)
  <2>1. key \in [S -> [1 .. 2 -> Int]]
    <3>1. ASSUME NEW id \in S PROVE key[id] \in [1 .. 2 -> Int]
      <4>1. PICK a \in Int : a = Share(words, KeywordWeight, common, id)
        BY ShareIsInt DEF KeywordWeight
      <4>2. PICK b \in Int : b = Share(near, VectorWeight, common, id)
        BY ShareIsInt DEF VectorWeight
      <4>3. key[id] = <<-(a + b), id>> /\ id \in Int
        BY <1>2, <1>4, <4>1, <4>2
      <4> QED BY <4>3
    <3> QED BY <1>4, <3>1
  <2>2. \A x, y \in S : key[x] = key[y] => x = y
    BY <1>4
  <2>3. 2 \in Nat
    OBVIOUS
  <2>4. ByKey(WithKeys(key, S)) \in Seq(S)
    BY <1>2, <2>1, <2>2, <2>3, SortedList
  <2>5. Fuse(words, near) =
          ByKey({<<<<-(Share(words, KeywordWeight, common, id) + Share(near, VectorWeight, common, id)), id>>,
                   id>> : id \in S})
    BY <1>1, <1>3, <1>6, Zenon DEF Fuse, Ordered, Common, Share
  <2>6. {<<<<-(Share(words, KeywordWeight, common, id) + Share(near, VectorWeight, common, id)), id>>,
           id>> : id \in S} = WithKeys(key, S)
    BY <1>4 DEF WithKeys
  <2> QED BY <1>1, <2>4, <2>5, <2>6
<1> QED BY <1>5, <1>6

LEMMA ExactFirstListed ==
  ASSUME NEW q, NEW there, there \subseteq Int, NEW words \in Seq(there), NEW near \in Seq(there)
  PROVE  ExactTitleFirst(q, words, near, there) \in Seq(there)
<1>1. PICK exact : exact = {id \in ToSet(words) : Fit[q][id].same /\ id \in there}
  OBVIOUS
<1>2. PICK rest : rest = Only(words, ToSet(words) \ exact)
  OBVIOUS
<1>3. PICK others : others = (ToSet(words) \cup ToSet(near)) \ exact
  OBVIOUS
<1>4. ExactTitleFirst(q, words, near, there) = Only(words, exact) \o Only(Fuse(rest, near), others)
  BY <1>1, <1>2, <1>3, Zenon DEF ExactTitleFirst
<1>5. \A S : Only(words, S) \in Seq(there)
  <2> TAKE S
  <2>1. Only(words, S) \in Seq(there \cap S)
    BY OnlyType
  <2> QED BY <2>1
<1>6. rest \in Seq(there)
  BY <1>2, <1>5
<1>7. Fuse(rest, near) \in Seq(there)
  <2>1. Fuse(rest, near) \in Seq(ToSet(rest) \cup ToSet(near))
    BY <1>6, FuseHolds
  <2>2. ToSet(rest) \cup ToSet(near) \subseteq there
    BY <1>6, HeldIsFinite
  <2> QED BY <2>1, <2>2
<1>8. Only(Fuse(rest, near), others) \in Seq(there)
  <2>1. Only(Fuse(rest, near), others) \in Seq(there \cap others)
    BY <1>7, OnlyType
  <2> QED BY <2>1
<1> QED BY <1>4, <1>5, <1>8, ConcatProperties

LEMMA PoolListed ==
  ASSUME NEW s, NEW there, NEW near \in Seq(there)
  PROVE  Pool(s, near) \in Seq(there)
<1>1. SortVectorLimit \in Nat
  BY SearchAssumption
<1>2. Take(near, SortVectorLimit) \in Seq(there)
  BY <1>1, TakeIs
<1> QED BY <1>2 DEF Pool

LEMMA PriceIsInt ==
  ASSUME NEW b, IsFiniteSet(b.products), \A p \in b.products : p.stock \in Int /\ p.price \in Int
  PROVE  Price(b) \in Int
<1>1. CASE b.products = {}
  BY <1>1 DEF Price, NoPrice
<1>2. CASE b.products # {}
  <2>1. PICK key : key = [p \in b.products |-> <<IF p.stock > 0 THEN 0 ELSE 1, p.price>>]
    OBVIOUS
  <2>2. key \in [b.products -> [1 .. 2 -> Int]]
    <3>1. ASSUME NEW p \in b.products PROVE key[p] \in [1 .. 2 -> Int]
      <4>1. PICK n \in Int : n = IF p.stock > 0 THEN 0 ELSE 1
        OBVIOUS
      <4>2. key[p] = <<n, p.price>> /\ p.price \in Int
        BY <2>1, <4>1
      <4> QED BY <4>2
    <3> QED BY <2>1, <3>1
  <2>3. IsFiniteSet(b.products) /\ 2 \in Nat
    OBVIOUS
  <2>4. \E x \in b.products : \A y \in b.products : ~Before(key[y], key[x])
    BY <1>2, <2>2, <2>3, LeastIsThere
  <2>5. PICK x \in b.products : \A y \in b.products :
          ~Before(<<IF y.stock > 0 THEN 0 ELSE 1, y.price>>, <<IF x.stock > 0 THEN 0 ELSE 1, x.price>>)
    BY <2>1, <2>4
  <2>6. Offer(b) \in b.products
    <3>1. PICK o : o = CHOOSE x_1 \in b.products : \A y \in b.products :
            ~Before(<<IF y.stock > 0 THEN 0 ELSE 1, y.price>>, <<IF x_1.stock > 0 THEN 0 ELSE 1, x_1.price>>)
      OBVIOUS
    <3>2. o \in b.products
      BY <2>5, <3>1
    <3>3. Offer(b) = o
      BY <3>1, Zenon DEF Offer, Least
    <3> QED BY <3>2, <3>3
  <2> QED BY <1>2, <2>6 DEF Price
<1> QED BY <1>1, <1>2

Sorts == {"newest", "price_asc", "price_desc", "popular"}

LEMMA SortKeyIs ==
  ASSUME NEW b \in Shelf, NEW sort \in Sorts
  PROVE  \E n \in Int : SortKey(sort, b) = <<n>>
<1>1. Price(b) \in Int /\ b.year \in Int /\ b.sales \in Int
  BY PriceIsInt, ShelfAssumption
<1>2. CASE sort = "newest"
  BY <1>1, <1>2 DEF SortKey
<1>3. CASE sort = "price_asc"
  BY <1>1, <1>3 DEF SortKey
<1>4. CASE sort = "price_desc"
  <2>1. PICK n \in Int : n = IF Price(b) = NoPrice THEN 1 ELSE -Price(b)
    BY <1>1
  <2>2. SortKey(sort, b) = <<n>>
    BY <1>4, <2>1 DEF SortKey
  <2> QED BY <2>2
<1>5. CASE sort = "popular"
  BY <1>1, <1>5 DEF SortKey
<1> QED BY <1>2, <1>3, <1>4, <1>5 DEF Sorts

LEMMA SortIdsListed ==
  ASSUME NEW sort \in Sorts, NEW there, there \subseteq IdsOfShelf, NEW T, NEW ids \in Seq(T)
  PROVE  SortIds(sort, ids, there) \in Seq(there)
<1>1. PICK s : s = Only(ids, there)
  OBVIOUS
<1>2. s \in Seq(there)
  <2>1. s \in Seq(T \cap there)
    BY <1>1, OnlyType
  <2> QED BY <2>1
<1>3. PICK n \in Nat : n = Len(s) /\ DOMAIN s = 1 .. n
  BY <1>2
<1>4. PICK key : key = [i \in 1 .. n |-> Append(SortKey(sort, The(s[i])), i)]
  OBVIOUS
<1>5. ASSUME NEW i \in 1 .. n
      PROVE  key[i] \in [1 .. 2 -> Int] /\ key[i][2] = i
  <2>1. s[i] \in there
    BY <1>2, <1>3
  <2>2. \E b \in Shelf : b.id = s[i]
    BY <2>1 DEF IdsOfShelf
  <2>3. The(s[i]) \in Shelf
    BY <2>2 DEF The
  <2>4. PICK k \in Int : SortKey(sort, The(s[i])) = <<k>>
    BY <2>3, SortKeyIs
  <2>5. key[i] = Append(<<k>>, i)
    BY <1>4, <2>4
  <2> QED BY <2>5, OneAndAnother
<1>6. key \in [1 .. n -> [1 .. 2 -> Int]]
  <2>1. \A i \in 1 .. n : key[i] \in [1 .. 2 -> Int]
    BY <1>5
  <2> QED BY <1>4, <2>1
<1>7. ASSUME NEW i \in 1 .. n, NEW j \in 1 .. n, key[i] = key[j] PROVE i = j
  <2>3. key[i][2] = i /\ key[j][2] = j
    BY <1>5
  <2> QED BY <1>7, <2>3
<1>8. PICK place : place = ByKey({<<Append(SortKey(sort, The(s[i])), i), i>> : i \in DOMAIN s})
  OBVIOUS
<1>9. {<<Append(SortKey(sort, The(s[i])), i), i>> : i \in DOMAIN s} = WithKeys(key, 1 .. n)
  BY <1>3, <1>4 DEF WithKeys
<1>10. IsFiniteSet(1 .. n) /\ Cardinality(1 .. n) = n /\ 2 \in Nat
  <2>1. 1 \in Int /\ n \in Int
    OBVIOUS
  <2> QED BY <2>1, FS_Interval
<1>11. place \in Seq(1 .. n) /\ Len(place) = n
  <2>1. \A i, j \in 1 .. n : key[i] = key[j] => i = j
    BY <1>7
  <2>2. PICK S : S = 1 .. n
    OBVIOUS
  <2>3. IsFiniteSet(S) /\ key \in [S -> [1 .. 2 -> Int]] /\ 2 \in Nat
    BY <1>6, <1>10, <2>2
  <2>4. \A i, j \in S : key[i] = key[j] => i = j
    BY <2>1, <2>2
  <2>5. ByKey(WithKeys(key, S)) \in Seq(S) /\ Len(ByKey(WithKeys(key, S))) = Cardinality(S)
    BY <2>3, <2>4, SortedList
  <2> QED BY <1>8, <1>9, <1>10, <2>2, <2>5
<1>12. SortIds(sort, ids, there) = [k \in 1 .. n |-> s[place[k]]]
  BY <1>1, <1>3, <1>8, Zenon DEF SortIds, StableSort, Ordered
<1>13. ASSUME NEW k \in 1 .. n PROVE s[place[k]] \in there
  <2>1. place[k] \in 1 .. n
    BY <1>11
  <2> QED BY <1>2, <1>3, <2>1
<1>14. [k \in 1 .. n |-> s[place[k]]] \in [1 .. n -> there]
  BY <1>13
<1> QED BY <1>12, <1>14, SeqDef

-----------------------------------------------------------------------------
(* The ranking of a search follows from the words, the books there and the mode. *)

IdsOf(mode, s, words, there) ==
  LET near == VectorIds(s.query, Listed(s.filter, there))
      ranked == IF mode = "full" THEN ExactTitleFirst(s.query, words, Pool(s, near), there) ELSE words
  IN IF s.sort = "relevance" THEN ranked ELSE SortIds(s.sort, ranked, there)

LEMMA IdsOfListed ==
  ASSUME NEW s \in Searches, s.query \in DOMAIN Fit, NEW there, there \subseteq IdsOfShelf,
         NEW words \in Seq(there), NEW mode
  PROVE  IdsOf(mode, s, words, there) \in Seq(there)
<1>1. PICK near \in Seq(there) : near = VectorIds(s.query, Listed(s.filter, there))
  BY VectorIdsListed
<1>2. there \subseteq Int
  BY ShelfAssumption DEF IdsOfShelf
<1>3. PICK ranked : ranked = IF mode = "full"
                             THEN ExactTitleFirst(s.query, words, Pool(s, near), there) ELSE words
  OBVIOUS
<1>4. ranked \in Seq(there)
  BY <1>2, <1>3, PoolListed, ExactFirstListed
<1>5. IdsOf(mode, s, words, there) = IF s.sort = "relevance" THEN ranked ELSE SortIds(s.sort, ranked, there)
  BY <1>1, <1>3, Zenon DEF IdsOf
<1>6. CASE s.sort = "relevance"
  BY <1>4, <1>5, <1>6
<1>7. CASE s.sort # "relevance"
  <2>1. s.sort \in Sorts
    BY <1>7, SearchAssumption DEF Sorts
  <2> QED BY <1>4, <1>5, <1>7, <2>1, SortIdsListed
<1> QED BY <1>6, <1>7

LEMMA RankingIs ==
  ASSUME NEW s, NEW words, NEW v, NEW there
  PROVE  /\ Ranking(s, words, v, there).mode \in {"full", "keyword-only"}
         /\ Ranking(s, words, v, there).ids = IdsOf(Ranking(s, words, v, there).mode, s, words, there)
<1>1. PICK near : near = IF v.filled THEN VectorIds(s.query, Listed(s.filter, there)) ELSE <<>>
  OBVIOUS
<1>2. PICK mode : mode = IF VectorsAnswer(v, near) THEN "full" ELSE "keyword-only"
  OBVIOUS
<1>3. PICK ranked : ranked = IF VectorsAnswer(v, near)
                             THEN ExactTitleFirst(s.query, words, Pool(s, near), there) ELSE words
  OBVIOUS
<1>4. PICK ids : ids = IF s.sort = "relevance" THEN ranked ELSE SortIds(s.sort, ranked, there)
  OBVIOUS
<1>5. Ranking(s, words, v, there) = [mode |-> mode, ids |-> ids]
  BY <1>1, <1>2, <1>3, <1>4, Zenon DEF Ranking
<1>6. mode \in {"full", "keyword-only"}
  BY <1>2
<1>7. ASSUME VectorsAnswer(v, near) PROVE near = VectorIds(s.query, Listed(s.filter, there))
  BY <1>1, <1>7 DEF VectorsAnswer
<1>8. ids = IdsOf(mode, s, words, there)
  <2>1. CASE VectorsAnswer(v, near)
    BY <1>2, <1>3, <1>4, <1>7, <2>1, Zenon DEF IdsOf
  <2>2. CASE ~VectorsAnswer(v, near)
    <3>1. mode # "full"
      BY <1>2, <2>2
    <3> QED BY <1>3, <1>4, <2>2, <3>1, Zenon DEF IdsOf
  <2> QED BY <2>1, <2>2
<1> QED BY <1>5, <1>6, <1>8

-----------------------------------------------------------------------------
(* A search, page by page.                                                 *)

QuestNames ==
  {"pc", "search", "size", "cursor", "words", "last", "shown", "whole", "modes", "quiet"}

KeywordsOf(s, there) == KeywordIds(s.query, Listed(s.filter, there))

\* The request that is searched for.
Asked(s) == s \in Searches /\ ValidSearch(s)

\* The cursor is that of the request of the client.
CursorHeld(q) ==
  /\ q.cursor.offset \in Nat \ {0} /\ q.cursor.mode \in {"full", "keyword-only"}
  /\ q.cursor.search = q.search /\ Asked(q.search)

\* The ranking now is that of the first page, and the cursor stands where what was shown ends.
HalfShown(q, there) ==
  /\ ToSet(KeywordsOf(q.search, there)) \subseteq there
  /\ q.whole = IdsOf(q.cursor.mode, q.search, KeywordsOf(q.search, there), there)
  /\ q.shown = SubSeq(q.whole, 1, q.cursor.offset) /\ q.cursor.offset < Len(q.whole)

WordsFound(q, there) ==
  /\ Asked(q.search) /\ q.size \in Nat \ {0}
  /\ q.quiet => q.words = KeywordsOf(q.search, there)

SearchJoins(q) ==
  q.quiet /\ q.last.status = 200 =>
    /\ IsPrefix(q.shown, q.whole)
    /\ q.last.next = Nothing => q.shown = q.whole

QuestFits(q, there) ==
  /\ DOMAIN q = QuestNames /\ q.pc \in {"idle", "found"}
  /\ q.search = Nothing => q.cursor = Nothing /\ q.pc = "idle"
  /\ q.cursor = Nothing => q.shown = <<>> /\ q.last.status # 200
  /\ q.cursor # Nothing => CursorHeld(q)
  /\ q.pc = "found" => WordsFound(q, there)
  /\ q.cursor # Nothing /\ q.quiet => HalfShown(q, there)
  /\ SearchJoins(q)

\* Once the client is done nothing more happens.
QuestOver(q) == q.pc = "ended" /\ SearchJoins(q)

SearchInv ==
  /\ clock \in Nat /\ listed \subseteq IdsOfShelf
  /\ QuestOver(quest) \/ QuestFits(quest, listed)

Offset(c) == IF c = Nothing THEN 0 ELSE c.offset

\* What a reply is: a refusal, or a page and the cursor of the next one.
ReplyHas(reply, s, c, size, ranking, there, t) ==
  /\ ~ModeKept(c, ranking.mode) => reply.status = 410 /\ reply.next = Nothing
  /\ ModeKept(c, ranking.mode) =>
       /\ reply.status = 200
       /\ reply.books =
            Only(SubSeq(ranking.ids, Offset(c) + 1, Min({Offset(c) + size, Len(ranking.ids)})), there)
       /\ reply.next =
            IF Offset(c) + size < Len(ranking.ids)
            THEN [offset |-> Offset(c) + size, search |-> s, mode |-> ranking.mode, made |-> t]
            ELSE Nothing

LEMMA ReplyIs ==
  ASSUME NEW s, NEW c, NEW size, NEW ranking, NEW there, NEW t,
         NEW reply, reply = Reply(s, c, size, ranking, there, t)
  PROVE  ReplyHas(reply, s, c, size, ranking, there, t)
<1>0. PICK from : from = Offset(c)
  OBVIOUS
<1>1. PICK page :
        page = Only(SubSeq(ranking.ids, from + 1, Min({from + size, Len(ranking.ids)})), there)
  OBVIOUS
<1>2. PICK next : next = IF from + size < Len(ranking.ids)
                   THEN [offset |-> from + size, search |-> s, mode |-> ranking.mode, made |-> t]
                   ELSE Nothing
  OBVIOUS
<1>3. PICK message : message = (c = Nothing /\ page = <<>>)
  OBVIOUS
<1>4. PICK mode : mode = ranking.mode
  OBVIOUS
<1>5. reply = IF ~ModeKept(c, mode) THEN Deny(410)
              ELSE [status |-> 200, books |-> page, next |-> next, mode |-> mode, message |-> message]
  BY <1>0, <1>1, <1>2, <1>3, <1>4, Zenon DEF Reply, Fetch, Offset
<1>6. CASE ~ModeKept(c, mode)
  <2>1. reply = Deny(410)
    BY <1>5, <1>6
  <2>2. reply.status = 410 /\ reply.next = Nothing
    BY <2>1 DEF Deny, NoReply
  <2> QED BY <1>4, <1>6, <2>2 DEF ReplyHas
<1>7. CASE ModeKept(c, mode)
  <2>1. reply = [status |-> 200, books |-> page, next |-> next, mode |-> mode, message |-> message]
    BY <1>5, <1>7
  <2>2. reply.status = 200 /\ reply.books = page /\ reply.next = next
    BY <2>1
  <2> QED BY <1>0, <1>1, <1>2, <1>4, <1>7, <2>2, Zenon DEF ReplyHas
<1> QED BY <1>6, <1>7

\* A cursor is not Nothing.
LEMMA CursorIsThere ==
  ASSUME NEW s \in Searches, NEW off \in Nat, NEW mode \in {"full", "keyword-only"}, NEW t \in Nat,
         NEW c, c = [offset |-> off, search |-> s, mode |-> mode, made |-> t]
  PROVE  c # Nothing /\ c.offset = off /\ c.search = s /\ c.mode = mode
<1>1. c \in SearchCursors
  BY DEF SearchCursors
<1> QED BY <1>1, NothingAssumption

\* A page after the first off of a list of books that are there.
Continued(ids, off, size, books) ==
  /\ off + size < Len(ids) => SubSeq(ids, 1, off) \o books = SubSeq(ids, 1, off + size)
  /\ ~(off + size < Len(ids)) => SubSeq(ids, 1, off) \o books = ids

LEMMA PageGoesOn ==
  ASSUME NEW there, NEW ids \in Seq(there), NEW off \in Nat, off <= Len(ids), NEW size \in Nat \ {0},
         NEW books, books = Only(SubSeq(ids, off + 1, Min({off + size, Len(ids)})), there)
  PROVE  Continued(ids, off, size, books)
<1>1. PICK n \in Nat : n = Len(ids)
  OBVIOUS
<1>2. PICK e \in Nat : e = IF off + size <= n THEN off + size ELSE n
  OBVIOUS
<1>3. Min({off + size, Len(ids)}) = e
  BY <1>1, <1>2, LeastOfTwo
<1>4. SubSeq(ids, off + 1, e) \in Seq(there)
  <2>1. \A i \in off + 1 .. e : ids[i] \in there
    BY <1>1, <1>2
  <2>2. off + 1 \in Int /\ e \in Int
    OBVIOUS
  <2> QED BY <2>1, <2>2, SubSeqProperties
<1>5. books = SubSeq(ids, off + 1, e)
  BY <1>3, <1>4, OnlyAll
<1>6. SubSeq(ids, 1, off) \o books = SubSeq(ids, 1, e)
  <2>1. off \in 0 .. Len(ids) /\ e = (IF off + size <= Len(ids) THEN off + size ELSE Len(ids))
    BY <1>1, <1>2
  <2>2. size \in Nat
    OBVIOUS
  <2>3. SubSeq(ids, 1, off) \o SubSeq(ids, off + 1, Min({off + size, Len(ids)})) = SubSeq(ids, 1, e)
    BY <1>2, <2>1, <2>2, WindowJoins
  <2> QED BY <1>3, <1>5, <2>3
<1>7. ASSUME off + size < n PROVE e = off + size
  BY <1>2, <1>7
<1>8. ASSUME ~(off + size < n) PROVE SubSeq(ids, 1, e) = ids
  <2>1. e = Len(ids)
    BY <1>1, <1>2, <1>8
  <2> QED BY <2>1, SubSeqFull
<1> QED BY <1>1, <1>6, <1>7, <1>8 DEF Continued

\* The client after a page.
Paged(r, q, ranking, reply, there) ==
  /\ DOMAIN r = QuestNames /\ r.pc = (IF reply.next = Nothing THEN "ended" ELSE "idle")
  /\ r.cursor = reply.next /\ r.last = reply /\ r.shown = q.shown \o reply.books
  /\ r.search = q.search /\ r.words = q.words
  /\ q.cursor = Nothing => r.whole = ranking.ids
  /\ q.cursor # Nothing => r.whole = q.whole
  /\ r.quiet => q.quiet
  /\ r.quiet /\ q.cursor = Nothing => ToSet(q.words) \subseteq there

LEMMA AfterPageIs ==
  ASSUME NEW q, DOMAIN q = QuestNames, NEW ranking, NEW reply, NEW there,
         NEW r, r = AfterPage(q, ranking, reply, there)
  PROVE  Paged(r, q, ranking, reply, there)
<1>1. PICK pc : pc = IF reply.next = Nothing THEN "ended" ELSE "idle"
  OBVIOUS
<1>2. PICK shown : shown = q.shown \o reply.books
  OBVIOUS
<1>3. PICK quiet : quiet = (q.quiet /\ ToSet(q.words) \subseteq there)
  OBVIOUS
<1>4. PICK b : b = IF q.cursor = Nothing THEN Started(q, ranking, there) ELSE q
  OBVIOUS
<1>5. PICK modes : modes = IF reply.status = 200 THEN b.modes \cup {ranking.mode} ELSE b.modes
  OBVIOUS
<1>6. PICK next : next = reply.next
  OBVIOUS
<1>7. /\ DOMAIN b = QuestNames /\ b.search = q.search /\ b.words = q.words /\ b.shown = q.shown
      /\ q.cursor = Nothing => b.whole = ranking.ids /\ b.quiet = quiet
      /\ q.cursor # Nothing => b = q
  <2>1. CASE q.cursor = Nothing
    <3>1. PICK ids : ids = ranking.ids
      OBVIOUS
    <3>2. b = [q EXCEPT !.whole = ids, !.quiet = quiet]
      BY <1>3, <1>4, <2>1, <3>1, Zenon DEF Started
    <3> QED BY <2>1, <3>1, <3>2 DEF QuestNames
  <2>2. CASE q.cursor # Nothing
    BY <1>4, <2>2
  <2> QED BY <2>1, <2>2
<1>8. r = [b EXCEPT !.pc = pc, !.cursor = next, !.last = reply, !.shown = b.shown \o reply.books,
             !.modes = modes]
  BY <1>1, <1>4, <1>5, <1>6, Zenon DEF AfterPage
<1>9. r = [b EXCEPT !.pc = pc, !.cursor = next, !.last = reply, !.shown = shown, !.modes = modes]
  BY <1>2, <1>7, <1>8
<1>10. /\ DOMAIN r = QuestNames /\ r.pc = pc /\ r.cursor = next /\ r.last = reply /\ r.shown = shown
       /\ r.search = b.search /\ r.words = b.words /\ r.whole = b.whole /\ r.quiet = b.quiet
  BY <1>7, <1>9 DEF QuestNames
<1>11. r.quiet => q.quiet
  <2>1. CASE q.cursor = Nothing
    BY <1>3, <1>7, <1>10, <2>1, Zenon
  <2>2. CASE q.cursor # Nothing
    BY <1>7, <1>10, <2>2
  <2> QED BY <2>1, <2>2
<1>12. r.quiet /\ q.cursor = Nothing => ToSet(q.words) \subseteq there
  BY <1>3, <1>7, <1>10, Zenon
<1> QED BY <1>1, <1>2, <1>6, <1>7, <1>10, <1>11, <1>12 DEF Paged

\* What a page is cut from while nothing has left: the ranking of the first page.
SameRanking(q, r, ranking, there) ==
  /\ ToSet(KeywordsOf(q.search, there)) \subseteq there
  /\ ranking.ids = IdsOf(ranking.mode, q.search, KeywordsOf(q.search, there), there)
  /\ r.whole = ranking.ids /\ ranking.ids \in Seq(there)
  /\ Offset(q.cursor) \in Nat /\ Offset(q.cursor) <= Len(ranking.ids)
  /\ q.shown = SubSeq(ranking.ids, 1, Offset(q.cursor))

LEMMA RankingStands ==
  ASSUME NEW q, NEW there, there \subseteq IdsOfShelf, QuestFits(q, there), q.pc = "found",
         NEW v, NEW ranking, ranking = Ranking(q.search, q.words, v, there),
         NEW reply, NEW r, Paged(r, q, ranking, reply, there), r.quiet,
         ModeKept(q.cursor, ranking.mode)
  PROVE  SameRanking(q, r, ranking, there)
<1>0. PICK from : from = Offset(q.cursor)
  OBVIOUS
<1>1. q.quiet /\ Asked(q.search) /\ q.words = KeywordsOf(q.search, there)
  BY DEF Paged, QuestFits, WordsFound
<1>2. PICK words : words = KeywordsOf(q.search, there)
  OBVIOUS
<1>3. q.search \in Searches /\ q.search.query \in DOMAIN Fit
  BY <1>1 DEF Asked, ValidSearch
<1>4. ToSet(words) \subseteq there
  <2>1. CASE q.cursor = Nothing
    BY <1>1, <1>2, <2>1 DEF Paged
  <2>2. CASE q.cursor # Nothing
    BY <1>1, <1>2, <2>2 DEF QuestFits, HalfShown
  <2> QED BY <2>1, <2>2
<1>5. words \in Seq(there)
  <2>1. IsList(words)
    BY <1>2, <1>3, ListedIsFinite, KeywordsAreAList DEF KeywordsOf
  <2>2. PICK n \in Nat : n = Len(words)
    BY <2>1, ListIsFinite
  <2>3. words = [i \in 1 .. n |-> words[i]]
    BY <2>1, <2>2 DEF IsList
  <2>4. \A i \in 1 .. n : words[i] \in ToSet(words)
    <3>1. DOMAIN words = 1 .. n
      BY <2>1, <2>2 DEF IsList
    <3> QED BY <3>1 DEF ToSet
  <2>5. words \in [1 .. n -> there]
    BY <1>4, <2>3, <2>4
  <2> QED BY <2>5, SeqDef
<1>6. ranking.ids = IdsOf(ranking.mode, q.search, words, there)
  BY <1>1, <1>2, RankingIs
<1>7. ranking.ids \in Seq(there)
  BY <1>3, <1>5, <1>6, IdsOfListed
<1>8. CASE q.cursor = Nothing
  <2>1. r.whole = ranking.ids /\ from = 0 /\ q.shown = <<>>
    BY <1>0, <1>8 DEF Paged, QuestFits, Offset
  <2>2. SubSeq(ranking.ids, 1, 0) = <<>>
    BY <1>7, NothingYet DEF IsList
  <2>3. Len(ranking.ids) \in Nat
    BY <1>7
  <2> QED BY <1>0, <1>2, <1>4, <1>6, <1>7, <2>1, <2>2, <2>3 DEF SameRanking
<1>9. CASE q.cursor # Nothing
  <2>1. /\ q.whole = IdsOf(q.cursor.mode, q.search, words, there)
        /\ q.shown = SubSeq(q.whole, 1, q.cursor.offset) /\ q.cursor.offset < Len(q.whole)
        /\ q.cursor.offset \in Nat
    BY <1>1, <1>2, <1>9 DEF QuestFits, HalfShown, CursorHeld
  <2>2. q.cursor.mode = ranking.mode
    BY <1>9 DEF ModeKept
  <2>3. r.whole = ranking.ids /\ q.whole = ranking.ids
    BY <1>6, <1>9, <2>1, <2>2 DEF Paged
  <2>4. Len(ranking.ids) \in Nat
    BY <1>7
  <2>5. from = q.cursor.offset
    BY <1>0, <1>9 DEF Offset
  <2> QED BY <1>0, <1>2, <1>4, <1>6, <1>7, <2>1, <2>3, <2>4, <2>5 DEF SameRanking
<1> QED BY <1>8, <1>9

LEMMA ShowFits ==
  ASSUME SearchInv, Show
  PROVE  SearchInv'
<1>1. PICK q : q = quest
  OBVIOUS
<1>2. PICK there : there = listed
  OBVIOUS
<1>3. PICK ranking : ranking = Ranking(q.search, q.words, vectors, there)
  OBVIOUS
<1>4. PICK reply : reply = Reply(q.search, q.cursor, q.size, ranking, there, clock)
  OBVIOUS
<1>5. PICK r : r = AfterPage(q, ranking, reply, there)
  OBVIOUS
<1>6. q.pc = "found" /\ quest' = r /\ clock' = clock /\ listed' = there
  BY <1>1, <1>2, <1>3, <1>4, <1>5, Zenon DEF Show
<1>7. QuestFits(q, there) /\ clock \in Nat /\ there \subseteq IdsOfShelf
  BY <1>1, <1>2, <1>6 DEF SearchInv, QuestOver
<1>8. Paged(r, q, ranking, reply, there)
  BY <1>5, <1>7, AfterPageIs DEF QuestFits
<1>9. PICK from : from = Offset(q.cursor)
  OBVIOUS
<1>10. /\ from \in Nat /\ q.size \in Nat \ {0} /\ Asked(q.search)
       /\ ranking.mode \in {"full", "keyword-only"}
  BY <1>3, <1>6, <1>7, <1>9, RankingIs DEF QuestFits, WordsFound, CursorHeld, Offset
<1>11. ReplyHas(reply, q.search, q.cursor, q.size, ranking, there, clock)
  BY <1>4, ReplyIs
<1>12. QuestOver(r) \/ QuestFits(r, there)
  <2>1. CASE ~ModeKept(q.cursor, ranking.mode)
    <3>1. reply.status = 410 /\ reply.next = Nothing
      BY <1>11, <2>1 DEF ReplyHas
    <3>2. r.pc = "ended" /\ r.last.status = 410
      BY <1>8, <3>1 DEF Paged
    <3> QED BY <3>2 DEF QuestOver, SearchJoins
  <2>2. CASE ModeKept(q.cursor, ranking.mode)
    <3>1. PICK n : n = Len(ranking.ids)
      OBVIOUS
    <3>2. /\ reply.status = 200
          /\ reply.books = Only(SubSeq(ranking.ids, from + 1, Min({from + q.size, n})), there)
          /\ reply.next = IF from + q.size < n
               THEN [offset |-> from + q.size, search |-> q.search, mode |-> ranking.mode, made |-> clock]
               ELSE Nothing
      BY <1>9, <1>11, <2>2, <3>1, Zenon DEF ReplyHas
    <3>3. ASSUME r.quiet
          PROVE  /\ ToSet(KeywordsOf(q.search, there)) \subseteq there
                 /\ r.whole = IdsOf(ranking.mode, q.search, KeywordsOf(q.search, there), there)
                 /\ r.whole \in Seq(there) /\ Len(r.whole) = n /\ n \in Nat
                 /\ from + q.size < n => r.shown = SubSeq(r.whole, 1, from + q.size)
                 /\ ~(from + q.size < n) => r.shown = r.whole
      <4>1. /\ ToSet(KeywordsOf(q.search, there)) \subseteq there
            /\ ranking.ids = IdsOf(ranking.mode, q.search, KeywordsOf(q.search, there), there)
            /\ r.whole = ranking.ids /\ ranking.ids \in Seq(there)
            /\ from <= Len(ranking.ids) /\ q.shown = SubSeq(ranking.ids, 1, from)
        <5>1. SameRanking(q, r, ranking, there)
          BY <1>3, <1>6, <1>7, <1>8, <2>2, <3>3, RankingStands
        <5> QED BY <1>9, <5>1 DEF SameRanking
      <4>2. r.shown = SubSeq(ranking.ids, 1, from) \o reply.books
        BY <1>8, <4>1 DEF Paged
      <4>3. /\ from + q.size < n => r.shown = SubSeq(ranking.ids, 1, from + q.size)
            /\ ~(from + q.size < n) => r.shown = ranking.ids
        <5>1. PICK ids : ids = ranking.ids
          OBVIOUS
        <5>2. PICK size : size = q.size
          OBVIOUS
        <5>3. PICK books : books = reply.books
          OBVIOUS
        <5>4. /\ ids \in Seq(there) /\ from \in Nat /\ from <= Len(ids) /\ size \in Nat \ {0}
              /\ books = Only(SubSeq(ids, from + 1, Min({from + size, Len(ids)})), there)
          BY <1>10, <3>1, <3>2, <4>1, <5>1, <5>2, <5>3
        <5>5. Continued(ids, from, size, books)
          BY <5>4, PageGoesOn
        <5> QED BY <3>1, <4>2, <5>1, <5>2, <5>3, <5>5 DEF Continued
      <4>4. n \in Nat
        BY <3>1, <4>1
      <4> QED BY <3>1, <4>1, <4>3, <4>4
    <3>4. CASE from + q.size < n
      <4>1. PICK off \in Nat \ {0} : off = from + q.size
        BY <1>10
      <4>2. PICK c : c = [offset |-> off, search |-> q.search, mode |-> ranking.mode, made |-> clock]
        OBVIOUS
      <4>3. c # Nothing /\ c.offset = off /\ c.search = q.search /\ c.mode = ranking.mode
        BY <1>7, <1>10, <4>1, <4>2, CursorIsThere DEF Asked
      <4>4. r.cursor = c /\ r.pc = "idle" /\ r.last.next = c /\ r.search = q.search
        BY <1>8, <3>2, <3>4, <4>1, <4>2, <4>3 DEF Paged
      <4>5. CursorHeld(r)
        BY <1>10, <4>1, <4>3, <4>4 DEF CursorHeld
      <4>6. ASSUME r.quiet PROVE HalfShown(r, there) /\ IsPrefix(r.shown, r.whole)
        <5>1. /\ ToSet(KeywordsOf(r.search, there)) \subseteq there
              /\ r.whole = IdsOf(r.cursor.mode, r.search, KeywordsOf(r.search, there), there)
              /\ r.shown = SubSeq(r.whole, 1, r.cursor.offset)
          BY <3>3, <3>4, <4>1, <4>3, <4>4, <4>6
        <5>2. IsList(r.whole) /\ off < Len(r.whole) /\ Len(r.whole) \in Nat
          BY <3>3, <3>4, <4>1, <4>6 DEF IsList
        <5>3. IsPrefix(SubSeq(r.whole, 1, off), r.whole)
          <6>1. off \in 0 .. Len(r.whole)
            BY <5>2
          <6> QED BY <5>2, <6>1, PrefixIs
        <5> QED BY <4>3, <4>4, <5>1, <5>2, <5>3 DEF HalfShown
      <4>7. SearchJoins(r)
        BY <4>3, <4>4, <4>6 DEF SearchJoins
      <4>8. r.search # Nothing /\ DOMAIN r = QuestNames
        BY <1>8, <1>10, <4>4, NothingAssumption DEF Asked, Paged
      <4> QED BY <4>3, <4>4, <4>5, <4>6, <4>7, <4>8 DEF QuestFits
    <3>5. CASE ~(from + q.size < n)
      <4>1. r.pc = "ended" /\ r.last.next = Nothing
        BY <1>8, <3>2, <3>5 DEF Paged
      <4>2. ASSUME r.quiet PROVE IsPrefix(r.shown, r.whole) /\ r.shown = r.whole
        <5>1. r.shown = r.whole /\ IsList(r.whole)
          BY <3>3, <3>5, <4>2 DEF IsList
        <5> QED BY <5>1, NothingYet
      <4> QED BY <4>1, <4>2 DEF QuestOver, SearchJoins
    <3> QED BY <3>4, <3>5
  <2> QED BY <2>1, <2>2
<1> QED BY <1>6, <1>7, <1>12 DEF SearchInv

LEMMA SearchFits ==
  ASSUME SearchInv, NEW s \in Searches, NEW size \in PageSizes, Search(s, size)
  PROVE  SearchInv'
<1>1. PICK q : q = quest
  OBVIOUS
<1>2. PICK there : there = listed
  OBVIOUS
<1>3. PICK r : r = quest'
  OBVIOUS
<1>4. PICK code : code = SearchCode(s, q.cursor)
  OBVIOUS
<1>5. PICK words : words = KeywordsOf(s, there)
  OBVIOUS
<1>6. /\ q.pc = "idle" /\ clock' = clock /\ listed' = there
      /\ r = IF code # 0 THEN [q EXCEPT !.pc = "ended", !.search = s, !.last = Deny(code)]
             ELSE [q EXCEPT !.pc = "found", !.search = s, !.size = size, !.words = words]
  <2>1. q.pc = "idle" /\ clock' = clock /\ listed' = there
    BY <1>1, <1>2 DEF Search
  <2>2. r = IF code # 0 THEN [q EXCEPT !.pc = "ended", !.search = s, !.last = Deny(code)]
            ELSE [q EXCEPT !.pc = "found", !.search = s, !.size = size, !.words = words]
    BY <1>1, <1>2, <1>3, <1>4, <1>5, Zenon DEF Search, KeywordsOf
  <2> QED BY <2>1, <2>2, Zenon
<1>7. QuestFits(q, there) /\ clock \in Nat /\ there \subseteq IdsOfShelf
  BY <1>1, <1>2, <1>6 DEF SearchInv, QuestOver
<1>8. DOMAIN q = QuestNames
  BY <1>7 DEF QuestFits
<1>9. CASE code # 0
  <2>1. PICK deny : deny = Deny(code)
    OBVIOUS
  <2>2. r = [q EXCEPT !.pc = "ended", !.search = s, !.last = deny]
    BY <1>6, <1>9, <2>1
  <2>3. r.pc = "ended" /\ r.last = deny
    BY <1>8, <2>2 DEF QuestNames
  <2>4. deny.status = code /\ code \in {400, 410}
    <3>1. deny.status = code
      BY <2>1 DEF Deny, NoReply
    <3>2. code \in {400, 410}
      BY <1>4, <1>9 DEF SearchCode
    <3> QED BY <3>1, <3>2
  <2>5. QuestOver(r)
    BY <2>3, <2>4 DEF QuestOver, SearchJoins
  <2> QED BY <1>3, <1>6, <1>7, <2>5 DEF SearchInv
<1>10. CASE code = 0
  <2>1. r = [q EXCEPT !.pc = "found", !.search = s, !.size = size, !.words = words]
    BY <1>6, <1>10
  <2>2. /\ DOMAIN r = QuestNames /\ r.pc = "found" /\ r.search = s /\ r.size = size /\ r.words = words
        /\ r.cursor = q.cursor /\ r.last = q.last /\ r.shown = q.shown /\ r.whole = q.whole
        /\ r.quiet = q.quiet
    BY <1>8, <2>1 DEF QuestNames
  <2>3. ValidSearch(s) /\ (q.cursor # Nothing => ~CursorGone(s, q.cursor))
    BY <1>4, <1>10 DEF SearchCode
  <2>4. WordsFound(r, there)
    <3>1. size \in Nat \ {0}
      BY SearchAssumption
    <3> QED BY <1>5, <2>2, <2>3, <3>1 DEF WordsFound, Asked
  <2>5. ASSUME q.cursor # Nothing PROVE q.cursor.search = s /\ q.search = s
    BY <1>7, <2>3, <2>5 DEF CursorGone, QuestFits, CursorHeld
  <2>6. r.cursor # Nothing => CursorHeld(r)
    BY <1>7, <2>2, <2>5 DEF QuestFits, CursorHeld
  <2>7. ASSUME r.cursor # Nothing, r.quiet PROVE HalfShown(r, there)
    <3>1. HalfShown(q, there)
      BY <1>7, <2>2, <2>7 DEF QuestFits
    <3> QED BY <2>2, <2>5, <2>7, <3>1 DEF HalfShown
  <2>8. SearchJoins(r) /\ (r.cursor = Nothing => r.shown = <<>> /\ r.last.status # 200)
    BY <1>7, <2>2 DEF QuestFits, SearchJoins
  <2>9. s # Nothing
    BY NothingAssumption
  <2>10. QuestFits(r, there)
    BY <2>2, <2>4, <2>6, <2>7, <2>8, <2>9 DEF QuestFits
  <2> QED BY <1>3, <1>6, <1>7, <2>10 DEF SearchInv
<1> QED BY <1>9, <1>10

LEMMA SearchFailsFits ==
  ASSUME SearchInv, SearchFails
  PROVE  SearchInv'
<1>1. PICK q : q = quest
  OBVIOUS
<1>2. PICK r : r = quest'
  OBVIOUS
<1>3. PICK deny : deny = Deny(500)
  OBVIOUS
<1>4. /\ q.pc = "found" /\ clock' = clock /\ listed' = listed
      /\ r = [q EXCEPT !.pc = "idle", !.last = deny]
  BY <1>1, <1>2, <1>3, Zenon DEF SearchFails
<1>5. QuestFits(q, listed) /\ clock \in Nat /\ listed \subseteq IdsOfShelf
  BY <1>1, <1>4 DEF SearchInv, QuestOver
<1>6. DOMAIN q = QuestNames
  BY <1>5 DEF QuestFits
<1>7. /\ DOMAIN r = QuestNames /\ r.pc = "idle" /\ r.last = deny /\ r.search = q.search
      /\ r.cursor = q.cursor /\ r.shown = q.shown /\ r.whole = q.whole /\ r.quiet = q.quiet
  BY <1>4, <1>6 DEF QuestNames
<1>8. deny.status = 500
  BY <1>3 DEF Deny, NoReply
<1>9. SearchJoins(r) /\ r.last.status # 200
  BY <1>7, <1>8 DEF SearchJoins
<1>10. r.cursor # Nothing => CursorHeld(r)
  BY <1>5, <1>7 DEF QuestFits, CursorHeld
<1>11. ASSUME r.cursor # Nothing, r.quiet PROVE HalfShown(r, listed)
  <2>1. HalfShown(q, listed)
    BY <1>5, <1>7, <1>11 DEF QuestFits
  <2> QED BY <1>7, <2>1 DEF HalfShown
<1>12. QuestFits(r, listed)
  BY <1>5, <1>7, <1>9, <1>10, <1>11 DEF QuestFits
<1> QED BY <1>2, <1>4, <1>5, <1>12 DEF SearchInv

\* When a book leaves after the first words of a search the scroll is not quiet any more.
LEMMA UnlistFits ==
  ASSUME SearchInv, NEW b \in Shelf, Unlist(b)
  PROVE  SearchInv'
<1>1. PICK q : q = quest
  OBVIOUS
<1>2. PICK r : r = quest'
  OBVIOUS
<1>3. PICK there : there = listed \ {b.id}
  OBVIOUS
<1>4. PICK quiet : quiet = (q.quiet /\ q.search = Nothing)
  OBVIOUS
<1>5. q.pc # "ended" /\ clock' = clock /\ listed' = there /\ r = [q EXCEPT !.quiet = quiet]
  <2>1. r = [q EXCEPT !.quiet = q.quiet /\ q.search = Nothing] /\ clock' = clock
    BY <1>1, <1>2, Zenon DEF Unlist
  <2>2. q.pc # "ended" /\ listed' = there
    BY <1>1, <1>3, Zenon DEF Unlist, Trouble
  <2> QED BY <1>4, <2>1, <2>2, Zenon
<1>6. QuestFits(q, listed) /\ clock \in Nat /\ there \subseteq IdsOfShelf
  BY <1>1, <1>3, <1>5 DEF SearchInv, QuestOver
<1>7. DOMAIN q = QuestNames
  BY <1>6 DEF QuestFits
<1>8. /\ DOMAIN r = QuestNames /\ r.pc = q.pc /\ r.last = q.last /\ r.search = q.search
      /\ r.cursor = q.cursor /\ r.shown = q.shown /\ r.whole = q.whole /\ r.quiet = quiet
      /\ r.words = q.words /\ r.size = q.size
  BY <1>5, <1>7 DEF QuestNames
<1>9. ASSUME r.quiet PROVE q.quiet /\ q.search = Nothing
  BY <1>4, <1>8, <1>9, Zenon
<1>10. r.cursor # Nothing => CursorHeld(r)
  BY <1>6, <1>8 DEF QuestFits, CursorHeld
<1>11. r.cursor # Nothing /\ r.quiet => HalfShown(r, there)
  BY <1>6, <1>8, <1>9 DEF QuestFits
<1>12. r.pc = "found" => WordsFound(r, there)
  BY <1>6, <1>8, <1>9 DEF QuestFits, WordsFound
<1>13. SearchJoins(r)
  BY <1>6, <1>8, <1>9 DEF QuestFits, SearchJoins
<1>14. QuestFits(r, there)
  BY <1>6, <1>8, <1>10, <1>11, <1>12, <1>13 DEF QuestFits
<1> QED BY <1>2, <1>5, <1>6, <1>14 DEF SearchInv

LEMMA SearchStarts == SearchInit => SearchInv
<1> SUFFICES ASSUME SearchInit PROVE SearchInv
  OBVIOUS
<1>1. quest = NewQuest /\ clock = 0 /\ listed = IdsOfShelf
  BY DEF SearchInit, IdsOfShelf
<1>2. /\ DOMAIN quest = QuestNames /\ quest.pc = "idle" /\ quest.cursor = Nothing
      /\ quest.shown = <<>> /\ quest.last = NoReply
  BY <1>1 DEF NewQuest, QuestNames
<1>3. quest.last.status # 200
  BY <1>2 DEF NoReply
<1>4. QuestFits(quest, listed)
  BY <1>2, <1>3 DEF QuestFits, SearchJoins
<1> QED BY <1>1, <1>4 DEF SearchInv

LEMMA SearchGoesOn == SearchInv /\ [SearchNext]_searchVars => SearchInv'
<1> SUFFICES ASSUME SearchInv, [SearchNext]_searchVars PROVE SearchInv'
  OBVIOUS
<1>1. CASE \E s \in Searches, size \in PageSizes : Search(s, size)
  BY <1>1, SearchFits
<1>2. CASE Show
  BY <1>2, ShowFits
<1>3. CASE SearchFails
  BY <1>3, SearchFailsFits
<1>4. CASE Wait
  BY <1>4 DEF Wait, SearchInv
<1>5. CASE \E b \in Shelf : Unlist(b)
  BY <1>5, UnlistFits
<1>6. CASE \E v \in VectorStates : ChangeVectors(v)
  BY <1>6 DEF ChangeVectors, SearchInv
<1>7. CASE UNCHANGED searchVars
  BY <1>7 DEF searchVars, SearchInv
<1> QED BY <1>1, <1>2, <1>3, <1>4, <1>5, <1>6, <1>7 DEF SearchNext

\* While nothing leaves the catalogue the ranking of every page is that of the first one, and
\* the cursor stands where what was shown ends; whatever the vectors do.
THEOREM SearchHolds == SearchSpec => []SearchInv
<1>1. SearchInit => SearchInv
  BY SearchStarts
<1>2. SearchInv /\ [SearchNext]_searchVars => SearchInv'
  BY SearchGoesOn
<1> QED BY <1>1, <1>2, PTL DEF SearchSpec

\* The pages of one search join into the list of the first page (service.py, search).
THEOREM SearchesJoin == SearchSpec => []SearchPagesJoin
<1>1. SearchInv => SearchPagesJoin
  BY DEF SearchInv, QuestOver, QuestFits, SearchJoins, SearchPagesJoin
<1> QED BY <1>1, SearchHolds, PTL

-----------------------------------------------------------------------------
(* What a page shows. The scores are whole numbers, so the lists are in    *)
(* order and hold what they are made of.                                   *)

LEMMA WeightIsInt ==
  ASSUME NEW hist, NEW b \in Reviewed(hist)
  PROVE  Weight(hist, b) \in Int
<1>1. PICK S : S = {RowWeight(r) : r \in {x \in hist : x.book = b}}
  OBVIOUS
<1>2. S \subseteq -2 .. 3
  <2>1. ASSUME NEW r PROVE RowWeight(r) \in -2 .. 3
    BY DEF RowWeight, ReviewWeight, Purchase, Library, LikedReview, DislikedReview
  <2> QED BY <1>1, <2>1
<1>3. S # {}
  <2>1. PICK r \in hist : r.book = b
    BY DEF Reviewed
  <2>2. RowWeight(r) \in S
    BY <1>1, <2>1
  <2> QED BY <2>2
<1>4. IsFiniteSet(S)
  <2>1. -2 \in Int /\ 3 \in Int
    OBVIOUS
  <2>2. IsFiniteSet(-2 .. 3)
    BY <2>1, FS_Interval
  <2> QED BY <1>2, <2>2, FS_Subset
<1>5. S \subseteq Int
  BY <1>2
<1>6. Max(S) \in S
  BY <1>3, <1>4, <1>5, LargestIsThere
<1> QED BY <1>1, <1>5, <1>6 DEF Weight

LEMMA CategoryScoreIsInt ==
  ASSUME NEW hist, IsFiniteSet(hist), NEW classOf, NEW c
  PROVE  CategoryScore(hist, classOf, c) \in Int
<1>1. PICK S : S = {b \in Reviewed(hist) : classOf[b] = c}
  OBVIOUS
<1>2. IsFiniteSet(S) /\ S \subseteq Reviewed(hist)
  <2>1. PICK f : f = [r \in hist |-> r.book]
    OBVIOUS
  <2>2. Reviewed(hist) = {f[r] : r \in hist}
    BY <2>1 DEF Reviewed
  <2>3. IsFiniteSet(Reviewed(hist))
    BY <2>2, ImageIsFinite
  <2>4. S \subseteq Reviewed(hist)
    BY <1>1
  <2> QED BY <2>3, <2>4, FS_Subset
<1>3. PICK w : w = [b \in S |-> Weight(hist, b)]
  OBVIOUS
<1>4. w \in [S -> Int]
  BY <1>2, <1>3, WeightIsInt
<1> DEFINE step(s, g) == IF s = {} THEN 0 ELSE Weight(hist, OneOf(s)) + g[s \ {OneOf(s)}]
           iter == CHOOSE g : g = [s \in SUBSET S |-> step(s, g)]
<1>5. ASSUME NEW s \in SUBSET S, NEW g PROVE Plus(s, w, g) = step(s, g)
  <2>1. CASE s = {}
    BY <2>1 DEF Plus
  <2>2. CASE s # {}
    <3>1. OneOf(s) \in s
      BY <2>2 DEF OneOf
    <3>2. w[OneOf(s)] = Weight(hist, OneOf(s))
      BY <1>3, <3>1
    <3> QED BY <2>2, <3>2 DEF Plus
  <2> QED BY <2>1, <2>2
<1>6. ASSUME NEW g PROVE Added(S, w, g) <=> g = [s \in SUBSET S |-> step(s, g)]
  <2>1. [s \in SUBSET S |-> Plus(s, w, g)] = [s \in SUBSET S |-> step(s, g)]
    <3> HIDE DEF step
    <3> QED BY <1>5
  <2> HIDE DEF step
  <2> QED BY <2>1 DEF Added
<1>7. Added(S, w, iter)
  <2>1. PICK g : Added(S, w, g)
    BY <1>2, AddedExists
  <2>2. g = [s \in SUBSET S |-> step(s, g)]
    BY <1>6, <2>1
  <2>3. iter = [s \in SUBSET S |-> step(s, iter)]
    <3> HIDE DEF step
    <3> QED BY <2>2, Zenon
  <2> HIDE DEF iter
  <2> QED BY <1>6, <2>3
<1>8. iter[S] \in Int
  <2> HIDE DEF iter
  <2> QED BY <1>2, <1>4, <1>7, AddedIsInt
<1>9. CategoryScore(hist, classOf, c) = iter[S]
  BY <1>1 DEF CategoryScore, Sum, MapThenSumSet, MapThenFoldSet, OneOf
<1> QED BY <1>8, <1>9

LEMMA TagWeightIsInt ==
  ASSUME NEW read, IsFiniteSet(read), NEW p \in Profiles \ {None}, NEW c
  PROVE  TagWeight(read, p, c) \in Int
<1>1. PICK n \in Int : n = IF c \in DOMAIN p.weights THEN p.weights[c] ELSE 0
  BY ProfilesAssumption
<1>2. PICK before : before = IF p.reflected = 0 THEN {} ELSE {r \in read : r.at <= p.reflected}
  OBVIOUS
<1>3. IsFiniteSet(before)
  <2>1. before \subseteq read
    BY <1>2
  <2> QED BY <2>1, FS_Subset
<1>4. PICK k \in Int : k = CategoryScore(read, ClassOf, c)
  BY CategoryScoreIsInt
<1>5. PICK l \in Int : l = CategoryScore(before, ClassOf, c)
  BY <1>3, CategoryScoreIsInt
<1>6. ScoreSince(read, ClassOf, p.reflected, c) = k - l
  BY <1>2, <1>4, <1>5 DEF ScoreSince
<1> QED BY <1>1, <1>6 DEF TagWeight

LEMMA ClampIsInt ==
  ASSUME NEW n \in Int, NEW top \in Int
  PROVE  Clamp(n, top) \in Int
<1>1. PICK m \in Int : m = Min({n, top})
  BY LeastOfTwo
<1>2. Max({0, m}) \in Int
  BY LargestOfTwo
<1> QED BY <1>1, <1>2 DEF Clamp

LEMMA MatchIsInt ==
  ASSUME NEW similarity \in Int, NEW raw \in Int, NEW sales \in Int, NEW best \in Int
  PROVE  MatchScore(similarity, raw, sales, best) \in Int
<1>1. PICK top \in Int : top = Max({best, 1}) /\ top >= 1
  BY LargestOfTwo
<1>2. PICK quarters \in Int : quarters = CategoryQuarters(raw)
  BY ClampIsInt DEF CategoryQuarters
<1>3. PICK sold \in Int : sold = Clamp(sales, top)
  BY ClampIsInt
<1>4. PICK n \in Int : n = 4 * top * similarity + top * quarters + 60 * sold
  OBVIOUS
<1>5. PICK d \in Nat \ {0} : d = 4 * top
  BY <1>1
<1>6. PICK q \in Int : q = n \div d
  OBVIOUS
<1>7. Rounded(n, d) \in {q, q + 1}
  BY <1>6 DEF Rounded
<1>8. MatchScore(similarity, raw, sales, best) = Rounded(n, d)
  BY <1>1, <1>2, <1>3, <1>4, <1>5 DEF MatchScore
<1> QED BY <1>7, <1>8

LEMMA BestSalesIsInt == BestSales \in Int
<1>1. PICK S : S = {b.sales : b \in Books}
  OBVIOUS
<1>2. IsFiniteSet(S) /\ S \subseteq Int
  <2>1. PICK f : f = [b \in Books |-> b.sales]
    OBVIOUS
  <2>2. S = {f[b] : b \in Books}
    BY <1>1, <2>1
  <2>3. IsFiniteSet(S)
    BY <2>2, FeedPagesAssumption, ImageIsFinite
  <2> QED BY <1>1, <2>3, BooksAssumption
<1>3. IsFiniteSet(S \cup {0}) /\ S \cup {0} \subseteq Int /\ S \cup {0} # {}
  <2>1. IsFiniteSet({0})
    BY FS_Singleton
  <2>2. IsFiniteSet(S \cup {0})
    BY <1>2, <2>1, FS_Union
  <2> QED BY <1>2, <2>2
<1>4. Max(S \cup {0}) \in S \cup {0}
  BY <1>3, LargestIsThere
<1> QED BY <1>1, <1>3, <1>4 DEF BestSales

LEMMA PriceOfBook ==
  ASSUME NEW b \in Books
  PROVE  Price(b) \in Int
BY PriceIsInt, FeedPagesAssumption, BooksAssumption

\* What an item of a list may be.
ItemFits(e, a, own, read) ==
  /\ Passes(a.filter, TheBook(e.book)) /\ e.score >= a.min
  /\ TheBook(e.book).id = e.book /\ e.book \notin Excluded(a, own, read)
AllFit(list, a, own, read) == \A k \in DOMAIN list : ItemFits(list[k], a, own, read)

LEMMA TheBookIs ==
  ASSUME NEW b \in Books
  PROVE  TheBook(b.id) = b
<1>1. \E x \in Books : x.id = b.id
  OBVIOUS
<1>2. PICK x : x = TheBook(b.id)
  OBVIOUS
<1>3. x \in Books /\ x.id = b.id
  BY <1>1, <1>2 DEF TheBook
<1> QED BY <1>2, <1>3, BooksAssumption

LEMMA BookFits ==
  ASSUME NEW a, NEW own, NEW read, NEW b \in Eligible(a, own, read), NEW score, score >= a.min
  PROVE  ItemFits(Item(b, score), a, own, read)
<1>1. b \in Books /\ b.id \notin Excluded(a, own, read) /\ Passes(a.filter, b)
  BY DEF Eligible
<1>2. TheBook(b.id) = b
  BY <1>1, TheBookIs
<1> QED BY <1>1, <1>2 DEF ItemFits, Item

LEMMA SortedHolds ==
  ASSUME NEW S, IsFiniteSet(S), NEW n \in Nat, NEW f \in [S -> [1 .. n -> Int]],
         \A x, y \in S : f[x] = f[y] => x = y, NEW keyed, keyed = {<<f[x], x>> : x \in S}
  PROVE  ByKey(keyed) \in Seq(S) /\ \A m \in Nat : ToSet(Take(ByKey(keyed), m)) \subseteq S
<1>1. keyed = WithKeys(f, S)
  BY DEF WithKeys
<1>2. ByKey(WithKeys(f, S)) \in Seq(S)
  BY SortedList
<1>3. PICK s : s = ByKey(keyed)
  OBVIOUS
<1>4. s \in Seq(S)
  BY <1>1, <1>2, <1>3
<1>5. ASSUME NEW m \in Nat PROVE ToSet(Take(s, m)) \subseteq S
  <2>1. Take(s, m) \in Seq(S)
    BY <1>4, TakeIs
  <2> QED BY <2>1, HeldIsFinite
<1> QED BY <1>3, <1>4, <1>5

\* Books by keys that end in the id.
LEMMA SortedBooks ==
  ASSUME NEW S, S \subseteq Books, NEW n \in Nat \ {0}, NEW f \in [S -> [1 .. n -> Int]],
         \A b \in S : f[b][n] = b.id, NEW keyed, keyed = WithKeys(f, S)
  PROVE  ByKey(keyed) \in Seq(S) /\ ToSet(Take(ByKey(keyed), ListLimit)) \subseteq S
<1>1. IsFiniteSet(S)
  BY FeedPagesAssumption, FS_Subset
<1>2. \A x, y \in S : f[x] = f[y] => x = y
  BY BooksAssumption
<1>3. ByKey(keyed) \in Seq(S) /\ \A m \in Nat : ToSet(Take(ByKey(keyed), m)) \subseteq S
  <2>1. keyed = {<<f[x], x>> : x \in S}
    BY DEF WithKeys
  <2> QED BY <1>1, <1>2, <2>1, SortedHolds
<1>4. ListLimit \in Nat
  BY FeedPagesAssumption
<1> QED BY <1>3, <1>4

LEMMA NearestHolds ==
  ASSUME NEW S, S \subseteq Books
  PROVE  ToSet(ByDistance(S)) \subseteq S
<1>1. PICK f : f = [b \in S |-> <<-b.similar, b.id>>]
  OBVIOUS
<1>2. ASSUME NEW b \in S PROVE f[b] \in [1 .. 2 -> Int] /\ f[b][2] = b.id
  <2>1. PICK k \in Int, l \in Int : k = -b.similar /\ l = b.id
    BY BooksAssumption
  <2>2. f[b] = <<k, l>>
    BY <1>1, <2>1
  <2> QED BY <2>1, <2>2
<1>3. PICK n \in Nat \ {0} : n = 2
  OBVIOUS
<1>4. f \in [S -> [1 .. n -> Int]] /\ \A b \in S : f[b][n] = b.id
  BY <1>1, <1>2, <1>3
<1>5. PICK keyed : keyed = {<<<<-b.similar, b.id>>, b>> : b \in S}
  OBVIOUS
<1>6. keyed = WithKeys(f, S)
  BY <1>1, <1>5 DEF WithKeys
<1>7. ToSet(Take(ByKey(keyed), ListLimit)) \subseteq S
  BY <1>4, <1>6, SortedBooks
<1> QED BY <1>5, <1>7 DEF ByDistance, Ordered

KeySize(sort) == IF sort = "match" THEN 4 ELSE 2

LEMMA TasteKeyIs ==
  ASSUME NEW a \in Asks, NEW b \in Books, NEW score \in Int
  PROVE  /\ TasteKey(a, b, score) \in [1 .. KeySize(a.sort) -> Int]
         /\ TasteKey(a, b, score)[KeySize(a.sort)] = b.id
<1>1. PICK k \in Int, l \in Int, m \in Int, s \in Int, i \in Int :
        k = -b.sales /\ l = -b.year /\ m = Price(b) /\ s = -score /\ i = b.id
  BY BooksAssumption, PriceOfBook
<1>2. a.sort \in {"match", "newest", "price_asc"}
  BY AsksAssumption
<1>3. CASE a.sort = "match"
  <2>1. TasteKey(a, b, score) = <<s, k, l, i>> /\ KeySize(a.sort) = 4
    BY <1>1, <1>3 DEF TasteKey, KeySize
  <2> QED BY <1>1, <2>1
<1>4. CASE a.sort = "newest"
  <2>1. TasteKey(a, b, score) = <<l, i>> /\ KeySize(a.sort) = 2
    BY <1>1, <1>4 DEF TasteKey, KeySize
  <2> QED BY <1>1, <2>1
<1>5. CASE a.sort = "price_asc"
  <2>1. TasteKey(a, b, score) = <<m, i>> /\ KeySize(a.sort) = 2
    BY <1>1, <1>5 DEF TasteKey, KeySize
  <2> QED BY <1>1, <2>1
<1> QED BY <1>2, <1>3, <1>4, <1>5

LEMMA RankedFits ==
  ASSUME NEW a \in Asks, NEW own, NEW read, NEW S, S \subseteq Eligible(a, own, read),
         NEW g \in [S -> Int], NEW scored, scored = {<<b, g[b]>> : b \in S}
  PROVE  AllFit(Ranked(a, scored), a, own, read)
<1>1. S \subseteq Books /\ IsFiniteSet(S)
  BY EligibleIsFinite, FS_Subset
<1>2. PICK P : P = {p \in scored : p[2] >= a.min}
  OBVIOUS
<1>3. IsFiniteSet(P)
  <2>1. PICK h : h = [b \in S |-> <<b, g[b]>>]
    OBVIOUS
  <2>2. scored = {h[b] : b \in S}
    BY <2>1
  <2>3. IsFiniteSet(scored)
    BY <1>1, <2>2, ImageIsFinite
  <2> QED BY <1>2, <2>3, FS_Subset
<1>4. \A p \in P : /\ p[1] \in S /\ p[1] \in Books /\ p[2] = g[p[1]] /\ p[2] \in Int
                   /\ p = <<p[1], p[2]>> /\ p[2] >= a.min
  BY <1>1, <1>2
<1>5. PICK n \in Nat \ {0} : n = KeySize(a.sort)
  BY DEF KeySize
<1>6. PICK f : f = [p \in P |-> TasteKey(a, p[1], p[2])]
  OBVIOUS
<1>7. ASSUME NEW p \in P PROVE f[p] \in [1 .. n -> Int] /\ f[p][n] = p[1].id
  BY <1>4, <1>5, <1>6, TasteKeyIs
<1>8. f \in [P -> [1 .. n -> Int]]
  BY <1>6, <1>7
<1>9. ASSUME NEW p \in P, NEW q \in P, f[p] = f[q] PROVE p = q
  <2>1. p[1].id = q[1].id
    BY <1>7, <1>9
  <2>2. p[1] = q[1]
    BY <1>4, <2>1, BooksAssumption
  <2> QED BY <1>4, <2>2
<1>10. PICK keyed : keyed = {<<TasteKey(a, p[1], p[2]), p>> : p \in P}
  OBVIOUS
<1>11. keyed = {<<f[p], p>> : p \in P}
  BY <1>6, <1>10
<1>12. PICK order : order = ByKey(keyed)
  OBVIOUS
<1>13. order \in Seq(P)
  <2>1. \A p, q \in P : f[p] = f[q] => p = q
    BY <1>9
  <2>2. ByKey(WithKeys(f, P)) \in Seq(P)
    BY <1>3, <1>8, <2>1, SortedList
  <2>3. keyed = WithKeys(f, P)
    BY <1>11 DEF WithKeys
  <2> QED BY <1>12, <2>2, <2>3
<1>14. Ranked(a, scored) = [i \in DOMAIN order |-> Item(order[i][1], order[i][2])]
  BY <1>2, <1>10, <1>12, Zenon DEF Ranked, Ordered
<1>15. ASSUME NEW i \in DOMAIN order PROVE ItemFits(Item(order[i][1], order[i][2]), a, own, read)
  <2>1. PICK p \in P : p = order[i]
    BY <1>13
  <2>2. p[1] \in Eligible(a, own, read) /\ p[2] >= a.min
    BY <1>4
  <2> QED BY <2>1, <2>2, BookFits
<1> QED BY <1>14, <1>15 DEF AllFit

LEMMA TasteFits ==
  ASSUME NEW a \in Asks, NEW own, NEW read, IsFiniteSet(read), NEW p \in Profiles \ {None}, NEW i
  PROVE  AllFit(TasteList(a, own, read, p, i), a, own, read)
<1>1. PICK all : all = Embedded(Eligible(a, own, read), i)
  OBVIOUS
<1>2. PICK few : few = {b \in all : b.id \in i.reach}
  OBVIOUS
<1>3. few \subseteq all /\ all \subseteq Eligible(a, own, read) /\ all \subseteq Books
  BY <1>1, <1>2, EligibleIsFinite DEF Embedded
<1>4. PICK near : near = Nearest(a, own, read, i)
  OBVIOUS
<1>5. near = ByDistance(all) \/ near = ByDistance(few)
  BY <1>1, <1>2, <1>4 DEF Nearest
<1>6. ToSet(ByDistance(all)) \subseteq all /\ ToSet(ByDistance(few)) \subseteq few
  BY <1>3, NearestHolds
<1>7. PICK S : S = ToSet(near)
  OBVIOUS
<1>8. S \subseteq Eligible(a, own, read) /\ S \subseteq Books
  BY <1>3, <1>5, <1>6, <1>7
<1>9. PICK g : g = [b \in S |-> MatchScore(SimilarityPoints(b.similar), TagWeight(read, p, b.category),
                                           b.sales, BestSales)]
  OBVIOUS
<1>10. ASSUME NEW b \in S PROVE g[b] \in Int
  <2>1. b.similar \in Int /\ b.sales \in Int
    BY <1>8, BooksAssumption
  <2>2. PICK points \in Int : points = SimilarityPoints(b.similar)
    <3>1. b.similar - 85 \in Int /\ 10 \in Int
      BY <2>1
    <3>2. Clamp(b.similar - 85, 10) \in Int
      BY <3>1, ClampIsInt
    <3> QED BY <3>2 DEF SimilarityPoints
  <2>3. PICK raw \in Int : raw = TagWeight(read, p, b.category)
    BY TagWeightIsInt
  <2>4. MatchScore(points, raw, b.sales, BestSales) \in Int
    BY <2>1, BestSalesIsInt, MatchIsInt
  <2> QED BY <1>9, <2>2, <2>3, <2>4
<1>11. g \in [S -> Int]
  BY <1>9, <1>10
<1>12. PICK scored : scored = {<<b, MatchScore(SimilarityPoints(b.similar),
                                   TagWeight(read, p, b.category), b.sales, BestSales)>> : b \in S}
  OBVIOUS
<1>13. scored = {<<b, g[b]>> : b \in S}
  BY <1>9, <1>12
<1>14. TasteList(a, own, read, p, i) = Ranked(a, scored)
  BY <1>4, <1>7, <1>12 DEF TasteList
<1>15. AllFit(Ranked(a, scored), a, own, read)
  BY <1>8, <1>11, <1>13, RankedFits
<1> QED BY <1>14, <1>15

LEMMA PopularIs ==
  ASSUME NEW b \in Books, NEW w \in Int
  PROVE  /\ PopularKey(b) \in [1 .. 3 -> Int] /\ PopularKey(b)[3] = b.id
         /\ <<w>> \o PopularKey(b) \in [1 .. 4 -> Int] /\ (<<w>> \o PopularKey(b))[4] = b.id
<1>1. PICK k \in Int, l \in Int, i \in Int : k = -b.sales /\ l = -b.year /\ i = b.id
  BY BooksAssumption
<1>2. PopularKey(b) = <<k, l, i>>
  BY <1>1 DEF PopularKey
<1>3. PICK s, t : s = <<w>> /\ t = <<k, l, i>>
  OBVIOUS
<1>4. s \in Seq(Int) /\ t \in Seq(Int) /\ Len(s) = 1 /\ Len(t) = 3 /\ t[3] = i
  BY <1>3
<1>5. PICK u : u = s \o t
  OBVIOUS
<1>6. u \in Seq(Int) /\ Len(u) = 4 /\ u[4] = i
  <2>1. /\ u \in Seq(Int) /\ Len(u) = Len(s) + Len(t)
        /\ \A j \in 1 .. Len(s) + Len(t) : u[j] = IF j <= Len(s) THEN s[j] ELSE t[j - Len(s)]
    BY <1>4, <1>5, ConcatProperties
  <2>2. 4 \in 1 .. Len(s) + Len(t) /\ ~(4 <= Len(s)) /\ 4 - Len(s) = 3 /\ Len(s) + Len(t) = 4
    BY <1>4
  <2> QED BY <1>4, <2>1, <2>2
<1>7. u \in [1 .. 4 -> Int]
  BY <1>6, LenProperties
<1>8. t \in [1 .. 3 -> Int]
  BY <1>4, LenProperties
<1> QED BY <1>1, <1>2, <1>3, <1>4, <1>5, <1>6, <1>7, <1>8

LEMMA PopularHolds ==
  ASSUME NEW S, S \subseteq Books, NEW keyed, keyed = {<<PopularKey(b), b>> : b \in S}
  PROVE  ByKey(keyed) \in Seq(S) /\ ToSet(Take(ByKey(keyed), ListLimit)) \subseteq S
<1>1. PICK f : f = [b \in S |-> PopularKey(b)]
  OBVIOUS
<1>2. PICK n \in Nat \ {0} : n = 3
  OBVIOUS
<1>3. f \in [S -> [1 .. n -> Int]] /\ \A b \in S : f[b][n] = b.id
  <2>1. 0 \in Int
    OBVIOUS
  <2>2. \A b \in S : PopularKey(b) \in [1 .. 3 -> Int] /\ PopularKey(b)[3] = b.id
    BY <2>1, PopularIs
  <2> QED BY <1>1, <1>2, <2>2
<1>4. keyed = WithKeys(f, S)
  BY <1>1 DEF WithKeys
<1> QED BY <1>3, <1>4, SortedBooks

LEMMA RuleFits ==
  ASSUME NEW a \in Asks, NEW own, NEW read, IsFiniteSet(read), NEW p \in Profiles \ {None}
  PROVE  AllFit(RuleList(a, own, read, p), a, own, read)
<1>1. PICK all : all = Eligible(a, own, read)
  OBVIOUS
<1>2. PICK liked : liked = {b \in all : TagWeight(read, p, b.category) > 0}
  OBVIOUS
<1>3. liked \subseteq all /\ all \subseteq Books
  BY <1>1, <1>2, EligibleIsFinite
<1>4. PICK f : f = [b \in liked |-> <<-TagWeight(read, p, b.category)>> \o PopularKey(b)]
  OBVIOUS
<1>5. PICK n \in Nat \ {0} : n = 4
  OBVIOUS
<1>6. f \in [liked -> [1 .. n -> Int]] /\ \A b \in liked : f[b][n] = b.id
  <2>1. ASSUME NEW b \in liked PROVE f[b] \in [1 .. 4 -> Int] /\ f[b][4] = b.id
    <3>1. TagWeight(read, p, b.category) \in Int
      BY TagWeightIsInt
    <3>2. PICK w \in Int : w = -TagWeight(read, p, b.category)
      BY <3>1
    <3>3. f[b] = <<w>> \o PopularKey(b)
      BY <1>4, <3>2
    <3> QED BY <1>3, <3>3, PopularIs
  <2> QED BY <1>4, <1>5, <2>1
<1>7. PICK byLiking : byLiking = {<<<<-TagWeight(read, p, b.category)>> \o PopularKey(b), b>> : b \in liked}
  OBVIOUS
<1>8. byLiking = WithKeys(f, liked)
  BY <1>4, <1>7 DEF WithKeys
<1>9. ToSet(Take(ByKey(byLiking), ListLimit)) \subseteq liked
  BY <1>3, <1>6, <1>8, SortedBooks
<1>10. PICK bySales : bySales = {<<PopularKey(b), b>> : b \in all}
  OBVIOUS
<1>11. ToSet(Take(ByKey(bySales), ListLimit)) \subseteq all
  BY <1>3, <1>10, PopularHolds
<1>12. PICK S : S = RuleCandidates(a, own, read, p)
  OBVIOUS
<1>13. S = ToSet(Take(ByKey(byLiking), ListLimit)) \cup ToSet(Take(ByKey(bySales), ListLimit))
  BY <1>1, <1>2, <1>7, <1>10, <1>12, Zenon DEF RuleCandidates, Ordered
<1>14. S \subseteq Eligible(a, own, read) /\ S \subseteq Books
  BY <1>1, <1>3, <1>9, <1>11, <1>13
<1>15. PICK g : g = [b \in S |-> MatchScore(0, TagWeight(read, p, b.category), b.sales, BestSales)]
  OBVIOUS
<1>16. ASSUME NEW b \in S PROVE g[b] \in Int
  <2>1. b.sales \in Int /\ 0 \in Int
    BY <1>14, BooksAssumption
  <2>2. PICK raw \in Int : raw = TagWeight(read, p, b.category)
    BY TagWeightIsInt
  <2>3. MatchScore(0, raw, b.sales, BestSales) \in Int
    BY <2>1, BestSalesIsInt, MatchIsInt
  <2> QED BY <1>15, <2>2, <2>3
<1>17. g \in [S -> Int]
  BY <1>15, <1>16
<1>18. PICK scored : scored = {<<b, MatchScore(0, TagWeight(read, p, b.category), b.sales, BestSales)>> : b \in S}
  OBVIOUS
<1>19. scored = {<<b, g[b]>> : b \in S}
  BY <1>15, <1>18
<1>20. RuleList(a, own, read, p) = Ranked(a, scored)
  BY <1>12, <1>18 DEF RuleList
<1>21. AllFit(Ranked(a, scored), a, own, read)
  BY <1>14, <1>17, <1>19, RankedFits
<1> QED BY <1>20, <1>21

LEMMA OffersHold ==
  ASSUME NEW S, S \subseteq Books
  PROVE  ByProduct(S) \in Seq(S)
<1>1. PICK offers : offers = OffersOf(S)
  OBVIOUS
<1>2. \A o \in offers : o[1] \in Int /\ o[2] \in S /\ o = <<o[1], o[2]>>
  BY <1>1, BooksAssumption DEF OffersOf
<1>3. PICK f : f = [o \in offers |-> <<o[1], o[2].id>>]
  OBVIOUS
<1>4. ASSUME NEW o \in offers PROVE f[o] \in [1 .. 2 -> Int] /\ f[o][1] = o[1] /\ f[o][2] = o[2].id
  <2>1. PICK k \in Int, l \in Int : k = o[1] /\ l = o[2].id
    BY <1>2, BooksAssumption
  <2>2. f[o] = <<k, l>>
    BY <1>3, <2>1
  <2> QED BY <2>1, <2>2
<1>5. PICK m \in Nat : m = 2
  OBVIOUS
<1>13. f \in [offers -> [1 .. m -> Int]]
  BY <1>3, <1>4, <1>5
<1>6. ASSUME NEW o \in offers, NEW q \in offers, f[o] = f[q] PROVE o = q
  <2>1. o[1] = q[1] /\ o[2].id = q[2].id
    BY <1>4, <1>6
  <2>2. o[2] = q[2]
    BY <1>2, <2>1, BooksAssumption
  <2> QED BY <1>2, <2>1, <2>2
<1>7. PICK keyed : keyed = {<<<<o[1], o[2].id>>, o>> : o \in offers}
  OBVIOUS
<1>8. PICK order : order = ByKey(keyed)
  OBVIOUS
<1>9. order \in Seq(offers)
  <2>1. keyed = {<<f[o], o>> : o \in offers}
    BY <1>3, <1>7
  <2>2. \A o, q \in offers : f[o] = f[q] => o = q
    BY <1>6
  <2>3. IsFiniteSet(offers)
    BY <1>1, OffersAreFinite
  <2> QED BY <1>8, <1>13, <2>1, <2>2, <2>3, SortedHolds
<1>10. ByProduct(S) = [i \in DOMAIN order |-> order[i][2]]
  BY <1>1, <1>7, <1>8 DEF ByProduct, Ordered, OffersOf
<1>11. PICK n \in Nat : n = Len(order) /\ DOMAIN order = 1 .. n
  BY <1>9
<1>12. [i \in 1 .. n |-> order[i][2]] \in [1 .. n -> S]
  <2>1. \A i \in 1 .. n : order[i] \in offers
    BY <1>9, <1>11
  <2> QED BY <1>2, <2>1
<1> QED BY <1>10, <1>11, <1>12, SeqDef

LEMMA ColdFits ==
  ASSUME NEW a \in Asks, NEW own, NEW read
  PROVE  AllFit(ColdList(a, own, read), a, own, read)
<1>1. PICK all : all = Eligible(a, own, read)
  OBVIOUS
<1>2. all \subseteq Books
  BY <1>1, EligibleIsFinite
<1>3. PICK bySales : bySales = {<<PopularKey(b), b>> : b \in all}
  OBVIOUS
<1>4. PICK byYear : byYear = {<<<<-b.year, b.id>>, b>> : b \in all}
  OBVIOUS
<1>5. ByKey(bySales) \in Seq(all)
  BY <1>2, <1>3, PopularHolds
<1>6. ByKey(byYear) \in Seq(all)
  <2>1. PICK f : f = [b \in all |-> <<-b.year, b.id>>]
    OBVIOUS
  <2>2. ASSUME NEW b \in all PROVE f[b] \in [1 .. 2 -> Int] /\ f[b][2] = b.id
    <3>1. PICK k \in Int, l \in Int : k = -b.year /\ l = b.id
      BY <1>2, BooksAssumption
    <3>2. f[b] = <<k, l>>
      BY <2>1, <3>1
    <3> QED BY <3>1, <3>2
  <2>3. PICK n \in Nat \ {0} : n = 2
    OBVIOUS
  <2>4. f \in [all -> [1 .. n -> Int]] /\ \A b \in all : f[b][n] = b.id
    BY <2>1, <2>2, <2>3
  <2>5. byYear = WithKeys(f, all)
    BY <1>4, <2>1 DEF WithKeys
  <2> QED BY <1>2, <2>4, <2>5, SortedBooks
<1>7. ByProduct(all) \in Seq(all)
  BY <1>2, OffersHold
<1>8. PICK order : order = CASE a.sort = "match" -> ByKey(bySales)
                            [] a.sort = "newest" -> ByKey(byYear)
                            [] a.sort = "price_asc" -> ByProduct(all)
  OBVIOUS
<1>9. order \in Seq(all)
  <2>1. a.sort \in {"match", "newest", "price_asc"}
    BY AsksAssumption
  <2> QED BY <1>5, <1>6, <1>7, <1>8, <2>1
<1>10. ColdList(a, own, read) = IF a.min > 0 THEN <<>> ELSE [i \in DOMAIN order |-> Item(order[i], 0)]
  BY <1>1, <1>3, <1>4, <1>8 DEF ColdList, Ordered
<1>11. CASE a.min > 0
  BY <1>10, <1>11 DEF AllFit
<1>12. CASE ~(a.min > 0)
  <2>1. 0 >= a.min
    BY <1>12, AsksAssumption DEF NoNumber
  <2>2. ASSUME NEW i \in DOMAIN order PROVE ItemFits(Item(order[i], 0), a, own, read)
    <3>1. order[i] \in Eligible(a, own, read)
      BY <1>1, <1>9
    <3> QED BY <2>1, <3>1, BookFits
  <2> QED BY <1>10, <1>12, <2>2 DEF AllFit
<1> QED BY <1>11, <1>12

\* What the saved list may keep is let through by its own filter like by that of the query.
LEMMA SavedPasses ==
  ASSUME NEW a \in Asks, NEW e, e.score \in Nat, PassesSaved(a, e)
  PROVE  Passes(a.filter, TheBook(e.book)) /\ e.score >= a.min
<1>1. a.filter.low = NoNumber /\ a.filter.high = NoNumber /\ a.min \in {NoNumber} \cup 0 .. 100
  BY AsksAssumption
<1>2. e.score >= a.min
  <2>1. CASE a.min = NoNumber
    <3>1. PICK k \in Nat : k = e.score
      OBVIOUS
    <3>2. k >= -1
      OBVIOUS
    <3> QED BY <2>1, <3>1, <3>2 DEF NoNumber
  <2>2. CASE a.min # NoNumber
    BY <2>2 DEF PassesSaved
  <2> QED BY <2>1, <2>2
<1>3. Within(Price(TheBook(e.book)), a.filter.low, a.filter.high, NoPrice)
  BY <1>1 DEF Within
<1>4. Within(TheBook(e.book).year, a.filter.from, a.filter.to, 0)
  BY DEF PassesSaved, Within
<1> QED BY <1>2, <1>3, <1>4 DEF PassesSaved, Passes

LEMMA HomePasses ==
  ASSUME NEW a \in Asks, Valid(a), a.surface = "home", NEW e, e.score \in Nat
  PROVE  Passes(a.filter, TheBook(e.book)) /\ e.score >= a.min
<1>1. /\ a.filter.low = NoNumber /\ a.filter.high = NoNumber /\ a.min = NoNumber
      /\ a.filter.from = NoNumber /\ a.filter.to = NoNumber
      /\ ~(a.filter.category # "" /\ FilterClasses(a.filter.category) # {})
  BY DEF Valid, Filtering
<1>2. e.score >= a.min
  <2>1. PICK k \in Nat : k = e.score
    OBVIOUS
  <2>2. k >= -1
    OBVIOUS
  <2> QED BY <1>1, <2>1, <2>2 DEF NoNumber
<1>3. /\ Within(Price(TheBook(e.book)), a.filter.low, a.filter.high, NoPrice)
      /\ Within(TheBook(e.book).year, a.filter.from, a.filter.to, 0)
  BY <1>1 DEF Within
<1> QED BY <1>1, <1>2, <1>3 DEF Passes

LEMMA SavedKeyIs ==
  ASSUME NEW a \in Asks, NEW e, e.score \in Nat, TheBook(e.book) \in Books
  PROVE  \E n \in Int : SavedKey(a, e) = <<n>>
<1>1. PICK k \in Int, l \in Int, m \in Int :
        k = -e.score /\ l = -TheBook(e.book).year /\ m = Price(TheBook(e.book))
  BY BooksAssumption, PriceOfBook
<1>2. a.sort \in {"match", "newest", "price_asc"}
  BY AsksAssumption
<1> QED BY <1>1, <1>2 DEF SavedKey

SavedOrder(a, s) == StableSort(s, LAMBDA e : SavedKey(a, e))

\* Arranging a list neither loses nor adds anything but what the filter stops.
LEMMA ArrangedHolds ==
  ASSUME NEW a \in Asks, NEW T, \A e \in T : e.score \in Nat /\ TheBook(e.book) \in Books,
         NEW list \in Seq(T)
  PROVE  Arrange(a, list) \in Seq({e \in T : a.surface = "home" \/ PassesSaved(a, e)})
<1>1. PICK U : U = {e \in T : a.surface = "home" \/ PassesSaved(a, e)}
  OBVIOUS
<1>2. CASE a.surface = "home"
  <2>1. U = T
    BY <1>1, <1>2
  <2> QED BY <1>1, <1>2, <2>1 DEF Arrange
<1>3. CASE a.surface # "home"
  <2>1. PICK V : V = {e \in ToSet(list) : PassesSaved(a, e)}
    OBVIOUS
  <2>2. PICK s : s = Only(list, V)
    OBVIOUS
  <2>3. s \in Seq(U)
    <3>1. s \in Seq(T \cap V)
      BY <2>2, OnlyType
    <3>2. T \cap V \subseteq U
      BY <1>1, <2>1
    <3> QED BY <3>1, <3>2
  <2>4. PICK n \in Nat : n = Len(s) /\ DOMAIN s = 1 .. n
    BY <2>3
  <2>5. PICK key : key = [i \in 1 .. n |-> Append(SavedKey(a, s[i]), i)]
    OBVIOUS
  <2>6. ASSUME NEW i \in 1 .. n
        PROVE  key[i] \in [1 .. 2 -> Int] /\ key[i][2] = i
    <3>1. s[i] \in U
      BY <2>3, <2>4
    <3>2. s[i].score \in Nat /\ TheBook(s[i].book) \in Books
      BY <1>1, <3>1
    <3>3. PICK e : e = s[i]
      OBVIOUS
    <3>4. PICK k \in Int : SavedKey(a, e) = <<k>>
      BY <3>2, <3>3, SavedKeyIs
    <3>5. key[i] = Append(<<k>>, i)
      BY <2>5, <3>3, <3>4
    <3> QED BY <3>5, OneAndAnother
  <2>7. PICK m \in Nat : m = 2
    OBVIOUS
  <2>8. PICK S : S = 1 .. n
    OBVIOUS
  <2>9. key \in [S -> [1 .. m -> Int]]
    <3>1. \A i \in S : key[i] \in [1 .. m -> Int]
      BY <2>6, <2>7, <2>8
    <3> QED BY <2>5, <2>8, <3>1
  <2>10. \A i, j \in S : key[i] = key[j] => i = j
    BY <2>6, <2>8
  <2>11. IsFiniteSet(S) /\ Cardinality(S) = n
    <3>1. 1 \in Int /\ n \in Int
      OBVIOUS
    <3> QED BY <2>8, <3>1, FS_Interval
  <2>12. PICK place : place = ByKey({<<Append(SavedKey(a, s[i]), i), i>> : i \in DOMAIN s})
    OBVIOUS
  <2>13. {<<Append(SavedKey(a, s[i]), i), i>> : i \in DOMAIN s} = WithKeys(key, S)
    BY <2>4, <2>5, <2>8 DEF WithKeys
  <2>14. place \in Seq(S) /\ Len(place) = n
    <3>1. ByKey(WithKeys(key, S)) \in Seq(S) /\ Len(ByKey(WithKeys(key, S))) = Cardinality(S)
      BY <2>9, <2>10, <2>11, SortedList
    <3> QED BY <2>11, <2>12, <2>13, <3>1
  <2>15. Arrange(a, list) = [k \in 1 .. n |-> s[place[k]]]
    <3>1. Arrange(a, list) = SavedOrder(a, s)
      BY <1>3, <2>1, <2>2, Zenon DEF Arrange, SavedOrder
    <3>2. SavedOrder(a, s) = [k \in 1 .. Len(s) |-> s[place[k]]]
      BY <2>12, Zenon DEF SavedOrder, StableSort, Ordered
    <3> QED BY <2>4, <3>1, <3>2
  <2>16. ASSUME NEW k \in 1 .. n PROVE s[place[k]] \in U
    <3>1. place[k] \in S
      BY <2>14
    <3> QED BY <2>3, <2>4, <2>8, <3>1
  <2>17. [k \in 1 .. n |-> s[place[k]]] \in [1 .. n -> U]
    BY <2>16
  <2>18. [k \in 1 .. n |-> s[place[k]]] \in Seq(U)
    BY <2>17, SeqDef
  <2> QED BY <1>1, <2>15, <2>18
<1> QED BY <1>2, <1>3

LEMMA SavedAllFits ==
  ASSUME NEW a \in Asks, Valid(a), NEW own, NEW read, NEW list \in SavedLists
  PROVE  AllFit(SavedList(a, own, read, list), a, own, read)
<1>1. PICK E : E = [book : {b.id : b \in Books}, score : Nat]
  OBVIOUS
<1>2. list \in Seq(E)
  BY <1>1, SavedListsAssumption
<1>3. ASSUME NEW e \in E PROVE e.score \in Nat /\ TheBook(e.book) \in Books /\ TheBook(e.book).id = e.book
  <2>1. e.score \in Nat /\ e.book \in {b.id : b \in Books}
    BY <1>1
  <2>2. PICK b \in Books : e.book = b.id
    BY <2>1
  <2>3. TheBook(b.id) = b
    BY TheBookIs
  <2> QED BY <2>1, <2>2, <2>3
<1>4. PICK H : H = {e \in ToSet(list) :
        /\ e.book \notin Excluded(a, own, read)
        /\ a.sent => \A o \in own : ~SameEdition(TheBook(o), TheBook(e.book))}
  OBVIOUS
<1>5. PICK kept : kept = Kept(a, own, read, list)
  OBVIOUS
<1>6. kept \in Seq(E \cap H)
  <2>1. kept = Only(list, H)
    BY <1>4, <1>5, Zenon DEF Kept
  <2> QED BY <1>2, <2>1, OnlyType
<1>7. \A e \in E \cap H : e.score \in Nat /\ TheBook(e.book) \in Books
  BY <1>3
<1>8. PICK U : U = {e \in E \cap H : a.surface = "home" \/ PassesSaved(a, e)}
  OBVIOUS
<1>9. Arrange(a, kept) \in Seq(U)
  BY <1>6, <1>7, <1>8, ArrangedHolds
<1>10. PICK s : s = SavedList(a, own, read, list)
  OBVIOUS
<1>11. s \in Seq(U)
  BY <1>5, <1>9, <1>10 DEF SavedList
<1>12. ASSUME NEW k \in DOMAIN s PROVE ItemFits(s[k], a, own, read)
  <2>1. PICK e : e = s[k]
    OBVIOUS
  <2>2. e \in E /\ e \in H /\ (a.surface = "home" \/ PassesSaved(a, e))
    BY <1>8, <1>11, <2>1
  <2>3. e.score \in Nat /\ TheBook(e.book).id = e.book
    BY <1>3, <2>2
  <2>4. e.book \notin Excluded(a, own, read)
    BY <1>4, <2>2
  <2>5. Passes(a.filter, TheBook(e.book)) /\ e.score >= a.min
    BY <2>2, <2>3, SavedPasses, HomePasses
  <2> QED BY <2>1, <2>3, <2>4, <2>5 DEF ItemFits
<1> QED BY <1>10, <1>12 DEF AllFit

\* Whichever list a page is made from.
LEMMA MadeAllFits ==
  ASSUME NEW a \in Asks, Valid(a), NEW size, NEW own, NEW page, page.ver \in Nat, NEW seen,
         seen # None => SavedShape(seen), IsFiniteSet(rows), profile \in Profiles,
         NEW made, made = Made(a, size, own, page, seen)
  PROVE  AllFit(made.list, a, own, RowsUntil(rows, page.issued))
<1>1. PICK read : read = RowsUntil(rows, page.issued)
  OBVIOUS
<1>2. IsFiniteSet(read)
  <2>1. read \subseteq rows
    BY <1>1 DEF RowsUntil
  <2> QED BY <2>1, FS_Subset
<1>3. CASE /\ ~LeavesIt(a, size, own, read, page, seen)
           /\ made.list = SavedList(a, own, read, ListAt(seen, page.ver).books)
  <2>1. SavedShape(seen)
    BY <1>3 DEF LeavesIt
  <2>2. ListAt(seen, page.ver).books \in SavedLists
    BY <2>1, SavedAt
  <2> QED BY <1>1, <1>3, <2>2, SavedAllFits
<1>4. CASE made.list = ColdList(a, own, read)
  BY <1>1, <1>4, ColdFits
<1>5. CASE HasVector(profile) /\ made.list = TasteList(a, own, read, profile, index)
  <2>1. profile \in Profiles \ {None}
    BY <1>5 DEF HasVector
  <2> QED BY <1>1, <1>2, <1>5, <2>1, TasteFits
<1>6. CASE HasVector(profile) /\ made.list = RuleList(a, own, read, profile)
  <2>1. profile \in Profiles \ {None}
    BY <1>6 DEF HasVector
  <2> QED BY <1>1, <1>2, <1>6, <2>1, RuleFits
<1> QED BY <1>1, <1>3, <1>4, <1>5, <1>6, MadeIs

\* A window shows nothing that is not in the list.
LEMMA CutFits ==
  ASSUME NEW mode, NEW list, IsList(list), NEW size \in Nat \ {0}, NEW page, page.offset \in Nat,
         NEW a, NEW own, NEW read, AllFit(list, a, own, read),
         NEW items, items = CutOf(mode, list, size, page).items
  PROVE  AllFit(items, a, own, read)
<1>1. PICK off \in Nat : off = page.offset
  OBVIOUS
<1>2. PICK l \in Nat : l = Len(list) /\ DOMAIN list = 1 .. l
  BY DEF IsList
<1>3. PICK m \in Nat : m = ListLimit
  BY FeedPagesAssumption
<1>4. \/ items = <<>>
      \/ \E n \in Nat : items = SubSeq(list, off + 1, Min({off + n, l}))
  <2>1. CASE mode = "cold-start"
    <3>1. PICK n : n = Min({size, ListLimit - page.offset})
      OBVIOUS
    <3>2. n \in Int
      <4>1. size \in Int /\ m - off \in Int
        OBVIOUS
      <4>2. Min({size, m - off}) \in Int
        BY <4>1, LeastOfTwo
      <4> QED BY <1>1, <1>3, <3>1, <4>2
    <3>3. CASE n <= 0
      BY <2>1, <3>1, <3>3 DEF CutOf, LimitedWindow
    <3>4. CASE ~(n <= 0)
      <4>1. items = SubSeq(list, off + 1, Min({off + n, l}))
        BY <1>1, <1>2, <2>1, <3>1, <3>4 DEF CutOf, LimitedWindow
      <4>2. n \in Nat
        BY <3>2, <3>4
      <4> QED BY <4>1, <4>2
    <3> QED BY <3>3, <3>4
  <2>2. CASE mode # "cold-start"
    <3>1. items = SubSeq(list, off + 1, Min({off + size, l}))
      BY <1>1, <1>2, <2>2 DEF CutOf, Window
    <3> QED BY <3>1
  <2> QED BY <2>1, <2>2
<1>5. CASE items = <<>>
  BY <1>5 DEF AllFit
<1>6. ASSUME NEW n \in Nat, items = SubSeq(list, off + 1, Min({off + n, l}))
      PROVE  AllFit(items, a, own, read)
  <2>1. PICK T : T = {list[k] : k \in 1 .. l}
    OBVIOUS
  <2>2. PICK e \in Nat : e = Min({off + n, l}) /\ e <= l
    <3>1. off + n \in Int /\ l \in Int /\ off + n \in Nat
      OBVIOUS
    <3>2. Min({off + n, l}) \in Nat /\ Min({off + n, l}) <= l
      BY <3>1, LeastOfTwo
    <3> QED BY <3>2
  <2>3. SubSeq(list, off + 1, e) \in Seq(T)
    <3>1. off + 1 \in Int /\ e \in Int
      OBVIOUS
    <3>2. \A i \in off + 1 .. e : list[i] \in T
      BY <2>1, <2>2
    <3> QED BY <3>1, <3>2, SubSeqProperties
  <2>4. \A x \in T : ItemFits(x, a, own, read)
    BY <1>2, <2>1 DEF AllFit
  <2>5. items \in Seq(T)
    BY <1>6, <2>2, <2>3
  <2> QED BY <2>4, <2>5 DEF AllFit
<1> QED BY <1>4, <1>5, <1>6

-----------------------------------------------------------------------------
(* What a page shows is let through by the request it was read for.        *)

\* Every row has its time, and a request that is being read is one that passed the checks.
ShownInv ==
  /\ IsFiniteSet(rows) /\ \A r \in past \cup rows : r.at \in Nat
  /\ profile \in Profiles
  /\ scroll.pc = "reading" => Valid(scroll.ask)

\* What ShownFits says of an item of a page of scroll s, if the scroll began then.
ItemShown(e, s, hist, began) ==
  /\ Passes(s.ask.filter, TheBook(e.book)) /\ e.score >= s.ask.min
  /\ IF s.ask.sent THEN TheBook(e.book).id \notin s.owned
     ELSE ~\E r \in hist : /\ r.book = TheBook(e.book).id /\ r.counts /\ r.at <= Second(began)
                           /\ r.kind = "review" => r.rating <= 4

LEMMA FitIsShown ==
  ASSUME NEW s, NEW hist, \A r \in hist : r.at \in Nat, NEW issued \in Nat, NEW began \in Nat,
         Second(began) <= issued, NEW e, ItemFits(e, s.ask, s.owned, RowsUntil(hist, issued))
  PROVE  ItemShown(e, s, hist, began)
<1>1. /\ Passes(s.ask.filter, TheBook(e.book)) /\ e.score >= s.ask.min
      /\ TheBook(e.book).id = e.book /\ e.book \notin Excluded(s.ask, s.owned, RowsUntil(hist, issued))
  BY DEF ItemFits
<1>2. CASE s.ask.sent
  BY <1>1, <1>2 DEF Excluded, ItemShown
<1>3. CASE ~s.ask.sent
  <2>1. ASSUME NEW r \in hist, r.book = e.book, r.counts, r.at <= Second(began),
               r.kind = "review" => r.rating <= 4
        PROVE  FALSE
    <3>1. r.at <= issued
      <4>1. PICK x \in Nat, y \in Nat : x = r.at /\ y = Second(began)
        BY SecondFits
      <4> QED BY <2>1, <4>1
    <3>2. r \in RowsUntil(hist, issued)
      BY <2>1, <3>1 DEF RowsUntil
    <3>3. r.book \in InHistory(RowsUntil(hist, issued))
      BY <2>1, <3>2 DEF InHistory
    <3> QED BY <1>1, <1>3, <2>1, <3>3 DEF Excluded
  <2> QED BY <1>1, <1>3, <2>1 DEF ItemShown
<1> QED BY <1>2, <1>3

\* The page an answer shows, from whichever list.
LEMMA AnswerShows ==
  ASSUME SavedFit(now, saved), ScrollFits(scroll, now, Owned(past), rows, saved, profile, index),
         ShownInv, Answer, NEW k \in DOMAIN scroll'.last.items
  PROVE  ItemShown(scroll'.last.items[k], scroll, rows, scroll'.began)
<1>1. PICK s : s = scroll
  OBVIOUS
<1>2. PICK made : made = Made(s.ask, s.size, s.owned, s.page, s.seen)
  OBVIOUS
<1>3. PICK reply : reply = IF Serves(s.page, made.mode) THEN Outcome(s.ask, s.size, s.page, made)
                           ELSE Refused(410)
  OBVIOUS
<1>4. PICK r : r = Answered(made, reply)
  OBVIOUS
<1>5. s.pc = "reading" /\ scroll' = r /\ UNCHANGED <<now, past, rows, profile, saved, index>>
  BY <1>1, <1>2, <1>3, <1>4, Zenon DEF Answer
<1>6. /\ Fields(s) /\ ReadsWell(s, now, Owned(past), saved) /\ (s.cursor # None => CursorFits(s, now))
      /\ now \in Nat /\ \A x \in rows : x.at \in Nat
  BY <1>1, <1>5 DEF ScrollFits, SavedFit, ShownInv
<1>7. IsFiniteSet(rows) /\ profile \in Profiles /\ Valid(s.ask)
  BY <1>1, <1>5 DEF ShownInv
<1>8. /\ s.ask \in Asks /\ s.size \in Nat \ {0} /\ s.page.offset \in Nat /\ s.page.ver \in Nat
      /\ s.page.issued \in Nat /\ (s.seen # None => SavedShape(s.seen))
  <2>1. PageFits(s, now) /\ (s.seen # None => SavedShape(s.seen))
    BY <1>6 DEF ReadsWell, Evolved
  <2>2. CASE s.cursor = None
    BY <2>1, <2>2 DEF PageFits
  <2>3. CASE s.cursor # None
    <3>1. Second(s.began) \in Nat
      BY <1>6, <2>3, SecondFits DEF CursorFits
    <3> QED BY <1>6, <2>1, <2>3, <3>1 DEF PageFits, CursorFits
  <2> QED BY <2>2, <2>3
<1>9. Replied(r, s, made, reply) /\ (s.page.mode = None => Starts(r, s, made))
      /\ (s.page.mode # None => Continues(r, s))
  BY <1>1, <1>4, <1>6, AnsweredIs
<1>10. r.began \in Nat /\ Second(r.began) <= s.page.issued
  <2>1. PageFits(s, now)
    BY <1>6 DEF ReadsWell
  <2>2. CASE s.page.mode = None
    <3>1. r.began = s.page.issued
      BY <1>9, <2>2 DEF Starts
    <3> QED BY <1>8, <3>1, SecondFits
  <2>3. CASE s.page.mode # None
    <3>1. r.began = s.began
      BY <1>9, <2>3 DEF Continues
    <3>2. s.cursor # None
      BY <2>1, <2>3 DEF PageFits
    <3>3. s.page.issued = Second(s.began) /\ s.began \in Nat
      BY <1>6, <2>1, <3>2 DEF PageFits, CursorFits
    <3>4. PICK n \in Nat : n = Second(s.began) /\ n <= n
      BY <3>3, SecondFits
    <3> QED BY <3>1, <3>3, <3>4
  <2> QED BY <2>2, <2>3
<1>11. r.last = reply
  BY <1>9 DEF Replied
<1>12. AllFit(reply.items, s.ask, s.owned, RowsUntil(rows, s.page.issued))
  <2>1. CASE Serves(s.page, made.mode)
    <3>1. PICK a \in Asks, size \in Nat \ {0} : a = s.ask /\ size = s.size
      BY <1>8
    <3>2. PICK page, own, seen : page = s.page /\ own = s.owned /\ seen = s.seen
      OBVIOUS
    <3>3. made = Made(a, size, own, page, seen) /\ reply = Outcome(a, size, page, made)
      BY <1>2, <1>3, <2>1, <3>1, <3>2
    <3>4. Valid(a) /\ page.ver \in Nat /\ page.offset \in Nat /\ (seen # None => SavedShape(seen))
          /\ page.issued \in Nat
      BY <1>7, <1>8, <3>1, <3>2
    <3>5. AllFit(made.list, a, own, RowsUntil(rows, page.issued))
      BY <1>7, <3>3, <3>4, MadeAllFits
    <3>6. IsList(made.list)
      BY <3>3, <3>4, MadeFits
    <3>7. PICK cut : cut = CutOf(made.mode, made.list, size, page)
      OBVIOUS
    <3>8. AllFit(cut.items, a, own, RowsUntil(rows, page.issued))
      BY <3>4, <3>5, <3>6, <3>7, CutFits
    <3>9. reply.items = cut.items
      BY <3>3, <3>7 DEF Outcome, CutOf
    <3> QED BY <3>1, <3>2, <3>8, <3>9
  <2>2. CASE ~Serves(s.page, made.mode)
    <3>1. reply.items = <<>>
      BY <1>3, <2>2, RefusedIs
    <3> QED BY <3>1 DEF AllFit
  <2> QED BY <2>1, <2>2
<1>13. PICK e : e = reply.items[k]
  OBVIOUS
<1>14. ItemFits(e, s.ask, s.owned, RowsUntil(rows, s.page.issued))
  BY <1>5, <1>11, <1>12, <1>13 DEF AllFit
<1>15. PICK began \in Nat, issued \in Nat : began = r.began /\ issued = s.page.issued
  BY <1>8, <1>10
<1>16. ItemShown(e, s, rows, began)
  BY <1>6, <1>10, <1>14, <1>15, FitIsShown
<1> QED BY <1>1, <1>5, <1>11, <1>13, <1>15, <1>16

LEMMA ShownStarts == FeedInit => ShownInv
<1> SUFFICES ASSUME FeedInit PROVE ShownInv
  OBVIOUS
<1>1. profile \in Profiles /\ scroll.pc = "idle" /\ rows \subseteq past
  BY DEF FeedInit, NewScroll
<1>2. \A r \in past : r.at = 0
  BY DEF FeedInit, Row
<1>3. IsFiniteSet(past)
  <2>1. CASE past = {}
    BY <2>1, FS_EmptySet
  <2>2. CASE past = {Row(h, 0) : h \in Happenings}
    <3>1. IsFiniteSet(Happenings)
      BY FeedPagesAssumption
    <3>2. PICK f : f = [h \in Happenings |-> Row(h, 0)]
      OBVIOUS
    <3>3. f \in Surjection(Happenings, past)
      BY <2>2, <3>2 DEF Surjection
    <3> QED BY <3>1, <3>3, FS_Surjection
  <2> QED BY <2>1, <2>2 DEF FeedInit
<1>4. IsFiniteSet(rows)
  BY <1>1, <1>3, FS_Subset
<1> QED BY <1>1, <1>2, <1>4 DEF ShownInv

\* A step that reads or changes nothing of the history, and leaves the request as it was.
LEMMA ShownRests ==
  ASSUME ShownInv, UNCHANGED <<past, rows>>, profile' \in Profiles,
         scroll'.pc = "reading" => Valid(scroll'.ask)
  PROVE  ShownInv'
BY DEF ShownInv

\* What goes on meanwhile leaves the client where it was.
LEMMA WorldRests ==
  ASSUME Fields(scroll),
         \/ Tick
         \/ \E h \in Happenings : AddToHistory(h)
         \/ \E x \in past : ChangeStatus(x) \/ Replicate(x)
         \/ \E p \in Profiles : NewProfile(p)
         \/ \E l \in SavedLists : NewList(l)
         \/ \E i \in Indexes : NewIndex(i)
  PROVE  scroll'.pc = scroll.pc /\ scroll'.ask = scroll.ask
<1>1. ASSUME NEW quiet, NEW steady,
             \/ scroll' = scroll
             \/ scroll' = [scroll EXCEPT !.quiet = quiet]
             \/ scroll' = [scroll EXCEPT !.quiet = quiet, !.steady = steady]
      PROVE  scroll'.pc = scroll.pc /\ scroll'.ask = scroll.ask
  BY <1>1 DEF Fields, FieldNames
<1>2. CASE Tick
  BY <1>2 DEF Tick
<1>3. ASSUME NEW hist, scroll' = DisturbsOwned(hist)
      PROVE  scroll'.pc = scroll.pc /\ scroll'.ask = scroll.ask
  <2>1. PICK quiet : quiet = (scroll.quiet /\
          (scroll.ask # None /\ scroll.ask.sent => Owned(hist) = Owned(past)))
    OBVIOUS
  <2>2. scroll' = [scroll EXCEPT !.quiet = quiet]
    BY <1>3, <2>1, Zenon DEF DisturbsOwned
  <2> QED BY <1>1, <2>2
<1>4. CASE \/ \E h \in Happenings : AddToHistory(h)
           \/ \E x \in past : ChangeStatus(x)
  <2>1. scroll' = DisturbsOwned(past')
    BY <1>4 DEF AddToHistory, ChangeStatus
  <2>2. PICK hist : hist = past'
    OBVIOUS
  <2> QED BY <1>3, <2>1, <2>2
<1>5. CASE \E x \in past : Replicate(x)
  <2>1. scroll' = DisturbsRows(rows')
    BY <1>5 DEF Replicate
  <2>2. PICK quiet : quiet = (scroll.quiet /\
          (\/ scroll.ask.sent /\ scroll.modes \cap {"personalized", "rule-only"} = {}
           \/ RowsUntil(rows', Second(scroll.began)) = RowsUntil(rows, Second(scroll.began))))
    OBVIOUS
  <2>3. scroll' = [scroll EXCEPT !.quiet = quiet]
    BY <2>1, <2>2, Zenon DEF DisturbsRows
  <2> QED BY <1>1, <2>3
<1>6. ASSUME NEW modes, NEW sways, scroll' = Disturbs(modes, sways)
      PROVE  scroll'.pc = scroll.pc /\ scroll'.ask = scroll.ask
  <2>1. PICK quiet, steady :
          /\ quiet = (scroll.quiet /\ scroll.modes \cap modes = {})
          /\ steady = (scroll.steady /\ (scroll.modes \cap modes = {} \/ ~sways))
    OBVIOUS
  <2>2. scroll' = [scroll EXCEPT !.quiet = quiet, !.steady = steady]
    BY <1>6, <2>1, Zenon DEF Disturbs
  <2> QED BY <1>1, <2>2
<1>7. ASSUME NEW p, NewProfile(p) PROVE scroll'.pc = scroll.pc /\ scroll'.ask = scroll.ask
  <2>1. PICK modes, sways : modes = {"cold-start", "personalized", "rule-only"}
                            /\ sways = (HasVector(p) # Personal)
    OBVIOUS
  <2>2. scroll' = Disturbs(modes, sways)
    BY <1>7, <2>1, Zenon DEF NewProfile
  <2> QED BY <1>6, <2>2
<1>8. ASSUME NEW i, NewIndex(i) PROVE scroll'.pc = scroll.pc /\ scroll'.ask = scroll.ask
  <2>1. PICK modes, sways : modes = {"personalized", "rule-only"}
                            /\ sways = (Answering(i) # Answering(index))
    OBVIOUS
  <2>2. scroll' = Disturbs(modes, sways)
    BY <1>8, <2>1, Zenon DEF NewIndex
  <2> QED BY <1>6, <2>2
<1>9. ASSUME NEW l, NewList(l) PROVE scroll'.pc = scroll.pc /\ scroll'.ask = scroll.ask
  <2>1. scroll' = scroll \/ scroll' = DisturbsSaved
    BY <1>9, Zenon DEF NewList
  <2>2. PICK quiet : quiet = (scroll.quiet /\ ~(/\ scroll.cursor # None
                               /\ scroll.cursor.mode = "interest"
                               /\ saved.version > scroll.cursor.ver))
    OBVIOUS
  <2>3. scroll' = scroll \/ scroll' = [scroll EXCEPT !.quiet = quiet]
    BY <2>1, <2>2, Zenon DEF DisturbsSaved
  <2> QED BY <1>1, <2>3
<1> QED BY <1>2, <1>4, <1>5, <1>7, <1>8, <1>9

LEMMA ShownGoesOn == FeedInv /\ ShownInv /\ [FeedNext]_feedVars => ShownInv'
<1> SUFFICES ASSUME FeedInv, ShownInv, [FeedNext]_feedVars PROVE ShownInv'
  OBVIOUS
<1>1. CASE UNCHANGED feedVars
  BY <1>1 DEF feedVars, ShownInv
<1>2. CASE FeedNext
  <2>1. scroll.pc # "ended"
    BY <1>2 DEF FeedNext, Reads, Answer, Open, Fail, Tick, AddToHistory, ChangeStatus, Replicate,
                NewProfile, NewList, NewIndex, Meanwhile, Change
  <2>2. now \in Nat /\ Fields(scroll)
    BY <2>1 DEF FeedInv, Fits, SavedFit, ScrollFits
  <2>3. PICK s, r : s = scroll /\ r = scroll'
    OBVIOUS
  <2>4. profile \in Profiles /\ (s.pc = "reading" => Valid(s.ask))
    BY <2>3 DEF ShownInv
  <2>5. CASE Answer
    <3>1. UNCHANGED <<past, rows, profile>> /\ scroll'.pc # "reading"
      <4>1. PICK made, reply : scroll' = Answered(made, reply)
        BY <2>5 DEF Answer
      <4>2. Replied(r, s, made, reply)
        BY <2>2, <2>3, <4>1, AnsweredIs
      <4>3. r.pc # "reading"
        BY <4>2 DEF Replied
      <4> QED BY <2>3, <2>5, <4>3 DEF Answer
    <3> QED BY <2>4, <3>1, ShownRests
  <2>6. ASSUME NEW a \in Asks, NEW size \in Sizes, Open(a, size) PROVE ShownInv'
    <3>1. PICK c : c = s.cursor
      OBVIOUS
    <3>2. PICK refusal : refusal = Refusal(a, c)
      OBVIOUS
    <3>3. /\ UNCHANGED <<past, rows, profile>>
          /\ refusal # 0 => r = Rejected(a, c, refusal)
          /\ refusal = 0 => r = Asking(a, size, c)
      BY <2>3, <2>6, <3>1, <3>2, Zenon DEF Open
    <3>4. CASE refusal # 0
      <4>1. PICK why, last :
              /\ why = (c # None /\ (\/ now - s.at > Lifetime - TicksASecond
                                     \/ Conditions(a) # Conditions(s.ask)))
              /\ last = Refused(refusal)
        OBVIOUS
      <4>2. r = [s EXCEPT !.pc = "ended", !.ask = a, !.last = last, !.excused = why]
        BY <2>3, <3>3, <3>4, <4>1, Zenon DEF Rejected
      <4>3. r.pc = "ended"
        BY <2>2, <2>3, <4>2 DEF Fields, FieldNames
      <4> QED BY <2>3, <2>4, <3>3, <4>3, ShownRests
    <3>5. CASE refusal = 0
      <4>1. r.ask = a
        BY <2>2, <2>3, <3>3, <3>5 DEF Asking, Fields, FieldNames
      <4>2. Valid(a)
        BY <3>2, <3>5 DEF Refusal
      <4> QED BY <2>3, <2>4, <3>3, <4>1, <4>2, ShownRests
    <3> QED BY <3>4, <3>5
  <2>7. CASE Fail
    <3>1. r.pc = "idle" /\ UNCHANGED <<past, rows, profile>>
      BY <2>2, <2>3, <2>7 DEF Fail, Fields, FieldNames
    <3> QED BY <2>3, <2>4, <3>1, ShownRests
  <2>8. ASSUME scroll'.pc = scroll.pc, scroll'.ask = scroll.ask, UNCHANGED <<past, rows>>,
               profile' \in Profiles
        PROVE  ShownInv'
    BY <2>3, <2>4, <2>8, ShownRests
  <2>9. CASE \/ Tick
             \/ \E p \in Profiles : NewProfile(p)
             \/ \E l \in SavedLists : NewList(l)
             \/ \E i \in Indexes : NewIndex(i)
    <3>1. UNCHANGED <<past, rows>> /\ profile' \in Profiles
      BY <2>4, <2>9 DEF Tick, NewProfile, NewList, NewIndex
    <3> QED BY <2>2, <2>8, <2>9, <3>1, WorldRests
  <2>10. ASSUME NEW h \in Happenings, AddToHistory(h) PROVE ShownInv'
    <3>1. past' = past \cup {Row(h, now + 1)} /\ UNCHANGED <<rows, profile>>
      BY <2>10 DEF AddToHistory
    <3>2. scroll'.pc = scroll.pc /\ scroll'.ask = scroll.ask
      BY <2>2, <2>10, WorldRests
    <3>3. Row(h, now + 1).at \in Nat
      BY <2>2 DEF Row
    <3> QED BY <3>1, <3>2, <3>3 DEF ShownInv
  <2>11. ASSUME NEW x \in past, ChangeStatus(x) PROVE ShownInv'
    <3>1. PICK y : y = [x EXCEPT !.counts = ~@]
      OBVIOUS
    <3>2. past' = (past \ {x}) \cup {y} /\ UNCHANGED <<rows, profile>>
      BY <2>11, <3>1, Zenon DEF ChangeStatus
    <3>3. scroll'.pc = scroll.pc /\ scroll'.ask = scroll.ask
      BY <2>2, <2>11, WorldRests
    <3>4. y.at \in Nat
      <4>1. y.at = x.at
        BY <3>1
      <4> QED BY <4>1 DEF ShownInv
    <3> QED BY <3>2, <3>3, <3>4 DEF ShownInv
  <2>12. ASSUME NEW x \in past, Replicate(x) PROVE ShownInv'
    <3>1. PICK old, hist : old = {y \in rows : ~SameRow(y, x)} /\ hist = rows'
      OBVIOUS
    <3>2. hist = old \cup {x} /\ UNCHANGED <<past, profile>>
      BY <2>12, <3>1 DEF Replicate
    <3>3. scroll'.pc = scroll.pc /\ scroll'.ask = scroll.ask
      BY <2>2, <2>12, WorldRests
    <3>4. old \subseteq rows /\ IsFiniteSet(rows)
      BY <3>1 DEF ShownInv
    <3>5. IsFiniteSet(hist)
      BY <3>2, <3>4, FS_Subset, FS_AddElement
    <3> QED BY <3>1, <3>2, <3>3, <3>4, <3>5 DEF ShownInv
  <2> QED BY <1>2, <2>5, <2>6, <2>7, <2>9, <2>10, <2>11, <2>12 DEF FeedNext, Reads
<1> QED BY <1>1, <1>2

LEMMA ShownHolds == FeedSpec => []ShownInv
<1>1. FeedInit => ShownInv
  BY ShownStarts
<1>2. FeedInv /\ ShownInv /\ [FeedNext]_feedVars => ShownInv'
  BY ShownGoesOn
<1> QED BY <1>1, <1>2, FeedFits, PTL DEF FeedSpec

\* From whichever of the four lists a page comes, it shows nothing the request filters out and
\* nothing that the replica had, when the page was made, as bought, kept or disliked before the
\* first page; with the books sent along, none of those (exclusion.py, interest_page.py:131).
THEOREM NothingUnfit == FeedSpec => ShownFits
<1>1. FeedInv /\ ShownInv /\ [FeedNext]_feedVars =>
        [scroll.pc = "reading" /\ scroll'.pc # "reading" =>
           \A i \in DOMAIN scroll'.last.items :
             LET e == scroll'.last.items[i]  b == TheBook(e.book) IN
             /\ Passes(scroll.ask.filter, b) /\ e.score >= scroll.ask.min
             /\ IF scroll.ask.sent THEN b.id \notin scroll.owned
                ELSE ~\E r \in rows : /\ r.book = b.id /\ r.counts /\ r.at <= Second(scroll'.began)
                                      /\ r.kind = "review" => r.rating <= 4]_feedVars
  <2> SUFFICES ASSUME FeedInv, ShownInv, FeedNext, scroll.pc = "reading", scroll'.pc # "reading",
                      NEW i \in DOMAIN scroll'.last.items
               PROVE  ItemShown(scroll'.last.items[i], scroll, rows, scroll'.began)
    BY DEF ItemShown
  <2>1. SavedFit(now, saved) /\ ScrollFits(scroll, now, Owned(past), rows, saved, profile, index)
    BY DEF FeedInv, Fits
  <2>2. CASE Answer
    BY <2>1, <2>2, AnswerShows
  <2>3. CASE Fail
    <3>1. PICK r, last : r = scroll' /\ last = Refused(500)
      OBVIOUS
    <3>2. r.last = last
      BY <2>1, <2>3, <3>1 DEF Fail, ScrollFits, Fields, FieldNames
    <3>3. r.last.items = <<>>
      BY <3>1, <3>2, RefusedIs
    <3> QED BY <3>1, <3>3
  <2>4. CASE ~Answer /\ ~Fail
    <3>1. ~\E a \in Asks, size \in Sizes : Open(a, size)
      BY DEF Open
    <3>2. scroll'.pc = scroll.pc
      BY <2>1, <2>4, <3>1, WorldRests DEF FeedNext, Reads, ScrollFits
    <3> QED BY <3>2
  <2> QED BY <2>2, <2>3, <2>4
<1> QED BY <1>1, FeedFits, ShownHolds, PTL DEF FeedSpec, ShownFits

=============================================================================
