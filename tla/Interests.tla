----------------------------- MODULE Interests -----------------------------
(***************************************************************************)
(* What a profile request makes of the user's words, books and picks:      *)
(* app/profile/interests.py (the interests, their scores and how they are  *)
(* put together), compute.py (the weights and the taste), schemas.py and   *)
(* the part of service.py that calls them.                                 *)
(*                                                                         *)
(* An interest is <<kind, name>>: "named" (a category or a sub category),  *)
(* "author", "keyword" or "mood". A line of the memory is [type, strength, *)
(* names, keyword, title, bound, at]: names is applies_to, title says that *)
(* the keyword is a title, bound is the condition. A vector is a place on  *)
(* a line of hundredths: two that are n apart are 100 - n alike. Points    *)
(* are whole numbers over a common denominator, so equal means equal.      *)
(***************************************************************************)
EXTENDS Catalogue

CONSTANTS
  Stock,         \* the books of the catalogue, with number, at, names, says, titled, pages
  Novel,         \* the category of the literature
  Parent,        \* SUBCATEGORIES: the category of each sub category, "" for none
  Subcategories, \* their order
  ClassTable,    \* CLASS_INTERESTS: the first digits of a class number
  NameAt,        \* where the vector of each name is
  UsedMemories, UsedLiked, \* USED_MEMORIES, USED_LIKED_BOOKS
  AnchorLimit    \* ANCHORS_PER_INTEREST

ASSUME InterestsAssumption ==
  /\ ToSet(Subcategories) = DOMAIN Parent
  /\ Novel \in DOMAIN Core
  /\ DOMAIN NameAt = DOMAIN Core \cup Unfiltered \cup DOMAIN Parent
  /\ UsedMemories \in Nat /\ UsedLiked \in Nat /\ AnchorLimit \in Nat \ {0}

\* The tables of interests.py: every class stands for a name, and every name has its place.
ASSUME TablesAssumption ==
  /\ Subcategories \in Seq(DOMAIN Parent)
  /\ \A n \in DOMAIN NameAt : NameAt[n] \in Int
  /\ \A c \in DOMAIN ClassTable : ClassTable[c] \in DOMAIN NameAt

ASSUME NoEmptyName == "" \notin DOMAIN Parent

\* The rows of the catalogue: the numbers of a book are numbers, and its id is its own.
ASSUME StockAssumption ==
  /\ IsFiniteSet(Stock)
  /\ \A b \in Stock : b.id \in Int /\ b.at \in Int /\ b.year \in Int /\ b.sales \in Int
  /\ \A a, b \in Stock : a.id = b.id => a = b

None == <<"none", "">>
BookOf(id) == CHOOSE b \in Stock : b.id = id

\* dict.fromkeys: each once, where it came first.
Firsts(s) ==
  LET first == {i \in DOMAIN s : \A j \in 1 .. i - 1 : s[j] # s[i]}
      at == Ordered(first, LAMBDA i : <<i>>)
  IN [k \in DOMAIN at |-> s[at[k]]]

Apart(m, n) == Max({m - n, n - m})

SumOf(f) == Sum(DOMAIN f, LAMBDA x : f[x])

-----------------------------------------------------------------------------
(* What was said.                                                          *)

\* interests_of.
InterestsOf(line) ==
  CASE line.type = "topic" /\ ~line.title ->
         LET known == Firsts(Only(line.names, DOMAIN NameAt))
         IN IF known = <<>> THEN <<<<"keyword", line.keyword>>>>
            ELSE [i \in DOMAIN known |-> <<"named", known[i]>>]
    [] line.type \in {"author", "mood"} -> <<<<line.type, line.keyword>>>>
    [] OTHER -> <<>>

About(line, x) == x \in ToSet(InterestsOf(line))

\* _in_order, and used_memories: the latest, in the order they were saved.
InOrder(lines) == StableSort(lines, LAMBDA line : <<line.at>>)
Used(lines) ==
  LET s == InOrder(lines) IN SubSeq(s, Max({1, Len(s) - UsedMemories + 1}), Len(s))

\* REQUEST_TO_AVOID: for this once.
RequestToAvoid == -1

\* Mutant: what was said on both sides is added up.
SumOfAll(values) == SumOf(values)

\* The last values of one direction, added up.
LastRun(values) ==
  LET n == Len(values)
      from == Max({0} \cup {i \in DOMAIN values : (values[i] > 0) # (values[n] > 0)}) + 1
  IN SumOf([i \in from .. n |-> values[i]])

\* memory_scores, in sixths: a line shares its strength among its interests.
MemoryScores(lines) ==
  LET told == Only(InOrder(lines), {line \in ToSet(lines) : line.strength # RequestToAvoid})
      names == Firsts(FlattenSeq([i \in DOMAIN told |-> InterestsOf(told[i])]))
      Values(x) ==
        LET about == Only(told, {line \in ToSet(told) : About(line, x)})
        IN [i \in DOMAIN about |-> (6 * about[i].strength) \div Len(InterestsOf(about[i]))]
  IN [i \in DOMAIN names |-> <<names[i], LastRun(Values(names[i]))>>]

\* conditions: only what was said to hold always.
ConditionsOf(lines) ==
  LET always == SelectSeq(InOrder(lines), LAMBDA line : line.type = "condition" /\ line.strength >= 2)
  IN Firsts([i \in DOMAIN always |-> always[i].bound])

\* living_likes: liked, and not said to be avoided at any later time.
LivingLikes(lines) ==
  LET avoided(x, at) == \E i \in DOMAIN lines :
        lines[i].strength < RequestToAvoid /\ About(lines[i], x) /\ lines[i].at > at
  IN Only(lines, {line \in ToSet(lines) :
       /\ line.strength > 0 /\ line.type # "condition"
       /\ \A x \in ToSet(InterestsOf(line)) : ~avoided(x, line.at)})

-----------------------------------------------------------------------------
(* The interest of a book.                                                 *)

\* class_interest: the longest beginning of the number that the table has.
ClassInterest(number) ==
  LET known == {n \in 1 .. 3 : Len(number) = 3 /\ SubSeq(number, 1, n) \in DOMAIN ClassTable}
  IN IF known = {} THEN None ELSE <<"named", ClassTable[SubSeq(number, 1, Max(known))]>>

\* nearest_subcategory, if there are vectors for the book and the names.
NearestSubcategory(b, named) ==
  IF ~b.embedded \/ ~named \/ Subcategories = <<>> THEN None
  ELSE LET i == Least(DOMAIN Subcategories, LAMBDA k : <<Apart(b.at, NameAt[Subcategories[k]]), k>>)
       IN <<"named", Subcategories[i]>>

\* book_interest.
BookInterest(b, named) ==
  LET literature == IF Len(b.number) = 3 THEN b.number[1] = 8
                    ELSE b.category \in Core[Novel] \cup Partial[Novel]
      owners == {n \in DOMAIN Core : b.category \in Core[n]}
  IN IF ClassInterest(b.number) # None THEN ClassInterest(b.number)
     ELSE IF ~literature /\ owners # {} THEN <<"named", CHOOSE n \in owners : TRUE>>
     ELSE NearestSubcategory(b, named)

\* onboarding_scores: a sub category narrows the category that was picked with it.
OnboardingScores(categories, tags) ==
  LET known == Firsts(Only(tags, DOMAIN NameAt))
      narrowed == {Parent[t] : t \in ToSet(known) \cap DOMAIN Parent}
      wide == Only(Firsts(categories), {c \in ToSet(categories) : IsOnboarding(c) /\ c \notin narrowed})
      all == Firsts(known \o wide)
  IN [i \in DOMAIN all |-> <<<<"named", all[i]>>, 1>>]

-----------------------------------------------------------------------------
(* The weights of the books, and the taste (compute.py).                   *)

LikedBookWeight == 2

\* _rebuild_on: either list is cut first, then the books there are, each once and as many
\* as count.
LikedOf(isbns, ids) ==
  LET known == SelectSeq(Take(isbns, UsedLiked), LAMBDA i : i \in {b.id : b \in Stock})
  IN Take(Firsts(known \o Take(ids, UsedLiked)), UsedLiked)

\* book_weights: the larger of both, and nothing of a book that was disliked.
BookWeights(liked, rows) ==
  LET mine == (ToSet(liked) \cup Reviewed(rows)) \ Disliked(rows)
      weight(b) == Max({IF b \in ToSet(liked) THEN LikedBookWeight ELSE 0}
                       \cup {RowWeight(r) : r \in {x \in rows : x.book = b}})
  IN [b \in {x \in mine : weight(x) > 0} |-> weight(b)]

\* The books of it that have a vector and an interest, as _feed_job goes through them.
MyBooks(weights, named) ==
  Ordered({b \in Stock : /\ b.id \in DOMAIN weights /\ b.embedded
                           /\ BookInterest(b, named) # None}, LAMBDA b : <<b.id>>)

\* tag_weights: sums of nothing are left out.
TagWeights(tags, categories, rows) ==
  LET picked == CatalogScores(ToSet(categories), 2, 1)
      tagged == TagScores(ToSet(tags), 1)
      at(f, c) == IF c \in DOMAIN f THEN f[c] ELSE 0
      sum(c) == at(picked, c) + at(tagged, c) + CategoryScore(rows, [b \in Reviewed(rows) |-> BookOf(b).category], c)
  IN [c \in {k \in {b.category : b \in Stock} : sum(k) # 0} |-> sum(c)]

\* centroid: made of the living likes, the books and, with the weight of one line, the names
\* that were picked (labels.py); cold_start where it is made of nothing.
ColdStart(lines, weights, picked, labelled) ==
  /\ LivingLikes(lines) = <<>>
  /\ ~\E b \in Stock : b.id \in DOMAIN weights /\ b.embedded
  /\ ~labelled \/ picked \cap (DOMAIN Core \cup DOMAIN TagClass) = {}

-----------------------------------------------------------------------------
(* Putting them together.                                                  *)

ScoreOf(scores, x) == IF \E i \in DOMAIN scores : scores[i][1] = x
                      THEN scores[CHOOSE i \in DOMAIN scores : scores[i][1] = x][2] ELSE 0

\* book_scores: the weights of the books of each interest, and their mean as [sum, weight].
BookScores(books, weights, named) ==
  LET names == Firsts([i \in DOMAIN books |-> BookInterest(books[i], named)])
      mine(x) == {b \in ToSet(books) : BookInterest(b, named) = x}
  IN [i \in DOMAIN names |-> <<names[i], SumOf([b \in mine(names[i]) |-> weights[b.id]])>>]
BookMean(books, weights, named, x) ==
  LET mine == {b \in ToSet(books) : BookInterest(b, named) = x}
  IN [sum |-> SumOf([b \in mine |-> weights[b.id] * b.at]), weight |-> SumOf([b \in mine |-> weights[b.id]])]

\* anchors: the last of them the user got, by the day they were first seen.
Anchors(books, seen, named, x) ==
  ToSet(Take(Ordered({b \in ToSet(books) : BookInterest(b, named) = x},
                     LAMBDA b : <<-seen[b.id], -b.id>>), AnchorLimit))

\* Mutant: what is liked by other means makes up for a dislike.
SummedUp(parts) == parts.onboarding + parts.memory + parts.books

\* A dislike is not made up for by what was picked or bought.
PartsTogether(parts) ==
  IF parts.memory < 0 THEN parts.memory ELSE parts.onboarding + parts.memory + parts.books

\* per_interest and combined. All of the onboarding weighs 1, a line of strength 2 weighs 0.4
\* and a book that was bought 0.2: over 90 * Len(onboarding) these are whole numbers.
Combined(onboarding, memory, books) ==
  LET names == Firsts([i \in DOMAIN onboarding |-> onboarding[i][1]]
                      \o [i \in DOMAIN memory |-> memory[i][1]]
                      \o [i \in DOMAIN books |-> books[i][1]])
      n == Max({1, Len(onboarding)})
      parts(x) == [onboarding |-> 90 * ScoreOf(onboarding, x),
                   memory |-> 3 * n * ScoreOf(memory, x), books |-> 6 * n * ScoreOf(books, x)]
  IN [i \in DOMAIN names |-> <<names[i], PartsTogether(parts(names[i]))>>]
=============================================================================
