----------------------------- MODULE Catalogue -----------------------------
(***************************************************************************)
(* What the lists, the search and the profile read of a book and of a      *)
(* user, as values: the price and stock of app/core/products.py, the       *)
(* filters of app/search/filters.py, the weights of the history of         *)
(* app/core/history.py, the category tables of app/core/categories.py, the *)
(* editions of app/core/editions.py and the score of app/feed/scoring.py.  *)
(*                                                                         *)
(* A book is a record with id, isbn, category, year (0: unknown), title,   *)
(* author, sales, and products: a set of [stock, price]. Titles and        *)
(* authors are already the keys title_key and author_key make of them,     *)
(* 0 when nothing is left.                                                 *)
(***************************************************************************)
EXTENDS Orders

CONSTANTS
  Core,      \* ONBOARDING_TO_CATALOG: the core classes of an onboarding value
  Partial,   \* the classes it shares with others
  TagClass,  \* TAG_TO_CATALOG: the classes of a sub tag
  Unfiltered \* UNFILTERED_ONBOARDING: values no class stands for

ASSUME CatalogueAssumption ==
  /\ DOMAIN Core = DOMAIN Partial
  /\ Unfiltered \cap DOMAIN Core = {}

-----------------------------------------------------------------------------
NoPrice == 1000000000 \* None sorts behind every price
NoNumber == -1        \* a filter or a bound that was not given

Sum(S, f(_)) == MapThenSumSet(f, S)

-----------------------------------------------------------------------------
(* Products: a price and a stock come from one and the same product.       *)

\* The product shown: one in stock before one that is not, then the cheapest.
Offer(b) ==
  Least(b.products, LAMBDA p : <<IF p.stock > 0 THEN 0 ELSE 1, p.price>>)

Price(b) == IF b.products = {} THEN NoPrice ELSE Offer(b).price

InStock(b) == b.products # {} /\ Offer(b).stock > 0

-----------------------------------------------------------------------------
(* Categories.                                                             *)

IsOnboarding(name) == name \in DOMAIN Core \cup Unfiltered

\* filter_categories, and the catalogue class itself where it returns None.
\* The empty set stands for "do not filter".
FilterClasses(name) ==
  IF name \in Unfiltered THEN {} ELSE IF name \in DOMAIN Core THEN Core[name] ELSE {name}

\* catalog_scores: a class in several of the picked values gets all of their points.
CatalogScores(picked, core, partial) ==
  LET known == picked \cap DOMAIN Core
      classes == UNION {Core[n] \cup Partial[n] : n \in known}
  IN [c \in classes |->
        core * Cardinality({n \in known : c \in Core[n]})
        + partial * Cardinality({n \in known : c \in Partial[n]})]

\* tag_scores.
TagScores(tags, points) ==
  LET known == tags \cap DOMAIN TagClass
  IN [c \in UNION {TagClass[t] : t \in known} |->
        points * Cardinality({t \in known : c \in TagClass[t]})]

-----------------------------------------------------------------------------
(* Filters. A filter is [category, from, to, low, high]; NoNumber or ""    *)
(* where nothing was asked.                                                *)

Within(n, from, to, unknown) ==
  /\ from # NoNumber => n # unknown /\ n >= from
  /\ to # NoNumber => n # unknown /\ n <= to

\* build_where as a condition on a book.
Passes(f, b) ==
  /\ f.category # "" =>
       LET classes == FilterClasses(f.category) IN classes = {} \/ b.category \in classes
  /\ Within(Price(b), f.low, f.high, NoPrice)
  /\ Within(b.year, f.from, f.to, 0)

\* Does build_where put any condition at all?
Filtering(f) ==
  \/ f.category # "" /\ FilterClasses(f.category) # {}
  \/ \E bound \in {f.from, f.to, f.low, f.high} : bound # NoNumber

\* The validators of SearchFilters: no range the wrong way round.
RangesOrdered(f) ==
  /\ f.low # NoNumber /\ f.high # NoNumber => f.low <= f.high
  /\ f.from # NoNumber /\ f.to # NoNumber => f.from <= f.to

-----------------------------------------------------------------------------
(* The history. A row is [book, kind, rating, at, counts]: rating in half  *)
(* points, counts FALSE for an order not paid or cancelled and a review    *)
(* that was deleted.                                                       *)

Purchase == 3
LikedReview == 2
Library == 1
DislikedReview == -2

ReviewWeight(rating) ==
  IF rating >= 8 THEN LikedReview ELSE IF rating <= 4 THEN DislikedReview ELSE 0

RowWeight(r) ==
  CASE r.kind = "purchase" -> Purchase
    [] r.kind = "library" -> Library
    [] OTHER -> ReviewWeight(r.rating)

\* The rows the query reads: what still counts, up to a time (NoNumber: all).
RowsUntil(rows, until) ==
  {r \in rows : r.counts /\ (until = NoNumber \/ r.at <= until)}

Reviewed(rows) == {r.book : r \in rows}

\* summarize: one weight a book, the largest of its rows.
Weight(rows, b) == Max({RowWeight(r) : r \in {x \in rows : x.book = b}})

Disliked(rows) == {r.book : r \in {x \in rows : RowWeight(x) = DislikedReview}}

\* The time of the latest row that was read; 0 when there is none.
ComputedAt(rows) == IF rows = {} THEN 0 ELSE Max({r.at : r \in rows})

\* classOf is the class of each book.
CategoryScore(rows, classOf, c) ==
  Sum({b \in Reviewed(rows) : classOf[b] = c}, LAMBDA b : Weight(rows, b))

\* category_scores_since: what the rows that were read give less what the reflected
\* rows gave; rows of a book both times count once.
ScoreSince(read, classOf, reflected, c) ==
  LET before == IF reflected = 0 THEN {} ELSE {r \in read : r.at <= reflected}
  IN CategoryScore(read, classOf, c) - CategoryScore(before, classOf, c)

\* reported_rows: the history the backend sends, all of it at the time of the request.
ReportedRows(bought, shelved, rated, at) ==
  {[book |-> b, kind |-> "purchase", rating |-> 0, at |-> at, counts |-> TRUE] : b \in bought}
  \cup {[book |-> b, kind |-> "library", rating |-> 0, at |-> at, counts |-> TRUE] : b \in shelved}
  \cup {[book |-> p[1], kind |-> "review", rating |-> p[2], at |-> at, counts |-> TRUE] : p \in rated}

-----------------------------------------------------------------------------
(* Editions and ISBNs.                                                     *)

\* edition_key: books without a title or an author are never put together.
SameEdition(a, b) ==
  a.title # 0 /\ a.author # 0 /\ a.title = b.title /\ a.author = b.author

\* to_book_ids: an ISBN the catalogue does not hold is passed over.
BookIds(isbns, Books) == {b.id : b \in {x \in Books : x.isbn \in isbns}}

-----------------------------------------------------------------------------
(* The match score (app/feed/scoring.py), in whole numbers: a similarity   *)
(* is given in hundredths, so each part is a fraction over 4 * the highest *)
(* sales, and the sum is rounded half to even like Python's round.         *)

Clamp(n, top) == Max({0, Min({n, top})})

\* 0.6 over the span from 0.85 to 0.95: six points a hundredth.
SimilarityPoints(s) == 6 * Clamp(s - 85, 10)

\* 0.25 over four points of the category.
CategoryQuarters(raw) == 25 * Clamp(raw, 4)

\* round(n / d) for n >= 0.
Rounded(n, d) ==
  LET q == n \div d  r == n % d
  IN IF 2 * r > d \/ (2 * r = d /\ q % 2 = 1) THEN q + 1 ELSE q

\* 0.15 over the sales of the best selling book (1 and no sales: no popularity yet).
MatchScore(similarity, raw, sales, best) ==
  LET top == Max({best, 1})
  IN Rounded(4 * top * similarity + top * CategoryQuarters(raw) + 60 * Clamp(sales, top), 4 * top)
=============================================================================
