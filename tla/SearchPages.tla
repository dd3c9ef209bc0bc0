---------------------------- MODULE SearchPages ----------------------------
(***************************************************************************)
(* POST /search a page at a time: app/routers/search.py and app/search/    *)
(* (service.py, keyword.py, vector.py, rrf.py, sorting.py, books.py).      *)
(*                                                                         *)
(* As with the feed nothing is kept between two pages but the cursor. The  *)
(* words are searched in one statement, the vectors in another and the     *)
(* books are read in a third: what happens between them is seen by some.   *)
(* How well a word fits a title is given in tenths by Fit (pg_trgm).       *)
(***************************************************************************)
EXTENDS Catalogue

CONSTANTS
  Shelf,          \* the books of the catalogue
  Searches,       \* the requests: [query, filter, sort]
  Fit,            \* of a query and a book: [title, author, desc, whole, same]
  Closeness,      \* of a query and a book with a vector: larger is nearer
  Scan,           \* the place of a book in the order an index finds them
  PageSizes,
  CandidateLimit, VectorLimit, SortVectorLimit,      \* CANDIDATE_LIMIT of both, SORT_VECTOR_LIMIT
  LookupLimit, LookupBudget, LookupMin, MinAllWords, \* of keyword.py
  CursorLife,     \* TTL_SECONDS
  MaxClock, MaxTroubles, \* bounds: the clock; changes and failures
  Nothing

ASSUME SearchAssumption ==
  /\ PageSizes \subseteq Nat \ {0} /\ MinAllWords \in Nat
  /\ CandidateLimit \in Nat /\ VectorLimit \in Nat /\ SortVectorLimit \in 0 .. VectorLimit
  /\ LookupLimit \in Nat /\ LookupMin \in 0 .. LookupLimit /\ LookupBudget \in Nat
  /\ CursorLife \in Nat /\ MaxClock \in Nat /\ MaxTroubles \in Nat
  /\ \A s \in Searches :
       s.sort \in {"relevance", "newest", "price_asc", "price_desc", "popular"}

\* An id is the primary key of books.
ASSUME ShelfAssumption ==
  /\ IsFiniteSet(Shelf)
  /\ \A b \in Shelf :
       /\ b.id \in Int /\ b.year \in Int /\ b.sales \in Int /\ IsFiniteSet(b.products)
       /\ \A p \in b.products : p.stock \in Int /\ p.price \in Int
  /\ \A a, b \in Shelf : a.id = b.id => a = b

VARIABLES
  clock,
  listed,   \* the ids v_books holds
  vectors,  \* [embeds, up, filled]: the model, the vector query, any vectors at all
  quest,    \* the client: its request, its cursor, what it was shown
  troubles  \* the changes and failures that may still come

searchVars == <<clock, listed, vectors, quest, troubles>>

The(id) == CHOOSE b \in Shelf : b.id = id
Listed(f, there) == {b \in Shelf : b.id \in there /\ Passes(f, b)}
Ids(s) == [i \in DOMAIN s |-> s[i].id]
Place(s, id) == CHOOSE i \in DOMAIN s : s[i] = id

-----------------------------------------------------------------------------
(* keyword.py. A query has as many words as its fits have entries.         *)

Words(q) == DOMAIN Fit[q][(CHOOSE b \in Shelf : TRUE).id].title

ASSUME FitAssumption ==
  \A q \in DOMAIN Fit :
    IsFiniteSet(Words(q)) /\ \A b \in Shelf : Closeness[q][b.id] \in Int

\* _word_matches.
Near(q, w, b) == Max({Fit[q][b.id].title[w], Fit[q][b.id].author[w]}) >= 6

\* lookup_limit.
LookupFor(n) == Min({LookupLimit, Max({LookupMin, LookupBudget \div n})})

\* An unordered LIMIT: what the index comes to first.
Found(S, n) == ToSet(Take(Ordered(S, LAMBDA b : <<Scan[b.id]>>), n))

SameTitle(q, S) == {b \in S : Fit[q][b.id].same}

\* _cand_all_words, _cand_each_word: the filter comes before the cut.
WithAllWords(q, S) ==
  Found({b \in S : \A w \in Words(q) : Near(q, w, b)}, LookupLimit) \cup SameTitle(q, S)
WithEachWord(q, S) ==
  SameTitle(q, S)
  \cup UNION {Found({b \in S : Near(q, w, b)}, LookupFor(Cardinality(Words(q)))) : w \in Words(q)}

\* A word counts where it fits best; half if only in the description.
Coverage(q, b) ==
  LET fit == Fit[q][b.id]
  IN Sum(Words(q), LAMBDA w :
       Max({fit.title[w], fit.author[w], IF fit.desc[w] THEN 5 ELSE 0}))

\* In twentieths: three for the title, two for the author, half for the description.
WordScore(q, b) ==
  LET fit == Fit[q][b.id]
  IN Sum(Words(q), LAMBDA w :
       Max({6 * fit.title[w], 4 * fit.author[w], IF fit.desc[w] THEN 10 ELSE 0}))
     + 4 * fit.whole

\* _SQL over some candidates.
Best(q, cand) ==
  LET enough == {b \in cand : Coverage(q, b) >= 6 * Cardinality(Words(q))}
  IN Ids(Take(Ordered(enough, LAMBDA b : <<-WordScore(q, b), b.id>>), CandidateLimit))

\* search_ids: each word for itself only where too few books hold all of them.
KeywordIds(q, S) ==
  LET whole == Best(q, WithAllWords(q, S))
  IN IF Words(q) = {} THEN <<>>
     ELSE IF Cardinality(Words(q)) >= 2 /\ Len(whole) >= MinAllWords THEN whole
     ELSE Best(q, WithEachWord(q, S))

-----------------------------------------------------------------------------
(* vector.py, rrf.py, sorting.py.                                          *)

\* search_ids over the books that have a vector.
VectorIds(q, S) ==
  Ids(Take(Ordered({b \in S : b.embedded}, LAMBDA b : <<-Closeness[q][b.id], b.id>>), VectorLimit))

\* K, KEYWORD_WEIGHT, VECTOR_WEIGHT.
K == 60
KeywordWeight == 3
VectorWeight == 1

\* fuse: weight / (K + rank) of both lists over a common denominator.
Fuse(words, near) ==
  LET ranks == 1 .. Max({Len(words), Len(near)})
      common == ProductSet({K + r : r \in ranks})
      Part(s, weight, id) ==
        IF id \in ToSet(s) THEN weight * (common \div (K + Place(s, id))) ELSE 0
  IN IF words = <<>> /\ near = <<>> THEN <<>>
     ELSE Ordered(ToSet(words) \cup ToSet(near), LAMBDA id :
            <<-(Part(words, KeywordWeight, id) + Part(near, VectorWeight, id)), id>>)

\* Mutant: the two lists are fused as they are.
JustFused(q, words, near, there) == Fuse(words, near)

\* _exact_title_first.
ExactTitleFirst(q, words, near, there) ==
  LET exact == {id \in ToSet(words) : Fit[q][id].same /\ id \in there}
      rest == Only(words, ToSet(words) \ exact)
  IN Only(words, exact) \o Only(Fuse(rest, near), (ToSet(words) \cup ToSet(near)) \ exact)

\* _ORDER_BY, without the rank that settles a tie.
SortKey(sort, b) ==
  CASE sort = "newest" -> <<-b.year>>
    [] sort = "price_asc" -> <<Price(b)>>
    [] sort = "price_desc" -> <<IF Price(b) = NoPrice THEN 1 ELSE -Price(b)>>
    [] sort = "popular" -> <<-b.sales>>

\* sort_ids: like books.fetch it passes over what is no longer listed.
SortIds(sort, ids, there) ==
  StableSort(Only(ids, there), LAMBDA id : SortKey(sort, The(id)))

-----------------------------------------------------------------------------
(* service.py.                                                             *)

\* parse_request: a query that is not blank, known categories, ordered ranges.
ValidSearch(s) ==
  /\ s.query \in DOMAIN Fit
  /\ RangesOrdered(s.filter)
  /\ s.filter.category # "" => IsOnboarding(s.filter.category)

\* _vector_ids: none also where no book has a vector yet.
VectorsAnswer(v, near) == v.embeds /\ v.up /\ (near # <<>> \/ v.filled)

\* Only the nearest few where the rank does not count.
Pool(s, near) == IF s.sort = "relevance" THEN near ELSE Take(near, SortVectorLimit)

\* The ranking of search, from the words found before and the vectors and books there are now.
Ranking(s, words, v, there) ==
  LET near == IF v.filled THEN VectorIds(s.query, Listed(s.filter, there)) ELSE <<>>
      full == VectorsAnswer(v, near)
      ranked == IF full THEN ExactTitleFirst(s.query, words, Pool(s, near), there) ELSE words
  IN [mode |-> IF full THEN "full" ELSE "keyword-only",
      ids |-> IF s.sort = "relevance" THEN ranked ELSE SortIds(s.sort, ranked, there)]

\* What a cursor holds.
SearchCursors ==
  [offset : Nat, search : Searches, mode : {"full", "keyword-only"}, made : Nat]

\* Nothing is no request and no cursor.
ASSUME NothingAssumption == Nothing \notin Searches /\ Nothing \notin SearchCursors

\* _read_offset: the age, and the fingerprint of everything but the size.
CursorGone(s, c) == clock - c.made > CursorLife \/ c.search # s

\* Mutant: the mode is not looked at.
AnyMode(c, mode) == TRUE

ModeKept(c, mode) == c = Nothing \/ c.mode = mode

\* books.fetch.
Fetch(ids, there) == Only(ids, there)

NoReply == [status |-> 0, books |-> <<>>, next |-> Nothing, mode |-> Nothing, message |-> FALSE]
Deny(code) == [NoReply EXCEPT !.status = code]

-----------------------------------------------------------------------------
NewQuest ==
  [pc |-> "idle", search |-> Nothing, size |-> 0, cursor |-> Nothing, words |-> <<>>,
   last |-> NoReply, shown |-> <<>>, whole |-> <<>>, modes |-> {}, quiet |-> TRUE]

VectorStates == {[embeds |-> TRUE, up |-> TRUE, filled |-> TRUE],
                 [embeds |-> FALSE, up |-> TRUE, filled |-> TRUE],
                 [embeds |-> TRUE, up |-> FALSE, filled |-> TRUE],
                 [embeds |-> TRUE, up |-> TRUE, filled |-> FALSE]}

SearchInit ==
  /\ clock = 0 /\ listed = {b.id : b \in Shelf} /\ vectors \in VectorStates
  /\ quest = NewQuest /\ troubles = MaxTroubles

\* parse_request and _read_offset; 0 where nothing is wrong.
SearchCode(s, c) ==
  IF ~ValidSearch(s) THEN 400 ELSE IF c # Nothing /\ CursorGone(s, c) THEN 410 ELSE 0

\* The request is read, and the words are searched.
Search(s, size) ==
  /\ quest.pc = "idle"
  /\ LET code == SearchCode(s, quest.cursor)
     IN quest' =
          IF code # 0
          THEN [quest EXCEPT !.pc = "ended", !.search = s, !.last = Deny(code)]
          ELSE [quest EXCEPT !.pc = "found", !.search = s, !.size = size,
                  !.words = KeywordIds(s.query, Listed(s.filter, listed))]
  /\ UNCHANGED <<clock, listed, vectors, troubles>>

\* The page of a ranking and the cursor of the next one.
Reply(s, c, size, ranking, there, t) ==
  LET from == IF c = Nothing THEN 0 ELSE c.offset
      end == from + size
      total == Len(ranking.ids)
      page == Fetch(SubSeq(ranking.ids, from + 1, Min({end, total})), there)
      next == IF end < total
              THEN [offset |-> end, search |-> s, mode |-> ranking.mode, made |-> t]
              ELSE Nothing
  IN IF ~ModeKept(c, ranking.mode) THEN Deny(410)
     ELSE [status |-> 200, books |-> page, next |-> next, mode |-> ranking.mode,
           message |-> c = Nothing /\ page = <<>>]

\* The first page: no book has left since the words were searched.
Started(q, ranking, there) ==
  [q EXCEPT !.whole = ranking.ids, !.quiet = @ /\ ToSet(q.words) \subseteq there]

AfterPage(q, ranking, reply, there) ==
  [IF q.cursor = Nothing THEN Started(q, ranking, there) ELSE q EXCEPT
     !.pc = IF reply.next = Nothing THEN "ended" ELSE "idle",
     !.cursor = reply.next, !.last = reply, !.shown = @ \o reply.books,
     !.modes = IF reply.status = 200 THEN @ \cup {ranking.mode} ELSE @]

\* The rest of search: the vectors, the order, the books, the next cursor.
Show ==
  LET ranking == Ranking(quest.search, quest.words, vectors, listed)
      reply == Reply(quest.search, quest.cursor, quest.size, ranking, listed, clock)
  IN
  /\ quest.pc = "found"
  /\ quest' = AfterPage(quest, ranking, reply, listed)
  /\ UNCHANGED <<clock, listed, vectors, troubles>>

Trouble == troubles > 0 /\ troubles' = troubles - 1 /\ quest.pc # "ended"

\* The words cannot be searched: 500, and the client asks again.
SearchFails ==
  /\ quest.pc = "found" /\ Trouble
  /\ quest' = [quest EXCEPT !.pc = "idle", !.last = Deny(500)]
  /\ UNCHANGED <<clock, listed, vectors>>

\* A book leaves the catalogue; the list is another one from then on.
Unlist(b) ==
  /\ Trouble /\ b.id \in listed
  /\ listed' = listed \ {b.id}
  /\ quest' = [quest EXCEPT !.quiet = @ /\ quest.search = Nothing]
  /\ UNCHANGED <<clock, vectors>>

\* The vectors fail, come back or are filled.
ChangeVectors(v) ==
  /\ Trouble /\ v # vectors
  /\ vectors' = v
  /\ UNCHANGED <<clock, listed, quest>>

Wait ==
  /\ quest.pc # "ended" /\ clock < MaxClock
  /\ clock' = clock + 1
  /\ UNCHANGED <<listed, vectors, quest, troubles>>

SearchNext ==
  \/ \E s \in Searches, size \in PageSizes : Search(s, size)
  \/ Show \/ SearchFails \/ Wait
  \/ \E b \in Shelf : Unlist(b)
  \/ \E v \in VectorStates : ChangeVectors(v)

SearchSpec == SearchInit /\ [][SearchNext]_searchVars

-----------------------------------------------------------------------------
(* Properties.                                                             *)

\* The pages of one search come from one ranking: they join into the list of the first
\* page without a gap or a repetition while no book leaves the catalogue, whatever the
\* vectors do meanwhile; else the cursor is refused (service.py:160-162).
SearchPagesJoin ==
  quest.quiet /\ quest.last.status = 200 =>
    /\ IsPrefix(quest.shown, quest.whole)
    /\ quest.last.next = Nothing => quest.shown = quest.whole

\* A book with the very title, in which the words are found, is listed however common they
\* are, and in a full ranking such a title comes before every other (keyword.py:48-50, service.py:83-100).
SameTitleFound ==
  LET s == quest.search
      same == {b \in Listed(s.filter, listed) : /\ Fit[s.query][b.id].same
                 /\ Coverage(s.query, b) >= 6 * Cardinality(Words(s.query))}
  IN quest.quiet /\ quest.last.status = 200 /\ Words(s.query) # {} =>
       /\ Cardinality(same) <= CandidateLimit => {b.id : b \in same} \subseteq ToSet(quest.whole)
       /\ s.sort = "relevance" /\ quest.modes = {"full"} =>
            \A i, j \in DOMAIN quest.whole :
              i < j /\ Fit[s.query][quest.whole[j]].same => Fit[s.query][quest.whole[i]].same
=============================================================================
