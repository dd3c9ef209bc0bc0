----------------------------- MODULE FeedPages -----------------------------
(***************************************************************************)
(* Reading the home feed and its "more" page a page at a time:             *)
(* app/routers/feed.py (GET /recommendations/feed), app/feed/service.py    *)
(* and the four lists it reads, app/feed/interest_page.py (the saved list),*)
(* personalized.py, rule_only.py and cold_start.py.                        *)
(*                                                                         *)
(* Nothing is kept between two pages but the signed cursor the client      *)
(* holds: every page makes its list again from the history, the profile,   *)
(* the saved list and the book vectors as they are by then. The history is *)
(* a replica of the backend's, and late: a row comes, or learns of its new *)
(* status, at any time after the backend has it. The books stay as they    *)
(* are for as long as a scroll lasts.                                      *)
(***************************************************************************)
EXTENDS Catalogue

CONSTANTS
  Books,         \* the catalogue
  Asks,          \* the requests a client may make
  Sizes,         \* the page sizes it may ask for
  ListLimit,     \* CANDIDATE_LIMIT, MAX_BOOKS
  ExactLimit,    \* EXACT_LIMIT
  FallbackLimit, \* FALLBACK_LIMIT
  TicksASecond,  \* the clock is finer than the cursor's seconds
  Lifetime,      \* TTL_SECONDS, in ticks
  Happenings,    \* what a user may add to the history: [book, kind, rating, counts];
                 \* an order counts once it is paid, a review as long as it is shown
  MaxTime, MaxChanges, \* bounds: the clock; changes and failures
  None

ASSUME FeedPagesAssumption ==
  /\ ListLimit \in Nat \ {0} /\ ExactLimit <= FallbackLimit
  /\ TicksASecond \in Nat \ {0} /\ Lifetime \in Nat /\ MaxTime \in Nat /\ MaxChanges \in Nat
  /\ Sizes \subseteq Nat \ {0}
  /\ IsFiniteSet(Books) /\ \A b \in Books : IsFiniteSet(b.products)
  /\ IsFiniteSet(Happenings)

\* An id is the primary key of books.
ASSUME BooksAssumption ==
  /\ \A b \in Books :
       /\ b.id \in Int /\ b.year \in Int /\ b.sales \in Int /\ b.similar \in Int
       /\ \A p \in b.products : p.stock \in Int /\ p.price \in Int
  /\ \A a, b \in Books : a.id = b.id => a = b

\* FeedRequest: a request has no bound on prices.
ASSUME AsksAssumption ==
  \A a \in Asks :
    /\ a = [surface |-> a.surface, sort |-> a.sort, filter |-> a.filter, min |-> a.min, sent |-> a.sent]
    /\ a.surface \in {"home", "more"} /\ a.sort \in {"match", "newest", "price_asc"}
    /\ a.min \in {NoNumber} \cup 0 .. 100 /\ a.sent \in BOOLEAN
    /\ a.filter.low = NoNumber /\ a.filter.high = NoNumber

VARIABLES
  now,      \* the clock
  past,     \* the history of the user, as the backend has it
  rows,     \* the same, as far as it has been replicated
  profile,  \* the taste_profile row: None or [vector, weights, version, reflected]
  saved,    \* its saved list: None or [books, version, prev]
  index,    \* the book vectors: [up, filled, reach, estimate]
  scroll,   \* the client: its request, its cursor and what it has been shown
  left      \* the changes and failures that may still come

feedVars == <<now, past, rows, profile, saved, index, scroll, left>>

Id(b) == b.id
TheBook(id) == CHOOSE b \in Books : b.id = id
ClassOf == [id \in {b.id : b \in Books} |-> TheBook(id).category]
Classes == {b.category : b \in Books}
Second(t) == t - (t % TicksASecond)

-----------------------------------------------------------------------------
(* The request and the cursor (schemas.py, cursor.py, core/cursor.py).     *)

\* _check_rules and the router's category check; more is what a home request may not carry.
Valid(a) ==
  /\ a.surface = "home" => a.sort = "match" /\ ~Filtering(a.filter) /\ a.min = NoNumber
  /\ RangesOrdered(a.filter)
  /\ a.filter.category # "" => IsOnboarding(a.filter.category)

\* fingerprint: the sort and the filters; neither the size nor the user.
Conditions(a) == <<a.surface, a.sort, a.filter, a.min>>

\* Mutant: every page counts the history up to itself.
IssueAnew(a, size, page, mode, ver) ==
  [offset |-> page.offset + size, conditions |-> Conditions(a), mode |-> mode,
   issued |-> Second(now), ver |-> ver, made |-> Second(now)]

\* cursor.issue and core cursor.encode: whole seconds, and a new time for every page.
Issue(a, size, page, mode, ver) ==
  [offset |-> page.offset + size, conditions |-> Conditions(a), mode |-> mode,
   issued |-> Second(page.issued), ver |-> ver, made |-> Second(now)]

\* cursor.decode's check of the age, and read's of the conditions.
Expired(a, c) == now - c.made > Lifetime \/ c.conditions # Conditions(a)

\* cursor.read.
PageOf(c) ==
  IF c = None THEN [offset |-> 0, mode |-> None, issued |-> now, ver |-> 0]
  ELSE [offset |-> c.offset, mode |-> c.mode, issued |-> c.issued, ver |-> c.ver]

\* cursor.check_mode.
SameMode(page, mode) == page.mode \in {None, mode}

-----------------------------------------------------------------------------
(* What is left out (exclusion.py, service._excluded).                     *)

\* The books the backend sends along: bought or in the library.
Owned(hist) == {r.book : r \in {x \in hist : x.counts /\ x.kind # "review"}}

\* exclusion.replicated, of the rows that are read: those up to when the first page was made.
InHistory(read) == {r.book : r \in {x \in read : x.kind = "review" => x.rating <= 4}}

Excluded(a, owned, read) == IF a.sent THEN owned ELSE InHistory(read)

Eligible(a, owned, read) ==
  {b \in Books : b.id \notin Excluded(a, owned, read) /\ Passes(a.filter, b)}

-----------------------------------------------------------------------------
(* A page of a list: what is shown, and whether more follows.              *)

Item(b, score) == [book |-> b.id, score |-> score]

\* page_of, rank: a window of the whole list.
Window(list, size, page) ==
  [items |-> SubSeq(list, page.offset + 1, Min({page.offset + size, Len(list)})),
   more |-> Len(list) > page.offset + size]

\* cold_start.fetch: the list ends at its limit, whatever the page size.
LimitedWindow(list, size, page) ==
  LET n == Min({size, ListLimit - page.offset})
  IN IF n <= 0 THEN [items |-> <<>>, more |-> FALSE]
     ELSE [items |-> SubSeq(list, page.offset + 1, Min({page.offset + n, Len(list)})),
           more |-> Len(list) > page.offset + n /\ page.offset + n < ListLimit]

-----------------------------------------------------------------------------
(* The saved list (interest_page.py).                                      *)

\* Stored.at.
ListAt(s, ver) ==
  IF ver = s.version - 1 /\ s.prev # None
  THEN [books |-> s.prev, ver |-> ver] ELSE [books |-> s.books, ver |-> s.version]

\* Mutant: what the user owns stays on the saved list.
KeptAll(a, owned, read, list) == list

\* books: neither owned nor, where the backend sent them, another edition of one.
Kept(a, owned, read, list) ==
  Only(list, {e \in ToSet(list) :
    /\ e.book \notin Excluded(a, owned, read)
    /\ a.sent => \A o \in owned : ~SameEdition(TheBook(o), TheBook(e.book))})

\* _passes.
PassesSaved(a, e) ==
  LET b == TheBook(e.book)  f == a.filter IN
  /\ f.category # "" =>
       FilterClasses(f.category) = {} \/ b.category \in FilterClasses(f.category)
  /\ f.from # NoNumber => b.year # 0 /\ b.year >= f.from
  /\ f.to # NoNumber => b.year # 0 /\ b.year <= f.to
  /\ a.min # NoNumber => e.score >= a.min

SavedKey(a, e) ==
  CASE a.sort = "match" -> <<-e.score>>
    [] a.sort = "newest" -> <<-TheBook(e.book).year>>
    [] a.sort = "price_asc" -> <<Price(TheBook(e.book))>>

\* arrange: home keeps the saved order.
Arrange(a, list) ==
  IF a.surface = "home" THEN list
  ELSE StableSort(Only(list, {e \in ToSet(list) : PassesSaved(a, e)}), LAMBDA e : SavedKey(a, e))

SavedList(a, owned, read, list) == Arrange(a, Kept(a, owned, read, list))

\* _from_saved: the cases where it leaves the request to the other lists.
LeavesIt(a, size, owned, read, page, seen) ==
  \/ seen = None
  \/ /\ page.mode = None
     /\ LET list == ListAt(seen, page.ver).books
        IN
           \/ list = <<>>
           \/ a.surface = "more" /\ Len(SavedList(a, owned, read, list)) < size

-----------------------------------------------------------------------------
(* The list by taste (personalized.py), of a profile p and vectors i.      *)

BestSales == Max({b.sales : b \in Books} \cup {0})

\* _tag_weights: the profile's, and what the history gave since, up to the first page.
TagWeight(read, p, c) ==
  (IF c \in DOMAIN p.weights THEN p.weights[c] ELSE 0)
  + ScoreSince(read, ClassOf, p.reflected, c)

Embedded(S, i) == {b \in S : b.embedded /\ i.filled}

ByDistance(S) == Take(Ordered(S, LAMBDA b : <<-b.similar, b.id>>), ListLimit)

\* _nearest: exactly where few books pass the filter; else by the index, and exactly
\* after all if that fell short and the books are not too many.
Nearest(a, owned, read, i) ==
  LET all == Embedded(Eligible(a, owned, read), i)
      found == ByDistance({b \in all : b.id \in i.reach})
      exactly == /\ Filtering(a.filter)
                 /\ \/ i.estimate <= ExactLimit
                    \/ Len(found) < ListLimit /\ i.estimate <= FallbackLimit
  IN IF exactly THEN ByDistance(all) ELSE found

TasteKey(a, b, score) ==
  CASE a.sort = "match" -> <<-score, -b.sales, -b.year, b.id>>
    [] a.sort = "newest" -> <<-b.year, b.id>>
    [] a.sort = "price_asc" -> <<Price(b), b.id>>

\* rank: the lower bound and the order, over a set of <<candidate, score>>.
Ranked(a, scored) ==
  LET order == Ordered({p \in scored : p[2] >= a.min}, LAMBDA p : TasteKey(a, p[1], p[2]))
  IN [i \in DOMAIN order |-> Item(order[i][1], order[i][2])]

TasteList(a, owned, read, p, i) ==
  Ranked(a, {<<b, MatchScore(SimilarityPoints(b.similar), TagWeight(read, p, b.category),
                             b.sales, BestSales)>> : b \in ToSet(Nearest(a, owned, read, i))})

-----------------------------------------------------------------------------
(* The list without vectors (rule_only.py) and without taste (cold_start). *)

PopularKey(b) == <<-b.sales, -b.year, b.id>>

\* candidates_sql: the liked categories, best liked first, and what is popular.
RuleCandidates(a, owned, read, p) ==
  LET all == Eligible(a, owned, read)
      liked == {b \in all : TagWeight(read, p, b.category) > 0}
  IN ToSet(Take(Ordered(liked, LAMBDA b : <<-TagWeight(read, p, b.category)>> \o PopularKey(b)),
                ListLimit))
     \cup ToSet(Take(Ordered(all, PopularKey), ListLimit))

RuleList(a, owned, read, p) ==
  Ranked(a, {<<b, MatchScore(0, TagWeight(read, p, b.category), b.sales, BestSales)>> :
               b \in RuleCandidates(a, owned, read, p)})

\* ORDERED_SQL by price reads the products: a book without one is not listed.
ByProduct(S) ==
  LET offers == {<<o[1].price, o[2]>> : o \in UNION {b.products \X {b} : b \in S}}
      order == Ordered(offers, LAMBDA o : <<o[1], o[2].id>>)
  IN [i \in DOMAIN order |-> order[i][2]]

\* popular_first_sql, ORDERED_SQL. A lower bound above zero leaves nothing.
ColdList(a, owned, read) ==
  LET all == Eligible(a, owned, read)
      order == CASE a.sort = "match" -> Ordered(all, PopularKey)
                 [] a.sort = "newest" -> Ordered(all, LAMBDA b : <<-b.year, b.id>>)
                 [] a.sort = "price_asc" -> ByProduct(all)
  IN IF a.min > 0 THEN <<>> ELSE [i \in DOMAIN order |-> Item(order[i], 0)]

-----------------------------------------------------------------------------
(* feed: which list a page comes from.                                     *)

HasVector(p) == p # None /\ p.vector
Personal == HasVector(profile)

\* Either something was found, or the vectors are there and the filters leave nothing.
VectorsServe(taste, size, page) ==
  /\ index.up
  /\ Window(taste, size, page).items # <<>> \/ Embedded(Books, index) # {}

\* Mutant: the mode that is expected is checked before the list is made.
ServesBySight(page, mode) == SameMode(page, IF Personal THEN "personalized" ELSE "cold-start")

\* check_mode, after the list was made with what was there.
Serves(page, mode) == SameMode(page, mode)

\* feed as a whole: the mode and the whole list the page is a window of.
Made(a, size, owned, page, seen) ==
  LET read == RowsUntil(rows, page.issued)
      taste == TasteList(a, owned, read, profile, index) IN
  IF page.mode \in {None, "interest"} /\ ~LeavesIt(a, size, owned, read, page, seen)
  THEN [mode |-> "interest", ver |-> ListAt(seen, page.ver).ver,
        list |-> SavedList(a, owned, read, ListAt(seen, page.ver).books)]
  ELSE IF ~Personal
  THEN [mode |-> "cold-start", ver |-> 0, list |-> ColdList(a, owned, read)]
  ELSE IF VectorsServe(taste, size, page)
  THEN [mode |-> "personalized", ver |-> 0, list |-> taste]
  ELSE [mode |-> "rule-only", ver |-> 0, list |-> RuleList(a, owned, read, profile)]

\* _outcome.
Outcome(a, size, page, made) ==
  LET cut == IF made.mode = "cold-start" THEN LimitedWindow(made.list, size, page)
             ELSE Window(made.list, size, page)
  IN [status |-> 200, mode |-> made.mode, ver |-> made.ver, items |-> cut.items,
      degraded |-> made.mode = "rule-only",
      next |-> IF cut.more THEN Issue(a, size, page, made.mode, made.ver) ELSE None]

Refused(code) ==
  [status |-> code, mode |-> None, ver |-> 0, items |-> <<>>, degraded |-> FALSE, next |-> None]

-----------------------------------------------------------------------------
\* Nothing asked yet. What follows last is history: all that was shown, in which modes,
\* the whole list as it was at the first page, whether what it is made from and what its mode
\* depends on are undisturbed, whether a row of the very second of the first page was read, when
\* the first and the latest page came, and whether the cursor was sent late or changed.
NewScroll ==
  [pc |-> "idle", ask |-> None, size |-> 0, cursor |-> None, page |-> None, seen |-> None,
   owned |-> {}, last |-> Refused(0), shown |-> <<>>, modes |-> {}, promised |-> <<>>,
   quiet |-> TRUE, steady |-> TRUE, split |-> FALSE, began |-> 0, at |-> 0, excused |-> FALSE]

\* The saved lists there may be at first, and what a rebuild makes of one.
CONSTANTS SavedLists, Profiles, Indexes

ASSUME SavedListsAssumption ==
  SavedLists \subseteq Seq([book : {b.id : b \in Books}, score : Nat])

\* None is no profile; a weight is a whole number (compute.py).
ASSUME ProfilesAssumption ==
  \A p \in Profiles \ {None} : \A c \in DOMAIN p.weights : p.weights[c] \in Int

\* None is no request, no mode, no cursor and nothing that is saved.
Modes == {"interest", "cold-start", "personalized", "rule-only"}
Cursors == [offset : Nat, conditions : {Conditions(a) : a \in Asks}, mode : Modes,
            issued : Nat, ver : Nat, made : Nat]
Saves == [books : SavedLists, version : Nat, prev : SavedLists \cup {None}]
ASSUME NoneAssumption ==
  None \notin Asks /\ None \notin Modes /\ None \notin Cursors /\ None \notin SavedLists /\ None \notin Saves

Row(h, at) ==
  [book |-> h.book, kind |-> h.kind, rating |-> h.rating, at |-> at, counts |-> h.counts]

FeedInit ==
  /\ now = 0
  /\ past \in {{}, {Row(h, 0) : h \in Happenings}} /\ rows \in SUBSET past
  /\ profile \in Profiles /\ index \in Indexes
  /\ saved \in {None} \cup {[books |-> l, version |-> 1, prev |-> None] : l \in SavedLists}
  /\ scroll = NewScroll
  /\ left = MaxChanges

Refusal(a, c) == IF ~Valid(a) THEN 400 ELSE IF c # None /\ Expired(a, c) THEN 410 ELSE 0

Rejected(a, c, refusal) ==
  [scroll EXCEPT !.pc = "ended", !.ask = a, !.last = Refused(refusal),
     !.excused = c # None /\ (\/ now - scroll.at > Lifetime - TicksASecond
                              \/ Conditions(a) # Conditions(scroll.ask))]

Asking(a, size, c) ==
  [scroll EXCEPT !.pc = "reading", !.ask = a, !.size = size, !.page = PageOf(c),
     !.seen = saved, !.owned = IF a.sent THEN Owned(past) ELSE {}]

\* The router parses the query and reads the cursor, the books sent along and the saved list.
Open(a, size) ==
  LET c == scroll.cursor  refusal == Refusal(a, c) IN
  /\ scroll.pc = "idle"
  /\ c # None => a.surface = scroll.ask.surface /\ a.sent = scroll.ask.sent
  /\ scroll' = IF refusal # 0 THEN Rejected(a, c, refusal) ELSE Asking(a, size, c)
  /\ UNCHANGED <<now, past, rows, profile, saved, index, left>>

\* May the second page find the list of the first? Not if the backend has other books to
\* send by now, or if the saved list has moved on twice.
UndisturbedSince(a) ==
  /\ a.sent => Owned(past) = scroll.owned
  /\ scroll.seen # None => saved.version <= scroll.seen.version + 1

\* A row that counts, in the part of the second that the cursor cuts off.
SameSecond(t) == RowsUntil(rows, Second(t)) # RowsUntil(rows, t)

\* A scroll is measured by the list of its first page.
Begun(made) ==
  [scroll EXCEPT
     !.promised = IF made.mode = "cold-start" THEN Take(made.list, ListLimit) ELSE made.list,
     !.began = scroll.page.issued,
     !.quiet = UndisturbedSince(scroll.ask),
     !.split = SameSecond(scroll.page.issued)]

\* What the client has after a reply.
Answered(made, reply) ==
  [(IF scroll.page.mode = None THEN Begun(made) ELSE scroll) EXCEPT
     !.pc = IF reply.next = None THEN "ended" ELSE "idle",
     !.cursor = reply.next, !.last = reply, !.at = now,
     !.shown = scroll.shown \o reply.items,
     !.modes = IF reply.status = 200 THEN scroll.modes \cup {made.mode} ELSE scroll.modes]

\* The rest of feed: the list is made and its window sent.
Answer ==
  LET s == scroll
      made == Made(s.ask, s.size, s.owned, s.page, s.seen)
      served == Serves(s.page, made.mode)
  IN
  /\ s.pc = "reading"
  /\ scroll' = Answered(made, IF served THEN Outcome(s.ask, s.size, s.page, made) ELSE Refused(410))
  /\ UNCHANGED <<now, past, rows, profile, saved, index, left>>

\* Bound: nothing more happens once the client is done. The rest of a change is only
\* worth a step while it reads; before that it is another initial state.
Change == left > 0 /\ left' = left - 1 /\ scroll.pc # "ended"
Meanwhile == Change /\ scroll.ask # None

\* The query fails or its answer comes too late: 500, and the client asks again.
Fail ==
  /\ scroll.pc = "reading" /\ Change
  /\ scroll' = [scroll EXCEPT !.pc = "idle", !.last = Refused(500)]
  /\ UNCHANGED <<now, past, rows, profile, saved, index>>

-----------------------------------------------------------------------------
(* What goes on meanwhile. A scroll is quiet as long as nothing happened   *)
(* that its list is made from, and steady as long as nothing did that its  *)
(* mode depends on; what these are depends on the mode.                    *)

Disturbs(modes, sways) ==
  [scroll EXCEPT !.quiet = @ /\ scroll.modes \cap modes = {},
     !.steady = @ /\ (scroll.modes \cap modes = {} \/ ~sways)]

\* A later version of the saved list ends the one before the last.
DisturbsSaved ==
  [scroll EXCEPT !.quiet = @ /\ ~(/\ scroll.cursor # None /\ scroll.cursor.mode = "interest"
                                 /\ saved.version > scroll.cursor.ver)]

\* With this history the backend sends the same books along, if it sends any.
DisturbsOwned(hist) ==
  [scroll EXCEPT !.quiet = @ /\ (scroll.ask # None /\ scroll.ask.sent => Owned(hist) = Owned(past))]

\* With these rows the later pages read what they read so far. Where the backend sends the books
\* along only the tag weights are read from the rows.
DisturbsRows(hist) ==
  [scroll EXCEPT !.quiet = @ /\ (\/ scroll.ask.sent /\ scroll.modes \cap {"personalized", "rule-only"} = {}
                                 \/ RowsUntil(hist, Second(scroll.began)) = RowsUntil(rows, Second(scroll.began)))]

\* The user orders, keeps or reviews a book; every row has a time of its own.
AddToHistory(h) ==
  /\ Change /\ now < MaxTime /\ now' = now + 1
  /\ past' = past \cup {Row(h, now + 1)}
  /\ scroll' = DisturbsOwned(past')
  /\ UNCHANGED <<rows, profile, saved, index>>

\* An order is paid or cancelled, a review deleted, a book taken out of the library. The time
\* of the row stays.
ChangeStatus(r) ==
  /\ Meanwhile /\ (r.counts \/ r.kind = "purchase")
  /\ past' = (past \ {r}) \cup {[r EXCEPT !.counts = ~@]}
  /\ scroll' = DisturbsOwned(past')
  /\ UNCHANGED <<now, rows, profile, saved, index>>

SameRow(x, r) == [x EXCEPT !.counts = r.counts] = r

\* A row is replicated, or its new status is: in any order, and however late (data-erd 2 allows
\* five minutes). Its time may be earlier than the first page.
Replicate(r) ==
  /\ scroll.ask # None /\ scroll.pc # "ended" /\ r \notin rows
  /\ rows' = {x \in rows : ~SameRow(x, r)} \cup {r}
  /\ scroll' = DisturbsRows(rows')
  /\ UNCHANGED <<now, past, profile, saved, index, left>>

\* A profile request of the same user (6).
NewProfile(p) ==
  /\ Meanwhile /\ profile # p
  /\ profile' = p
  /\ scroll' = Disturbs({"cold-start", "personalized", "rule-only"}, HasVector(p) # Personal)
  /\ UNCHANGED <<now, past, rows, saved, index>>

\* The saved list is built again (6 or 9).
NewList(l) ==
  /\ Meanwhile
  /\ saved' = IF saved = None THEN [books |-> l, version |-> 1, prev |-> None]
              ELSE [books |-> l, version |-> saved.version + 1, prev |-> saved.books]
  /\ scroll' = IF saved = None THEN scroll ELSE DisturbsSaved
  /\ UNCHANGED <<now, past, rows, profile, index>>

\* Vectors that answer, of a catalogue that has some.
Answering(i) == i.up /\ Embedded(Books, i) # {}

\* The vectors fail, come back or are filled again.
NewIndex(i) ==
  /\ Meanwhile /\ index # i
  /\ index' = i
  /\ scroll' = Disturbs({"personalized", "rule-only"}, Answering(i) # Answering(index))
  /\ UNCHANGED <<now, past, rows, profile, saved>>

Tick ==
  /\ scroll.pc # "ended"
  /\ now < MaxTime /\ now' = now + 1
  /\ UNCHANGED <<past, rows, profile, saved, index, scroll, left>>

Reads == Answer \/ \E a \in Asks, size \in Sizes : Open(a, size)

FeedNext ==
  \/ Reads \/ Fail \/ Tick
  \/ \E h \in Happenings : AddToHistory(h)
  \/ \E r \in past : ChangeStatus(r) \/ Replicate(r)
  \/ \E p \in Profiles : NewProfile(p)
  \/ \E l \in SavedLists : NewList(l)
  \/ \E i \in Indexes : NewIndex(i)

FeedSpec == FeedInit /\ [][FeedNext]_feedVars

-----------------------------------------------------------------------------
(* Properties.                                                             *)

Joined ==
  scroll.last.status = 200 =>
    /\ IsPrefix(scroll.shown, scroll.promised)
    /\ scroll.last.next = None => scroll.shown = scroll.promised

\* The pages of an undisturbed scroll join without a gap and without a repetition, with any
\* page sizes and after failed pages, and together they are the whole list of the first
\* page: a book bought while scrolling takes nothing away, whenever it is replicated
\* (cursor.py:9-10, service.py:87-91). What was bought before and is replicated, paid or
\* cancelled only in between does, and disturbs.
FeedPagesJoin == scroll.quiet /\ ~scroll.split => Joined

\* The same without looking at the second: "history after this time is not excluded,
\* otherwise the list shifts while paging" (cursor.py:9-10). It does not hold: the cursor
\* carries whole seconds, so what was bought earlier in that second is back on page two.
JoinedInAnySecond == scroll.quiet => Joined

\* A scroll is cut off (410) only if the client waited too long or changed the request, or
\* if its mode is no longer to be had: the user has got or lost a taste vector, or the vectors
\* have failed or come back. An outage that goes on, a list built again, a row that comes late
\* or a taste that moves cuts nobody off (service.py:145-147).
FeedNotCutOff == scroll.last.status = 410 => scroll.excused \/ ~scroll.steady

\* Whichever list a page comes from, it shows nothing the request filters out and no book that,
\* when the page was made, the replica had as bought, kept or disliked before the first page;
\* where the backend sends the books along, none of those, whatever the replica has. So a late
\* row is heeded from the next page on (exclusion.py, interest_page.py:131).
ShownFits ==
  [][scroll.pc = "reading" /\ scroll'.pc # "reading" =>
       \A i \in DOMAIN scroll'.last.items :
         LET e == scroll'.last.items[i]  b == TheBook(e.book) IN
         /\ Passes(scroll.ask.filter, b) /\ e.score >= scroll.ask.min
         /\ IF scroll.ask.sent THEN b.id \notin scroll.owned
            ELSE ~\E r \in rows : /\ r.book = b.id /\ r.counts /\ r.at <= Second(scroll'.began)
                                  /\ r.kind = "review" => r.rating <= 4]_feedVars
=============================================================================
