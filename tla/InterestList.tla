---------------------------- MODULE InterestList ----------------------------
(***************************************************************************)
(* How the saved home list of a user is made: app/feed/interest_list.py    *)
(* (seats, taking turns, the limit of an author), interest_picks.py (the   *)
(* books of an interest), interest_fetch.py (one budget of time for all of *)
(* them), interest_feed.py (what is kept) and interest_scoring.py.         *)
(* When a list is made, and which one is saved, is the subject of          *)
(* HomeFeed.                                                               *)
(***************************************************************************)
EXTENDS Interests

CONSTANTS
  Lines,          \* what a user may say
  Onboardings,    \* what may be picked: [categories, tags, isbns, ids]
  Events,         \* what may happen to a book: rows of the history
  Indexes,        \* the index of the vectors: [reach, estimate]
  KeywordAt,      \* where the vector of a keyword is
  Total, MaxInterests,             \* TOTAL_SEATS, MAX_INTERESTS
  AuthorBlock, AuthorPerBlock,     \* AUTHOR_BLOCK, AUTHOR_PER_BLOCK
  PickFactor, PickMin, PickMax,    \* of interest_feed.py
  ReadFactor,                      \* AUTHOR_READ_FACTOR
  ExactLimit, FallbackLimit,       \* of personalized.py
  MaxLines, MaxRows                \* bounds: lines of the memory, rows of the history

ASSUME InterestListAssumption ==
  /\ Total \in Nat \ {0} /\ MaxInterests \in Nat \ {0}
  /\ AuthorBlock \in Nat \ {0} /\ AuthorPerBlock \in 1 .. AuthorBlock
  /\ PickMin \in Nat \ {0} /\ PickMax \in Nat /\ PickMin <= PickMax /\ PickFactor \in Nat /\ ReadFactor \in Nat \ {0}
  /\ ExactLimit <= FallbackLimit /\ MaxLines \in Nat /\ MaxRows \in Nat

\* What the backend sends: the strength and the time of a line are numbers, names are lists,
\* and a keyword that stands for a line has a vector.
ASSUME RequestsAssumption ==
  /\ \A line \in Lines :
       /\ line.strength \in Int /\ line.at \in Int /\ line.names \in Seq(ToSet(line.names))
       /\ line.type = "topic" /\ ~line.title /\ ToSet(line.names) \cap DOMAIN NameAt = {} =>
            line.keyword \in DOMAIN KeywordAt
  /\ \A word \in DOMAIN KeywordAt : KeywordAt[word] \in Int
  /\ \A o \in Onboardings : /\ o.categories \in Seq(ToSet(o.categories))
                            /\ o.tags \in Seq(ToSet(o.tags))

VARIABLES
  told,       \* the lines of the memory, as the backend sends them
  onboarding, \* what the user picked
  history,    \* the rows of the history
  index,      \* the index of the vectors
  vectors,    \* which vectors of names are there: "none", "labels", "names"
  build       \* the list that is made

listVars == <<told, onboarding, history, index, vectors, build>>

Named == vectors = "names"

-----------------------------------------------------------------------------
(* Seats.                                                                  *)

\* allocate: by the points of the greatest, what is left over by the largest remainder.
Allocate(scores) ==
  LET named == Only(scores, {p \in ToSet(scores) : p[2] > 0 /\ p[1][1] # "mood"})
      eligible == Take(StableSort(named, LAMBDA p : <<-p[2]>>), MaxInterests)
      whole == SumOf([i \in DOMAIN eligible |-> eligible[i][2]])
      floor(i) == (eligible[i][2] * Total) \div whole
      left == Total - SumOf([i \in DOMAIN eligible |-> floor(i)])
      rest(i) == (eligible[i][2] * Total) % whole
      first(i) == Cardinality({j \in DOMAIN eligible :
                    rest(j) > rest(i) \/ (rest(j) = rest(i) /\ j < i)}) < left
      all == [i \in DOMAIN eligible |->
                [name |-> eligible[i][1], count |-> floor(i) + IF first(i) THEN 1 ELSE 0]]
  IN Only(all, {s \in ToSet(all) : s.count > 0})

Seated(seats) == {seats[i].name : i \in DOMAIN seats}
Count(seats, x) == (CHOOSE s \in ToSet(seats) : s.name = x).count

\* Mutant: nobody takes the seats that others cannot fill.
OwnSeatsOnly(seats, placed, ready) ==
  {i \in DOMAIN seats : seats[i].name \in ready /\ placed[seats[i].name] < seats[i].count}

\* Those that may come next: with a book, and with a seat unless nobody else has both.
MayCome(seats, placed, ready) ==
  LET all == {i \in DOMAIN seats : seats[i].name \in ready}
      short == {i \in all : placed[seats[i].name] < seats[i].count}
  IN IF short = {} THEN all ELSE short

Left(list, used) == {k \in DOMAIN list : list[k] \notin used}
FirstLeft(list, used) == list[Min(Left(list, used))]

\* interleave: the turn of whoever has the smallest part of its seats; a book once.
NextTurn(lists, seats, out) ==
  LET used == {out[k].key : k \in DOMAIN out}
      placed == [x \in Seated(seats) |-> Cardinality({k \in DOMAIN out : out[k].name = x})]
      turn == MayCome(seats, placed, {x \in Seated(seats) : Left(lists[x], used) # {}})
      behind(i, j) == placed[seats[i].name] * seats[j].count <= placed[seats[j].name] * seats[i].count
      next == CHOOSE i \in turn : \A j \in turn : behind(i, j) /\ (behind(j, i) => i <= j)
      x == seats[next].name
  IN IF turn = {} THEN out ELSE Append(out, [name |-> x, key |-> FirstLeft(lists[x], used)])

TakeTurns(lists, seats) ==
  LET out[n \in 0 .. Total] == IF n = 0 THEN <<>> ELSE NextTurn(lists, seats, out[n - 1])
  IN out[Total]

\* Mutant: one more than the limit.
FullLate(authors, a) == a # 0 /\ Cardinality({k \in DOMAIN authors : authors[k] = a}) > AuthorPerBlock

\* An unknown author is not counted.
Full(authors, a) == a # 0 /\ Cardinality({k \in DOMAIN authors : authors[k] = a}) >= AuthorPerBlock

\* cap_authors: a block, and what is too much for it or comes after it.
PlaceOrPutOff(s, x) ==
  IF Len(s.placed) = AuthorBlock \/ Full([k \in DOMAIN s.placed |-> s.placed[k].author], x.author)
  THEN [s EXCEPT !.pending = Append(@, x)] ELSE [s EXCEPT !.placed = Append(@, x)]

Block(items) ==
  LET s[n \in 0 .. Len(items)] == IF n = 0 THEN [placed |-> <<>>, pending |-> <<>>]
                                  ELSE PlaceOrPutOff(s[n - 1], items[n])
  IN s[Len(items)]

\* What is put off goes to the front of the next block.
NextBlock(s) ==
  LET b == Block(s.pending) IN [placed |-> s.placed \o b.placed, pending |-> b.pending]

CapAuthors(items) ==
  LET s[n \in 0 .. Len(items)] ==
        IF n = 0 THEN [placed |-> <<>>, pending |-> items] ELSE NextBlock(s[n - 1])
  IN s[Len(items)].placed

-----------------------------------------------------------------------------
(* The books of an interest. A query is [sum, weight]: a mean of places.   *)

NoQuery == [sum |-> 0, weight |-> 0]
AtPlace(n) == [sum |-> n, weight |-> 1]
Distance(q, b) == Apart(b.at * q.weight, q.sum)

\* classes_of; empty where nothing narrows it.
ClassesOf(name) ==
  IF name \in DOMAIN TagClass THEN TagClass[name]
  ELSE LET category == IF name \in DOMAIN Core THEN name
                       ELSE IF name \in DOMAIN Parent THEN Parent[name] ELSE ""
       IN IF category \in DOMAIN Core THEN Core[category] ELSE {}

WithVector(S) == {b \in S : b.embedded}
InClasses(classes) == {b \in Stock : classes = {} \/ b.category \in classes}
Closest(q, S, limit) == Take(Ordered(WithVector(S), LAMBDA b : <<Distance(q, b), b.id>>), limit)
ByIndex(q, S, limit) == Closest(q, {b \in S : b.id \in index.reach}, limit)

\* pick: exactly where the classes are small, else by the index, and exactly after all.
Nearest(job) ==
  LET classes == ClassesOf(job.name[2])
      found == ByIndex(job.query, InClasses(classes), job.limit)
      exactly == classes # {} /\ (index.estimate <= ExactLimit
                                  \/ (Len(found) < job.limit /\ index.estimate <= FallbackLimit))
  IN IF exactly THEN Closest(job.query, InClasses(classes), job.limit) ELSE found

\* numbered_first.
NumberedFirst(name, books) ==
  StableSort(books, LAMBDA b : <<IF ClassInterest(b.number) = name THEN 0 ELSE 1>>)

HasAuthor(b, name) == name \in b.names

\* pick_author: the newest first, one of each title.
OfAuthor(job) ==
  LET newest == Take(Ordered({b \in Stock : HasAuthor(b, job.name[2])}, LAMBDA b : <<-b.year, b.id>>),
                     job.limit * ReadFactor)
      first == {i \in DOMAIN newest : \A j \in 1 .. i - 1 : newest[j].title # newest[i].title}
  IN Take(Ordered({newest[i] : i \in first}, LAMBDA b : <<-b.year, b.id>>), job.limit)

\* pick_keyword: those that say the word first; where they are too few, with those that
\* have it in the title, if there is time for that.
OfKeyword(job, titles) ==
  LET near == ByIndex(job.query, Stock, job.limit)
      mentions(b) == job.name[2] \in b.says \cup b.titled
      titled == {b \in Stock : job.name[2] \in b.titled}
      words == {b \in ToSet(near) : mentions(b)}
               \cup (IF titles THEN ToSet(Closest(job.query, titled, job.limit)) ELSE {})
  IN Take(Ordered(words, LAMBDA b : <<Distance(job.query, b), b.id>>)
          \o Only(near, {b \in ToSet(near) : ~mentions(b)}), job.limit)

\* Is there a second query to make?
TooFew(job) ==
  Cardinality({b \in ToSet(ByIndex(job.query, Stock, job.limit)) :
                 job.name[2] \in b.says \cup b.titled}) < job.limit

\* pick_popular; nothing where no class narrows the interest.
Popular(job) ==
  LET classes == IF job.name[1] = "named" THEN ClassesOf(job.name[2]) ELSE {}
  IN IF classes = {} THEN <<>>
     ELSE Take(Ordered(InClasses(classes), LAMBDA b : <<-b.sales, -b.year, b.id>>), job.limit)

-----------------------------------------------------------------------------
(* The match score: 60 for the likeness, 25 for the seats.                 *)

\* _spread, in eighths: a span of eight hundredths from its floor.
Spread(likeness, floor) == Clamp(likeness - floor, 8)

\* similarity_part over _similarity: the most alike of the user's own books there, or the query.
Part(job, b) ==
  CASE job.name[1] = "author" /\ HasAuthor(b, job.name[2]) -> 8
    [] ~b.embedded \/ job.query = NoQuery -> 0
    [] job.byName -> Spread(100 - Distance(job.query, b), 80)
    [] OTHER -> Spread(100 - Min({Apart(b.at, o.at) : o \in job.anchors}), 82)

\* share_parts and match_score.
PlaceScore(part, count, most) == Rounded(60 * part * most + 200 * count, 8 * most)

-----------------------------------------------------------------------------
(* What is kept, and the list.                                             *)

\* parse_condition: pages, won or a year.
FieldOf(b, c) ==
  CASE c.unit = "pages" -> b.pages
    [] c.unit = "won" -> IF Price(b) = NoPrice THEN 0 ELSE Price(b)
    [] OTHER -> b.year

\* met_by, meets_all: an unknown value meets nothing.
Meets(b, conditions) ==
  LET known == {c \in ToSet(conditions) : c.unit \in {"pages", "won", "year"}}
  IN known # {} /\ \A c \in known :
       FieldOf(b, c) # 0 /\ (IF c.bound \in {"atMost", "before"} THEN FieldOf(b, c) <= c.n
                             ELSE FieldOf(b, c) >= c.n)

\* _owned_editions, _keeper.
Keeps(b, owned, negatives) ==
  LET parent(x) == IF x[1] = "named" /\ x[2] \in DOMAIN Parent THEN <<"named", Parent[x[2]]>> ELSE None
      interest == BookInterest(b, Named)
  IN /\ b.id \notin owned /\ ~\E o \in owned : SameEdition(BookOf(o), b)
     /\ \A x \in negatives :
          /\ x[1] = "named" /\ x[2] \in DOMAIN Core => b.category \notin Core[x[2]]
          /\ x[1] = "author" => ~HasAuthor(b, x[2])
     /\ interest \notin negatives /\ parent(interest) \notin negatives

\* _edition.
KeyOf(b) == IF b.title # 0 /\ b.author # 0 THEN <<b.title, b.author>> ELSE <<b.id, 0>>

\* Mutant: no book comes earlier for meeting the conditions, none is left out.
AllPicked(owned, negatives, books) == books

KeptOf(owned, negatives, books) ==
  Only(books, {b \in ToSet(books) : Keeps(b, owned, negatives)})

\* The first edition that was picked.
Chosen(books, key) == books[Min({i \in DOMAIN books : KeyOf(books[i]) = key})]

KeysOf(books) == [i \in DOMAIN books |-> KeyOf(books[i])]

\* The books of an interest, each once, those that meet the conditions first.
SortedKeys(books, conditions) ==
  StableSort(Firsts(KeysOf(books)),
             LAMBDA key : <<IF Meets(Chosen(books, key), conditions) THEN 0 ELSE 1>>)

\* assemble. What was picked for an interest is a sequence of books.
Assemble(b) ==
  LET kept == [x \in DOMAIN b.picks |-> KeptOf(b.owned, b.negatives, b.picks[x])]
      turns == TakeTurns([x \in DOMAIN kept |-> SortedKeys(kept[x], b.conditions)], b.seats)
      placed == CapAuthors([i \in DOMAIN turns |->
        [name |-> turns[i].name, key |-> turns[i].key,
         author |-> Chosen(kept[turns[i].name], turns[i].key).author]])
      job(x) == CHOOSE j \in b.asked : j.name = x
      best(key) == Max({Part(job(p[1]), p[2]) : p \in
                     UNION {{x} \X {o \in ToSet(kept[x]) : KeyOf(o) = key} : x \in DOMAIN kept}})
      most == Max({b.seats[i].count : i \in DOMAIN b.seats})
  IN [i \in DOMAIN placed |->
        [book |-> Chosen(kept[placed[i].name], placed[i].key).id, interest |-> placed[i].name,
         score |-> PlaceScore(best(placed[i].key), Count(b.seats, placed[i].name), most)]]

-----------------------------------------------------------------------------
\* pc, the seats, the jobs to do and those begun, what was picked, the interests that others
\* stand in for, whether the time is up, what was kept of the words and the history, the list and
\* the taste; history: missed, those that ran out of time.
NoBuild == [pc |-> "open", seats |-> <<>>, todo |-> <<>>, asked |-> {}, picks |-> [x \in {} |-> <<>>],
            substituted |-> {}, late |-> FALSE, missed |-> {}, owned |-> {}, negatives |-> {},
            conditions |-> <<>>, list |-> <<>>, taste |-> [likes |-> {}, tags |-> <<>>, cold |-> TRUE]]

ListInit ==
  /\ told = <<>> /\ history = {} /\ onboarding \in Onboardings
  /\ index \in Indexes /\ vectors \in {"none", "labels", "names"}
  /\ build = NoBuild

Open == build.pc = "open"

Say(line) ==
  /\ Open /\ Len(told) < MaxLines /\ line \notin ToSet(told) /\ told' = Append(told, line)
  /\ UNCHANGED <<onboarding, history, index, vectors, build>>

Happens(row) ==
  /\ Open /\ row \notin history /\ Cardinality(history) < MaxRows /\ history' = history \cup {row}
  /\ UNCHANGED <<told, onboarding, index, vectors, build>>

\* Mutant: the order is the other way round.
SmallestFirst(seats) == StableSort(seats, LAMBDA s : <<s.count>>)

\* jobs: the interest with the most seats first.
LargestFirst(seats) == StableSort(seats, LAMBDA s : <<-s.count>>)

Job(s, mine, weights, seen) ==
  LET x == s.name
      job(query, byName, anchors) ==
        [name |-> x, limit |-> Min({Max({s.count * PickFactor, PickMin}), PickMax}),
         query |-> query, byName |-> byName, anchors |-> anchors]
      own == Anchors(mine, seen, Named, x)
  IN IF x[1] = "author" THEN job(NoQuery, FALSE, {})
     ELSE IF x[1] = "keyword" THEN job(AtPlace(KeywordAt[x[2]]), TRUE, {})
     ELSE IF own # {} THEN job(BookMean(mine, weights, Named, x), FALSE, own)
     ELSE job(IF Named THEN AtPlace(NameAt[x[2]]) ELSE NoQuery, TRUE, {})

\* _rebuild_on, _feed_job and the first lines of _build.
Start ==
  LET liked == LikedOf(onboarding.isbns, onboarding.ids)
      weights == BookWeights(liked, history)
      mine == MyBooks(weights, Named)
      lines == Used(told)
      seen == [b \in {o.id : o \in Stock} |-> Min({NoPrice} \cup {r.at : r \in {h \in history : h.book = b}})]
      scores == Combined(OnboardingScores(onboarding.categories, onboarding.tags),
                         MemoryScores(lines), BookScores(mine, weights, Named))
      seats == Allocate(scores)
      jobs == LargestFirst(seats)
  IN
  /\ Open
  /\ build' = [NoBuild EXCEPT !.pc = "fetching", !.seats = seats,
       !.todo = [i \in DOMAIN jobs |-> Job(jobs[i], mine, weights, seen)],
       !.owned = Reviewed(history),
       !.negatives = {p[1] : p \in {q \in ToSet(scores) : q[2] < 0}},
       !.conditions = ConditionsOf(lines),
       !.taste = [likes |-> ToSet(LivingLikes(lines)),
                  tags |-> TagWeights(onboarding.tags, onboarding.categories, history),
                  cold |-> ColdStart(lines, weights, ToSet(onboarding.categories \o onboarding.tags),
                                     vectors # "none")]]
  /\ UNCHANGED <<told, onboarding, history, index, vectors>>

Fetched(books, substituted, late, missed) ==
  LET job == build.todo[1] IN
  build' = [build EXCEPT !.todo = Tail(@), !.asked = @ \cup {job},
    !.picks = [x \in DOMAIN @ \cup {job.name} |-> IF x = job.name THEN books ELSE @[x]],
    !.substituted = @ \cup substituted, !.late = late, !.missed = @ \cup missed]

Fetching == build.pc = "fetching" /\ build.todo # <<>>

\* _substitute, which has a short time of its own.
Substituted(job) == {Popular(job), <<>>}

\* _pick in time; a keyword may use up the time with its second query and still be answered.
FetchInTime ==
  /\ Fetching /\ ~build.late
  /\ LET job == build.todo[1] IN
       \/ job.name[1] = "author" /\ Fetched(OfAuthor(job), {}, FALSE, {})
       \/ job.name[1] = "keyword" /\ \E titles \in BOOLEAN :
            IF TooFew(job) THEN Fetched(OfKeyword(job, titles), {}, ~titles, {})
            ELSE Fetched(OfKeyword(job, FALSE), {}, FALSE, {})
       \/ job.name[1] = "named" /\ job.query # NoQuery
          /\ Fetched(NumberedFirst(job.name, Nearest(job)), {}, FALSE, {})
  /\ UNCHANGED <<told, onboarding, history, index, vectors>>

\* The time is up, or there is nothing to look for.
FetchOthers ==
  /\ Fetching
  /\ LET job == build.todo[1]
         nothing == job.name[1] = "named" /\ job.query = NoQuery IN
       \E books \in Substituted(job) :
         Fetched(books, {job.name}, build.late \/ ~nothing, IF nothing THEN {} ELSE {job.name})
  /\ UNCHANGED <<told, onboarding, history, index, vectors>>

\* The rest of _build, and Feed.stored.
Finish ==
  /\ build.pc = "fetching" /\ build.todo = <<>>
  /\ build' = [build EXCEPT !.pc = "done", !.list = Assemble(build)]
  /\ UNCHANGED <<told, onboarding, history, index, vectors>>

ListNext ==
  \/ \E line \in Lines : Say(line)
  \/ \E row \in Events : Happens(row)
  \/ Start \/ FetchInTime \/ FetchOthers \/ Finish

ListSpec == ListInit /\ [][ListNext]_listVars

-----------------------------------------------------------------------------
(* Properties.                                                             *)

Done == build.pc = "done"

\* The last that was said of an interest, requests for once aside, is that it is disliked.
LastAvoided(x) ==
  LET lines == Used(told)
      about == {i \in DOMAIN lines : About(lines[i], x) /\ lines[i].strength # RequestToAvoid}
  IN about # {} /\ lines[Max(about)].strength < 0

SpokenOf == UNION {ToSet(InterestsOf(line)) : line \in ToSet(told)}

\* What the user does not want stays away, whatever was picked, bought or said before
\* (interests.py:298-300, interest_feed.py:227-231): no book that the user has, in any edition,
\* no book twice, no place for an interest whose last word is a dislike, and no book of the
\* author, the category or the sub category that it names, whichever interest found it; nor
\* does a line about it pull the taste its way (interests.py:112-116).
NothingUnwanted ==
  Done =>
    LET avoided == {x \in SpokenOf : LastAvoided(x)} IN
    /\ \A i \in DOMAIN build.list :
         LET b == BookOf(build.list[i].book)  own == BookInterest(b, Named) IN
         /\ \A r \in history : r.book # b.id /\ ~SameEdition(BookOf(r.book), b)
         /\ \A j \in DOMAIN build.list \ {i} :
              build.list[j].book # b.id /\ ~SameEdition(BookOf(build.list[j].book), b)
         /\ \A x \in avoided :
              /\ build.list[i].interest # x
              /\ x[1] = "author" => x[2] \notin b.names
              /\ x[1] = "named" /\ x[2] \in DOMAIN Core => b.category \notin Core[x[2]]
              /\ own # x /\ (own[2] \in DOMAIN Parent => <<"named", Parent[own[2]]>> # x)
    /\ \A line \in build.taste.likes, x \in avoided :
         About(line, x) => \E l \in ToSet(told) : About(l, x) /\ l.strength < 0 /\ l.at = line.at

OnList(b) == \E i \in DOMAIN build.list : KeyOf(BookOf(build.list[i].book)) = KeyOf(b)

\* The seats are all given away, an interest stays below its own only when every book that
\* was kept for it is on the list, and the list is short only when every book that was kept
\* for anyone is on it (interest_list.py:102-104: who has filled its seats waits for the
\* others, and takes what they cannot fill).
SeatsShared ==
  Done =>
    LET mine(x) == Cardinality({i \in DOMAIN build.list : build.list[i].interest = x})
        all(x) == \A b \in ToSet(KeptOf(build.owned, build.negatives, build.picks[x])) : OnList(b)
        seats == build.seats IN
    /\ seats # <<>> => SumOf([i \in DOMAIN seats |-> seats[i].count]) = Total
    /\ \A i \in DOMAIN seats : mine(seats[i].name) < seats[i].count => all(seats[i].name)
    /\ Len(build.list) < Total => \A x \in Seated(seats) : all(x)

\* On the first page (a block is what the home shows) an author has more than the limit only
\* from a place on after which nobody else is left: interest_list.py:141-144, where what is put
\* off comes back only in a block of its own.
AuthorsSpread ==
  LET author(i) == BookOf(build.list[i].book).author
      before(i, a) == Cardinality({j \in 1 .. i - 1 : author(j) = a}) IN
  \A i \in DOMAIN build.list :
    (i <= AuthorBlock /\ author(i) # 0 /\ before(i, author(i)) >= AuthorPerBlock) =>
      \A k \in i .. Len(build.list) : author(k) # 0 /\ before(i, author(k)) >= AuthorPerBlock

\* The time is spent on what matters most: an interest that ran out of it has no more seats
\* than any that was looked up, and all that did not get books of their own are marked, for
\* the nightly rebuild (interest_fetch.py:3-6, interest_feed.py:53).
LatecomersSmall ==
  Done =>
    LET own == Seated(build.seats) \ build.substituted IN
    /\ build.missed \subseteq build.substituted
    /\ \A late \in build.missed, x \in own : Count(build.seats, late) <= Count(build.seats, x)
    /\ \A x \in own : \A b \in ToSet(build.picks[x]) : x[1] = "author" => HasAuthor(b, x[2])
=============================================================================
