------------------------------ MODULE MCPages ------------------------------
(* Instances for TLC of the reading of the feed and of the search: a run is   *)
(* one or the other.                                                          *)
EXTENDS FeedPages, SearchPages, TLC

Book(id, category, year, sales, similar, price) ==
  [id |-> id, isbn |-> id, category |-> category, year |-> year, title |-> id, author |-> 1,
   sales |-> sales, similar |-> similar, embedded |-> similar > 0,
   products |-> IF price = 0 THEN {} ELSE {[stock |-> 1, price |-> price]}]

\* One best seller, one without a vector, one without a year and a price, two classes.
Books4 == {Book(1, "kr", 2020, 9, 86, 300), Book(2, "kr", 2021, 0, 95, 200),
           Book(3, "econ", 0, 0, 94, 0), Book(4, "econ", 2021, 3, 0, 100)}

Core2 == [x \in {"novel", "money"} |-> IF x = "novel" THEN {"kr"} ELSE {"econ"}]
Partial2 == [x \in {"novel", "money"} |-> {}]
TagClass0 == [x \in {} |-> {}]

NoFilter == [category |-> "", from |-> NoNumber, to |-> NoNumber, low |-> NoNumber, high |-> NoNumber]
Ask(surface, sort, filter, min, sent) ==
  [surface |-> surface, sort |-> sort, filter |-> filter, min |-> min, sent |-> sent]
Asks4 == {Ask("home", "match", NoFilter, NoNumber, FALSE), Ask("home", "match", NoFilter, NoNumber, TRUE),
          Ask("more", "newest", [NoFilter EXCEPT !.from = 2020], 0, FALSE),
          Ask("more", "price_asc", [NoFilter EXCEPT !.category = "money"], 20, FALSE)}
Happening(book, kind, rating, counts) ==
  [book |-> book, kind |-> kind, rating |-> rating, counts |-> counts]
Happenings3 == {Happening(3, "purchase", 0, TRUE), Happening(2, "review", 2, TRUE),
                Happening(1, "purchase", 0, FALSE)}
SavedLists2 == {<<Item(TheBook(3), 60), Item(TheBook(1), 50), Item(TheBook(2), 50)>>,
                <<Item(TheBook(4), 70), Item(TheBook(2), 40)>>}
Profiles3 == {None, [vector |-> FALSE, weights |-> TagScores({}, 2), version |-> 1, reflected |-> 0],
              [vector |-> TRUE, weights |-> CatalogScores({"money"}, 2, 1), version |-> 1, reflected |-> 0]}
Indexes3 == {[up |-> TRUE, filled |-> TRUE, reach |-> {2, 3}, estimate |-> 5],
             [up |-> TRUE, filled |-> FALSE, reach |-> {}, estimate |-> 5],
             [up |-> FALSE, filled |-> TRUE, reach |-> {1, 2}, estimate |-> 1]}


-----------------------------------------------------------------------------
(* Search. "kr": both words common, the title of 4; "q": no word at all.   *)

Fits(title, author, desc, whole, same) ==
  [title |-> title, author |-> author, desc |-> desc, whole |-> whole, same |-> same]
Fit3 ==
  [q \in {"two", "one", "none"} |->
    [id \in 1 .. 4 |->
      CASE q = "none" -> Fits(<<>>, <<>>, <<>>, 0, FALSE)
        [] q = "one" -> Fits(<<(<<10, 7, 10, 6>>)[id]>>, <<0>>, <<id = 3>>, 11 - 2 * id, id = 3)
        [] q = "two" ->
             IF id = 4 THEN Fits(<<10, 10>>, <<0, 0>>, <<FALSE, FALSE>>, 10, TRUE)
             ELSE Fits((<<<<10, 0>>, <<10, 2>>, <<6, 6>>>>)[id], <<0, 7>>, <<FALSE, id = 1>>, 3, FALSE)]]
Closeness3 == [q \in {"two", "one", "none"} |->
  IF q = "two" THEN <<95, 80, 90, 0>> ELSE <<80, 90, 85, 0>>]
Scan4 == <<1, 2, 3, 4>>

Searching(query, filter, sort) == [query |-> query, filter |-> filter, sort |-> sort]
Searches6 == {Searching("two", NoFilter, "relevance"), Searching("one", NoFilter, "relevance"),
              Searching("none", NoFilter, "newest"), Searching("two", NoFilter, "price_desc"),
              Searching("one", [NoFilter EXCEPT !.category = "money"], "popular"),
              Searching("two", [NoFilter EXCEPT !.high = 250], "price_asc"),
              Searching("blank", NoFilter, "newest")}

SearchIdle == /\ clock = 0 /\ listed = {} /\ vectors = CHOOSE v \in VectorStates : v.up
              /\ quest = NewQuest /\ troubles = 0
FeedIdle == /\ now = 0 /\ past = {} /\ rows = {} /\ profile = None /\ saved = None /\ left = 0
            /\ index = (CHOOSE i \in Indexes : i.up) /\ scroll = NewScroll

vars == <<feedVars, searchVars>>

\* Without taste the vectors are not looked at: one state of theirs is enough. The second of
\* the saved lists only comes by a rebuild. At first one row at most is not replicated yet.
Init == \/ /\ FeedInit /\ (~Personal => index.up /\ index.filled) /\ SearchIdle
           /\ saved = None \/ Len(saved.books) = 3
           /\ Cardinality(past \ rows) <= 1
        \/ SearchInit /\ FeedIdle
Next == \/ listed = {} /\ FeedNext /\ UNCHANGED searchVars
        \/ listed # {} /\ SearchNext /\ UNCHANGED feedVars
Spec == Init /\ [][Next]_vars
=============================================================================
