------------------------------ MODULE MCLists ------------------------------
(* An instance for TLC of the making of the home list.                        *)
EXTENDS InterestList, TLC

Volume(id, category, number, title, author, at, year, sales, words) ==
  [id |-> id, isbn |-> id, category |-> category, number |-> number, title |-> title,
   author |-> author, at |-> at, embedded |-> at > 0, year |-> year, sales |-> sales,
   names |-> IF author = 1 THEN {"han"} ELSE {}, says |-> words,
   titled |-> IF id = 8 THEN words ELSE {}, pages |-> 100 * id,
   products |-> IF id = 4 THEN {} ELSE {[stock |-> 1, price |-> 10 * id]}]

\* Two editions of one title (1 and 2), a detective story with a number of its own (3), one
\* without a vector (4), a book of an author who also writes novels (5), one no class knows (7).
Stock8 ==
  {Volume(1, "fic", <<8, 1, 3>>, 1, 1, 90, 2020, 5, {}), Volume(2, "fic", <<8, 1, 3>>, 1, 1, 88, 2021, 1, {}),
   Volume(3, "fic", <<8, 4, 3>>, 3, 1, 95, 2019, 3, {"cat"}), Volume(4, "life", <<>>, 4, 1, 0, 2022, 9, {}),
   Volume(5, "life", <<5, 9, 4>>, 5, 1, 30, 0, 2, {"cat"}), Volume(6, "life", <<>>, 6, 2, 34, 2018, 0, {}),
   Volume(7, "other", <<>>, 0, 0, 60, 2018, 0, {}), Volume(8, "fic", <<>>, 8, 3, 84, 2017, 7, {"cat"})}

Core2 == [x \in {"novel", "living"} |-> IF x = "novel" THEN {"fic"} ELSE {"life"}]
Partial2 == [x \in {"novel", "living"} |-> {}]
TagClass1 == [x \in {"cooking"} |-> {"life"}]
Parent3 == [x \in {"mystery", "cooking", "medicine"} |->
              CASE x = "mystery" -> "novel" [] x = "cooking" -> "living" [] OTHER -> ""]
Sub3 == <<"mystery", "cooking", "medicine">>
ClassTable2 == [x \in {<<8, 4, 3>>, <<5, 9>>} |-> IF x = <<8, 4, 3>> THEN "mystery" ELSE "cooking"]
NameAt6 == [x \in {"novel", "living", "kids", "mystery", "cooking", "medicine"} |->
              CASE x = "novel" -> 88 [] x = "living" -> 33 [] x = "kids" -> 70
                [] x = "mystery" -> 94 [] x = "cooking" -> 30 [] OTHER -> 60]
KeywordAt1 == [x \in {"cat"} |-> 80]

NoBound == [unit |-> "none", bound |-> "none", n |-> 0]
Line(type, strength, names, keyword, at) ==
  [type |-> type, strength |-> strength, names |-> names, keyword |-> keyword, title |-> FALSE,
   bound |-> NoBound, at |-> at]
\* The two about cooking are of one time: what was received last counts.
Lines8 ==
  {Line("topic", -2, <<"novel">>, "story", 2), Line("topic", 2, <<"mystery", "cooking">>, "meal", 2),
   Line("topic", -2, <<"cooking">>, "meal", 2), Line("author", 3, <<>>, "han", 1),
   Line("author", -2, <<>>, "han", 2), Line("topic", 2, <<>>, "cat", 3),
   Line("topic", -1, <<"mystery">>, "meal", 3),
   [Line("condition", 2, <<>>, "short", 1) EXCEPT !.bound = [unit |-> "pages", bound |-> "atMost", n |-> 300]]}

Picked(categories, tags, isbns, ids) ==
  [categories |-> categories, tags |-> tags, isbns |-> isbns, ids |-> ids]
Onboardings3 ==
  {Picked(<<>>, <<>>, <<>>, <<>>), Picked(<<"novel", "living">>, <<"cooking">>, <<>>, <<>>),
   Picked(<<"living", "kids">>, <<"medicine", "gone">>, <<5, 9>>, <<8>>)}

Row(book, kind, rating, at) ==
  [book |-> book, kind |-> kind, rating |-> rating, at |-> at, counts |-> TRUE]
Events3 == {Row(1, "purchase", 0, 1), Row(6, "library", 0, 2), Row(5, "review", 2, 2)}
Indexes2 == {[reach |-> 1 .. 8, estimate |-> 5], [reach |-> {3, 5, 7}, estimate |-> 3]}

\* Without the vectors of the names the index is of no interest, and those of the labels
\* only make a taste of what was picked.
Init == /\ ListInit
        /\ ~Named => index.estimate = 5
        /\ ~Named => (vectors = "none") = (onboarding.categories = <<>>)
        /\ index.estimate = 3 => onboarding.categories # <<>>
Next == ListNext
Spec == Init /\ [][Next]_listVars
=============================================================================
