----------------------------- MODULE ChatSpec -----------------------------
(***************************************************************************)
(* The conditions of a recommendation (app/chat/schemas.py Spec) and what  *)
(* the chat (3) does to them: lay the model's patch over them, start anew  *)
(* when the topic changed, check the category, drop invented moods and     *)
(* find a topic the model left out.                                        *)
(*                                                                         *)
(* A text is the set of its words, the empty set the empty text. A part of *)
(* a patch (exact, filters, plain) is a function on the keys that the      *)
(* model wrote; a key it left out is not in the domain. A part that is not *)
(* an object is ignored by the code like one without keys. The category, a *)
(* filter in the code, is kept apart from the four numbers of the filters. *)
(***************************************************************************)
EXTENDS Integers

CONSTANTS
  None,    \* JSON null
  Odd,     \* a value of the wrong type; as a number, one that < does not compare with an int
  Word,    \* words of titles, names and sentences
  Filler,  \* words that ask or describe and name no topic (one list for the code's three)
  Mood,    \* the listed mood words; words of one meaning are one word here
  Usable,  \* category texts that select books of the catalogue
  Book,
  Edition  \* the edition key of a book: editions of one book share it

Text == SUBSET Word

ASSUME ChatSpecAssumption ==
  /\ None # Odd /\ \A t \in Text : t \notin {None, Odd}
  /\ None \notin Int /\ Odd \notin Int
  /\ None \notin Book /\ Odd \notin Book
  /\ Filler \subseteq Word /\ Mood \subseteq Word
  /\ Usable \subseteq Text \ {{}}
  /\ Edition \in [Book -> Book]

Intents == {"exact", "semantic"}
ExactKeys == {"title", "author", "publisher"}
FilterKeys == {"price_min", "price_max", "pub_year_from", "pub_year_to"}
PlainKeys == {"intent", "semantic", "anchor_book", "category"}

MaxInt32 == 2147483647

Lowest(key) == IF key \in {"price_min", "price_max"} THEN 0 ELSE -MaxInt32 - 1

\* The text is there and not empty (truth of a value in the code).
Said(t) == t \notin {None, {}}

NamesTopic(t) == t \notin {None, Odd} /\ t \ Filler # {}

InitialSpec ==
  [intent |-> "semantic", exact |-> [k \in ExactKeys |-> None],
   filters |-> [k \in FilterKeys |-> None], category |-> None,
   semantic |-> None, anchor_book |-> None, exclude |-> {}]

-----------------------------------------------------------------------------
(* What the schema accepts *)

TextOrNull(t) == t = None \/ (t # Odd /\ t \in Text)

Ordered(f, low, high) == f[low] # None /\ f[high] # None => f[low] <= f[high]

Filters ==
  {f \in [FilterKeys -> Int \cup {None}] :
     /\ \A k \in FilterKeys : f[k] # None => Lowest(k) <= f[k] /\ f[k] <= MaxInt32
     /\ Ordered(f, "price_min", "price_max")
     /\ Ordered(f, "pub_year_from", "pub_year_to")}

\* Spec.model_validate passes.
ValidSpec(s) ==
  /\ DOMAIN s = {"intent", "exact", "filters", "category", "semantic", "anchor_book", "exclude"}
  /\ s.intent \in Intents
  /\ DOMAIN s.exact = ExactKeys /\ \A k \in ExactKeys : TextOrNull(s.exact[k])
  /\ s.filters \in Filters
  /\ TextOrNull(s.category) /\ TextOrNull(s.semantic)
  /\ s.anchor_book \in Book \cup {None}
  /\ s.exclude \in SUBSET Book

-----------------------------------------------------------------------------
(* Laying a patch over the conditions *)

Overlay(base, sub) ==
  [k \in DOMAIN base |-> IF k \in DOMAIN sub THEN sub[k] ELSE base[k]]

Cleared(f, keys) == [k \in DOMAIN f |-> IF k \in keys THEN None ELSE f[k]]

\* Mutant: author and publisher stay whatever the title.
ClearStaleExactNever(exact, sub) == exact

\* A new title drops the author and the publisher of an earlier one.
ClearStaleExact(exact, sub) ==
  IF "title" \in DOMAIN sub
  THEN Cleared(exact, {"author", "publisher"} \ DOMAIN sub) ELSE exact

Inverted(f, low, high) == f[low] \in Int /\ f[high] \in Int /\ f[low] > f[high]

\* When one end of a range comes alone, an old other end that it passes goes.
ClearInvertedRange(f, sub, low, high) ==
  IF ~ Inverted(f, low, high) THEN f
  ELSE IF low \in DOMAIN sub /\ high \notin DOMAIN sub THEN Cleared(f, {high})
  ELSE IF high \in DOMAIN sub /\ low \notin DOMAIN sub THEN Cleared(f, {low})
  ELSE f

\* One end comes alone, has the wrong type and is compared with the other: a TypeError.
RaisesOn(f, sub, low, high) ==
  /\ (low \in DOMAIN sub) # (high \in DOMAIN sub)
  /\ f[low] # None /\ f[high] # None
  /\ Odd \in {f[low], f[high]}

MergeRaises(s, p) ==
  LET f == Overlay(s.filters, p.filters)
  IN \/ RaisesOn(f, p.filters, "price_min", "price_max")
     \/ RaisesOn(f, p.filters, "pub_year_from", "pub_year_to")

MergedFilters(s, p) ==
  ClearInvertedRange(
    ClearInvertedRange(Overlay(s.filters, p.filters), p.filters, "price_min", "price_max"),
    p.filters, "pub_year_from", "pub_year_to")

Pick(p, key, old) == IF key \in DOMAIN p.plain THEN p.plain[key] ELSE old

\* A title or an author without an intent means exact.
MergedIntent(s, p) ==
  Pick(p, "intent",
       IF \E k \in {"title", "author"} \cap DOMAIN p.exact : Said(p.exact[k])
       THEN "exact" ELSE s.intent)

\* Mutant: a mood request keeps the old title.
MergedExactKeeping(s, p) == ClearStaleExact(Overlay(s.exact, p.exact), p.exact)

\* In a mood request a title or an author that this patch did not choose goes.
MergedExact(s, p) ==
  LET exact == ClearStaleExact(Overlay(s.exact, p.exact), p.exact)
  IN IF MergedIntent(s, p) = "semantic"
     THEN Cleared(exact, {"title", "author"} \ DOMAIN p.exact) ELSE exact

MergeSpecPatch(s, p) ==
  [intent |-> MergedIntent(s, p), exact |-> MergedExact(s, p), filters |-> MergedFilters(s, p),
   category |-> Pick(p, "category", s.category),
   semantic |-> Pick(p, "semantic", s.semantic),
   anchor_book |-> Pick(p, "anchor_book", s.anchor_book),
   exclude |-> s.exclude \cup p.exclude]

\* Mutant: the rejected books are forgotten with the rest.
FreshSpecEmpty(s) == InitialSpec

\* Mutant: the filters outlive the old request.
FreshSpecKeepingFilters(s) == [InitialSpec EXCEPT !.exclude = s.exclude, !.filters = s.filters]

\* Only the books that the user rejected outlive the old request.
FreshSpec(s) == [InitialSpec EXCEPT !.exclude = s.exclude]

-----------------------------------------------------------------------------
(* Questions about a patch or the conditions *)

HasTopic(p) ==
  \/ "semantic" \in DOMAIN p.plain /\ NamesTopic(p.plain["semantic"])
  \/ \E k \in {"title", "author"} \cap DOMAIN p.exact : NamesTopic(p.exact[k])

\* There is an earlier request that a new one could replace.
HasPrevious(s) == Said(s.semantic) \/ Said(s.exact["title"]) \/ Said(s.exact["author"])

Pinned(s) == s.intent = "exact" \/ Said(s.exact["title"]) \/ Said(s.exact["author"])

HasQuery(s) == HasPrevious(s) \/ Said(s.exact["publisher"])

\* A lowest price of 0 is no condition.
HasCondition(s) ==
  \/ s.filters["price_min"] \notin {None, 0}
  \/ \E k \in {"price_max", "pub_year_from", "pub_year_to"} : s.filters[k] # None

-----------------------------------------------------------------------------
(* What _recommend does to the conditions before it searches *)

\* Mood words without grounds go, unless no topic would be left.
WithoutInventedMood(s, grounds) ==
  LET kept == s.semantic \ (Mood \ grounds)
  IN IF s.semantic # None /\ NamesTopic(kept) THEN [s EXCEPT !.semantic = kept] ELSE s

MoveCategoryToSemantic(s) ==
  LET word == s.category
      open == [s EXCEPT !.category = None]
      pinned == s.intent = "exact" /\ (Said(s.exact["title"]) \/ Said(s.exact["author"]))
  IN IF word = {} \/ pinned THEN open
     ELSE [open EXCEPT !.semantic = word \cup (IF s.semantic = None THEN {} ELSE s.semantic)]

SettleCategory(s) ==
  IF s.category = None THEN s
  ELSE IF s.category \notin Usable THEN MoveCategoryToSemantic(s)
  ELSE IF HasPrevious(s) THEN s ELSE [s EXCEPT !.semantic = s.category]

\* lead: the topic words of the message in front of the word for a book.
RecoverTopic(s, lead) ==
  IF s.intent = "semantic" /\ ~ HasQuery(s) /\ HasCondition(s) /\ lead # {}
  THEN [s EXCEPT !.semantic = lead] ELSE s
=============================================================================
