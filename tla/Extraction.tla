----------------------------- MODULE Extraction -----------------------------
(***************************************************************************)
(* What is taken of a conversation (app/extraction): which of its turns    *)
(* count, which of the preferences a model names are kept, and what the    *)
(* answer holds (rules.py, schemas.py, service.to_extractions).            *)
(* A turn: [role, words, once]; once: it says that it is for this time     *)
(* only. An item of a model's answer: [type, value, strength, basis,       *)
(* owner, evidence, strong, keyword, names]; value is "none" where it is   *)
(* no text that may be shown, "likes" where it says so; evidence is a set  *)
(* of words. A keyword: [unit, n, bound]; "words" n is spelled in the way  *)
(* bound, "title" n, "none", or an amount.                                 *)
(***************************************************************************)
EXTENDS Orders

CONSTANTS
  MaxTurns,       \* MAX_CONVERSATION_TURNS
  MaxExtractions, \* MAX_EXTRACTIONS
  MaxNames,       \* MAX_APPLIES_TO
  FewestWords,    \* MIN_EVIDENCE_CHARS, in words
  Genres          \* categories.NAME_TEXTS

ASSUME ExtractionAssumption ==
  MaxTurns \in Nat \ {0} /\ MaxExtractions \in Nat \ {0} /\ MaxNames \in Nat \ {0} /\ FewestWords \in Nat

PreferenceTypes == {"mood", "topic", "author", "condition"}
MaxStrength == 3

Abs(n) == IF n < 0 THEN -n ELSE n

\* used_conversation, and the turns of the user in it.
Said(conversation) ==
  LET from == IF Len(conversation) > MaxTurns THEN Len(conversation) - MaxTurns + 1 ELSE 1
      used == SubSeq(conversation, from, Len(conversation))
  IN Only(used, {turn \in ToSet(used) : turn.role = "user"})

\* _quoted_turn: the first that has every word of the evidence.
Quotes(evidence, said) ==
  IF Cardinality(evidence) < FewestWords THEN {} ELSE {i \in DOMAIN said : evidence \subseteq said[i].words}
QuotedTurn(evidence, said) ==
  said[CHOOSE i \in Quotes(evidence, said) : \A j \in Quotes(evidence, said) : i <= j]

\* drop_reason.
Dropped(item, said) ==
  \/ item.owner # "user" \/ item.basis \notin {"stated", "requested"}
  \/ Quotes(item.evidence, said) = {}
  \/ item.basis = "requested" /\ item.value = "likes"
  \/ item.type = "condition" /\ QuotedTurn(item.evidence, said).once

\* _strength: the size that its basis gives it; 0: none.
Strength(item) ==
  LET raw == item.strength  sign == IF raw > 0 THEN 1 ELSE -1 IN
  IF raw = 0 \/ Abs(raw) > MaxStrength THEN 0
  ELSE IF item.basis = "requested" THEN sign
  ELSE IF item.basis = "stated" THEN sign * (IF item.strong THEN 3 ELSE IF Abs(raw) < 2 THEN 2 ELSE Abs(raw))
  ELSE raw

\* _BOUND and _SINCE.
Bounds == [atMost |-> "atMost", below |-> "atMost", atLeast |-> "atLeast", above |-> "atLeast"]
Sinces == [since |-> "since", from |-> "since", before |-> "before", until |-> "before"]
NoKeyword == [unit |-> "none", n |-> 0, bound |-> "none"]

\* condition_keyword: pages, a price (man: written in tens of thousands, n its thousands), a year.
ConditionKeyword(k) ==
  CASE k.unit = "pages" /\ k.n > 0 -> [k EXCEPT !.bound = Bounds[@]]
    [] k.unit = "man" /\ k.n > 0 -> [unit |-> "won", n |-> k.n * 1000, bound |-> Bounds[k.bound]]
    [] k.unit = "won" /\ k.n > 0 -> [k EXCEPT !.bound = Bounds[@]]
    [] k.unit = "year" -> [k EXCEPT !.bound = Sinces[@]]
    [] OTHER -> NoKeyword

Keyword(item) == IF item.type = "condition" THEN ConditionKeyword(item.keyword) ELSE item.keyword

\* text_key: spelling is not told apart.
TextKey(k) == IF k.unit = "words" THEN [k EXCEPT !.bound = "any"] ELSE k

\* _applies_to: of a topic that is no title, the first known names, each once.
KnownNames(names) ==
  LET firsts == {i \in DOMAIN names : names[i] \in Genres /\ \A j \in 1 .. i - 1 : names[j] # names[i]}
      order == Take(Ordered(firsts, LAMBDA i : <<i>>), MaxNames)
  IN [p \in 1 .. Len(order) |-> names[order[p]]]

AppliesTo(item) == IF item.type = "topic" /\ item.keyword.unit # "title" THEN KnownNames(item.names) ELSE <<>>

\* _candidate and the first tests of screen.
Usable(item, said) ==
  /\ item.type \in PreferenceTypes /\ item.value # "none"
  /\ Strength(item) \notin {0, -1} /\ Keyword(item) # NoKeyword
  /\ item.type = "condition" => Strength(item) >= 2
  /\ ~Dropped(item, said)

Candidate(item) ==
  [type |-> item.type, value |-> item.value, strength |-> Strength(item),
   applies |-> AppliesTo(item), keyword |-> Keyword(item)]

KeyOf(c) == <<c.type, TextKey(c.keyword)>>

UsableOnes(items, said) == Only(items, {item \in ToSet(items) : Usable(item, said)})

\* Mutant: the limit counts what the model said, not what was merged.
CountedFirst(items, said) ==
  LET few == Take(UsableOnes(items, said), MaxExtractions)
      cs == [i \in DOMAIN few |-> Candidate(few[i])]
      same(i) == {j \in DOMAIN cs : KeyOf(cs[j]) = KeyOf(cs[i])}
      firsts == {i \in DOMAIN cs : \A j \in same(i) : i <= j}
  IN [i \in firsts |-> cs[i]]

\* screen: of the items with one key the first one's words with the greatest strength.
Merged(items, said) ==
  LET usable == UsableOnes(items, said)
      cs == [i \in DOMAIN usable |-> Candidate(usable[i])]
      same(i) == {j \in DOMAIN cs : KeyOf(cs[j]) = KeyOf(cs[i])}
      firsts == {i \in DOMAIN cs : \A j \in same(i) : i <= j}
      greatest(i) == Least(same(i), LAMBDA j : <<-Abs(cs[j].strength), j>>)
  IN [i \in firsts |-> [cs[i] EXCEPT !.strength = cs[greatest(i)].strength]]

\* The strongest first, in the model's order where they are equal; then the limit.
Screen(items, said) ==
  LET merged == Merged(items, said)
      order == Take(Ordered(DOMAIN merged, LAMBDA i : <<-Abs(merged[i].strength), i>>), MaxExtractions)
  IN [p \in 1 .. Len(order) |-> merged[order[p]]]

-----------------------------------------------------------------------------
\* No taste is named twice, none is made stronger than it was said, and one that the user
\* stated in the turns that count is missing only behind as many that are as strong
\* (rules.py:258-264; schemas.py:8).
ScreenFits(found, items, conversation) ==
  LET said == Said(conversation)
      usable == {i \in DOMAIN items : Usable(items[i], said)}
      strength(i) == Abs(Strength(items[i]))
      key(i) == KeyOf(Candidate(items[i])) IN
  /\ Len(found) <= MaxExtractions
  /\ \A p, q \in DOMAIN found : p < q => /\ KeyOf(found[p]) # KeyOf(found[q])
                                         /\ Abs(found[p].strength) >= Abs(found[q].strength)
  /\ \A p \in DOMAIN found :
       LET mine == {i \in usable : key(i) = KeyOf(found[p])} IN
       /\ \E i \in mine : Strength(items[i]) = found[p].strength
       /\ \A i \in mine : strength(i) <= Abs(found[p].strength)
       /\ \E i \in mine : \E turn \in {conversation[j] : j \in DOMAIN conversation} :
            turn.role = "user" /\ items[i].evidence \subseteq turn.words
       /\ Len(found[p].applies) <= MaxNames
       /\ found[p].type = "condition" => found[p].keyword.bound \in {"atMost", "atLeast", "since", "before"}
  /\ \A i \in usable :
       \/ \E p \in DOMAIN found : KeyOf(found[p]) = key(i)
       \/ /\ Len(found) = MaxExtractions
          /\ \A p \in DOMAIN found : Abs(found[p].strength) >= strength(i)
=============================================================================
