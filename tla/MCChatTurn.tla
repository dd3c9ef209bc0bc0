----------------------------- MODULE MCChatTurn -----------------------------
(* A small conversation: three books, two of them editions of one, and the *)
(* patches that the merge treats differently.                              *)
EXTENDS ChatTurn, TLC

CONSTANTS b1, b2, b3

MCBook == {b1, b2, b3}
MCEdition == b1 :> b1 @@ b2 :> b1 @@ b3 :> b3

MCWord == {"java", "cosy", "sf", "novel", "book"}
MCFiller == {"book"}
MCMood == {"cosy"}
MCUsable == {{"novel"}}

Asks(said, lead) == [kind |-> "plain", said |-> said, lead |-> lead, pointed |-> {}]

MCMessages ==
  {Asks({"java"}, {"java"}), Asks({"cosy"}, {}),
   [Asks({}, {}) EXCEPT !.kind = "nowhere", !.pointed = {"cosy"}],
   [Asks({}, {}) EXCEPT !.kind = "card"]}

NoKeys == [k \in {} |-> None]
Empty == [answer |-> FALSE, exact |-> NoKeys, filters |-> NoKeys, plain |-> NoKeys, exclude |-> {}]
Exact(part) == [Empty EXCEPT !.exact = part]
Range(part) == [Empty EXCEPT !.filters = part]
Plain(part) == [Empty EXCEPT !.plain = part]

MCPatches ==
  {Empty, [Empty EXCEPT !.answer = TRUE],
   [Empty EXCEPT !.exclude = {b1}], [Empty EXCEPT !.exclude = {Odd}],
   Exact("title" :> {"java"}), Exact("author" :> {"sf"}),
   Exact("title" :> {"sf"} @@ "publisher" :> {"novel"}),
   [Exact("title" :> {"sf"}) EXCEPT !.plain = "intent" :> "semantic"],
   Range("price_min" :> 5), Range("price_max" :> 3),
   Range("price_min" :> 5 @@ "price_max" :> 3), Range("price_max" :> Odd),
   Plain("semantic" :> {"cosy", "java"} @@ "intent" :> "semantic"),
   Plain("semantic" :> {"book"}),
   Plain("category" :> {"sf"}), Plain("category" :> {"novel"})}
=============================================================================
