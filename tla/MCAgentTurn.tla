---------------------------- MODULE MCAgentTurn ----------------------------
(* Instances of AgentTurn for TLC: the requests a turn may start with.     *)
EXTENDS AgentTurn, TLC

CONSTANTS b1, b2, b3

On(b, q) == [book |-> b, qty |-> q, priced |-> TRUE]

\* The cart is full with b2, which has no offer, and b1; b3 is a card on sale, and
\* two cards are shown under one number.
Full ==
  [start |-> <<On(b2, 2), On(b1, 1)>>, offers |-> (b1 :> "in" @@ b2 :> "none" @@ b3 :> "in"),
   cards |-> [n \in CardRanks |-> IF n = 1 THEN {b3} ELSE {b1, b2}],
   focused |-> None, loggedIn |-> TRUE, allowed |-> {"add", "remove", "view"},
   asks |-> TRUE, counts |-> TRUE]

\* One line; the cards are a book on sale and one that is out of stock.
Open ==
  [Full EXCEPT !.start = <<On(b1, 2)>>,
               !.offers = (b1 :> "out" @@ b2 :> "in" @@ b3 :> "out"),
               !.cards = [n \in CardRanks |-> IF n = 1 THEN {b2} ELSE {b3}],
               !.allowed = Tools \ {"remove"}, !.counts = FALSE]

\* A line off sale, two cards under one number, and a book in view.
Odd ==
  [Full EXCEPT !.start = <<[On(b1, 1) EXCEPT !.priced = FALSE]>>,
               !.offers = (b1 :> "none" @@ b2 :> "in" @@ b3 :> "in"),
               !.cards = [n \in CardRanks |-> IF n = 1 THEN {b2, b3} ELSE {}],
               !.focused = b2, !.allowed = {"add", "remove", "view"}]

\* Not logged in, not all tools allowed, or no word of an action.
Limited ==
  {[Open EXCEPT !.loggedIn = FALSE], [Open EXCEPT !.allowed = {"pick"}],
   [Open EXCEPT !.asks = FALSE], [Odd EXCEPT !.allowed = {"add", "pick"}]}

OneShopper == {[Full EXCEPT !.allowed = Tools]}
Everyone == {Full, Open, Odd} \cup Limited
=============================================================================
