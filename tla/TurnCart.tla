------------------------------ MODULE TurnCart ------------------------------
(***************************************************************************)
(* The cart of one agent turn, app/gateway/commerce_snapshot.py: a copy of *)
(* the lines the backend sent with the request, the changes the tools make *)
(* on it, and the list of actions the backend is asked to apply in the     *)
(* end. A line is a book, its quantity and whether it still has a price;   *)
(* an offer is what the request says of the book's stock.                  *)
(***************************************************************************)
EXTENDS Orders

CONSTANTS
  Books,
  MaxLines,     \* MAX_CART_ITEMS
  MaxQty        \* MAX_QUANTITY

ASSUME TurnCartAssumption == MaxLines \in Nat \ {0} /\ MaxQty \in Nat \ {0}

\* "none": not in the offers of the request.
Offer == {"in", "out", "none"}
Line == [book : Books, qty : 1..MaxQty, priced : BOOLEAN]

\* SnapshotCommerce._find
Has(cart, b) == \E i \in DOMAIN cart : cart[i].book = b
Position(cart, b) == CHOOSE i \in DOMAIN cart : cart[i].book = b
LineOf(cart, b) == cart[Position(cart, b)]

\* What a request is checked for: no book twice, not too many of them.
CartOK(cart) ==
  /\ cart \in Seq(Line) /\ Len(cart) <= MaxLines
  /\ \A i, j \in DOMAIN cart : cart[i].book = cart[j].book => i = j

\* _check_sellable
ChangeRefusal(cart, offers, b, q) ==
  IF ~ LineOf(cart, b).priced THEN "PRODUCT_NOT_FOUND"
  ELSE IF q > LineOf(cart, b).qty /\ offers[b] = "out" THEN "INSUFFICIENT_PRODUCT_STOCK"
  ELSE "ok"

\* A book that is in the cart gets the quantity instead of being refused.
AddRefusal(cart, offers, b, q) ==
  IF q \notin 1..MaxQty THEN "INVALID_CART_ITEM_QUANTITY"
  ELSE IF Has(cart, b) THEN ChangeRefusal(cart, offers, b, q)
  ELSE IF offers[b] = "none" THEN "PRODUCT_NOT_FOUND"
  ELSE IF offers[b] = "out" THEN "INSUFFICIENT_PRODUCT_STOCK"
  ELSE IF Len(cart) >= MaxLines THEN "CART_ITEM_LIMIT_EXCEEDED"
  ELSE "ok"

UpdateRefusal(cart, offers, b, q) ==
  IF ~ Has(cart, b) THEN "CART_ITEM_NOT_FOUND"
  ELSE IF q \notin 1..MaxQty THEN "INVALID_CART_ITEM_QUANTITY"
  ELSE ChangeRefusal(cart, offers, b, q)

RemoveRefusal(cart, b) == IF Has(cart, b) THEN "ok" ELSE "CART_ITEM_NOT_FOUND"

WithQty(cart, b, q) ==
  [i \in DOMAIN cart |-> IF cart[i].book = b THEN [cart[i] EXCEPT !.qty = q] ELSE cart[i]]

\* Mutant: adding does not look for the book.
WithBookAgain(cart, b, q) == <<[book |-> b, qty |-> q, priced |-> TRUE]>> \o cart

\* A new book goes on top: the order in which the backend lists a cart.
WithBook(cart, b, q) ==
  IF Has(cart, b) THEN WithQty(cart, b, q)
  ELSE <<[book |-> b, qty |-> q, priced |-> TRUE]>> \o cart

Without(cart, b) == RemoveAt(cart, Position(cart, b))

-----------------------------------------------------------------------------
(* diff_cart: the actions that turn the first cart into the last.          *)

Removal(b) == [op |-> "remove", book |-> b, qty |-> 0]
Setting(b, q) == [op |-> "set", book |-> b, qty |-> q]

Removals(from, to) ==
  LET gone == Only(from, {l \in ToSet(from) : ~ Has(to, l.book)})
  IN [i \in DOMAIN gone |-> Removal(gone[i].book)]

Settings(from, to) ==
  LET kept(l) == Has(from, l.book) /\ LineOf(from, l.book).qty = l.qty
      set == Only(Reverse(to), {l \in ToSet(to) : ~ kept(l)})
  IN [i \in DOMAIN set |-> Setting(set[i].book, set[i].qty)]

\* Mutant: new books are set before others make room for them.
DiffSetsFirst(from, to) == Settings(from, to) \o Removals(from, to)

Diff(from, to) == Removals(from, to) \o Settings(from, to)

-----------------------------------------------------------------------------
(* The backend applies actions one by one with the rules of the cart. It   *)
(* is external: the copy says it follows the backend's rules.              *)

Refusal(cart, offers, a) ==
  IF a.op = "set" THEN AddRefusal(cart, offers, a.book, a.qty)
                  ELSE RemoveRefusal(cart, a.book)

Applied(cart, a) ==
  IF a.op = "set" THEN WithBook(cart, a.book, a.qty) ELSE Without(cart, a.book)

\* The cart after the actions, and whether one of them was refused.
AtBackend(cart, offers, actions) ==
  LET after[n \in 0 .. Len(actions)] ==
        IF n = 0 THEN [cart |-> cart, refused |-> FALSE]
        ELSE IF Refusal(after[n - 1].cart, offers, actions[n]) = "ok"
        THEN [cart |-> Applied(after[n - 1].cart, actions[n]), refused |-> after[n - 1].refused]
        ELSE [cart |-> after[n - 1].cart, refused |-> TRUE]
  IN after[Len(actions)]
=============================================================================
