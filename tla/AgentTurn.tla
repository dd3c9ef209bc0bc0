----------------------------- MODULE AgentTurn -----------------------------
(***************************************************************************)
(* One turn of the shopping agent (7): app/agent/graph.py, tools.py,       *)
(* reference.py, guard.py and the outcome sentences of reply.py.           *)
(*                                                                         *)
(* The LLM is asked up to MaxSteps times for a batch of tool calls, and    *)
(* then for the answer. The calls of a batch run one after another on a    *)
(* copy of the cart; the LLM sees their results only when the batch has    *)
(* ended, so "the n-th of the cart" means the list it saw before. A batch  *)
(* in which one write succeeded and another broke a rule of the cart is    *)
(* undone as a whole. A turn either picks books for the user to confirm    *)
(* or changes the cart, never both. What the LLM says and calls is any     *)
(* choice; whether the user's words name the book of a call is another.    *)
(***************************************************************************)
EXTENDS TurnCart, FiniteSets

CONSTANTS
  Requests,     \* the requests a turn may start with
  CardRanks,    \* the numbers the cards are shown under
  Quantities,   \* the quantities the LLM may write into a call
  MaxSteps,     \* MAX_TOOL_STEPS
  MaxCalls,     \* MAX_CALLS_PER_STEP
  MaxTurnCalls, \* bound: calls the model runs through in one turn
  None

WriteTools == {"add", "update", "remove"}
CartTools == WriteTools \cup {"view"}
\* The tools that can change a turn's state; book.offer, book.compare and
\* ui.guide only read.
Tools == CartTools \cup {"pick"}

\* asks, counts: the user's message states an action, a quantity.
Request ==
  [start : Seq(Line), offers : [Books -> Offer], cards : [CardRanks -> SUBSET Books],
   focused : Books \cup {None}, loggedIn : BOOLEAN, allowed : SUBSET Tools,
   asks : BOOLEAN, counts : BOOLEAN]

ASSUME AgentTurnAssumption ==
  /\ Requests \subseteq Request
  /\ \A t \in Requests :
       /\ CartOK(t.start)
       \* a book taken off sale has no price, neither as a line nor as an offer
       /\ \A i \in DOMAIN t.start : t.start[i].priced \/ t.offers[t.start[i].book] = "none"
       /\ t.counts => t.asks
  /\ Quantities \subseteq Nat
  /\ MaxSteps \in Nat /\ MaxCalls \in Nat /\ MaxTurnCalls \in Nat
  /\ None \notin Books \cup Seq(Line)

VARIABLES
  turn,      \* the request
  pc,        \* "choose", "act", "done" or "failed"
  lines,     \* SnapshotCommerce._lines
  snapshot,  \* TurnContext.cart_snapshot: the cart the LLM has seen
  pending,   \* TurnContext.pending_cart: the cart it will see after the batch
  picked,    \* TurnContext.picked
  changed,   \* TurnContext.changed_cart
  point,     \* the checkpoint of the batch
  batch,     \* the calls of this batch with their results
  history    \* those of the batches before, as the LLM got them

vars == <<turn, pc, lines, snapshot, pending, picked, changed, point, batch, history>>

-----------------------------------------------------------------------------
(* Records of calls.                                                       *)

\* n: the number, if the call named a book of the cart by number; shown: the
\* cart a view lists; qty: the quantity a successful write has set.
Call(tool, n, b, q, code, shown) ==
  [tool |-> tool, n |-> n, book |-> b, qty |-> q, code |-> code, shown |-> shown]

Written(c) == c.tool \in WriteTools /\ c.code = "ok"

\* CommerceErrorCode: the rules of the cart.
RuleFailures ==
  {"CART_ITEM_NOT_FOUND", "CART_ITEM_LIMIT_EXCEEDED", "INVALID_CART_ITEM_QUANTITY",
   "INSUFFICIENT_PRODUCT_STOCK", "PRODUCT_NOT_FOUND"}

Codes == RuleFailures \cup {"ok", "NO_CHANGE", "ALREADY_IN_CART", "BATCH_ROLLED_BACK"}

Refused(c) == c.tool \in WriteTools /\ c.code \in RuleFailures

Viewed(c) == c.tool = "view" /\ c.code = "ok"

AnyOf(calls, P(_)) == \E i \in DOMAIN calls : P(calls[i])

AllCalls == FlattenSeq(history)

\* The batches so far have a write that stands.
WroteBefore == \E k \in DOMAIN history : AnyOf(history[k], Written)

-----------------------------------------------------------------------------
(* Which book a call means, and whether it may change the cart.            *)

Refs ==
  [src : {"card"}, n : CardRanks] \cup [src : {"cart"}, n : 1..MaxLines]
    \cup [src : {"focused"}, n : {0}]

\* Two cards may be shown under one number: such a number means no book.
CardBook(n) ==
  IF Cardinality(turn.cards[n]) = 1 THEN CHOOSE b \in turn.cards[n] : TRUE ELSE None

CartBook(n) == IF snapshot = None \/ n > Len(snapshot) THEN None ELSE snapshot[n].book

\* reference.resolve, with None for each of its errors.
Resolve(ref) ==
  CASE ref.src = "card" -> CardBook(ref.n)
    [] ref.src = "cart" -> CartBook(ref.n)
    [] ref.src = "focused" -> turn.focused

Number(ref) == IF ref.src = "cart" THEN ref.n ELSE 0

\* guard.check
Allowed(tool) == tool \in turn.allowed /\ (tool \in WriteTools => turn.loggedIn)

\* What a write has to pass before it gets to the cart, but for the evidence in
\* the user's words for this book, which may be there or not (_add, _update,
\* _remove: CONFIRMATION_REQUIRED, SEPARATE_TURN_REQUIRED, ACTION_NOT_STATED).
MayWrite(tool, b) == Allowed(tool) /\ b # None /\ picked = {} /\ turn.asks

\* tools._add: a quantity the user did not say never replaces one in the cart.
AddKept(b, q) ==
  LET said == q # None /\ turn.counts
  IN  Has(lines, b) /\ (~ said \/ q = LineOf(lines, b).qty)

QtyOf(q) == IF q = None THEN 1 ELSE q

AddCode(b, q) ==
  IF AddKept(b, q) THEN "ALREADY_IN_CART" ELSE AddRefusal(lines, turn.offers, b, QtyOf(q))

-----------------------------------------------------------------------------
(* The actions. Calls run in order; the model chooses each as it comes.    *)

\* graph.prefetch_cart: the code shows the cart before the first call.
Prefetched(t) == t.loggedIn /\ t.allowed \cap CartTools # {}

Init ==
  /\ turn \in Requests
  /\ pc = "choose" /\ lines = turn.start /\ point = turn.start
  /\ snapshot = IF Prefetched(turn) THEN turn.start ELSE None
  /\ pending = None /\ picked = {} /\ changed = FALSE
  /\ batch = <<>> /\ history = <<>>

\* Mutant: one checkpoint for the whole turn.
BeginBatchOnce ==
  /\ pc = "choose" /\ Len(history) < MaxSteps
  /\ pc' = "act" /\ batch' = <<>>
  /\ UNCHANGED <<turn, lines, point, snapshot, pending, picked, changed, history>>

\* route, act: the LLM wants tools. A checkpoint is taken for two writes and
\* more; with fewer nothing can be undone, so it is always taken here.
BeginBatch ==
  /\ pc = "choose" /\ Len(history) < MaxSteps
  /\ pc' = "act" /\ point' = lines /\ batch' = <<>>
  /\ UNCHANGED <<turn, lines, snapshot, pending, picked, changed, history>>

\* tools.execute of one call, up to its record.
Running(c) ==
  /\ pc = "act" /\ Len(batch) < MaxCalls /\ Len(AllCalls \o batch) < MaxTurnCalls
  /\ batch' = Append(batch, c)
  /\ UNCHANGED <<turn, pc, point, history>>

\* execute and the handlers, wherever a call ends without a change: not allowed,
\* broken arguments, no such book, no evidence, nothing to pick, or a tool that
\* only reads. Which of the reasons it was is not kept.
NoChange ==
  /\ Running(Call("none", 0, None, None, "NO_CHANGE", None))
  /\ UNCHANGED <<lines, snapshot, pending, picked, changed>>

\* tools._write: the cart changes if no rule of the cart speaks against it.
Wrote(tool, ref, q, code, after) ==
  /\ Running(Call(tool, Number(ref), Resolve(ref), IF code = "ok" THEN q ELSE None, code, None))
  /\ lines' = IF code = "ok" THEN after ELSE lines
  /\ changed' = (changed \/ code = "ok")
  /\ UNCHANGED <<snapshot, pending, picked>>

CartAdd ==
  \E ref \in Refs, q \in Quantities \cup {None} :
    LET b == Resolve(ref)
    IN  /\ MayWrite("add", b)
        /\ Wrote("add", ref, QtyOf(q), AddCode(b, q), WithBook(lines, b, QtyOf(q)))

CartUpdate ==
  \E ref \in Refs, q \in Quantities :
    LET b == Resolve(ref)
    IN  /\ MayWrite("update", b)
        /\ Wrote("update", ref, q, UpdateRefusal(lines, turn.offers, b, q), WithQty(lines, b, q))

CartRemove ==
  \E ref \in Refs :
    LET b == Resolve(ref)
    IN  /\ MayWrite("remove", b)
        /\ Wrote("remove", ref, None, RemoveRefusal(lines, b), Without(lines, b))

ViewCall == Call("view", 0, None, None, "ok", lines)

\* tools._view
CartView ==
  /\ Allowed("view") /\ Running(ViewCall)
  /\ pending' = lines
  /\ UNCHANGED <<lines, snapshot, picked, changed>>

\* Cards on sale that are not in the cart. A book without an offer is known
\* only from the cart, and missing there only after a write.
Candidates ==
  {b \in UNION {turn.cards[n] : n \in CardRanks} : turn.offers[b] = "in" /\ ~ Has(lines, b)}

\* tools._pick: the books are the best that fit the budget, so any of them.
SelectionPick ==
  /\ Allowed("pick") /\ ~ changed
  /\ \E chosen \in SUBSET Candidates \ {{}} : picked' = picked \cup chosen
  /\ Running(Call("pick", 0, None, None, "ok", None))
  /\ UNCHANGED <<lines, snapshot, pending, changed>>

Execute == NoChange \/ CartAdd \/ CartUpdate \/ CartRemove \/ CartView \/ SelectionPick

\* Mutant: a write counts as refused only if it is the last one.
RollsBackOnLast(calls) ==
  AnyOf(calls, Written) /\ calls # <<>> /\ Refused(calls[Len(calls)])

\* graph._roll_back
RollsBack(calls) == AnyOf(calls, Written) /\ AnyOf(calls, Refused)

\* Mutant: the views of the batch keep the lines of before the rollback.
UndoneKeepingViews(calls, back) ==
  [i \in DOMAIN calls |->
     IF Written(calls[i])
     THEN [calls[i] EXCEPT !.code = "BATCH_ROLLED_BACK", !.qty = None] ELSE calls[i]]

\* graph._rolled_back: writes that stood no longer do, views show the old cart.
Undone(calls, back) ==
  [i \in DOMAIN calls |->
     IF Written(calls[i]) THEN [calls[i] EXCEPT !.code = "BATCH_ROLLED_BACK", !.qty = None]
     ELSE IF Viewed(calls[i]) THEN [calls[i] EXCEPT !.shown = back]
     ELSE calls[i]]

\* TurnContext.commit_cart_view
Commit(seen) ==
  /\ snapshot' = IF seen = None THEN snapshot ELSE seen
  /\ pending' = None

\* Mutant: with its batch undone a turn counts as one that changed nothing.
UndoBatchForgetting ==
  /\ RollsBack(batch)
  /\ lines' = point /\ changed' = FALSE
  /\ history' = Append(history, Undone(batch, point))
  /\ Commit(IF AnyOf(batch, Viewed) THEN point ELSE pending)

\* Mutant: the view of an undone batch stays the base of the numbers.
UndoBatchKeepingView ==
  /\ RollsBack(batch)
  /\ lines' = point /\ changed' = WroteBefore
  /\ history' = Append(history, Undone(batch, point))
  /\ Commit(pending)

UndoBatch ==
  /\ RollsBack(batch)
  /\ lines' = point /\ changed' = WroteBefore
  /\ history' = Append(history, Undone(batch, point))
  /\ Commit(IF AnyOf(batch, Viewed) THEN point ELSE pending)

KeepBatch ==
  /\ ~ RollsBack(batch)
  /\ history' = Append(history, batch)
  /\ Commit(pending)
  /\ UNCHANGED <<lines, changed>>

\* The end of act. Calls past MaxCalls and broken ones leave no record.
EndBatch ==
  /\ pc = "act"
  /\ UndoBatch \/ KeepBatch
  /\ pc' = "choose" /\ batch' = <<>>
  /\ UNCHANGED <<turn, picked, point>>

-----------------------------------------------------------------------------
(* The answer.                                                             *)

\* reply._REACHED_BE: the write got as far as the cart.
Reached(c) ==
  /\ c.tool \in WriteTools
  /\ c.code \in RuleFailures \cup {"ok", "ALREADY_IN_CART", "BATCH_ROLLED_BACK"}

\* reply._outcomes: of the calls that do one thing to one book the last is told.
Outcomes ==
  {AllCalls[i] : i \in {j \in DOMAIN AllCalls :
     /\ Reached(AllCalls[j])
     /\ \A k \in j + 1..Len(AllCalls) :
          ~ (/\ Reached(AllCalls[k])
             /\ AllCalls[k].tool = AllCalls[j].tool /\ AllCalls[k].book = AllCalls[j].book)}}

\* run_agent: the changes the backend is asked to make.
Actions ==
  IF WroteBefore THEN Diff(IF Prefetched(turn) THEN turn.start ELSE <<>>, lines) ELSE <<>>

\* reply._facts: the view whose total the answer may name, as a position.
LastView == SelectLastInSeq(AllCalls, Viewed)
TotalTold ==
  LastView # 0 /\ \A i \in LastView + 1..Len(AllCalls) : ~ Written(AllCalls[i])

\* The turn ends in an error: its cart, its context and its records are gone.
Discard ==
  /\ pc' = "failed" /\ lines' = turn.start /\ point' = turn.start
  /\ snapshot' = None /\ pending' = None /\ picked' = {} /\ changed' = FALSE
  /\ batch' = <<>> /\ history' = <<>> /\ UNCHANGED turn

\* The LLM answers, or has used up its calls.
Answer ==
  /\ pc = "choose" /\ pc' = "done"
  /\ UNCHANGED <<turn, lines, snapshot, pending, picked, changed, point, batch, history>>

\* The turn's timeout or an LLM failure, at any await; or, at the end, no word
\* of the answer is left and no write has to be told (422).
Fail == pc \in {"choose", "act"} /\ Discard
NothingLeft == pc = "choose" /\ Outcomes = {} /\ Discard

Next == BeginBatch \/ Execute \/ EndBatch \/ Answer \/ Fail \/ NothingLeft

Spec == Init /\ [][Next]_vars

-----------------------------------------------------------------------------
(* Properties.                                                             *)

Calls ==
  [tool : Tools \cup {"none"}, n : 0..MaxLines, book : Books \cup {None}, qty : Quantities \cup {1, None},
   code : Codes, shown : Seq(Line) \cup {None}]

\* Between batches and at the end of a turn that is answered.
Settled == pc \in {"choose", "done"}

\* The state keeps its shape; in particular no book has two lines in the cart
\* and the cart never holds more than MaxLines (tools and cart together).
TypeOK ==
  /\ turn \in Requests /\ pc \in {"choose", "act", "done", "failed"}
  /\ CartOK(lines) /\ CartOK(point)
  /\ snapshot \in Seq(Line) \cup {None} /\ pending \in Seq(Line) \cup {None}
  /\ picked \subseteq Books /\ changed \in BOOLEAN
  /\ batch \in Seq(Calls) /\ history \in Seq(Seq(Calls))

\* A turn that has picked books for the user to confirm has no write that
\* stands, in whatever order picks, writes and rollbacks came: the backend
\* does not take a selection and actions in one answer (tools.py, _separate).
PickedOrChanged ==
  picked # {} => ~ WroteBefore /\ ~ AnyOf(batch, Written)

\* What a record says was done to a cart.
After(cart, c) ==
  IF ~ Written(c) THEN cart
  ELSE IF c.tool = "remove" THEN Without(cart, c.book) ELSE WithBook(cart, c.book, c.qty)

\* The writes recorded as done, applied in order to the cart of the request,
\* give the cart the turn has now: no batch is undone in part, none is told
\* as done that was undone (graph.act, _rolled_back).
RecordsMakeTheCart == Settled => lines = FoldLeft(After, turn.start, AllCalls)

\* A batch the LLM gets back has no write done beside one the cart refused.
AllOrNothing ==
  \A k \in DOMAIN history : ~ (AnyOf(history[k], Written) /\ AnyOf(history[k], Refused))

\* The cart the last view among these calls has shown.
LastShown(calls, otherwise) ==
  LET i == SelectLastInSeq(calls, Viewed)
  IN  IF i = 0 THEN otherwise ELSE calls[i].shown

\* The cart the LLM had last been shown when batch k was chosen.
ShownBefore(k) == LastShown(FlattenSeq(SubSeq(history, 1, k - 1)), turn.start)

\* "The n-th of the cart" is the n-th book of the cart the LLM had been shown
\* when it chose the call, whatever has been written, viewed or undone since
\* (reference.TurnContext.cart_snapshot, graph._rolled_back).
NumbersAsShown ==
  \A k \in 1..Len(history) + 1 :
    LET calls == IF k > Len(history) THEN batch ELSE history[k]
    IN  \A i \in DOMAIN calls :
          calls[i].n # 0 /\ calls[i].book # None =>
            /\ calls[i].n \in DOMAIN ShownBefore(k)
            /\ ShownBefore(k)[calls[i].n].book = calls[i].book

\* A total the answer may name is that of the cart as it is (reply._facts).
TotalIsCurrent ==
  Settled /\ TotalTold => AllCalls[LastView].shown = lines

\* What the model counts in and what the user is told is the cart that was shown and stands.
ShownIsTrue == NumbersAsShown /\ TotalIsCurrent

\* The backend can apply every action in turn, and then has the books and the quantities of
\* the turn's cart (diff_cart: removals before settings, so that the limit on lines is never
\* in the way). Applied once more they change nothing: a turn that runs again because its
\* record was lost may be applied again (agent/replay.py). Only the backend knows how many of
\* a book it has (commerce_snapshot.py:8-9), so this is said of a backend that has enough.
ActionsApply ==
  LET end == AtBackend(turn.start, turn.offers, Actions)
      counted(cart) == {[book |-> cart[i].book, qty |-> cart[i].qty] : i \in DOMAIN cart}
  IN  pc = "done" =>
        /\ ~ end.refused /\ counted(end.cart) = counted(lines)
        /\ AtBackend(end.cart, turn.offers, Actions).cart = end.cart

\* The answer says of every book the backend is asked to change that it was
\* changed: what was done is told by the code (reply.py, _check).
DoneIsSaid ==
  pc = "done" =>
    \A i \in DOMAIN Actions :
      \E c \in Outcomes : c.book = Actions[i].book /\ c.code = "ok"

=============================================================================
