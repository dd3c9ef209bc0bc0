----------------------------- MODULE GateRules -----------------------------
(***************************************************************************)
(* How a message of the chat finds its way: app/gate/rules.py, judge.py    *)
(* and shopping.py. What the regular expressions see of a message is a set *)
(* of signs; the last words of the bot are a kind.                         *)
(***************************************************************************)
EXTENDS Naturals, Sequences

\* _CART_WORDS, _POINTER, _REC_WORDS, _INTEREST, _COMPARISON, _BUY_WORDS, _CONDITION_ONLY.
Signs == {"cart", "pointer", "recommend", "interest", "comparison", "buy", "condition"}

\* What the bot said last: nothing of the kind, the broad question (asking.asked),
\* a question of the agent (asked_action), a choice of two (asked_fork).
Questions == {"none", "ask", "action", "fork"}

\* _last_bot_text, asked: only where no word of the user came after it.
LastQuestion(turns) ==
  LET said == {i \in DOMAIN turns : turns[i].role \in {"assistant", "user"}}
      last == CHOOSE i \in said : \A j \in said : j <= i
  IN IF said = {} \/ turns[last].role = "user" THEN "none" ELSE turns[last].question

Decision(kind, sure) == [kind |-> kind, sure |-> sure, card |-> FALSE]

\* decide: its rules in their order, each with what it decides.
Rules(signs, shown, asked) ==
  LET pointer == shown /\ "pointer" \in signs
      recommend == "recommend" \in signs
      action == asked = "action"
      rates == shown /\ ~action /\ ~recommend /\ "interest" \in signs
  IN <<<<"cart" \in signs, Decision(IF recommend THEN "both" ELSE "cart", TRUE)>>,
       <<asked = "ask", Decision("recommend", TRUE)>>,
       <<~action /\ "condition" \in signs, Decision("recommend", TRUE)>>,
       <<shown /\ ~recommend /\ "buy" \in signs, Decision("cart", TRUE)>>,
       <<asked = "fork" /\ ~pointer, Decision("recommend", TRUE)>>,
       <<rates /\ pointer /\ "comparison" \notin signs,
         [Decision("recommend", TRUE) EXCEPT !.card = TRUE]>>,
       <<rates, Decision("neither", FALSE)>>,
       <<pointer /\ recommend, Decision("recommend", TRUE)>>,
       <<pointer, Decision("cart", action)>>,
       <<recommend, Decision("recommend", TRUE)>>,
       <<TRUE, Decision("neither", action)>>>>

Decide(signs, shown, asked) ==
  LET rules == Rules(signs, shown, asked)
      fits == {i \in DOMAIN rules : rules[i][1]}
  IN rules[CHOOSE i \in fits : \A j \in fits : i <= j][2]

\* Mutant: a rating of a card is a wish for another book.
LaneByKind(d) == IF d.kind = "recommend" THEN "recommend" ELSE "shop"

\* Decision.lane: where it goes without a judge.
Lane(d) == IF d.card THEN "card" ELSE IF d.kind = "recommend" THEN "recommend" ELSE "shop"

Lanes == {"recommend", "shop", "card"}

\* judge.parse, and _judge_lane where the call fails or comes too late.
Judged(answer, d) == IF answer \in Lanes THEN answer ELSE Lane(d)
=============================================================================
