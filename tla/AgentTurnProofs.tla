-------------------------- MODULE AgentTurnProofs --------------------------
(***************************************************************************)
(* Proofs about AgentTurn, for every set of books and of requests, every   *)
(* limit and every number of batches and calls.                            *)
(***************************************************************************)
EXTENDS AgentTurn, SequenceFacts, SequenceTheorems, FiniteSetTheorems, TLAPS

-----------------------------------------------------------------------------
(* The cart: what each change does to a well-formed one.                   *)

\* Replacing a quantity keeps books, their order and their number.
LEMMA WithQtyOK ==
  ASSUME NEW cart, CartOK(cart), NEW b, NEW q \in 1..MaxQty
  PROVE  CartOK(WithQty(cart, b, q))
<1>0. cart \in Seq(Line) /\ Len(cart) \in Nat /\ DOMAIN cart = 1..Len(cart)
  BY DEF CartOK
<1> DEFINE set(l) == [l EXCEPT !.qty = q]
<1>a. \A l \in Line : set(l) \in Line
  BY DEF Line
<1>b. \A i \in 1..Len(cart) : cart[i] \in Line
  BY <1>0
<1> HIDE DEF set
<1>c. [i \in 1..Len(cart) |-> IF cart[i].book = b THEN set(cart[i]) ELSE cart[i]] \in Seq(Line)
  BY <1>0, <1>a, <1>b
<1>1. WithQty(cart, b, q) \in Seq(Line) /\ Len(WithQty(cart, b, q)) = Len(cart)
  BY <1>0, <1>c DEF WithQty, set
<1>2. \A i \in DOMAIN cart : WithQty(cart, b, q)[i].book = cart[i].book
  BY DEF WithQty, CartOK, Line
<1> QED BY <1>1, <1>2 DEF CartOK, WithQty

\* A book not in the cart goes on top if there is a line left for it.
LEMMA OnTopOK ==
  ASSUME NEW cart, CartOK(cart), NEW b \in Books, ~ Has(cart, b), Len(cart) < MaxLines,
         NEW q \in 1..MaxQty
  PROVE  CartOK(<<[book |-> b, qty |-> q, priced |-> TRUE]>> \o cart)
<1> DEFINE top == [book |-> b, qty |-> q, priced |-> TRUE]
           all == <<top>> \o cart
<1>1. top \in Line
  BY DEF Line
<1>2. cart \in Seq(Line) /\ Len(cart) \in Nat
  BY DEF CartOK
<1>3. all \in Seq(Line) /\ Len(all) = Len(cart) + 1
  BY <1>1, <1>2
<1>4. \A i \in DOMAIN all : all[i] = IF i = 1 THEN top ELSE cart[i - 1]
  <2> HIDE DEF top
  <2>1. <<top>> \in Seq(Line) /\ Len(<<top>>) = 1 /\ <<top>>[1] = top
    BY <1>1
  <2>2. \A i \in 1..Len(all) : all[i] = IF i <= 1 THEN <<top>>[i] ELSE cart[i - 1]
    BY <1>2, <2>1, ConcatProperties
  <2> QED BY <1>3, <2>1, <2>2
<1>5. ASSUME NEW i \in DOMAIN all, NEW j \in DOMAIN all, all[i].book = all[j].book
      PROVE  i = j
  <2>1. i \in 1..Len(cart) + 1 /\ j \in 1..Len(cart) + 1
    BY <1>3
  <2>2. CASE i = 1 /\ j # 1
    BY <2>1, <2>2, <1>4, <1>5, <1>2 DEF Has
  <2>3. CASE i # 1 /\ j = 1
    BY <2>1, <2>3, <1>4, <1>5, <1>2 DEF Has
  <2>4. CASE i # 1 /\ j # 1
    <3>1. i - 1 \in DOMAIN cart /\ j - 1 \in DOMAIN cart
      BY <2>1, <2>4, <1>2
    <3>2. cart[i - 1].book = cart[j - 1].book
      BY <2>4, <1>4, <1>5
    <3> QED BY <2>1, <3>1, <3>2 DEF CartOK
  <2> QED BY <2>2, <2>3, <2>4
<1> QED BY <1>2, <1>3, <1>5, TurnCartAssumption DEF CartOK

\* Taking a book out leaves the others as they were.
LEMMA WithoutIs ==
  ASSUME NEW cart, CartOK(cart), NEW b, Has(cart, b)
  PROVE  /\ Position(cart, b) \in 1..Len(cart) /\ cart[Position(cart, b)].book = b
         /\ Without(cart, b) \in Seq(Line) /\ Len(Without(cart, b)) = Len(cart) - 1
         /\ \A i \in 1..Len(cart) - 1 :
              Without(cart, b)[i] = IF i < Position(cart, b) THEN cart[i] ELSE cart[i + 1]
<1> DEFINE k == Position(cart, b)
           rest == Without(cart, b)
<1>1. /\ cart \in Seq(Line) /\ Len(cart) \in Nat /\ k \in 1..Len(cart)
      /\ cart[k].book = b
  BY DEF Has, Position, CartOK
<1> HIDE DEF k
<1> DEFINE low == SubSeq(cart, 1, k - 1)
           high == SubSeq(cart, k + 1, Len(cart))
<1>2. rest = low \o high
  BY DEF Without, RemoveAt, k
<1>3. low \in Seq(Line) /\ Len(low) = k - 1 /\ \A i \in 1..k - 1 : low[i] = cart[i]
  BY <1>1
<1>4. /\ high \in Seq(Line) /\ Len(high) = Len(cart) - k
      /\ \A i \in 1..Len(cart) - k : high[i] = cart[k + i]
  BY <1>1
<1> HIDE DEF rest, low, high
<1>5. /\ rest \in Seq(Line) /\ Len(rest) = Len(low) + Len(high)
      /\ \A i \in 1..Len(low) + Len(high) :
           rest[i] = IF i <= Len(low) THEN low[i] ELSE high[i - Len(low)]
  BY <1>2, <1>3, <1>4, ConcatProperties
<1>6. /\ Len(rest) = Len(cart) - 1
      /\ \A i \in 1..Len(cart) - 1 : rest[i] = IF i < k THEN cart[i] ELSE cart[i + 1]
  <2>1. Len(rest) = Len(cart) - 1
    BY <1>1, <1>3, <1>4, <1>5
  <2>2. ASSUME NEW i \in 1..Len(cart) - 1, i < k
        PROVE  rest[i] = cart[i]
    <3>1. i \in 1..Len(low) + Len(high) /\ i <= Len(low) /\ i \in 1..k - 1
      BY <1>1, <1>3, <1>4, <2>2
    <3> QED BY <3>1, <1>3, <1>5
  <2>3. ASSUME NEW i \in 1..Len(cart) - 1, ~ (i < k)
        PROVE  rest[i] = cart[i + 1]
    <3>1. /\ i \in 1..Len(low) + Len(high) /\ ~ (i <= Len(low))
          /\ i - Len(low) \in 1..Len(cart) - k /\ k + (i - Len(low)) = i + 1
      BY <1>1, <1>3, <1>4, <2>3
    <3>2. high[i - Len(low)] = cart[k + (i - Len(low))]
      BY <3>1, <1>4
    <3> QED BY <3>1, <3>2, <1>5
  <2> QED BY <2>1, <2>2, <2>3
<1> QED BY <1>1, <1>5, <1>6 DEF rest, k

\* And what is left is a cart.
LEMMA WithoutOK ==
  ASSUME NEW cart, CartOK(cart), NEW b, Has(cart, b)
  PROVE  CartOK(Without(cart, b))
<1> DEFINE k == Position(cart, b)
           rest == Without(cart, b)
<1>1. cart \in Seq(Line) /\ Len(cart) \in Nat /\ k \in 1..Len(cart)
  BY WithoutIs DEF CartOK
<1>2. /\ rest \in Seq(Line) /\ Len(rest) = Len(cart) - 1
      /\ \A i \in 1..Len(cart) - 1 : rest[i] = IF i < k THEN cart[i] ELSE cart[i + 1]
  BY WithoutIs
<1> HIDE DEF rest, k
<1>3. ASSUME NEW i \in 1..Len(cart) - 1, NEW j \in 1..Len(cart) - 1,
             rest[i].book = rest[j].book
      PROVE  i = j
  <2> DEFINE from(n) == IF n < k THEN n ELSE n + 1
  <2>1. from(i) \in DOMAIN cart /\ from(j) \in DOMAIN cart
    BY <1>1
  <2>2. cart[from(i)].book = cart[from(j)].book
    BY <1>2, <1>3
  <2>3. from(i) = from(j)
    BY <2>1, <2>2 DEF CartOK
  <2> QED BY <2>3, <1>1
<1>4. CartOK(rest)
  <2>1. DOMAIN rest = 1..Len(cart) - 1
    BY <1>1, <1>2
  <2>2. Len(cart) <= MaxLines
    BY DEF CartOK
  <2>3. Len(rest) <= MaxLines
    BY <1>1, <1>2, <2>2, TurnCartAssumption
  <2>4. \A i, j \in DOMAIN rest : rest[i].book = rest[j].book => i = j
    BY <1>3, <2>1
  <2> QED BY <1>2, <2>3, <2>4 DEF CartOK
<1> QED BY <1>4 DEF rest

\* An addition that is not refused has a valid quantity and a line for the book.
LEMMA AddOK ==
  ASSUME NEW cart, CartOK(cart), NEW offers, NEW b \in Books, NEW q,
         AddRefusal(cart, offers, b, q) = "ok"
  PROVE  CartOK(WithBook(cart, b, q))
<1>1. q \in 1..MaxQty
  BY DEF AddRefusal
<1>2. Has(cart, b) \/ Len(cart) < MaxLines
  <2> SUFFICES ASSUME ~ Has(cart, b) PROVE Len(cart) < MaxLines
    OBVIOUS
  <2>1. ~ (Len(cart) >= MaxLines)
    BY <1>1 DEF AddRefusal
  <2> QED BY <2>1, TurnCartAssumption DEF CartOK
<1>3. CASE Has(cart, b)
  BY <1>1, <1>3, WithQtyOK DEF WithBook
<1>4. CASE ~ Has(cart, b)
  BY <1>1, <1>2, <1>4, OnTopOK DEF WithBook
<1> QED BY <1>3, <1>4

LEMMA UpdateOK ==
  ASSUME NEW cart, CartOK(cart), NEW offers, NEW b, NEW q,
         UpdateRefusal(cart, offers, b, q) = "ok"
  PROVE  CartOK(WithQty(cart, b, q))
<1>1. q \in 1..MaxQty
  BY DEF UpdateRefusal
<1> QED BY <1>1, WithQtyOK

LEMMA RemoveOK ==
  ASSUME NEW cart, CartOK(cart), NEW b, RemoveRefusal(cart, b) = "ok"
  PROVE  CartOK(Without(cart, b))
<1>1. Has(cart, b)
  BY DEF RemoveRefusal
<1> QED BY <1>1, WithoutOK

LEMMA CodesKnown ==
  ASSUME NEW cart, NEW offers, NEW b, NEW q
  PROVE  /\ AddRefusal(cart, offers, b, q) \in Codes
         /\ UpdateRefusal(cart, offers, b, q) \in Codes
         /\ RemoveRefusal(cart, b) \in Codes
<1>1. ChangeRefusal(cart, offers, b, q) \in Codes
  BY DEF ChangeRefusal, Codes, RuleFailures
<1>2. AddRefusal(cart, offers, b, q) \in Codes
  BY <1>1 DEF AddRefusal, Codes, RuleFailures
<1>3. UpdateRefusal(cart, offers, b, q) \in Codes
  BY <1>1 DEF UpdateRefusal, Codes, RuleFailures
<1> QED BY <1>2, <1>3 DEF RemoveRefusal, Codes, RuleFailures

-----------------------------------------------------------------------------
(* Type correctness.                                                       *)

LEMMA CallType ==
  ASSUME NEW tool \in Tools \cup {"none"}, NEW n \in 0..MaxLines,
         NEW b \in Books \cup {None}, NEW q \in Quantities \cup {1, None},
         NEW code \in Codes, NEW shown \in Seq(Line) \cup {None}
  PROVE  Call(tool, n, b, q, code, shown) \in Calls
BY DEF Call, Calls

\* A call that names no book by its number.
LEMMA PlainCallType ==
  ASSUME NEW tool \in Tools \cup {"none"}, NEW code \in Codes,
         NEW shown \in Seq(Line) \cup {None}
  PROVE  Call(tool, 0, None, None, code, shown) \in Calls
<1>1. 0 \in 0..MaxLines
  BY TurnCartAssumption
<1> QED BY <1>1, CallType

\* A reference means a book or nothing.
LEMMA ResolveType ==
  ASSUME TypeOK, NEW ref \in Refs
  PROVE  Resolve(ref) \in Books \cup {None} /\ Number(ref) \in 0..MaxLines
<1>1. turn \in Request /\ snapshot \in Seq(Line) \cup {None}
  BY AgentTurnAssumption DEF TypeOK
<1>2. ref.src = "card" \/ ref.src = "cart" \/ ref.src = "focused"
  BY DEF Refs
<1>3. CASE ref.src = "card"
  <2>1. ref.n \in CardRanks
    BY <1>3 DEF Refs
  <2>2. turn.cards[ref.n] \subseteq Books
    BY <1>1, <2>1 DEF Request
  <2>3. CardBook(ref.n) \in Books \cup {None}
    <3>1. CASE Cardinality(turn.cards[ref.n]) = 1
      <4>1. turn.cards[ref.n] # {}
        BY <3>1, FS_EmptySet
      <4> QED BY <3>1, <4>1, <2>2 DEF CardBook
    <3>2. CASE Cardinality(turn.cards[ref.n]) # 1
      BY <3>2 DEF CardBook
    <3> QED BY <3>1, <3>2
  <2> QED BY <1>3, <2>3, TurnCartAssumption DEF Resolve, Number
<1>4. CASE ref.src = "cart"
  <2>1. ref.n \in 1..MaxLines
    BY <1>4 DEF Refs
  <2>2. CartBook(ref.n) \in Books \cup {None}
    <3>1. CASE snapshot = None \/ ref.n > Len(snapshot)
      BY <3>1 DEF CartBook
    <3>2. CASE ~ (snapshot = None \/ ref.n > Len(snapshot))
      <4>1. snapshot \in Seq(Line) /\ ref.n \in 1..Len(snapshot)
        BY <1>1, <2>1, <3>2, TurnCartAssumption
      <4>2. snapshot[ref.n] \in Line
        BY <4>1
      <4> QED BY <3>2, <4>2 DEF CartBook, Line
    <3> QED BY <3>1, <3>2
  <2> QED BY <1>4, <2>1, <2>2, TurnCartAssumption DEF Resolve, Number
<1>5. CASE ref.src = "focused"
  BY <1>1, <1>5, TurnCartAssumption DEF Resolve, Number, Request
<1> QED BY <1>2, <1>3, <1>4, <1>5

\* A write keeps the shape of the state if what it makes of the cart is a cart.
LEMMA WroteType ==
  ASSUME TypeOK, NEW tool \in WriteTools, NEW ref \in Refs,
         NEW q \in Quantities \cup {1, None}, NEW code \in Codes, NEW after,
         code = "ok" => CartOK(after), Wrote(tool, ref, q, code, after)
  PROVE  TypeOK'
<1> DEFINE c == Call(tool, Number(ref), Resolve(ref), IF code = "ok" THEN q ELSE None, code, None)
<1>1. c \in Calls
  BY CallType, ResolveType DEF WriteTools, CartTools, Tools
<1> HIDE DEF c
<1>2. batch' = Append(batch, c) /\ UNCHANGED <<turn, pc, point, history>>
  BY DEF Wrote, Running, c
<1>3. batch' \in Seq(Calls)
  BY <1>1, <1>2 DEF TypeOK
<1>4. CartOK(lines)'
  <2>1. lines' = IF code = "ok" THEN after ELSE lines
    BY DEF Wrote
  <2> QED BY <2>1 DEF TypeOK, CartOK
<1>5. changed' \in BOOLEAN /\ UNCHANGED <<snapshot, pending, picked>>
  BY DEF Wrote, TypeOK
<1> QED BY <1>2, <1>3, <1>4, <1>5 DEF TypeOK, CartOK

LEMMA RunningType ==
  ASSUME TypeOK, NEW c \in Calls, Running(c)
  PROVE  batch' \in Seq(Calls)
BY DEF Running, TypeOK

LEMMA ExecuteType ==
  ASSUME TypeOK, Execute
  PROVE  TypeOK'
<1>1. CASE NoChange
  <2>1. batch' \in Seq(Calls)
    <3>1. Call("none", 0, None, None, "NO_CHANGE", None) \in Calls
      BY PlainCallType DEF Codes
    <3> QED BY <1>1, <3>1, RunningType DEF NoChange
  <2> QED BY <1>1, <2>1 DEF NoChange, Running, TypeOK, CartOK
<1>2. CASE CartAdd
  <2>1. PICK ref \in Refs, q \in Quantities \cup {None} :
          LET b == Resolve(ref)
          IN  /\ MayWrite("add", b)
              /\ Wrote("add", ref, QtyOf(q), AddCode(b, q), WithBook(lines, b, QtyOf(q)))
    BY <1>2 DEF CartAdd
  <2> DEFINE b == Resolve(ref)
  <2>2. b \in Books
    BY <2>1, ResolveType DEF MayWrite
  <2>3. QtyOf(q) \in Quantities \cup {1, None}
    BY DEF QtyOf
  <2>4. AddCode(b, q) \in Codes
    BY CodesKnown DEF AddCode, Codes
  <2>5. AddCode(b, q) = "ok" => CartOK(WithBook(lines, b, QtyOf(q)))
    BY <2>2, AddOK DEF AddCode, TypeOK
  <2> QED BY <2>1, <2>3, <2>4, <2>5, WroteType DEF WriteTools
<1>3. CASE CartUpdate
  <2>1. PICK ref \in Refs, q \in Quantities :
          Wrote("update", ref, q, UpdateRefusal(lines, turn.offers, Resolve(ref), q),
                WithQty(lines, Resolve(ref), q))
    BY <1>3 DEF CartUpdate
  <2>2. UpdateRefusal(lines, turn.offers, Resolve(ref), q) = "ok"
          => CartOK(WithQty(lines, Resolve(ref), q))
    BY UpdateOK DEF TypeOK
  <2> QED BY <2>1, <2>2, CodesKnown, WroteType DEF WriteTools
<1>4. CASE CartRemove
  <2>1. PICK ref \in Refs :
          Wrote("remove", ref, None, RemoveRefusal(lines, Resolve(ref)),
                Without(lines, Resolve(ref)))
    BY <1>4 DEF CartRemove
  <2>2. RemoveRefusal(lines, Resolve(ref)) = "ok" => CartOK(Without(lines, Resolve(ref)))
    BY RemoveOK DEF TypeOK
  <2> QED BY <2>1, <2>2, CodesKnown, WroteType DEF WriteTools
<1>5. CASE CartView
  <2>1. ViewCall \in Calls
    BY PlainCallType DEF Codes, ViewCall, Tools, CartTools, TypeOK, CartOK
  <2>2. batch' \in Seq(Calls)
    BY <1>5, <2>1, RunningType DEF CartView
  <2> QED BY <1>5, <2>2 DEF CartView, Running, TypeOK, CartOK
<1>6. CASE SelectionPick
  <2>1. Call("pick", 0, None, None, "ok", None) \in Calls
    BY PlainCallType DEF Codes, Tools
  <2>2. batch' \in Seq(Calls)
    BY <1>6, <2>1, RunningType DEF SelectionPick
  <2>3. Candidates \subseteq Books
    BY AgentTurnAssumption DEF Candidates, TypeOK, Request
  <2>4. picked' \subseteq Books
    BY <1>6, <2>3 DEF SelectionPick, TypeOK
  <2> QED BY <1>6, <2>2, <2>4 DEF SelectionPick, Running, TypeOK, CartOK
<1> QED BY <1>1, <1>2, <1>3, <1>4, <1>5, <1>6 DEF Execute

LEMMA UndoneType ==
  ASSUME NEW calls \in Seq(Calls), NEW back \in Seq(Line)
  PROVE  Undone(calls, back) \in Seq(Calls)
<1> DEFINE new(c) == IF Written(c) THEN [c EXCEPT !.code = "BATCH_ROLLED_BACK", !.qty = None]
                     ELSE IF Viewed(c) THEN [c EXCEPT !.shown = back]
                     ELSE c
<1>1. ASSUME NEW c \in Calls PROVE new(c) \in Calls
  <2>1. [c EXCEPT !.code = "BATCH_ROLLED_BACK", !.qty = None] \in Calls
    BY DEF Calls, Codes
  <2>2. [c EXCEPT !.shown = back] \in Calls
    BY DEF Calls
  <2> QED BY <2>1, <2>2
<1>2. DOMAIN calls = 1..Len(calls) /\ Len(calls) \in Nat /\ \A i \in 1..Len(calls) : calls[i] \in Calls
  OBVIOUS
<1> HIDE DEF new
<1>3. [i \in 1..Len(calls) |-> new(calls[i])] \in Seq(Calls)
  BY <1>1, <1>2
<1> QED BY <1>2, <1>3 DEF Undone, new

LEMMA EndBatchType ==
  ASSUME TypeOK, EndBatch
  PROVE  TypeOK'
<1>1. batch \in Seq(Calls) /\ history \in Seq(Seq(Calls)) /\ point \in Seq(Line)
  BY DEF TypeOK, CartOK
<1>2. CASE UndoBatch
  <2>1. history' \in Seq(Seq(Calls))
    BY <1>1, <1>2, UndoneType DEF UndoBatch
  <2>2. CartOK(lines)'
    BY <1>2 DEF UndoBatch, TypeOK, CartOK
  <2>3. changed' \in BOOLEAN
    BY <1>2 DEF UndoBatch, WroteBefore
  <2>4. snapshot' \in Seq(Line) \cup {None} /\ pending' = None
    BY <1>1, <1>2 DEF UndoBatch, Commit, TypeOK
  <2> QED BY <2>1, <2>2, <2>3, <2>4 DEF EndBatch, TypeOK, CartOK
<1>3. CASE KeepBatch
  <2>1. history' \in Seq(Seq(Calls))
    BY <1>1, <1>3 DEF KeepBatch
  <2>2. snapshot' \in Seq(Line) \cup {None} /\ pending' = None
    BY <1>3 DEF KeepBatch, Commit, TypeOK
  <2> QED BY <1>3, <2>1, <2>2 DEF EndBatch, KeepBatch, TypeOK, CartOK
<1> QED BY <1>2, <1>3 DEF EndBatch

LEMMA TypeInit ==
  ASSUME Init
  PROVE  TypeOK
<1>1. CartOK(turn.start)
  BY AgentTurnAssumption DEF Init
<1>2. CartOK(lines) /\ CartOK(point)
  BY <1>1 DEF Init
<1>3. snapshot \in Seq(Line) \cup {None}
  BY <1>1 DEF Init, CartOK
<1>4. batch \in Seq(Calls) /\ history \in Seq(Seq(Calls))
  BY DEF Init
<1> QED BY <1>2, <1>3, <1>4 DEF Init, TypeOK

LEMMA TypeNext ==
  ASSUME TypeOK, [Next]_vars
  PROVE  TypeOK'
<1>1. CASE BeginBatch
  BY <1>1 DEF BeginBatch, TypeOK, CartOK
<1>2. CASE Answer
  BY <1>2 DEF Answer, TypeOK, CartOK
<1>3. CASE Discard
  <2>1. CartOK(turn.start)
    BY AgentTurnAssumption DEF TypeOK
  <2>2. CartOK(lines)' /\ CartOK(point)'
    BY <1>3, <2>1 DEF Discard, CartOK
  <2>3. batch' \in Seq(Calls) /\ history' \in Seq(Seq(Calls))
    BY <1>3 DEF Discard
  <2>4. turn' \in Requests
    BY <1>3 DEF Discard, TypeOK
  <2> QED BY <1>3, <2>2, <2>3, <2>4 DEF Discard, TypeOK
<1>4. CASE UNCHANGED vars
  BY <1>4 DEF vars, TypeOK, CartOK
<1> QED BY <1>1, <1>2, <1>3, <1>4, ExecuteType, EndBatchType DEF Next, Fail, NothingLeft

\* The state keeps its shape: whatever tools run and whatever is undone, the
\* cart has no book twice and never more lines than the backend allows.
THEOREM TypeCorrect == Spec => []TypeOK
<1>1. Init => TypeOK
  BY TypeInit
<1>2. TypeOK /\ [Next]_vars => TypeOK'
  BY TypeNext
<1> QED BY <1>1, <1>2, PTL DEF Spec

-----------------------------------------------------------------------------
(* Picks and writes exclude each other; batches are whole.                 *)

\* changed_cart says exactly whether a write stands, in the batches before and
\* in this one, and only one of a pick and a write can be there.
PickInv ==
  /\ TypeOK
  /\ changed <=> WroteBefore \/ AnyOf(batch, Written)
  /\ picked # {} => ~ changed
  /\ pc # "act" => batch = <<>>
  /\ AllOrNothing

\* A record more: the batch has a write that stands if it had one or the new
\* record is one.
LEMMA OneMoreCall ==
  ASSUME TypeOK, NEW c \in Calls, batch' = Append(batch, c)
  PROVE  AnyOf(batch, Written)' <=> AnyOf(batch, Written) \/ Written(c)
<1>1. batch \in Seq(Calls)
  BY DEF TypeOK
<1>2. /\ DOMAIN batch = 1..Len(batch) /\ DOMAIN batch' = 1..Len(batch) + 1 /\ Len(batch) \in Nat
      /\ \A i \in 1..Len(batch) : batch'[i] = batch[i]
      /\ batch'[Len(batch) + 1] = c
  BY <1>1
<1> QED BY <1>2 DEF AnyOf

\* A batch more in the history.
LEMMA OneMoreBatch ==
  ASSUME TypeOK, NEW calls \in Seq(Calls), history' = Append(history, calls)
  PROVE  /\ WroteBefore' <=> WroteBefore \/ AnyOf(calls, Written)
         /\ AllOrNothing /\ ~ (AnyOf(calls, Written) /\ AnyOf(calls, Refused)) => AllOrNothing'
<1>1. history \in Seq(Seq(Calls))
  BY DEF TypeOK
<1>2. /\ DOMAIN history = 1..Len(history) /\ DOMAIN history' = 1..Len(history) + 1
      /\ Len(history) \in Nat
      /\ \A k \in 1..Len(history) : history'[k] = history[k]
      /\ history'[Len(history) + 1] = calls
  BY <1>1
<1>3. WroteBefore' <=> WroteBefore \/ AnyOf(calls, Written)
  BY <1>2 DEF WroteBefore
<1>4. AllOrNothing /\ ~ (AnyOf(calls, Written) /\ AnyOf(calls, Refused)) => AllOrNothing'
  BY <1>2 DEF AllOrNothing
<1> QED BY <1>3, <1>4

\* In an undone batch no write stands.
LEMMA UndoneWritesNothing ==
  ASSUME NEW calls \in Seq(Calls), NEW back
  PROVE  ~ AnyOf(Undone(calls, back), Written)
<1>1. ASSUME NEW i \in DOMAIN calls PROVE ~ Written(Undone(calls, back)[i])
  <2> DEFINE c == calls[i]
  <2>1. c \in Calls
    OBVIOUS
  <2>2. CASE Written(c)
    <3>1. Undone(calls, back)[i] = [c EXCEPT !.code = "BATCH_ROLLED_BACK", !.qty = None]
      BY <2>2 DEF Undone
    <3>2. Undone(calls, back)[i].code = "BATCH_ROLLED_BACK"
      BY <2>1, <3>1 DEF Calls
    <3> QED BY <3>2 DEF Written
  <2>3. CASE ~ Written(c) /\ Viewed(c)
    <3>1. Undone(calls, back)[i] = [c EXCEPT !.shown = back]
      BY <2>3 DEF Undone
    <3>2. Undone(calls, back)[i].tool = "view"
      BY <2>1, <2>3, <3>1 DEF Calls, Viewed
    <3> QED BY <3>2 DEF Written, WriteTools
  <2>4. CASE ~ Written(c) /\ ~ Viewed(c)
    BY <2>4 DEF Undone
  <2> QED BY <2>2, <2>3, <2>4
<1> QED BY <1>1 DEF AnyOf, Undone

LEMMA PickInit ==
  ASSUME Init
  PROVE  PickInv
<1>1. history = <<>> /\ batch = <<>> /\ changed = FALSE /\ picked = {}
  BY DEF Init
<1>2. ~ WroteBefore /\ ~ AnyOf(batch, Written) /\ AllOrNothing
  BY <1>1 DEF WroteBefore, AnyOf, AllOrNothing
<1> QED BY <1>1, <1>2, TypeInit DEF PickInv

\* A step that leaves history and batch alone, but for calls added to it.
LEMMA SameHistory ==
  ASSUME UNCHANGED history
  PROVE  (WroteBefore' <=> WroteBefore) /\ (AllOrNothing' <=> AllOrNothing)
BY DEF WroteBefore, AllOrNothing

LEMMA SameBatch ==
  ASSUME UNCHANGED batch
  PROVE  AnyOf(batch, Written)' <=> AnyOf(batch, Written)
BY DEF AnyOf

\* A write needs that nothing is picked, and is what changed_cart says.
LEMMA WrotePick ==
  ASSUME PickInv, picked = {}, NEW tool \in WriteTools, NEW ref \in Refs,
         NEW q \in Quantities \cup {1, None}, NEW code \in Codes, NEW after,
         Wrote(tool, ref, q, code, after), TypeOK'
  PROVE  PickInv'
<1> DEFINE c == Call(tool, Number(ref), Resolve(ref), IF code = "ok" THEN q ELSE None, code, None)
<1>1. c \in Calls /\ (Written(c) <=> code = "ok")
  <2>1. c \in Calls
    BY CallType, ResolveType DEF WriteTools, CartTools, Tools, PickInv
  <2>2. c.tool = tool /\ c.code = code
    BY DEF Call
  <2> QED BY <2>1, <2>2 DEF Written
<1> HIDE DEF c
<1>2. /\ batch' = Append(batch, c) /\ UNCHANGED <<history, picked>>
      /\ changed' = (changed \/ code = "ok")
      /\ pc = "act" /\ pc' = pc
  BY DEF Wrote, Running, c
<1>3. AnyOf(batch, Written)' <=> AnyOf(batch, Written) \/ Written(c)
  BY <1>1, <1>2, OneMoreCall DEF PickInv
<1> QED BY <1>1, <1>2, <1>3, SameHistory DEF PickInv

\* A call that is no write leaves things as they were.
LEMMA ReadPick ==
  ASSUME PickInv, NEW c \in Calls, Running(c), ~ Written(c), UNCHANGED changed,
         picked' # {} => ~ changed, TypeOK'
  PROVE  PickInv'
<1>1. batch' = Append(batch, c) /\ UNCHANGED history /\ pc = "act" /\ pc' = pc
  BY DEF Running
<1>2. AnyOf(batch, Written)' <=> AnyOf(batch, Written)
  BY <1>1, OneMoreCall DEF PickInv
<1> QED BY <1>1, <1>2, SameHistory DEF PickInv

LEMMA ExecutePick ==
  ASSUME PickInv, Execute
  PROVE  PickInv'
<1>0. TypeOK /\ TypeOK'
  BY ExecuteType DEF PickInv
<1>1. CASE NoChange
  <2> DEFINE c == Call("none", 0, None, None, "NO_CHANGE", None)
  <2>1. c \in Calls /\ ~ Written(c)
    BY PlainCallType DEF Codes, Call, Written, WriteTools
  <2> QED BY <1>0, <1>1, <2>1, ReadPick DEF NoChange, PickInv
<1>2. CASE CartAdd
  <2>1. PICK ref \in Refs, q \in Quantities \cup {None} :
          LET b == Resolve(ref)
          IN  /\ MayWrite("add", b)
              /\ Wrote("add", ref, QtyOf(q), AddCode(b, q), WithBook(lines, b, QtyOf(q)))
    BY <1>2 DEF CartAdd
  <2>2. QtyOf(q) \in Quantities \cup {1, None} /\ AddCode(Resolve(ref), q) \in Codes
    BY CodesKnown DEF QtyOf, AddCode, Codes
  <2>3. picked = {}
    BY <2>1 DEF MayWrite
  <2> QED BY <1>0, <2>1, <2>2, <2>3, WrotePick DEF WriteTools
<1>3. CASE CartUpdate
  <2>1. PICK ref \in Refs, q \in Quantities :
          /\ MayWrite("update", Resolve(ref))
          /\ Wrote("update", ref, q, UpdateRefusal(lines, turn.offers, Resolve(ref), q),
                   WithQty(lines, Resolve(ref), q))
    BY <1>3 DEF CartUpdate
  <2>2. picked = {}
    BY <2>1 DEF MayWrite
  <2> QED BY <1>0, <2>1, <2>2, CodesKnown, WrotePick DEF WriteTools
<1>4. CASE CartRemove
  <2>1. PICK ref \in Refs :
          /\ MayWrite("remove", Resolve(ref))
          /\ Wrote("remove", ref, None, RemoveRefusal(lines, Resolve(ref)),
                   Without(lines, Resolve(ref)))
    BY <1>4 DEF CartRemove
  <2>2. picked = {}
    BY <2>1 DEF MayWrite
  <2> QED BY <1>0, <2>1, <2>2, CodesKnown, WrotePick DEF WriteTools
<1>5. CASE CartView
  <2>1. ViewCall \in Calls /\ ~ Written(ViewCall)
    BY <1>0, PlainCallType
    DEF Codes, ViewCall, Call, Written, Tools, CartTools, WriteTools, TypeOK, CartOK
  <2> QED BY <1>0, <1>5, <2>1, ReadPick DEF CartView, PickInv
<1>6. CASE SelectionPick
  <2> DEFINE c == Call("pick", 0, None, None, "ok", None)
  <2>1. c \in Calls /\ ~ Written(c)
    BY PlainCallType DEF Codes, Call, Written, Tools, WriteTools
  <2> QED BY <1>0, <1>6, <2>1, ReadPick DEF SelectionPick
<1> QED BY <1>1, <1>2, <1>3, <1>4, <1>5, <1>6 DEF Execute

LEMMA EndBatchPick ==
  ASSUME PickInv, EndBatch
  PROVE  PickInv'
<1>0. TypeOK /\ TypeOK'
  BY EndBatchType DEF PickInv
<1>1. batch \in Seq(Calls) /\ batch' = <<>> /\ UNCHANGED picked
  BY <1>0 DEF EndBatch, TypeOK
<1>2. ~ AnyOf(batch, Written)'
  BY <1>1 DEF AnyOf
<1>3. CASE UndoBatch
  <2> DEFINE calls == Undone(batch, point)
  <2>1. calls \in Seq(Calls)
    BY <1>0, UndoneType DEF TypeOK, CartOK
  <2>2. ~ AnyOf(calls, Written)
    BY <1>1, UndoneWritesNothing
  <2>3. history' = Append(history, calls) /\ changed' = WroteBefore
    BY <1>3 DEF UndoBatch
  <2> HIDE DEF calls
  <2>4. (WroteBefore' <=> WroteBefore) /\ AllOrNothing'
    BY <1>0, <2>1, <2>2, <2>3, OneMoreBatch DEF PickInv
  <2> QED BY <1>0, <1>1, <1>2, <2>3, <2>4 DEF PickInv
<1>4. CASE KeepBatch
  <2>1. history' = Append(history, batch) /\ UNCHANGED changed /\ ~ RollsBack(batch)
    BY <1>4 DEF KeepBatch
  <2>2. (WroteBefore' <=> WroteBefore \/ AnyOf(batch, Written)) /\ AllOrNothing'
    BY <1>0, <1>1, <2>1, OneMoreBatch DEF PickInv, RollsBack
  <2> QED BY <1>0, <1>1, <1>2, <2>1, <2>2 DEF PickInv
<1> QED BY <1>3, <1>4 DEF EndBatch

LEMMA PickNext ==
  ASSUME PickInv, [Next]_vars
  PROVE  PickInv'
<1>0. TypeOK'
  BY TypeNext DEF PickInv
<1>1. CASE BeginBatch
  <2>1. batch = <<>> /\ batch' = <<>> /\ pc' = "act" /\ UNCHANGED <<history, picked, changed>>
    BY <1>1 DEF BeginBatch, PickInv
  <2> QED BY <1>0, <2>1, SameHistory, SameBatch DEF PickInv
<1>2. CASE Answer \/ UNCHANGED vars
  BY <1>0, <1>2, SameHistory, SameBatch DEF Answer, vars, PickInv
<1>3. CASE Discard
  <2>1. history' = <<>> /\ batch' = <<>> /\ changed' = FALSE /\ picked' = {}
    BY <1>3 DEF Discard
  <2>2. ~ WroteBefore' /\ ~ AnyOf(batch, Written)' /\ AllOrNothing'
    BY <2>1 DEF WroteBefore, AnyOf, AllOrNothing
  <2> QED BY <1>0, <2>1, <2>2 DEF PickInv
<1> QED BY <1>1, <1>2, <1>3, ExecutePick, EndBatchPick DEF Next, Fail, NothingLeft

\* What the picks, the writes and changed_cart have to do with each other
\* holds in every reachable state, for every request and every bound.
THEOREM PickInvHolds == Spec => []PickInv
BY PickInit, PickNext, PTL DEF Spec

\* A turn never both picks books for the user to confirm and has a write that
\* stands (tools._separate, tools._pick, graph.act).
THEOREM PicksAndWritesApart == Spec => []PickedOrChanged
<1>1. PickInv => PickedOrChanged
  BY DEF PickInv, PickedOrChanged
<1> QED BY <1>1, PickInvHolds, PTL

\* No batch the LLM gets back has a write done beside one the cart refused
\* (graph._roll_back, graph._rolled_back).
THEOREM BatchesWhole == Spec => []AllOrNothing
<1>1. PickInv => AllOrNothing
  BY DEF PickInv
<1> QED BY <1>1, PickInvHolds, PTL

-----------------------------------------------------------------------------
(* The records of a turn make its cart.                                    *)

\* The cart that the records say there is.
Made(calls) == FoldLeft(After, turn.start, calls)

\* The carts FoldLeft builds on the way: one for each set of positions.
Making(start, calls, n, g) ==
  g = [s \in SUBSET (1..n) |->
         IF s = {} THEN start ELSE After(g[s \ {Max(s)}], calls[Max(s)])]

LEMMA MaxIsLast ==
  ASSUME NEW n \in Nat, NEW s \in SUBSET (1..n), n \in s
  PROVE  Max(s) = n
<1>1. n \in s /\ \A y \in s : n >= y
  OBVIOUS
<1>2. \A x \in s : (\A y \in s : x >= y) => x = n
  OBVIOUS
<1> QED BY <1>1, <1>2 DEF Max

LEMMA MaxIsThere ==
  ASSUME NEW n \in Nat, NEW s \in SUBSET (1..n), s # {}
  PROVE  Max(s) \in s
<1> DEFINE T == {n - i : i \in s}
<1>1. T \subseteq Nat /\ T # {}
  OBVIOUS
<1>2. PICK x \in T : \A y \in T : x <= y
  BY <1>1, LeastNumber
<1>3. PICK i \in s : x = n - i
  BY <1>2
<1>4. \A j \in s : i >= j
  <2> TAKE j \in s
  <2>1. x <= n - j
    BY <1>2
  <2> QED BY <1>3, <2>1
<1>5. \E m \in s : \A y \in s : m >= y
  BY <1>4
<1> QED BY <1>5 DEF Max

LEMMA MakingExists ==
  ASSUME NEW start, NEW calls, NEW m \in Nat
  PROVE  \E g : Making(start, calls, m, g)
<1> DEFINE T == {n \in Nat : \E g : Making(start, calls, n, g)}
<1>1. 0 \in T
  <2> DEFINE g == [s \in SUBSET (1..0) |-> start]
  <2>1. \A s \in SUBSET (1..0) : s = {}
    OBVIOUS
  <2>2. g = [s \in SUBSET (1..0) |->
              IF s = {} THEN start ELSE After(g[s \ {Max(s)}], calls[Max(s)])]
    BY <2>1
  <2> QED BY <2>2 DEF Making
<1>2. ASSUME NEW n \in Nat, n \in T
      PROVE  n + 1 \in T
  <2>1. PICK g : Making(start, calls, n, g)
    BY <1>2
  <2>2. \A s \in SUBSET (1..n) :
          g[s] = IF s = {} THEN start ELSE After(g[s \ {Max(s)}], calls[Max(s)])
    BY <2>1 DEF Making
  <2> DEFINE f == [s \in SUBSET (1..n + 1) |->
                     IF n + 1 \in s THEN After(g[s \ {n + 1}], calls[n + 1]) ELSE g[s]]
  <2>3. ASSUME NEW s \in SUBSET (1..n + 1)
        PROVE  f[s] = IF s = {} THEN start ELSE After(f[s \ {Max(s)}], calls[Max(s)])
    <3>1. CASE n + 1 \in s
      <4>1. Max(s) = n + 1 /\ s # {}
        BY <3>1, MaxIsLast
      <4>2. s \ {n + 1} \in SUBSET (1..n + 1) /\ n + 1 \notin s \ {n + 1}
        OBVIOUS
      <4>3. f[s \ {n + 1}] = g[s \ {n + 1}]
        BY <4>2
      <4>4. f[s] = After(g[s \ {n + 1}], calls[n + 1])
        BY <3>1
      <4> HIDE DEF f
      <4> QED BY <4>1, <4>3, <4>4
    <3>2. CASE n + 1 \notin s
      <4>1. s \in SUBSET (1..n)
        BY <3>2
      <4>2. f[s] = g[s]
        BY <3>2
      <4>3. CASE s = {}
        BY <2>2, <4>1, <4>2, <4>3
      <4>4. CASE s # {}
        <5>1. s \ {Max(s)} \in SUBSET (1..n + 1) /\ n + 1 \notin s \ {Max(s)}
          BY <3>2
        <5>2. f[s \ {Max(s)}] = g[s \ {Max(s)}]
          BY <5>1
        <5>3. g[s] = After(g[s \ {Max(s)}], calls[Max(s)])
          BY <2>2, <4>1, <4>4
        <5> HIDE DEF f
        <5> QED BY <4>2, <4>4, <5>2, <5>3
      <4> QED BY <4>3, <4>4
    <3> QED BY <3>1, <3>2
  <2>4. f = [s \in SUBSET (1..n + 1) |->
               IF s = {} THEN start ELSE After(f[s \ {Max(s)}], calls[Max(s)])]
    <3>1. f = [s \in SUBSET (1..n + 1) |-> f[s]]
      OBVIOUS
    <3> HIDE DEF f
    <3> QED BY <2>3, <3>1
  <2>5. Making(start, calls, n + 1, f)
    BY <2>4 DEF Making
  <2> QED BY <2>5
<1>3. Nat \subseteq T
  BY <1>1, <1>2, EveryNumber
<1> QED BY <1>3

\* What FoldLeft builds, position by position.
InTurn(start, calls, n, g) ==
  /\ g[1..0] = start
  /\ \A k \in 0..n - 1 : g[1..k + 1] = After(g[1..k], calls[k + 1])

LEMMA MakingInTurn ==
  ASSUME NEW start, NEW calls, NEW n \in Nat, NEW g, Making(start, calls, n, g)
  PROVE  InTurn(start, calls, n, g)
<1>1. \A s \in SUBSET (1..n) :
        g[s] = IF s = {} THEN start ELSE After(g[s \ {Max(s)}], calls[Max(s)])
  BY DEF Making
<1>2. g[1..0] = start
  <2>1. 1..0 \in SUBSET (1..n) /\ 1..0 = {}
    OBVIOUS
  <2> QED BY <1>1, <2>1
<1>3. ASSUME NEW k \in 0..n - 1
      PROVE  g[1..k + 1] = After(g[1..k], calls[k + 1])
  <2>1. /\ k + 1 \in Nat /\ 1..k + 1 \in SUBSET (1..n) /\ 1..k + 1 \in SUBSET (1..k + 1)
        /\ k + 1 \in 1..k + 1
    OBVIOUS
  <2>2. Max(1..k + 1) = k + 1
    BY <2>1, MaxIsLast
  <2>3. (1..k + 1) \ {k + 1} = 1..k
    OBVIOUS
  <2>4. g[1..k + 1] = After(g[(1..k + 1) \ {Max(1..k + 1)}], calls[Max(1..k + 1)])
    BY <1>1, <2>1
  <2> QED BY <2>2, <2>3, <2>4
<1> QED BY <1>2, <1>3 DEF InTurn

LEMMA FoldInTurn ==
  ASSUME NEW start, NEW calls \in Seq(Calls), NEW n \in Nat, n = Len(calls)
  PROVE  \E g : InTurn(start, calls, n, g) /\ FoldLeft(After, start, calls) = g[1..n]
<1>1. DOMAIN calls = 1..n
  OBVIOUS
<1>2. \E g : Making(start, calls, n, g)
  BY MakingExists
<1> DEFINE c == CHOOSE g : g = [s \in SUBSET (1..n) |->
                  IF s = {} THEN start ELSE After(g[s \ {Max(s)}], calls[Max(s)])]
<1>3. Making(start, calls, n, c)
  BY <1>2 DEF Making
<1>4. FoldLeft(After, start, calls) = c[1..n]
  BY <1>1 DEF FoldLeft, MapThenFoldSet
<1> QED BY <1>3, <1>4, MakingInTurn

\* One record more does what it says.
LEMMA FoldAppend ==
  ASSUME NEW start, NEW calls \in Seq(Calls), NEW c \in Calls
  PROVE  FoldLeft(After, start, Append(calls, c)) = After(FoldLeft(After, start, calls), c)
<1>1. PICK n \in Nat : n = Len(calls)
  OBVIOUS
<1>2. PICK more \in Seq(Calls) : more = Append(calls, c)
  BY AppendProperties
<1>3. /\ n + 1 = Len(more) /\ n + 1 \in Nat /\ more[n + 1] = c
      /\ \A i \in 1..n : more[i] = calls[i]
  BY <1>1, <1>2
<1>4. PICK f : InTurn(start, calls, n, f) /\ FoldLeft(After, start, calls) = f[1..n]
  BY <1>1, FoldInTurn
<1>5. PICK g : InTurn(start, more, n + 1, g) /\ FoldLeft(After, start, more) = g[1..n + 1]
  BY <1>3, FoldInTurn
<1>6. /\ f[1..0] = start
      /\ \A k \in 0..n - 1 : f[1..k + 1] = After(f[1..k], calls[k + 1])
  BY <1>4 DEF InTurn
<1>7. /\ g[1..0] = start
      /\ \A k \in 0..n + 1 - 1 : g[1..k + 1] = After(g[1..k], more[k + 1])
  BY <1>5 DEF InTurn
<1> DEFINE T == {k \in Nat : k <= n => f[1..k] = g[1..k]}
<1>8. 0 \in T
  BY <1>6, <1>7
<1>9. ASSUME NEW k \in Nat, k \in T
      PROVE  k + 1 \in T
  <2> SUFFICES ASSUME k + 1 <= n PROVE f[1..k + 1] = g[1..k + 1]
    OBVIOUS
  <2>1. k \in 0..n - 1 /\ k \in 0..n + 1 - 1 /\ k + 1 \in 1..n /\ f[1..k] = g[1..k]
    BY <1>9
  <2>2. f[1..k + 1] = After(f[1..k], calls[k + 1])
    BY <1>6, <2>1
  <2>3. g[1..k + 1] = After(g[1..k], more[k + 1])
    BY <1>7, <2>1
  <2>4. more[k + 1] = calls[k + 1]
    BY <1>3, <2>1
  <2> QED BY <2>1, <2>2, <2>3, <2>4
<1>10. Nat \subseteq T
  BY <1>8, <1>9, EveryNumber
<1>11. f[1..n] = g[1..n]
  BY <1>10
<1>12. g[1..n + 1] = After(g[1..n], more[n + 1])
  <2>1. n \in 0..n + 1 - 1
    OBVIOUS
  <2> QED BY <1>7, <2>1
<1> QED BY <1>2, <1>3, <1>4, <1>5, <1>11, <1>12

LEMMA FoldNothing ==
  ASSUME NEW start
  PROVE  FoldLeft(After, start, <<>>) = start
<1>1. <<>> \in Seq(Calls) /\ Len(<<>>) = 0
  OBVIOUS
<1>2. \E g : InTurn(start, <<>>, 0, g) /\ FoldLeft(After, start, <<>>) = g[1..0]
  <2>1. 0 \in Nat
    OBVIOUS
  <2> QED BY <1>1, <2>1, FoldInTurn
<1>3. ASSUME NEW g, InTurn(start, <<>>, 0, g)
      PROVE  g[1..0] = start
  BY <1>3 DEF InTurn
<1> QED BY <1>2, <1>3

\* Records of which no write stands change nothing.
LEMMA FoldIdle ==
  ASSUME NEW start, NEW calls \in Seq(Calls), NEW more \in Seq(Calls), ~ AnyOf(more, Written)
  PROVE  FoldLeft(After, start, calls \o more) = FoldLeft(After, start, calls)
<1> DEFINE upto(k) == calls \o SubSeq(more, 1, k)
           T == {k \in Nat : k <= Len(more) =>
                   FoldLeft(After, start, upto(k)) = FoldLeft(After, start, calls)}
<1>1. 0 \in T
  <2>1. SubSeq(more, 1, 0) = <<>>
    BY SubSeqEmpty
  <2>2. upto(0) = calls
    BY <2>1, ConcatEmptySeq
  <2> HIDE DEF upto
  <2> QED BY <2>2
<1>2. ASSUME NEW k \in Nat, k \in T
      PROVE  k + 1 \in T
  <2> SUFFICES ASSUME k + 1 <= Len(more)
               PROVE  FoldLeft(After, start, upto(k + 1)) = FoldLeft(After, start, calls)
    OBVIOUS
  <2>1. k + 1 \in 1..Len(more) /\ more[k + 1] \in Calls /\ ~ Written(more[k + 1])
    BY DEF AnyOf
  <2>2. SubSeq(more, 1, k + 1) = SubSeq(more, 1, k) \o <<more[k + 1]>>
    <3>1. 1 \in 1..Len(more) /\ k + 1 \in 1..Len(more) /\ k + 1 - 1 = k
      BY <2>1
    <3> QED BY <3>1, SubSeqRecursiveSecond
  <2>3. SubSeq(more, 1, k) \in Seq(Calls) /\ <<more[k + 1]>> \in Seq(Calls) /\ upto(k) \in Seq(Calls)
    BY <2>1
  <2>4. upto(k + 1) = upto(k) \o <<more[k + 1]>>
    BY <2>2, <2>3, ConcatAssociative
  <2>5. upto(k + 1) = Append(upto(k), more[k + 1])
    BY <2>1, <2>3, <2>4, AppendIsConcat
  <2>6. FoldLeft(After, start, upto(k)) = FoldLeft(After, start, calls)
    BY <1>2
  <2> HIDE DEF upto, T
  <2>7. FoldLeft(After, start, upto(k + 1)) = After(FoldLeft(After, start, upto(k)), more[k + 1])
    <3>1. PICK part \in Seq(Calls), c \in Calls : part = upto(k) /\ c = more[k + 1]
      BY <2>1, <2>3
    <3>2. FoldLeft(After, start, Append(part, c)) = After(FoldLeft(After, start, part), c)
      BY FoldAppend
    <3> QED BY <2>5, <3>1, <3>2
  <2>8. \A cart : After(cart, more[k + 1]) = cart
    BY <2>1 DEF After
  <2> QED BY <2>6, <2>7, <2>8 DEF T
<1>3. Nat \subseteq T
  <2> HIDE DEF T
  <2> QED BY <1>1, <1>2, EveryNumber
<1>4. Len(more) \in Nat /\ SubSeq(more, 1, Len(more)) = more
  BY SubSeqFull
<1>5. FoldLeft(After, start, upto(Len(more))) = FoldLeft(After, start, calls)
  BY <1>3, <1>4
<1> QED BY <1>4, <1>5

\* At every moment the cart is what the records of the turn make of the cart of
\* the request, and the checkpoint what those of the batches before make of it.
RecordInv ==
  /\ PickInv
  /\ lines = Made(AllCalls \o batch)
  /\ pc = "act" => point = Made(AllCalls)

LEMMA RecordsType ==
  ASSUME TypeOK
  PROVE  AllCalls \in Seq(Calls) /\ AllCalls \o batch \in Seq(Calls) /\ batch \in Seq(Calls)
<1>1. AllCalls \in Seq(Calls)
  BY FlattenType DEF AllCalls, TypeOK
<1>2. batch \in Seq(Calls)
  BY DEF TypeOK
<1> QED BY <1>1, <1>2

LEMMA OneRecordMore ==
  ASSUME TypeOK, NEW c \in Calls, Running(c)
  PROVE  /\ AllCalls' = AllCalls
         /\ (AllCalls \o batch)' = Append(AllCalls \o batch, c)
<1>1. batch' = Append(batch, c) /\ AllCalls' = AllCalls
  BY DEF Running, AllCalls
<1>2. AllCalls \in Seq(Calls) /\ batch \in Seq(Calls)
  BY RecordsType
<1>3. AllCalls \o Append(batch, c) = Append(AllCalls \o batch, c)
  <2>1. PICK a \in Seq(Calls) : a = AllCalls
    BY <1>2
  <2>2. PICK b \in Seq(Calls) : b = batch
    BY <1>2
  <2>3. a \o Append(b, c) = Append(a \o b, c)
    <3>1. Append(b, c) = b \o <<c>> /\ Append(a \o b, c) = (a \o b) \o <<c>> /\ <<c>> \in Seq(Calls)
      BY AppendIsConcat
    <3> QED BY <3>1, ConcatAssociative
  <2> QED BY <2>1, <2>2, <2>3
<1> QED BY <1>1, <1>3

\* A call whose record says what it did to the cart.
LEMMA CallRecord ==
  ASSUME RecordInv, NEW c \in Calls, Running(c), lines' = After(lines, c), PickInv'
  PROVE  RecordInv'
<1>1. TypeOK /\ lines = Made(AllCalls \o batch) /\ pc = "act" /\ point = Made(AllCalls)
  BY DEF RecordInv, PickInv, Running
<1>2. AllCalls' = AllCalls /\ (AllCalls \o batch)' = Append(AllCalls \o batch, c)
  BY <1>1, OneRecordMore
<1>3. turn' = turn /\ point' = point
  BY DEF Running
<1>4. PICK all \in Seq(Calls) : all = AllCalls \o batch
  BY <1>1, RecordsType
<1>5. PICK start : start = turn.start
  OBVIOUS
<1>6. FoldLeft(After, start, Append(all, c)) = After(FoldLeft(After, start, all), c)
  BY FoldAppend
<1>7. lines = FoldLeft(After, start, all)
  BY <1>1, <1>4, <1>5 DEF Made
<1>8. lines' = FoldLeft(After, start, Append(all, c))
  BY <1>6, <1>7
<1>9. turn'.start = start
  BY <1>3, <1>5
<1>10. Made(AllCalls \o batch)' = FoldLeft(After, start, Append(all, c))
  BY <1>2, <1>4, <1>9 DEF Made
<1>11. Made(AllCalls)' = Made(AllCalls)
  BY <1>2, <1>3 DEF Made
<1> QED BY <1>1, <1>3, <1>8, <1>10, <1>11 DEF RecordInv

\* A write that is not refused is done as its record says.
LEMMA WroteRecord ==
  ASSUME RecordInv, NEW tool \in WriteTools, NEW ref \in Refs,
         NEW q \in Quantities \cup {1, None}, NEW code \in Codes, NEW after,
         code = "ok" => after = IF tool = "remove" THEN Without(lines, Resolve(ref))
                                ELSE WithBook(lines, Resolve(ref), q),
         Wrote(tool, ref, q, code, after), PickInv'
  PROVE  RecordInv'
<1> DEFINE c == Call(tool, Number(ref), Resolve(ref), IF code = "ok" THEN q ELSE None, code, None)
<1>1. c \in Calls
  BY CallType, ResolveType DEF WriteTools, CartTools, Tools, RecordInv, PickInv
<1>2. c.tool = tool /\ c.code = code /\ c.book = Resolve(ref) /\ (code = "ok" => c.qty = q)
  BY DEF Call
<1>3. Running(c) /\ lines' = IF code = "ok" THEN after ELSE lines
  BY DEF Wrote
<1> HIDE DEF c
<1>4. Written(c) <=> code = "ok"
  BY <1>2 DEF Written
<1>5. CASE code = "ok"
  <2>1. After(lines, c) = IF tool = "remove" THEN Without(lines, c.book)
                          ELSE WithBook(lines, c.book, c.qty)
    BY <1>2, <1>4, <1>5 DEF After
  <2>2. lines' = After(lines, c)
    BY <1>2, <1>3, <1>5, <2>1
  <2> QED BY <1>1, <1>3, <2>2, CallRecord
<1>6. CASE code # "ok"
  <2>1. lines' = After(lines, c)
    BY <1>3, <1>4, <1>6 DEF After
  <2> QED BY <1>1, <1>3, <2>1, CallRecord
<1> QED BY <1>5, <1>6

\* A call that is no write leaves the cart alone.
LEMMA ReadRecord ==
  ASSUME RecordInv, NEW c \in Calls, Running(c), ~ Written(c), UNCHANGED lines, PickInv'
  PROVE  RecordInv'
<1>1. lines' = After(lines, c)
  BY DEF After
<1> QED BY <1>1, CallRecord

LEMMA ExecuteRecord ==
  ASSUME RecordInv, Execute
  PROVE  RecordInv'
<1>0. PickInv /\ TypeOK /\ PickInv'
  BY ExecutePick DEF RecordInv, PickInv
<1>1. CASE NoChange
  <2> DEFINE c == Call("none", 0, None, None, "NO_CHANGE", None)
  <2>1. c \in Calls /\ ~ Written(c)
    BY PlainCallType DEF Codes, Call, Written, WriteTools
  <2> QED BY <1>0, <1>1, <2>1, ReadRecord DEF NoChange
<1>2. CASE CartAdd
  <2>1. PICK ref \in Refs, q \in Quantities \cup {None} :
          Wrote("add", ref, QtyOf(q), AddCode(Resolve(ref), q),
                WithBook(lines, Resolve(ref), QtyOf(q)))
    BY <1>2 DEF CartAdd
  <2>2. QtyOf(q) \in Quantities \cup {1, None} /\ AddCode(Resolve(ref), q) \in Codes
    BY CodesKnown DEF QtyOf, AddCode, Codes
  <2> QED BY <1>0, <2>1, <2>2, WroteRecord DEF WriteTools
<1>3. CASE CartUpdate
  <2>1. PICK ref \in Refs, q \in Quantities :
          Wrote("update", ref, q, UpdateRefusal(lines, turn.offers, Resolve(ref), q),
                WithQty(lines, Resolve(ref), q))
    BY <1>3 DEF CartUpdate
  <2>2. UpdateRefusal(lines, turn.offers, Resolve(ref), q) = "ok"
          => WithQty(lines, Resolve(ref), q) = WithBook(lines, Resolve(ref), q)
    BY DEF UpdateRefusal, WithBook
  <2> QED BY <1>0, <2>1, <2>2, CodesKnown, WroteRecord DEF WriteTools
<1>4. CASE CartRemove
  <2>1. PICK ref \in Refs :
          Wrote("remove", ref, None, RemoveRefusal(lines, Resolve(ref)),
                Without(lines, Resolve(ref)))
    BY <1>4 DEF CartRemove
  <2> QED BY <1>0, <2>1, CodesKnown, WroteRecord DEF WriteTools
<1>5. CASE CartView
  <2>1. ViewCall \in Calls /\ ~ Written(ViewCall)
    BY <1>0, PlainCallType
    DEF Codes, ViewCall, Call, Written, Tools, CartTools, WriteTools, TypeOK, CartOK
  <2> QED BY <1>0, <1>5, <2>1, ReadRecord DEF CartView
<1>6. CASE SelectionPick
  <2> DEFINE c == Call("pick", 0, None, None, "ok", None)
  <2>1. c \in Calls /\ ~ Written(c)
    BY PlainCallType DEF Codes, Call, Written, Tools, WriteTools
  <2> QED BY <1>0, <1>6, <2>1, ReadRecord DEF SelectionPick
<1> QED BY <1>1, <1>2, <1>3, <1>4, <1>5, <1>6 DEF Execute

\* The batch goes into the history, as it is or undone.
LEMMA OneBatchMore ==
  ASSUME TypeOK, NEW calls \in Seq(Calls), history' = Append(history, calls), batch' = <<>>
  PROVE  /\ AllCalls' = AllCalls \o calls
         /\ (AllCalls \o batch)' = AllCalls \o calls
<1>1. history \in Seq(Seq(Calls))
  BY DEF TypeOK
<1>2. AllCalls' = AllCalls \o calls
  <2>1. PICK h \in Seq(Seq(Calls)) : h = history
    BY <1>1
  <2>2. FlattenSeq(Append(h, calls)) = FlattenSeq(h) \o calls
    BY FlattenAppend
  <2>3. AllCalls' = FlattenSeq(Append(h, calls)) /\ AllCalls = FlattenSeq(h)
    BY <2>1 DEF AllCalls
  <2> QED BY <2>2, <2>3
<1>3. PICK a \in Seq(Calls) : a = AllCalls
  BY RecordsType
<1>4. (a \o calls) \o <<>> = a \o calls
  BY ConcatProperties, ConcatEmptySeq
<1> QED BY <1>2, <1>3, <1>4

LEMMA EndBatchRecord ==
  ASSUME RecordInv, EndBatch
  PROVE  RecordInv'
<1>1. /\ PickInv /\ TypeOK /\ PickInv' /\ pc' = "choose" /\ batch' = <<>> /\ turn' = turn
      /\ lines = Made(AllCalls \o batch) /\ point = Made(AllCalls)
  BY EndBatchPick DEF RecordInv, PickInv, EndBatch
<1>2. PICK all \in Seq(Calls) : all = AllCalls
  BY <1>1, RecordsType
<1>3. PICK start : start = turn.start
  OBVIOUS
<1>4. turn'.start = start
  BY <1>1, <1>3
<1>5. ASSUME NEW calls \in Seq(Calls), history' = Append(history, calls),
             lines' = FoldLeft(After, start, all \o calls)
      PROVE  RecordInv'
  <2>1. (AllCalls \o batch)' = all \o calls
    BY <1>1, <1>2, <1>5, OneBatchMore
  <2>2. Made(AllCalls \o batch)' = FoldLeft(After, start, all \o calls)
    BY <1>4, <2>1 DEF Made
  <2> QED BY <1>1, <1>5, <2>2 DEF RecordInv
<1>6. CASE UndoBatch
  <2>1. PICK calls \in Seq(Calls) : calls = Undone(batch, point)
    BY <1>1, UndoneType DEF TypeOK, CartOK
  <2>2. ~ AnyOf(calls, Written)
    <3>1. batch \in Seq(Calls)
      BY <1>1 DEF TypeOK
    <3> QED BY <2>1, <3>1, UndoneWritesNothing
  <2>3. FoldLeft(After, start, all \o calls) = FoldLeft(After, start, all)
    BY <2>2, FoldIdle
  <2>4. lines' = FoldLeft(After, start, all)
    BY <1>1, <1>2, <1>3, <1>6 DEF UndoBatch, Made
  <2>5. history' = Append(history, calls)
    BY <1>6, <2>1 DEF UndoBatch
  <2> QED BY <1>5, <2>3, <2>4, <2>5
<1>7. CASE KeepBatch
  <2>1. PICK calls \in Seq(Calls) : calls = batch
    BY <1>1 DEF TypeOK
  <2>2. lines' = FoldLeft(After, start, all \o calls)
    BY <1>1, <1>2, <1>3, <1>7, <2>1 DEF KeepBatch, Made
  <2>3. history' = Append(history, calls)
    BY <1>7, <2>1 DEF KeepBatch
  <2> QED BY <1>5, <2>2, <2>3
<1> QED BY <1>6, <1>7 DEF EndBatch

\* Without records the cart is that of the request.
LEMMA NoRecords ==
  ASSUME NEW h, h = <<>>
  PROVE  FlattenSeq(h) \o <<>> = <<>> /\ FlattenSeq(h) = <<>>
<1>1. FlattenSeq(h) = <<>>
  BY DEF FlattenSeq
<1> QED BY <1>1

LEMMA RecordInit ==
  ASSUME Init
  PROVE  RecordInv
<1>1. lines = turn.start /\ point = turn.start /\ batch = <<>> /\ history = <<>>
  BY DEF Init
<1>2. AllCalls \o batch = <<>>
  BY <1>1, NoRecords DEF AllCalls
<1>3. Made(<<>>) = turn.start
  BY FoldNothing DEF Made
<1>4. Made(AllCalls \o batch) = Made(<<>>)
  BY <1>2
<1>5. pc # "act"
  BY DEF Init
<1> QED BY <1>1, <1>3, <1>4, <1>5, PickInit DEF RecordInv

LEMMA RecordNext ==
  ASSUME RecordInv, [Next]_vars
  PROVE  RecordInv'
<1>0. PickInv /\ PickInv'
  BY PickNext DEF RecordInv
<1>1. CASE BeginBatch
  <2>1. /\ batch = <<>> /\ batch' = <<>> /\ history' = history /\ lines' = lines
        /\ point' = lines /\ turn' = turn
    BY <1>0, <1>1 DEF BeginBatch, PickInv
  <2>2. AllCalls' = AllCalls /\ (AllCalls \o batch)' = AllCalls \o batch
    BY <2>1 DEF AllCalls
  <2>3. PICK all \in Seq(Calls) : all = AllCalls
    BY <1>0, RecordsType DEF PickInv
  <2>4. all \o <<>> = all
    BY ConcatEmptySeq
  <2>5. AllCalls \o batch = AllCalls
    BY <2>1, <2>3, <2>4
  <2>6. Made(AllCalls)' = Made(AllCalls) /\ Made(AllCalls \o batch)' = Made(AllCalls \o batch)
    BY <2>1, <2>2 DEF Made
  <2>7. Made(AllCalls \o batch) = Made(AllCalls) /\ lines = Made(AllCalls \o batch)
    BY <2>5 DEF RecordInv
  <2> QED BY <1>0, <2>1, <2>6, <2>7 DEF RecordInv
<1>2. CASE Answer \/ UNCHANGED vars
  <2>1. UNCHANGED <<lines, point, turn, batch, history>> /\ (pc' = "act" => pc = "act")
    BY <1>2 DEF Answer, vars
  <2>2. AllCalls' = AllCalls /\ (AllCalls \o batch)' = AllCalls \o batch
    BY <2>1 DEF AllCalls
  <2>3. Made(AllCalls)' = Made(AllCalls) /\ Made(AllCalls \o batch)' = Made(AllCalls \o batch)
    BY <2>1, <2>2 DEF Made
  <2> QED BY <1>0, <2>1, <2>3 DEF RecordInv
<1>3. CASE Discard
  <2>1. lines' = turn.start /\ batch' = <<>> /\ history' = <<>> /\ turn' = turn /\ pc' = "failed"
    BY <1>3 DEF Discard
  <2>2. (AllCalls \o batch)' = <<>>
    BY <2>1, NoRecords DEF AllCalls
  <2>3. Made(AllCalls \o batch)' = turn.start
    BY <2>1, <2>2, FoldNothing DEF Made
  <2> QED BY <1>0, <2>1, <2>3 DEF RecordInv
<1> QED BY <1>1, <1>2, <1>3, ExecuteRecord, EndBatchRecord DEF Next, Fail, NothingLeft

\* The writes recorded as done, applied in order to the cart of the request, give
\* the cart of the turn: however many batches there were, whatever was undone
\* (graph.act, graph._roll_back, graph._rolled_back).
THEOREM RecordsMakeCart == Spec => []RecordsMakeTheCart
<1>1. ASSUME RecordInv PROVE RecordsMakeTheCart
  <2> SUFFICES ASSUME Settled PROVE lines = FoldLeft(After, turn.start, AllCalls)
    BY DEF RecordsMakeTheCart
  <2>1. batch = <<>> /\ TypeOK
    BY <1>1 DEF Settled, RecordInv, PickInv
  <2>2. PICK all \in Seq(Calls) : all = AllCalls
    BY <2>1, RecordsType
  <2>3. all \o <<>> = all
    BY ConcatEmptySeq
  <2>4. AllCalls \o batch = AllCalls
    BY <2>1, <2>2, <2>3
  <2> QED BY <1>1, <2>4 DEF RecordInv, Made
<1> QED BY <1>1, RecordInit, RecordNext, PTL DEF Spec

-----------------------------------------------------------------------------
(* What the LLM has been shown.                                            *)

LastSeen(calls, k) ==
  /\ k \in DOMAIN calls /\ Viewed(calls[k])
  /\ \A j \in DOMAIN calls : j > k => ~ Viewed(calls[j])

LEMMA LastIsThere ==
  ASSUME NEW calls \in Seq(Calls), NEW k, LastSeen(calls, k)
  PROVE  SelectLastInSeq(calls, Viewed) = k /\ k # 0
<1> DEFINE I == {i \in 1..Len(calls) : Viewed(calls[i])}
<1>1. Len(calls) \in Nat /\ DOMAIN calls = 1..Len(calls)
  OBVIOUS
<1>2. k \in I /\ I \in SUBSET (1..k) /\ k \in Nat /\ I # {} /\ k # 0
  BY <1>1 DEF LastSeen
<1>3. SelectLastInSeq(calls, Viewed) = IF I # {} THEN Max(I) ELSE 0
  BY DEF SelectLastInSeq
<1> HIDE DEF I
<1>4. Max(I) = k
  BY <1>2, MaxIsLast
<1> QED BY <1>2, <1>3, <1>4

LEMMA NoneIsThere ==
  ASSUME NEW calls \in Seq(Calls), ~ AnyOf(calls, Viewed)
  PROVE  SelectLastInSeq(calls, Viewed) = 0
<1>1. {i \in 1..Len(calls) : Viewed(calls[i])} = {}
  BY DEF AnyOf
<1> QED BY <1>1 DEF SelectLastInSeq

LEMMA SomeIsLast ==
  ASSUME NEW calls \in Seq(Calls), AnyOf(calls, Viewed)
  PROVE  \E k : LastSeen(calls, k)
<1> DEFINE I == {i \in 1..Len(calls) : Viewed(calls[i])}
<1>1. PICK n \in Nat : n = Len(calls) /\ DOMAIN calls = 1..n
  OBVIOUS
<1>2. I \in SUBSET (1..n) /\ I # {}
  BY <1>1 DEF AnyOf
<1>3. \E m \in I : \A i \in I : m >= i
  <2> DEFINE T == {n - i : i \in I}
  <2>1. T \subseteq Nat /\ T # {}
    BY <1>2
  <2>2. PICK x \in T : \A y \in T : x <= y
    BY <2>1, LeastNumber
  <2>3. PICK m \in I : x = n - m
    BY <2>2
  <2>4. ASSUME NEW i \in I PROVE m >= i
    <3>1. x <= n - i /\ i \in Nat /\ m \in Nat
      BY <1>2, <2>2
    <3> QED BY <2>3, <3>1
  <2> QED BY <2>4
<1>4. PICK m \in I : \A i \in I : m >= i
  BY <1>3
<1>5. ASSUME NEW j \in DOMAIN calls, j > m PROVE ~ Viewed(calls[j])
  <2>1. j \in 1..n /\ m \in 1..n /\ ~ (m >= j)
    BY <1>1, <1>2, <1>5
  <2>2. j \notin I
    BY <1>4, <2>1
  <2> QED BY <1>1, <2>1, <2>2
<1>6. m \in DOMAIN calls /\ Viewed(calls[m])
  OBVIOUS
<1> QED BY <1>5, <1>6 DEF LastSeen

\* The two things LastShown can be.
LEMMA LastShownIs ==
  ASSUME NEW calls \in Seq(Calls), NEW e
  PROVE  /\ ~ AnyOf(calls, Viewed) => LastShown(calls, e) = e
         /\ \A k : LastSeen(calls, k) => LastShown(calls, e) = calls[k].shown
<1>1. ASSUME ~ AnyOf(calls, Viewed) PROVE LastShown(calls, e) = e
  <2>1. SelectLastInSeq(calls, Viewed) = 0
    BY <1>1, NoneIsThere
  <2> QED BY <2>1 DEF LastShown
<1>2. ASSUME NEW k, LastSeen(calls, k)
      PROVE  LastShown(calls, e) = calls[k].shown
  <2>1. SelectLastInSeq(calls, Viewed) = k /\ k # 0
    BY <1>2, LastIsThere
  <2> QED BY <2>1 DEF LastShown
<1> QED BY <1>1, <1>2

\* Of two runs of calls the later one counts, if it has a view.
LEMMA LastShownConcat ==
  ASSUME NEW a \in Seq(Calls), NEW b \in Seq(Calls), NEW e
  PROVE  LastShown(a \o b, e) = LastShown(b, LastShown(a, e))
<1>1. PICK m \in Nat, n \in Nat : m = Len(a) /\ n = Len(b)
  OBVIOUS
<1>2. PICK all \in Seq(Calls) : all = a \o b
  BY ConcatProperties
<1>3. /\ DOMAIN a = 1..m /\ DOMAIN b = 1..n /\ DOMAIN all = 1..m + n
      /\ \A i \in 1..m : all[i] = a[i]
      /\ \A i \in 1..n : all[m + i] = b[i]
  BY <1>1, <1>2
<1>4. CASE AnyOf(b, Viewed)
  <2>1. PICK k : LastSeen(b, k)
    BY <1>4, SomeIsLast
  <2>2. k \in 1..n /\ m + k \in DOMAIN all /\ all[m + k] = b[k]
    BY <1>3, <2>1 DEF LastSeen
  <2>3. ASSUME NEW j \in DOMAIN all, j > m + k PROVE ~ Viewed(all[j])
    <3>1. j - m \in 1..n /\ j - m > k /\ all[m + (j - m)] = all[j]
      BY <1>3, <2>2, <2>3
    <3> QED BY <1>3, <2>1, <3>1 DEF LastSeen
  <2>4. LastShown(all, e) = all[m + k].shown
    <3>1. LastSeen(all, m + k)
      BY <2>1, <2>2, <2>3 DEF LastSeen
    <3> QED BY <3>1, LastShownIs
  <2>5. LastShown(b, LastShown(a, e)) = b[k].shown
    BY <2>1, LastShownIs
  <2> QED BY <1>2, <2>2, <2>4, <2>5
<1>5. CASE ~ AnyOf(b, Viewed)
  <2>1. LastShown(b, LastShown(a, e)) = LastShown(a, e)
    BY <1>5, LastShownIs
  <2>2. ASSUME NEW j \in DOMAIN all, j > m PROVE ~ Viewed(all[j])
    <3>1. j - m \in 1..n /\ all[m + (j - m)] = all[j]
      BY <1>3, <2>2
    <3> QED BY <1>3, <1>5, <3>1 DEF AnyOf
  <2>3. CASE AnyOf(a, Viewed)
    <3>1. PICK k : LastSeen(a, k)
      BY <2>3, SomeIsLast
    <3>2. ASSUME NEW j \in DOMAIN all, j > k PROVE ~ Viewed(all[j])
      <4>1. CASE j > m
        BY <2>2, <4>1
      <4>2. CASE ~ (j > m)
        <5>1. j \in DOMAIN a /\ all[j] = a[j]
          BY <1>3, <4>2
        <5> QED BY <3>1, <3>2, <5>1 DEF LastSeen
      <4> QED BY <4>1, <4>2
    <3>3. k \in DOMAIN all /\ all[k] = a[k]
      BY <1>3, <3>1 DEF LastSeen
    <3>4. LastShown(all, e) = all[k].shown
      <4>1. LastSeen(all, k)
        BY <3>1, <3>2, <3>3 DEF LastSeen
      <4> QED BY <4>1, LastShownIs
    <3>5. LastShown(a, e) = a[k].shown
      BY <3>1, LastShownIs
    <3> QED BY <1>2, <2>1, <3>3, <3>4, <3>5
  <2>4. CASE ~ AnyOf(a, Viewed)
    <3>1. ASSUME NEW j \in DOMAIN all PROVE ~ Viewed(all[j])
      <4>1. CASE j > m
        BY <2>2, <4>1
      <4>2. CASE ~ (j > m)
        <5>1. j \in DOMAIN a /\ all[j] = a[j]
          BY <1>3, <4>2
        <5> QED BY <2>4, <5>1 DEF AnyOf
      <4> QED BY <4>1, <4>2
    <3>2. ~ AnyOf(all, Viewed)
      BY <3>1 DEF AnyOf
    <3>3. LastShown(all, e) = e /\ LastShown(a, e) = e
      BY <2>4, <3>2, LastShownIs
    <3> QED BY <1>2, <2>1, <3>3
  <2> QED BY <2>3, <2>4
<1> QED BY <1>4, <1>5

\* One call more.
LEMMA LastShownAppend ==
  ASSUME NEW calls \in Seq(Calls), NEW c \in Calls, NEW e
  PROVE  LastShown(Append(calls, c), e) = IF Viewed(c) THEN c.shown ELSE LastShown(calls, e)
<1>1. PICK one \in Seq(Calls) : one = <<c>>
  <2>1. <<c>> \in Seq(Calls)
    OBVIOUS
  <2> QED BY <2>1
<1>2. DOMAIN one = {1} /\ one[1] = c /\ Append(calls, c) = calls \o one
  BY <1>1, AppendIsConcat
<1>3. LastShown(Append(calls, c), e) = LastShown(one, LastShown(calls, e))
  BY <1>2, LastShownConcat
<1>4. CASE Viewed(c)
  <2>1. LastSeen(one, 1)
    BY <1>2, <1>4 DEF LastSeen
  <2>2. LastShown(one, LastShown(calls, e)) = one[1].shown
    BY <2>1, LastShownIs
  <2> QED BY <1>2, <1>3, <1>4, <2>2
<1>5. CASE ~ Viewed(c)
  <2>1. ~ AnyOf(one, Viewed)
    BY <1>2, <1>5 DEF AnyOf
  <2> QED BY <1>3, <1>5, <2>1, LastShownIs
<1> QED BY <1>4, <1>5

\* What an undone batch has at each place.
LEMMA UndoneCall ==
  ASSUME NEW calls \in Seq(Calls), NEW back \in Seq(Line), NEW i \in DOMAIN calls
  PROVE  /\ DOMAIN Undone(calls, back) = DOMAIN calls
         /\ Undone(calls, back)[i].n = calls[i].n
         /\ Undone(calls, back)[i].book = calls[i].book
         /\ Viewed(Undone(calls, back)[i]) <=> Viewed(calls[i])
         /\ Viewed(calls[i]) => Undone(calls, back)[i].shown = back
<1> DEFINE c == calls[i]
<1>1. c \in Calls /\ DOMAIN Undone(calls, back) = DOMAIN calls
  BY DEF Undone
<1>2. CASE Written(c)
  <2>1. Undone(calls, back)[i] = [c EXCEPT !.code = "BATCH_ROLLED_BACK", !.qty = None]
    BY <1>2 DEF Undone
  <2>2. c.tool # "view" /\ ~ Viewed(c)
    BY <1>2 DEF Written, WriteTools, Viewed
  <2>3. /\ Undone(calls, back)[i].n = c.n /\ Undone(calls, back)[i].book = c.book
        /\ Undone(calls, back)[i].tool = c.tool
    BY <1>1, <2>1 DEF Calls
  <2> QED BY <1>1, <2>2, <2>3 DEF Viewed
<1>3. CASE ~ Written(c) /\ Viewed(c)
  <2>1. Undone(calls, back)[i] = [c EXCEPT !.shown = back]
    BY <1>3 DEF Undone
  <2>2. /\ Undone(calls, back)[i].n = c.n /\ Undone(calls, back)[i].book = c.book
        /\ Undone(calls, back)[i].tool = c.tool /\ Undone(calls, back)[i].code = c.code
        /\ Undone(calls, back)[i].shown = back
    BY <1>1, <2>1 DEF Calls
  <2> QED BY <1>1, <1>3, <2>2 DEF Viewed
<1>4. CASE ~ Written(c) /\ ~ Viewed(c)
  BY <1>1, <1>4 DEF Undone
<1> QED BY <1>2, <1>3, <1>4

LEMMA LastShownUndone ==
  ASSUME NEW calls \in Seq(Calls), NEW back \in Seq(Line), NEW e
  PROVE  LastShown(Undone(calls, back), e) = IF AnyOf(calls, Viewed) THEN back ELSE e
<1>1. PICK new \in Seq(Calls) : new = Undone(calls, back)
  BY UndoneType
<1>2. /\ DOMAIN new = DOMAIN calls
      /\ \A i \in DOMAIN calls : /\ Viewed(new[i]) <=> Viewed(calls[i])
                                 /\ Viewed(calls[i]) => new[i].shown = back
  <2>1. DOMAIN new = DOMAIN calls
    BY <1>1 DEF Undone
  <2> QED BY <1>1, <2>1, UndoneCall
<1>3. CASE AnyOf(calls, Viewed)
  <2>1. PICK k : LastSeen(calls, k)
    BY <1>3, SomeIsLast
  <2>2. LastSeen(new, k) /\ new[k].shown = back
    BY <1>2, <2>1 DEF LastSeen
  <2>3. LastShown(new, e) = new[k].shown
    BY <2>2, LastShownIs
  <2> QED BY <1>1, <1>3, <2>2, <2>3
<1>4. CASE ~ AnyOf(calls, Viewed)
  <2>1. ~ AnyOf(new, Viewed)
    BY <1>2, <1>4 DEF AnyOf
  <2> QED BY <1>1, <1>4, <2>1, LastShownIs
<1> QED BY <1>3, <1>4

\* The cart last shown in the batches before this one.
Base == LastShown(AllCalls, turn.start)

\* Numbers in these calls count the books of this cart.
CountsRight(calls, cart) ==
  \A i \in DOMAIN calls :
    calls[i].n # 0 /\ calls[i].book # None =>
      calls[i].n \in DOMAIN cart /\ cart[calls[i].n].book = calls[i].book

\* A view after which nothing was written shows this cart.
StillTrue(calls, cart) ==
  \A i \in DOMAIN calls :
    Viewed(calls[i]) /\ (\A j \in DOMAIN calls : j > i => ~ Written(calls[j]))
      => calls[i].shown = cart

\* What the LLM counts in is the last cart a batch has shown it, what it will
\* count in is the last the running batch has, and a view nothing was written
\* after shows the cart, both that of the turn and that of the checkpoint.
ShownInv ==
  /\ PickInv
  /\ snapshot # None => snapshot = Base
  /\ pending = LastShown(batch, None)
  /\ \A i \in DOMAIN batch : Viewed(batch[i]) => batch[i].shown # None
  /\ CountsRight(batch, Base)
  /\ \A k \in DOMAIN history : CountsRight(history[k], ShownBefore(k))
  /\ StillTrue(AllCalls \o batch, lines)
  /\ pc = "act" => StillTrue(AllCalls, point)

LEMMA SameBase ==
  ASSUME UNCHANGED <<turn, history>>
  PROVE  /\ AllCalls' = AllCalls /\ Base' = Base
         /\ \A k : ShownBefore(k)' = ShownBefore(k)
<1>1. AllCalls' = AllCalls
  BY DEF AllCalls
<1>2. Base' = Base
  BY <1>1 DEF Base, LastShown
<1>3. \A k : ShownBefore(k)' = ShownBefore(k)
  BY DEF ShownBefore, LastShown
<1> QED BY <1>1, <1>2, <1>3

LEMMA StillTrueAppend ==
  ASSUME NEW calls \in Seq(Calls), NEW c \in Calls, NEW cart, NEW new,
         StillTrue(calls, cart), Viewed(c) => c.shown = cart,
         Written(c) \/ new = cart
  PROVE  StillTrue(Append(calls, c), new)
<1>1. PICK n \in Nat : n = Len(calls)
  OBVIOUS
<1>2. PICK all \in Seq(Calls) : all = Append(calls, c)
  BY AppendProperties
<1>3. /\ DOMAIN calls = 1..n /\ DOMAIN all = 1..n + 1 /\ all[n + 1] = c
      /\ \A i \in 1..n : all[i] = calls[i]
  BY <1>1, <1>2
<1>4. ASSUME NEW i \in DOMAIN all, Viewed(all[i]),
             \A j \in DOMAIN all : j > i => ~ Written(all[j])
      PROVE  all[i].shown = new
  <2>1. CASE i = n + 1
    <3>1. Viewed(c)
      BY <1>3, <1>4, <2>1
    <3>2. ~ Written(c)
      BY <3>1 DEF Viewed, Written, WriteTools
    <3> QED BY <1>3, <2>1, <3>1, <3>2
  <2>2. CASE i # n + 1
    <3>1. i \in 1..n /\ all[i] = calls[i] /\ ~ Written(c)
      BY <1>3, <1>4, <2>2
    <3>2. ASSUME NEW j \in DOMAIN calls, j > i PROVE ~ Written(calls[j])
      BY <1>3, <1>4, <3>1, <3>2
    <3>3. calls[i].shown = cart
      BY <1>3, <1>4, <3>1, <3>2 DEF StillTrue
    <3> QED BY <3>1, <3>3
  <2> QED BY <2>1, <2>2
<1> QED BY <1>2, <1>4 DEF StillTrue

\* A call that counts right, and shows the cart if it is a view.
LEMMA CallShown ==
  ASSUME ShownInv, NEW c \in Calls, Running(c), PickInv', UNCHANGED snapshot,
         CountsRight(<<c>>, Base),
         Viewed(c) => c.shown = lines /\ lines # None,
         pending' = IF Viewed(c) THEN c.shown ELSE pending,
         Written(c) \/ UNCHANGED lines
  PROVE  ShownInv'
<1>1. TypeOK /\ turn' = turn /\ history' = history /\ point' = point /\ pc = "act" /\ pc' = pc
  BY DEF ShownInv, PickInv, Running
<1>2. batch' = Append(batch, c) /\ batch \in Seq(Calls)
  BY <1>1 DEF Running, TypeOK
<1>3. AllCalls' = AllCalls /\ Base' = Base /\ \A k : ShownBefore(k)' = ShownBefore(k)
  BY <1>1, SameBase
<1>4. PICK b \in Seq(Calls), n \in Nat : b = batch /\ n = Len(b)
  BY <1>2
<1>5. /\ DOMAIN batch = 1..n /\ DOMAIN batch' = 1..n + 1 /\ batch'[n + 1] = c
      /\ \A i \in 1..n : batch'[i] = batch[i]
  BY <1>2, <1>4
<1>6. (snapshot # None => snapshot = Base)'
  BY <1>3 DEF ShownInv
<1>7. (pending = LastShown(batch, None))'
  <2>1. LastShown(Append(b, c), None) = IF Viewed(c) THEN c.shown ELSE LastShown(b, None)
    BY LastShownAppend
  <2>2. LastShown(batch, None)' = LastShown(Append(b, c), None)
    BY <1>2, <1>4 DEF LastShown
  <2>3. pending = LastShown(b, None)
    BY <1>4 DEF ShownInv
  <2> QED BY <2>1, <2>2, <2>3
<1>8. (\A i \in DOMAIN batch : Viewed(batch[i]) => batch[i].shown # None)'
  <2>1. ASSUME NEW i \in DOMAIN batch', Viewed(batch'[i])
        PROVE  batch'[i].shown # None
    <3>1. CASE i = n + 1
      BY <1>5, <2>1, <3>1
    <3>2. CASE i # n + 1
      <4>1. i \in 1..n /\ batch'[i] = batch[i]
        BY <1>5, <3>2
      <4> QED BY <1>5, <2>1, <4>1 DEF ShownInv
    <3> QED BY <3>1, <3>2
  <2> QED BY <2>1 DEF Viewed
<1>9. CountsRight(batch, Base)'
  <2>1. /\ c.n # 0 /\ c.book # None => c.n \in DOMAIN Base /\ Base[c.n].book = c.book
    <3>1. 1 \in DOMAIN <<c>> /\ <<c>>[1] = c
      OBVIOUS
    <3> QED BY <3>1 DEF CountsRight
  <2>2. ASSUME NEW i \in DOMAIN batch', batch'[i].n # 0, batch'[i].book # None
        PROVE  batch'[i].n \in DOMAIN Base /\ Base[batch'[i].n].book = batch'[i].book
    <3>1. CASE i = n + 1
      BY <1>5, <2>1, <2>2, <3>1
    <3>2. CASE i # n + 1
      <4>1. i \in 1..n /\ batch'[i] = batch[i]
        BY <1>5, <3>2
      <4> QED BY <1>5, <2>2, <4>1 DEF ShownInv, CountsRight
    <3> QED BY <3>1, <3>2
  <2> QED BY <1>3, <2>2 DEF CountsRight
<1>10. (\A k \in DOMAIN history : CountsRight(history[k], ShownBefore(k)))'
  BY <1>1, <1>3 DEF ShownInv, CountsRight
<1>11. StillTrue(AllCalls \o batch, lines)'
  <2>1. PICK all \in Seq(Calls) : all = AllCalls \o batch
    BY <1>1, RecordsType
  <2>2. (AllCalls \o batch)' = Append(all, c)
    BY <1>1, <2>1, OneRecordMore
  <2>3. StillTrue(all, lines)
    BY <2>1 DEF ShownInv
  <2>4. StillTrue(Append(all, c), lines')
    BY <2>3, StillTrueAppend
  <2> QED BY <2>2, <2>4 DEF StillTrue
<1>12. (pc = "act" => StillTrue(AllCalls, point))'
  BY <1>1, <1>3 DEF ShownInv, StillTrue
<1> QED BY <1>6, <1>7, <1>8, <1>9, <1>10, <1>11, <1>12 DEF ShownInv

\* A reference by number means the book of that number in the cart shown.
LEMMA NumbersRight ==
  ASSUME ShownInv, NEW ref \in Refs, NEW c \in Calls,
         c.n = Number(ref), c.book = Resolve(ref)
  PROVE  CountsRight(<<c>>, Base)
<1> SUFFICES ASSUME c.n # 0, c.book # None
             PROVE  c.n \in DOMAIN Base /\ Base[c.n].book = c.book
  BY DEF CountsRight
<1>1. ref.src = "cart"
  BY DEF Number
<1>2. ref.n \in 1..MaxLines /\ c.n = ref.n /\ c.book = CartBook(ref.n)
  BY <1>1 DEF Refs, Number, Resolve
<1>3. snapshot # None /\ ~ (ref.n > Len(snapshot)) /\ c.book = snapshot[ref.n].book
  BY <1>2 DEF CartBook
<1>4. snapshot \in Seq(Line) /\ snapshot = Base
  BY <1>3 DEF ShownInv, PickInv, TypeOK
<1>5. ref.n \in DOMAIN snapshot
  BY <1>2, <1>3, <1>4, TurnCartAssumption
<1> QED BY <1>2, <1>3, <1>4, <1>5

LEMMA WroteShown ==
  ASSUME ShownInv, NEW tool \in WriteTools, NEW ref \in Refs,
         NEW q \in Quantities \cup {1, None}, NEW code \in Codes, NEW after,
         Wrote(tool, ref, q, code, after), PickInv'
  PROVE  ShownInv'
<1> DEFINE c == Call(tool, Number(ref), Resolve(ref), IF code = "ok" THEN q ELSE None, code, None)
<1>1. c \in Calls
  BY CallType, ResolveType DEF WriteTools, CartTools, Tools, ShownInv, PickInv
<1>2. c.tool = tool /\ c.code = code /\ c.book = Resolve(ref) /\ c.n = Number(ref)
  BY DEF Call
<1>3. Running(c) /\ UNCHANGED <<snapshot, pending>> /\ lines' = IF code = "ok" THEN after ELSE lines
  BY DEF Wrote
<1> HIDE DEF c
<1>4. ~ Viewed(c) /\ (Written(c) \/ UNCHANGED lines)
  BY <1>2, <1>3 DEF Viewed, Written, WriteTools
<1>5. CountsRight(<<c>>, Base)
  BY <1>1, <1>2, NumbersRight
<1> QED BY <1>1, <1>3, <1>4, <1>5, CallShown

\* A call that is neither a write nor a view and names no book.
LEMMA OtherShown ==
  ASSUME ShownInv, NEW c \in Calls, Running(c), PickInv', ~ Viewed(c), c.n = 0,
         UNCHANGED <<lines, snapshot, pending>>
  PROVE  ShownInv'
<1>1. CountsRight(<<c>>, Base)
  BY DEF CountsRight
<1> QED BY <1>1, CallShown

LEMMA ExecuteShown ==
  ASSUME ShownInv, Execute
  PROVE  ShownInv'
<1>0. PickInv /\ TypeOK /\ PickInv'
  BY ExecutePick DEF ShownInv, PickInv
<1>1. CASE NoChange
  <2> DEFINE c == Call("none", 0, None, None, "NO_CHANGE", None)
  <2>1. c \in Calls /\ ~ Viewed(c) /\ c.n = 0
    BY PlainCallType DEF Codes, Call, Viewed
  <2> QED BY <1>0, <1>1, <2>1, OtherShown DEF NoChange
<1>2. CASE CartAdd
  <2>1. PICK ref \in Refs, q \in Quantities \cup {None} :
          Wrote("add", ref, QtyOf(q), AddCode(Resolve(ref), q),
                WithBook(lines, Resolve(ref), QtyOf(q)))
    BY <1>2 DEF CartAdd
  <2>2. QtyOf(q) \in Quantities \cup {1, None} /\ AddCode(Resolve(ref), q) \in Codes
    BY CodesKnown DEF QtyOf, AddCode, Codes
  <2> QED BY <1>0, <2>1, <2>2, WroteShown DEF WriteTools
<1>3. CASE CartUpdate
  <2>1. PICK ref \in Refs, q \in Quantities :
          Wrote("update", ref, q, UpdateRefusal(lines, turn.offers, Resolve(ref), q),
                WithQty(lines, Resolve(ref), q))
    BY <1>3 DEF CartUpdate
  <2> QED BY <1>0, <2>1, CodesKnown, WroteShown DEF WriteTools
<1>4. CASE CartRemove
  <2>1. PICK ref \in Refs :
          Wrote("remove", ref, None, RemoveRefusal(lines, Resolve(ref)),
                Without(lines, Resolve(ref)))
    BY <1>4 DEF CartRemove
  <2> QED BY <1>0, <2>1, CodesKnown, WroteShown DEF WriteTools
<1>5. CASE CartView
  <2>1. ViewCall \in Calls /\ ViewCall.n = 0 /\ Viewed(ViewCall) /\ ViewCall.shown = lines
    BY <1>0, PlainCallType DEF Codes, ViewCall, Call, Viewed, Tools, CartTools, TypeOK, CartOK
  <2>2. lines # None
    BY <1>0, AgentTurnAssumption DEF TypeOK, CartOK
  <2>3. CountsRight(<<ViewCall>>, Base)
    BY <2>1 DEF CountsRight
  <2>4. Running(ViewCall) /\ pending' = lines /\ UNCHANGED <<lines, snapshot>>
    BY <1>5 DEF CartView
  <2> QED BY <1>0, <2>1, <2>2, <2>3, <2>4, CallShown
<1>6. CASE SelectionPick
  <2> DEFINE c == Call("pick", 0, None, None, "ok", None)
  <2>1. c \in Calls /\ ~ Viewed(c) /\ c.n = 0
    BY PlainCallType DEF Codes, Call, Viewed, Tools
  <2> QED BY <1>0, <1>6, <2>1, OtherShown DEF SelectionPick
<1> QED BY <1>1, <1>2, <1>3, <1>4, <1>5, <1>6 DEF Execute

LEMMA StillTrueUndone ==
  ASSUME NEW a \in Seq(Calls), NEW b \in Seq(Calls), NEW cart, StillTrue(a, cart),
         \A i \in DOMAIN b : Viewed(b[i]) => b[i].shown = cart
  PROVE  StillTrue(a \o b, cart)
<1>1. PICK m \in Nat, n \in Nat : m = Len(a) /\ n = Len(b)
  OBVIOUS
<1>2. PICK all \in Seq(Calls) : all = a \o b
  BY ConcatProperties
<1>3. /\ DOMAIN a = 1..m /\ DOMAIN b = 1..n /\ DOMAIN all = 1..m + n
      /\ \A i \in 1..m : all[i] = a[i]
      /\ \A i \in 1..n : all[m + i] = b[i]
  BY <1>1, <1>2
<1>4. ASSUME NEW i \in DOMAIN all, Viewed(all[i]),
             \A j \in DOMAIN all : j > i => ~ Written(all[j])
      PROVE  all[i].shown = cart
  <2>1. CASE i > m
    <3>1. i - m \in 1..n /\ all[m + (i - m)] = all[i]
      BY <1>3, <2>1
    <3>2. all[i] = b[i - m]
      BY <1>3, <3>1
    <3> QED BY <1>3, <1>4, <3>1, <3>2
  <2>2. CASE ~ (i > m)
    <3>1. i \in 1..m /\ all[i] = a[i]
      BY <1>3, <2>2
    <3>2. ASSUME NEW j \in DOMAIN a, j > i PROVE ~ Written(a[j])
      BY <1>3, <1>4, <3>2
    <3> QED BY <1>3, <1>4, <3>1, <3>2 DEF StillTrue
  <2> QED BY <2>1, <2>2
<1> QED BY <1>2, <1>4 DEF StillTrue

\* With one batch more the LLM has last been shown what that batch has, if
\* anything, and the numbers of the batches before mean what they meant.
LEMMA BaseAfter ==
  ASSUME TypeOK, NEW calls \in Seq(Calls), history' = Append(history, calls), batch' = <<>>,
         turn' = turn, NEW n \in Nat, n = Len(history)
  PROVE  /\ Base' = LastShown(calls, Base)
         /\ DOMAIN history' = 1..n + 1 /\ DOMAIN history = 1..n
         /\ history'[n + 1] = calls
         /\ ShownBefore(n + 1)' = Base
         /\ \A k \in 1..n : history'[k] = history[k] /\ ShownBefore(k)' = ShownBefore(k)
<1>1. PICK h \in Seq(Seq(Calls)) : h = history /\ n = Len(h)
  BY DEF TypeOK
<1>2. PICK more \in Seq(Seq(Calls)) : more = Append(h, calls)
  BY AppendProperties
<1>3. /\ DOMAIN h = 1..n /\ DOMAIN more = 1..n + 1 /\ more[n + 1] = calls
      /\ \A k \in 1..n : more[k] = h[k]
  BY <1>1, <1>2
<1>4. Base' = LastShown(calls, Base)
  <2>0. PICK start : start = turn.start
    OBVIOUS
  <2>1. PICK all \in Seq(Calls) : all = AllCalls
    BY RecordsType
  <2>2. AllCalls' = all \o calls /\ turn'.start = start
    BY <2>0, <2>1, OneBatchMore
  <2>3. Base = LastShown(all, start)
    BY <2>0, <2>1 DEF Base
  <2>4. Base' = LastShown(all \o calls, start)
    BY <2>2 DEF Base, LastShown
  <2>5. LastShown(all \o calls, start) = LastShown(calls, LastShown(all, start))
    BY LastShownConcat
  <2>6. LastShown(calls, Base) = LastShown(calls, LastShown(all, start))
    BY <2>3
  <2> QED BY <2>4, <2>5, <2>6
<1>5. ASSUME NEW l \in 0..n
      PROVE  SubSeq(more, 1, l) = SubSeq(h, 1, l)
  BY <1>2, <1>3
<1>6. ShownBefore(n + 1)' = Base
  <2>1. SubSeq(h, 1, n) = h
    BY <1>1, SubSeqFull
  <2>2. SubSeq(more, 1, n) = h
    <3>1. n \in 0..n
      OBVIOUS
    <3> QED BY <1>5, <2>1, <3>1
  <2>3. n + 1 - 1 = n
    OBVIOUS
  <2>4. history' = more /\ turn' = turn
    BY <1>1, <1>2
  <2>5. SubSeq(history', 1, n + 1 - 1) = SubSeq(history, 1, n)
    BY <1>1, <2>1, <2>2, <2>3, <2>4
  <2>6. SubSeq(history, 1, n) = history
    BY <1>1, <2>1
  <2>7. AllCalls = FlattenSeq(SubSeq(history', 1, n + 1 - 1)) /\ turn'.start = turn.start
    BY <2>4, <2>5, <2>6 DEF AllCalls
  <2>8. ShownBefore(n + 1)' = LastShown(FlattenSeq(SubSeq(history', 1, n + 1 - 1)), turn'.start)
    BY DEF ShownBefore
  <2> QED BY <2>7, <2>8 DEF Base
<1>7. ASSUME NEW k \in 1..n
      PROVE  ShownBefore(k)' = ShownBefore(k)
  <2>1. k - 1 \in 0..n
    OBVIOUS
  <2>2. SubSeq(more, 1, k - 1) = SubSeq(h, 1, k - 1)
    BY <1>5, <2>1
  <2>3. history' = more /\ history = h
    BY <1>1, <1>2
  <2>4. SubSeq(history, 1, k - 1)' = SubSeq(history, 1, k - 1)
    BY <2>2, <2>3
  <2> QED BY <2>4 DEF ShownBefore, LastShown
<1>8. history' = more /\ history = h
  BY <1>1, <1>2
<1> QED BY <1>1, <1>3, <1>4, <1>6, <1>7, <1>8

LEMMA EndBatchShown ==
  ASSUME ShownInv, EndBatch
  PROVE  ShownInv'
<1>1. /\ PickInv /\ TypeOK /\ PickInv' /\ pc = "act" /\ pc' = "choose" /\ batch' = <<>>
      /\ turn' = turn /\ batch \in Seq(Calls) /\ point \in Seq(Line)
  BY EndBatchPick DEF ShownInv, PickInv, EndBatch, TypeOK, CartOK
<1>2. None \notin Seq(Line)
  BY AgentTurnAssumption
<1>3. ~ AnyOf(<<>>, Viewed) /\ <<>> \in Seq(Calls)
  BY DEF AnyOf
<1>4. LastShown(batch, None)' = None
  <2>1. LastShown(<<>>, None) = None
    BY <1>3, LastShownIs
  <2> QED BY <1>1, <2>1 DEF LastShown
<1>5. ASSUME NEW calls \in Seq(Calls), history' = Append(history, calls),
             CountsRight(calls, Base), pending' = None,
             snapshot' # None => snapshot' = LastShown(calls, Base),
             StillTrue(AllCalls \o calls, lines')
      PROVE  ShownInv'
  <2>0. PICK n \in Nat : n = Len(history)
    BY <1>1 DEF TypeOK
  <2>1. /\ Base' = LastShown(calls, Base)
        /\ DOMAIN history' = 1..n + 1 /\ DOMAIN history = 1..n
        /\ history'[n + 1] = calls
        /\ ShownBefore(n + 1)' = Base
        /\ \A k \in 1..n : history'[k] = history[k] /\ ShownBefore(k)' = ShownBefore(k)
    BY <1>1, <1>5, <2>0, BaseAfter
  <2>2. (snapshot # None => snapshot = Base)'
    BY <1>5, <2>1
  <2>3. (pending = LastShown(batch, None))'
    BY <1>4, <1>5
  <2>4. (\A i \in DOMAIN batch : Viewed(batch[i]) => batch[i].shown # None)'
    BY <1>1
  <2>5. CountsRight(batch, Base)'
    BY <1>1 DEF CountsRight
  <2>6. ASSUME NEW k \in DOMAIN history' PROVE CountsRight(history'[k], ShownBefore(k)')
    <3>1. CASE k = n + 1
      <4>1. history'[k] = calls /\ ShownBefore(k)' = Base
        BY <2>1, <3>1
      <4> QED BY <1>5, <4>1
    <3>2. CASE k # n + 1
      <4>1. k \in 1..n
        BY <2>1, <3>2
      <4> QED BY <2>1, <4>1 DEF ShownInv
    <3> QED BY <3>1, <3>2
  <2>7. (\A k \in DOMAIN history : CountsRight(history[k], ShownBefore(k)))'
    BY <2>6 DEF CountsRight
  <2>8. StillTrue(AllCalls \o batch, lines)'
    <3>1. (AllCalls \o batch)' = AllCalls \o calls
      BY <1>1, <1>5, OneBatchMore
    <3> QED BY <1>5, <3>1 DEF StillTrue
  <2> QED BY <1>1, <2>2, <2>3, <2>4, <2>5, <2>7, <2>8 DEF ShownInv
<1>6. CASE UndoBatch
  <2>1. PICK calls \in Seq(Calls) : calls = Undone(batch, point)
    BY <1>1, UndoneType
  <2>2. /\ history' = Append(history, calls) /\ lines' = point
        /\ Commit(IF AnyOf(batch, Viewed) THEN point ELSE pending)
    BY <1>6, <2>1 DEF UndoBatch
  <2>3. /\ DOMAIN calls = DOMAIN batch
        /\ \A i \in DOMAIN batch :
             /\ calls[i].n = batch[i].n /\ calls[i].book = batch[i].book
             /\ Viewed(calls[i]) <=> Viewed(batch[i])
             /\ Viewed(batch[i]) => calls[i].shown = point
    <3>1. DOMAIN calls = DOMAIN batch
      BY <2>1 DEF Undone
    <3> QED BY <1>1, <2>1, <3>1, UndoneCall
  <2>4. CountsRight(calls, Base)
    BY <2>3 DEF ShownInv, CountsRight
  <2>5. LastShown(calls, Base) = IF AnyOf(batch, Viewed) THEN point ELSE Base
    BY <1>1, <2>1, LastShownUndone
  <2>6. snapshot' # None => snapshot' = LastShown(calls, Base)
    <3>1. CASE AnyOf(batch, Viewed)
      BY <1>1, <1>2, <2>2, <2>5, <3>1 DEF Commit
    <3>2. CASE ~ AnyOf(batch, Viewed)
      <4>1. pending = None
        BY <1>1, <3>2, LastShownIs DEF ShownInv
      <4> QED BY <2>2, <2>5, <3>2, <4>1 DEF Commit, ShownInv
    <3> QED BY <3>1, <3>2
  <2>7. StillTrue(AllCalls \o calls, lines')
    <3>1. PICK all \in Seq(Calls) : all = AllCalls
      BY <1>1, RecordsType
    <3>2. StillTrue(all, point) /\ \A i \in DOMAIN calls : Viewed(calls[i]) => calls[i].shown = point
      BY <1>1, <2>3, <3>1 DEF ShownInv
    <3>3. StillTrue(all \o calls, point)
      BY <3>2, StillTrueUndone
    <3> QED BY <2>2, <3>1, <3>3
  <2>8. pending' = None
    BY <2>2 DEF Commit
  <2> QED BY <1>5, <2>2, <2>4, <2>6, <2>7, <2>8
<1>7. CASE KeepBatch
  <2>1. history' = Append(history, batch) /\ Commit(pending) /\ UNCHANGED lines
    BY <1>7 DEF KeepBatch
  <2>2. CountsRight(batch, Base) /\ StillTrue(AllCalls \o batch, lines')
    BY <2>1 DEF ShownInv
  <2>3. snapshot' # None => snapshot' = LastShown(batch, Base)
    <3>1. CASE AnyOf(batch, Viewed)
      <4>1. PICK k : LastSeen(batch, k)
        BY <1>1, <3>1, SomeIsLast
      <4>2. LastShown(batch, None) = batch[k].shown /\ LastShown(batch, Base) = batch[k].shown
        BY <1>1, <4>1, LastShownIs
      <4>3. batch[k].shown # None
        BY <4>1 DEF LastSeen, ShownInv
      <4>4. pending = batch[k].shown
        BY <4>2 DEF ShownInv
      <4> QED BY <2>1, <4>2, <4>3, <4>4 DEF Commit
    <3>2. CASE ~ AnyOf(batch, Viewed)
      <4>1. pending = None /\ LastShown(batch, Base) = Base
        BY <1>1, <3>2, LastShownIs DEF ShownInv
      <4> QED BY <2>1, <4>1 DEF Commit, ShownInv
    <3> QED BY <3>1, <3>2
  <2>4. pending' = None
    BY <2>1 DEF Commit
  <2> QED BY <1>1, <1>5, <2>1, <2>2, <2>3, <2>4
<1> QED BY <1>6, <1>7 DEF EndBatch

\* With no records there is nothing to count in but the cart of the request.
LEMMA NothingShown ==
  ASSUME PickInv, history = <<>>, batch = <<>>, pending = None, pc # "act",
         snapshot # None => snapshot = turn.start
  PROVE  ShownInv
<1>1. AllCalls = <<>> /\ AllCalls \o batch = <<>>
  BY NoRecords DEF AllCalls
<1>2. <<>> \in Seq(Calls) /\ ~ AnyOf(<<>>, Viewed) /\ DOMAIN <<>> = {}
  BY DEF AnyOf
<1>3. \A e : LastShown(<<>>, e) = e
  BY <1>2, LastShownIs
<1>4. Base = turn.start /\ LastShown(batch, None) = None
  BY <1>1, <1>3 DEF Base
<1>5. CountsRight(batch, Base) /\ \A k \in DOMAIN history : CountsRight(history[k], ShownBefore(k))
  BY <1>2 DEF CountsRight
<1>6. StillTrue(AllCalls \o batch, lines)
  BY <1>1, <1>2 DEF StillTrue
<1> QED BY <1>2, <1>4, <1>5, <1>6 DEF ShownInv

LEMMA ShownNext ==
  ASSUME ShownInv, [Next]_vars
  PROVE  ShownInv'
<1>0. PickInv /\ TypeOK /\ PickInv'
  BY PickNext DEF ShownInv, PickInv
<1>1. CASE BeginBatch
  <2>1. /\ batch = <<>> /\ batch' = <<>> /\ point' = lines
        /\ UNCHANGED <<turn, history, lines, snapshot, pending>>
    BY <1>0, <1>1 DEF BeginBatch, PickInv
  <2>2. AllCalls' = AllCalls /\ Base' = Base /\ \A k : ShownBefore(k)' = ShownBefore(k)
    BY <2>1, SameBase
  <2>3. PICK all \in Seq(Calls) : all = AllCalls
    BY <1>0, RecordsType
  <2>4. AllCalls \o batch = AllCalls
    <3>1. all \o <<>> = all
      BY ConcatEmptySeq
    <3> QED BY <2>1, <2>3, <3>1
  <2>5. StillTrue(AllCalls, lines)
    BY <2>4 DEF ShownInv
  <2>6. StillTrue(AllCalls \o batch, lines)' /\ StillTrue(AllCalls, point)'
    BY <2>1, <2>2, <2>4, <2>5 DEF StillTrue
  <2>7. (pending = LastShown(batch, None))'
    BY <2>1 DEF ShownInv, LastShown
  <2>8. CountsRight(batch, Base)' /\ (\A k \in DOMAIN history : CountsRight(history[k], ShownBefore(k)))'
    BY <2>1, <2>2 DEF ShownInv, CountsRight
  <2> QED BY <1>0, <2>1, <2>2, <2>6, <2>7, <2>8 DEF ShownInv
<1>2. CASE Answer \/ UNCHANGED vars
  <2>1. /\ UNCHANGED <<turn, history, lines, snapshot, pending, batch, point>>
        /\ pc' = "act" => pc = "act"
    BY <1>2 DEF Answer, vars
  <2>2. AllCalls' = AllCalls /\ Base' = Base /\ \A k : ShownBefore(k)' = ShownBefore(k)
    BY <2>1, SameBase
  <2>3. (StillTrue(AllCalls \o batch, lines) /\ (pc = "act" => StillTrue(AllCalls, point)))'
    BY <2>1, <2>2 DEF ShownInv, StillTrue
  <2>4. (pending = LastShown(batch, None))'
    BY <2>1 DEF ShownInv, LastShown
  <2>5. CountsRight(batch, Base)' /\ (\A k \in DOMAIN history : CountsRight(history[k], ShownBefore(k)))'
    BY <2>1, <2>2 DEF ShownInv, CountsRight
  <2>6. (\A i \in DOMAIN batch : Viewed(batch[i]) => batch[i].shown # None)'
    BY <2>1 DEF ShownInv, Viewed
  <2> QED BY <1>0, <2>1, <2>2, <2>3, <2>4, <2>5, <2>6 DEF ShownInv
<1>3. CASE Discard
  <2>1. /\ (history = <<>>)' /\ (batch = <<>>)' /\ (pending = None)' /\ (pc # "act")'
        /\ (snapshot = None)'
    BY <1>3 DEF Discard
  <2>2. (AllCalls = <<>> /\ AllCalls \o batch = <<>>)'
    BY <2>1, NoRecords DEF AllCalls
  <2>3. \A e : LastShown(<<>>, e) = e
    <3>1. <<>> \in Seq(Calls) /\ ~ AnyOf(<<>>, Viewed)
      BY DEF AnyOf
    <3> QED BY <3>1, LastShownIs
  <2>4. (LastShown(batch, None) = None)'
    BY <2>1, <2>3 DEF LastShown
  <2>5. CountsRight(batch, Base)' /\ (\A k \in DOMAIN history : CountsRight(history[k], ShownBefore(k)))'
    BY <2>1 DEF CountsRight
  <2>6. StillTrue(AllCalls \o batch, lines)'
    BY <2>2 DEF StillTrue
  <2> QED BY <1>0, <2>1, <2>4, <2>5, <2>6 DEF ShownInv
<1> QED BY <1>1, <1>2, <1>3, ExecuteShown, EndBatchShown DEF Next, Fail, NothingLeft

LEMMA ShownInit ==
  ASSUME Init
  PROVE  ShownInv
<1>1. /\ history = <<>> /\ batch = <<>> /\ pending = None /\ pc # "act"
      /\ snapshot # None => snapshot = turn.start
  BY DEF Init
<1> QED BY <1>1, PickInit, NothingShown

\* The view whose total may be named is the last one.
LEMMA ShownInvTrue ==
  ASSUME ShownInv
  PROVE  ShownIsTrue
<1>1. TypeOK /\ AllCalls \in Seq(Calls)
  BY RecordsType DEF ShownInv, PickInv
<1>2. NumbersAsShown
  <2>1. DOMAIN history = 1..Len(history) /\ Len(history) \in Nat
    BY <1>1 DEF TypeOK
  <2>2. ShownBefore(Len(history) + 1) = Base
    <3>1. Len(history) + 1 - 1 = Len(history) /\ SubSeq(history, 1, Len(history)) = history
      BY <1>1, <2>1, SubSeqFull DEF TypeOK
    <3>2. AllCalls = FlattenSeq(SubSeq(history, 1, Len(history) + 1 - 1))
      BY <3>1 DEF AllCalls
    <3>3. ShownBefore(Len(history) + 1) =
            LastShown(FlattenSeq(SubSeq(history, 1, Len(history) + 1 - 1)), turn.start)
      BY DEF ShownBefore
    <3> QED BY <3>2, <3>3 DEF Base
  <2>3. ASSUME NEW k \in 1..Len(history) + 1
        PROVE  CountsRight(IF k > Len(history) THEN batch ELSE history[k], ShownBefore(k))
    <3>1. CASE k > Len(history)
      <4>1. k = Len(history) + 1
        BY <2>1, <3>1
      <4> QED BY <2>2, <3>1, <4>1 DEF ShownInv
    <3>2. CASE ~ (k > Len(history))
      <4>1. k \in DOMAIN history
        BY <2>1, <3>2
      <4> QED BY <3>2, <4>1 DEF ShownInv
    <3> QED BY <3>1, <3>2
  <2> QED BY <2>3 DEF NumbersAsShown, CountsRight
<1>3. TotalIsCurrent
  <2> SUFFICES ASSUME Settled, TotalTold PROVE AllCalls[LastView].shown = lines
    BY DEF TotalIsCurrent
  <2>1. batch = <<>>
    BY DEF Settled, ShownInv, PickInv
  <2>2. PICK all \in Seq(Calls) : all = AllCalls
    BY <1>1
  <2>3. StillTrue(all, lines)
    <3>1. all \o <<>> = all
      BY ConcatEmptySeq
    <3>2. AllCalls \o batch = all
      BY <2>1, <2>2, <3>1
    <3> QED BY <3>2 DEF ShownInv
  <2>4. LastView = SelectLastInSeq(all, Viewed) /\ LastView # 0
    BY <2>2 DEF LastView, TotalTold
  <2>5. AnyOf(all, Viewed)
    BY <2>4, NoneIsThere
  <2>6. PICK k : LastSeen(all, k)
    BY <2>5, SomeIsLast
  <2>7. LastView = k
    BY <2>4, <2>6, LastIsThere
  <2>8. k \in 1..Len(all) /\ Viewed(all[k]) /\ DOMAIN all = 1..Len(all) /\ Len(all) \in Nat
    BY <2>6 DEF LastSeen
  <2>9. ASSUME NEW j \in DOMAIN all, j > k PROVE ~ Written(all[j])
    <3>1. j \in k + 1..Len(all)
      BY <2>8, <2>9
    <3> QED BY <2>2, <2>7, <3>1 DEF TotalTold
  <2>10. all[k].shown = lines
    BY <2>3, <2>8, <2>9 DEF StillTrue
  <2> QED BY <2>2, <2>7, <2>10
<1> QED BY <1>2, <1>3 DEF ShownIsTrue

\* "The n-th of the cart" always means the n-th book of the cart the LLM had
\* been shown, and a total the answer may name is that of the cart as it is:
\* for every request, every batch and whatever was undone (reference.resolve,
\* TurnContext.commit_cart_view, graph._rolled_back, reply._facts).
THEOREM ShownStaysTrue == Spec => []ShownIsTrue
BY ShownInit, ShownNext, ShownInvTrue, PTL DEF Spec

-----------------------------------------------------------------------------
(* Looking a book up in a cart, before and after each change.              *)

LEMMA LineThere ==
  ASSUME NEW cart, CartOK(cart), NEW i \in 1..Len(cart)
  PROVE  Has(cart, cart[i].book) /\ LineOf(cart, cart[i].book) = cart[i] /\ cart[i] \in Line
<1>1. cart \in Seq(Line) /\ DOMAIN cart = 1..Len(cart)
  BY DEF CartOK
<1>2. PICK k : k = Position(cart, cart[i].book)
  OBVIOUS
<1>3. k \in DOMAIN cart /\ cart[k].book = cart[i].book
  BY <1>1, <1>2 DEF Position
<1>4. k = i
  BY <1>1, <1>3 DEF CartOK
<1> QED BY <1>1, <1>2, <1>4 DEF Has, LineOf

LEMMA LineFound ==
  ASSUME NEW cart, CartOK(cart), NEW b, Has(cart, b)
  PROVE  /\ \E i \in 1..Len(cart) : cart[i].book = b /\ LineOf(cart, b) = cart[i]
         /\ LineOf(cart, b) \in Line /\ LineOf(cart, b).book = b
<1>1. cart \in Seq(Line) /\ DOMAIN cart = 1..Len(cart)
  BY DEF CartOK
<1>2. PICK i \in 1..Len(cart) : cart[i].book = b
  BY <1>1 DEF Has
<1> QED BY <1>2, LineThere

\* A line of the new quantity is a line of the same book and price.
LEMMA LineWithQty ==
  ASSUME NEW l \in Line, NEW q \in 1..MaxQty
  PROVE  /\ [l EXCEPT !.qty = q] \in Line
         /\ [l EXCEPT !.qty = q].book = l.book
         /\ [l EXCEPT !.qty = q].qty = q
         /\ [l EXCEPT !.qty = q].priced = l.priced
BY DEF Line

LEMMA WithQtyLines ==
  ASSUME NEW cart, CartOK(cart), NEW b, NEW q \in 1..MaxQty
  PROVE  /\ \A c : Has(WithQty(cart, b, q), c) <=> Has(cart, c)
         /\ \A c : Has(cart, c) =>
              LineOf(WithQty(cart, b, q), c) =
                IF c = b THEN [LineOf(cart, c) EXCEPT !.qty = q] ELSE LineOf(cart, c)
<1>1. PICK w : w = WithQty(cart, b, q)
  OBVIOUS
<1>2. CartOK(w) /\ CartOK(cart)
  BY <1>1, WithQtyOK
<1>3. cart \in Seq(Line) /\ DOMAIN cart = 1..Len(cart) /\ DOMAIN w = 1..Len(cart) /\ Len(w) = Len(cart)
  BY <1>1, <1>2 DEF CartOK, WithQty
<1>4. \A i \in 1..Len(cart) :
        w[i] = IF cart[i].book = b THEN [cart[i] EXCEPT !.qty = q] ELSE cart[i]
  BY <1>1, <1>3 DEF WithQty
<1>5. \A i \in 1..Len(cart) : cart[i] \in Line /\ w[i].book = cart[i].book
  <2> TAKE i \in 1..Len(cart)
  <2>1. cart[i] \in Line
    BY <1>3
  <2>2. [cart[i] EXCEPT !.qty = q].book = cart[i].book
    BY <2>1, LineWithQty
  <2> QED BY <1>4, <2>1, <2>2
<1>6. ASSUME NEW c
      PROVE  Has(w, c) <=> Has(cart, c)
  BY <1>3, <1>5 DEF Has
<1>7. ASSUME NEW c, Has(cart, c)
      PROVE  LineOf(w, c) = IF c = b THEN [LineOf(cart, c) EXCEPT !.qty = q] ELSE LineOf(cart, c)
  <2>1. PICK i \in 1..Len(cart) : cart[i].book = c /\ LineOf(cart, c) = cart[i]
    BY <1>2, <1>7, LineFound
  <2>2. LineOf(w, c) = w[i]
    <3>1. i \in 1..Len(w) /\ w[i].book = c
      BY <1>3, <1>5, <2>1
    <3> QED BY <1>2, <3>1, LineThere
  <2> QED BY <1>4, <2>1, <2>2
<1> QED BY <1>1, <1>6, <1>7

OnTop(cart, b, q) == <<[book |-> b, qty |-> q, priced |-> TRUE]>> \o cart

LEMMA OnTopLines ==
  ASSUME NEW cart, CartOK(cart), NEW b \in Books, ~ Has(cart, b), Len(cart) < MaxLines,
         NEW q \in 1..MaxQty
  PROVE  /\ \A c : Has(OnTop(cart, b, q), c) <=> Has(cart, c) \/ c = b
         /\ \A c : Has(cart, c) => LineOf(OnTop(cart, b, q), c) = LineOf(cart, c)
         /\ LineOf(OnTop(cart, b, q), b) = [book |-> b, qty |-> q, priced |-> TRUE]
<1>0. PICK w : w = OnTop(cart, b, q)
  OBVIOUS
<1>1. PICK top \in Line : top = [book |-> b, qty |-> q, priced |-> TRUE]
  BY DEF Line
<1>2. CartOK(w) /\ w = <<top>> \o cart /\ top.book = b
  BY <1>0, <1>1, OnTopOK DEF OnTop
<1>3. cart \in Seq(Line) /\ Len(cart) \in Nat /\ DOMAIN cart = 1..Len(cart)
  BY DEF CartOK
<1>4. /\ Len(w) = Len(cart) + 1 /\ DOMAIN w = 1..Len(cart) + 1
      /\ w[1] = top /\ \A i \in 1..Len(cart) : w[i + 1] = cart[i]
  <2>1. PICK t \in Seq(Line) : t = <<top>> /\ Len(t) = 1 /\ t[1] = top
    <3>1. <<top>> \in Seq(Line) /\ Len(<<top>>) = 1 /\ <<top>>[1] = top
      OBVIOUS
    <3> QED BY <3>1, Zenon
  <2>2. /\ w \in Seq(Line) /\ Len(w) = Len(cart) + 1
        /\ \A i \in 1..Len(w) : w[i] = IF i <= 1 THEN t[i] ELSE cart[i - 1]
    <3>1. w = t \o cart
      BY <1>2, <2>1
    <3>2. /\ t \o cart \in Seq(Line) /\ Len(t \o cart) = Len(t) + Len(cart)
          /\ \A i \in 1..Len(t) + Len(cart) :
               (t \o cart)[i] = IF i <= Len(t) THEN t[i] ELSE cart[i - Len(t)]
      BY <1>3, ConcatProperties
    <3>3. Len(t) + Len(cart) = Len(cart) + 1
      BY <1>3, <2>1
    <3> QED BY <2>1, <3>1, <3>2, <3>3
  <2>3. 1 \in 1..Len(w) /\ \A i \in 1..Len(cart) : i + 1 \in 1..Len(w) /\ ~ (i + 1 <= 1) /\ i + 1 - 1 = i
    BY <1>3, <2>2
  <2> QED BY <2>1, <2>2, <2>3
<1>5. ASSUME NEW c
      PROVE  Has(w, c) <=> Has(cart, c) \/ c = b
  <2>1. ASSUME Has(w, c) PROVE Has(cart, c) \/ c = b
    <3>1. PICK i \in 1..Len(cart) + 1 : w[i].book = c
      BY <1>4, <2>1 DEF Has
    <3>2. CASE i = 1
      BY <1>2, <1>4, <3>1, <3>2
    <3>3. CASE i # 1
      <4>1. i - 1 \in 1..Len(cart) /\ w[i - 1 + 1] = cart[i - 1] /\ i - 1 + 1 = i
        BY <1>3, <1>4, <3>1, <3>3
      <4> QED BY <1>3, <3>1, <4>1 DEF Has
    <3> QED BY <3>2, <3>3
  <2>2. ASSUME Has(cart, c) PROVE Has(w, c)
    <3>1. PICK i \in 1..Len(cart) : cart[i].book = c
      BY <1>3, <2>2 DEF Has
    <3>2. i + 1 \in DOMAIN w /\ w[i + 1].book = c
      BY <1>3, <1>4, <3>1
    <3> QED BY <3>2 DEF Has
  <2>3. ASSUME c = b PROVE Has(w, c)
    <3>1. 1 \in DOMAIN w /\ w[1].book = c
      BY <1>2, <1>3, <1>4, <2>3
    <3> QED BY <3>1 DEF Has
  <2> QED BY <2>1, <2>2, <2>3
<1>6. ASSUME NEW c, Has(cart, c)
      PROVE  LineOf(w, c) = LineOf(cart, c)
  <2>1. PICK i \in 1..Len(cart) : cart[i].book = c /\ LineOf(cart, c) = cart[i]
    BY <1>6, LineFound
  <2>2. i + 1 \in 1..Len(w) /\ w[i + 1] = cart[i]
    BY <1>3, <1>4
  <2>3. LineOf(w, w[i + 1].book) = w[i + 1]
    BY <1>2, <2>2, LineThere
  <2> QED BY <2>1, <2>2, <2>3
<1>7. LineOf(w, b) = top
  <2>1. 1 \in 1..Len(w)
    BY <1>3, <1>4
  <2>2. LineOf(w, w[1].book) = w[1]
    BY <1>2, <2>1, LineThere
  <2> QED BY <1>2, <1>4, <2>2
<1> QED BY <1>0, <1>1, <1>5, <1>6, <1>7

LEMMA WithoutLines ==
  ASSUME NEW cart, CartOK(cart), NEW b, Has(cart, b)
  PROVE  /\ \A c : Has(Without(cart, b), c) <=> Has(cart, c) /\ c # b
         /\ \A c : Has(cart, c) /\ c # b => LineOf(Without(cart, b), c) = LineOf(cart, c)
<1>1. PICK w : w = Without(cart, b)
  OBVIOUS
<1>2. PICK p \in 1..Len(cart) : p = Position(cart, b) /\ cart[p].book = b
  BY WithoutIs
<1>3. /\ CartOK(w) /\ w \in Seq(Line) /\ Len(w) = Len(cart) - 1 /\ DOMAIN w = 1..Len(cart) - 1
      /\ \A i \in 1..Len(cart) - 1 : w[i] = IF i < p THEN cart[i] ELSE cart[i + 1]
  BY <1>1, <1>2, WithoutIs, WithoutOK
<1>4. cart \in Seq(Line) /\ Len(cart) \in Nat /\ DOMAIN cart = 1..Len(cart)
  BY DEF CartOK
<1>5. ASSUME NEW i \in 1..Len(cart), i # p
      PROVE  \E j \in 1..Len(w) : w[j] = cart[i]
  <2>1. CASE i < p
    <3>1. i \in 1..Len(cart) - 1
      BY <1>4, <2>1
    <3> QED BY <1>3, <2>1, <3>1
  <2>2. CASE i > p
    <3>1. i - 1 \in 1..Len(cart) - 1 /\ ~ (i - 1 < p) /\ i - 1 + 1 = i
      BY <1>4, <2>2
    <3> QED BY <1>3, <3>1
  <2> QED BY <1>5, <2>1, <2>2
<1>6. ASSUME NEW c, Has(w, c)
      PROVE  Has(cart, c) /\ c # b
  <2>1. PICK i \in 1..Len(cart) - 1 : w[i].book = c
    BY <1>3, <1>6 DEF Has
  <2>2. PICK j \in 1..Len(cart) : j # p /\ cart[j].book = c
    <3>1. CASE i < p
      BY <1>3, <1>4, <2>1, <3>1
    <3>2. CASE ~ (i < p)
      <4>1. i + 1 \in 1..Len(cart) /\ i + 1 # p /\ cart[i + 1].book = c
        BY <1>3, <1>4, <2>1, <3>2
      <4> QED BY <4>1
    <3> QED BY <3>1, <3>2
  <2>3. c # b
    BY <1>2, <1>4, <2>2 DEF CartOK
  <2> QED BY <1>4, <2>2, <2>3 DEF Has
<1>7. ASSUME NEW c, Has(cart, c), c # b
      PROVE  Has(w, c) /\ LineOf(w, c) = LineOf(cart, c)
  <2>1. PICK i \in 1..Len(cart) : cart[i].book = c /\ LineOf(cart, c) = cart[i]
    BY <1>7, LineFound
  <2>2. i # p
    BY <1>2, <1>7, <2>1
  <2>3. PICK j \in 1..Len(w) : w[j] = cart[i]
    BY <1>5, <2>2
  <2> QED BY <1>3, <2>1, <2>3, LineThere
<1> QED BY <1>1, <1>6, <1>7

\* Setting the quantity a line has changes nothing.
LEMMA WithQtySame ==
  ASSUME NEW cart, CartOK(cart), NEW b, Has(cart, b), NEW q, LineOf(cart, b).qty = q
  PROVE  WithQty(cart, b, q) = cart
<1>1. cart \in Seq(Line) /\ DOMAIN cart = 1..Len(cart)
  BY DEF CartOK
<1>2. ASSUME NEW i \in 1..Len(cart), cart[i].book = b
      PROVE  [cart[i] EXCEPT !.qty = q] = cart[i]
  <2>1. PICK l \in Line : l = cart[i] /\ l.qty = q
    BY <1>2, LineThere
  <2>2. [l EXCEPT !.qty = q] = l
    BY <2>1 DEF Line
  <2> QED BY <2>1, <2>2
<1>3. WithQty(cart, b, q) = [i \in 1..Len(cart) |-> cart[i]]
  BY <1>1, <1>2 DEF WithQty
<1> QED BY <1>1, <1>3

\* A cart whose books are in another, which has one more, is shorter.
LEMMA FewerLines ==
  ASSUME NEW cart, CartOK(cart), NEW other, CartOK(other), NEW b, Has(other, b),
         ~ Has(cart, b), \A c : Has(cart, c) => Has(other, c)
  PROVE  Len(cart) < Len(other)
<1>1. PICK n \in Nat, m \in Nat : n = Len(cart) /\ m = Len(other)
  BY DEF CartOK
<1>2. PICK p \in 1..m : other[p].book = b
  BY <1>1, LineFound
<1>3. PICK f : f = [i \in 1..n |-> Position(other, cart[i].book)]
  OBVIOUS
<1>4. ASSUME NEW i \in 1..n
      PROVE  f[i] \in (1..m) \ {p} /\ other[f[i]].book = cart[i].book
  <2>1. Has(cart, cart[i].book)
    BY <1>1, LineThere
  <2>2. Has(other, cart[i].book) /\ cart[i].book # b
    BY <2>1
  <2>3. f[i] = Position(other, cart[i].book)
    BY <1>3
  <2>4. f[i] \in 1..m /\ other[f[i]].book = cart[i].book
    <3>1. DOMAIN other = 1..m
      BY <1>1 DEF CartOK
    <3> QED BY <2>2, <2>3, <3>1 DEF Has, Position
  <2> QED BY <1>2, <2>2, <2>4
<1>5. \A i, j \in 1..n : f[i] = f[j] => i = j
  <2> SUFFICES ASSUME NEW i \in 1..n, NEW j \in 1..n, f[i] = f[j] PROVE i = j
    OBVIOUS
  <2>1. cart[i].book = cart[j].book
    BY <1>4
  <2> QED BY <1>1, <2>1 DEF CartOK
<1>6. f \in Injection(1..n, (1..m) \ {p})
  BY <1>3, <1>4, <1>5 DEF Injection, IsInjective
<1>7. /\ IsFiniteSet(1..n) /\ Cardinality(1..n) = n
      /\ IsFiniteSet(1..m) /\ Cardinality(1..m) = m
  <2>1. /\ IsFiniteSet(1..n) /\ Cardinality(1..n) = IF 1 > n THEN 0 ELSE n - 1 + 1
        /\ IsFiniteSet(1..m) /\ Cardinality(1..m) = IF 1 > m THEN 0 ELSE m - 1 + 1
    <3>1. 1 \in Int /\ n \in Int /\ m \in Int
      OBVIOUS
    <3> QED BY <3>1, FS_Interval
  <2> QED BY <2>1
<1>8. IsFiniteSet((1..m) \ {p}) /\ Cardinality((1..m) \ {p}) = m - 1
  BY <1>7, FS_RemoveElement
<1>9. Cardinality(1..n) <= Cardinality((1..m) \ {p})
  BY <1>6, <1>8, FS_Injection
<1> QED BY <1>1, <1>7, <1>8, <1>9

-----------------------------------------------------------------------------
(* The backend can apply the difference of the carts.                      *)

\* What the rules of the cart leave of the cart of the request: a line that is
\* still there has lost no price but by being replaced, has another quantity
\* only if it had a price, and a higher one only of a book that is not out of
\* stock; a new line is one of a book on sale.
WrittenFrom(from, to, offers) ==
  \A b \in Books : Has(to, b) =>
    IF Has(from, b)
    THEN /\ LineOf(to, b).priced => LineOf(from, b).priced
         /\ LineOf(to, b).qty # LineOf(from, b).qty => LineOf(from, b).priced
         /\ LineOf(to, b).qty > LineOf(from, b).qty => offers[b] # "out"
    ELSE offers[b] = "in"

\* A book without a price has no offer.
OffersFit(from, offers) ==
  \A i \in 1..Len(from) : from[i].priced \/ offers[from[i].book] = "none"

LEMMA FromItself ==
  ASSUME NEW from, CartOK(from), NEW offers
  PROVE  WrittenFrom(from, from, offers)
<1>1. \A b \in Books : Has(from, b) => LineOf(from, b).qty \in Int
  BY LineFound DEF Line
<1> QED BY <1>1 DEF WrittenFrom

LEMMA FromWithQty ==
  ASSUME NEW from, CartOK(from), NEW cart, CartOK(cart), NEW offers,
         WrittenFrom(from, cart, offers), NEW b, Has(cart, b), NEW q \in 1..MaxQty,
         ChangeRefusal(cart, offers, b, q) = "ok"
  PROVE  WrittenFrom(from, WithQty(cart, b, q), offers)
<1> DEFINE w == WithQty(cart, b, q)
<1>1. \A c : Has(w, c) <=> Has(cart, c)
  BY WithQtyLines
<1>2. \A c : Has(cart, c) =>
        LineOf(w, c) = IF c = b THEN [LineOf(cart, c) EXCEPT !.qty = q] ELSE LineOf(cart, c)
  BY WithQtyLines
<1> HIDE DEF w
<1>3. LineOf(cart, b).priced /\ ~ (q > LineOf(cart, b).qty /\ offers[b] = "out")
  <2>1. PICK p : p = LineOf(cart, b).priced
    OBVIOUS
  <2>2. p
    BY <2>1, Zenon DEF ChangeRefusal
  <2>3. ~ (q > LineOf(cart, b).qty /\ offers[b] = "out")
    BY <2>1, <2>2 DEF ChangeRefusal
  <2> QED BY <2>1, <2>2, <2>3
<1>4. LineOf(w, b).qty = q /\ LineOf(w, b).priced = LineOf(cart, b).priced
  <2>1. PICK l \in Line : l = LineOf(cart, b)
    BY LineFound
  <2>2. LineOf(w, b) = [l EXCEPT !.qty = q]
    BY <1>2, <2>1
  <2> QED BY <2>1, <2>2, LineWithQty
<1>5. ASSUME NEW c \in Books, Has(w, c)
      PROVE  IF Has(from, c)
             THEN /\ LineOf(w, c).priced => LineOf(from, c).priced
                  /\ LineOf(w, c).qty # LineOf(from, c).qty => LineOf(from, c).priced
                  /\ LineOf(w, c).qty > LineOf(from, c).qty => offers[c] # "out"
             ELSE offers[c] = "in"
  <2>1. CASE c # b
    BY <1>1, <1>2, <1>5, <2>1 DEF WrittenFrom
  <2>2. CASE c = b /\ ~ Has(from, c)
    BY <1>1, <1>5, <2>2 DEF WrittenFrom
  <2>3. CASE c = b /\ Has(from, c)
    <3>1. PICK f \in Line : f = LineOf(from, b)
      BY <2>3, LineFound
    <3>2. PICK l \in Line : l = LineOf(cart, b)
      BY LineFound
    <3>3. (l.priced => f.priced) /\ (l.qty > f.qty => offers[b] # "out")
      BY <1>5, <2>3, <3>1, <3>2 DEF WrittenFrom
    <3>4. f.qty \in Int /\ l.qty \in Int /\ q \in Int
      BY DEF Line
    <3>5. q > f.qty => offers[b] # "out"
      BY <1>3, <3>2, <3>3, <3>4
    <3> QED BY <1>3, <1>4, <2>3, <3>1, <3>2, <3>3, <3>5
  <2> QED BY <2>1, <2>2, <2>3
<1>6. WrittenFrom(from, w, offers)
  BY <1>5 DEF WrittenFrom
<1> QED BY <1>6 DEF w

LEMMA FromOnTop ==
  ASSUME NEW from, CartOK(from), NEW cart, CartOK(cart), NEW offers, OffersFit(from, offers),
         WrittenFrom(from, cart, offers), NEW b \in Books, ~ Has(cart, b),
         Len(cart) < MaxLines, NEW q \in 1..MaxQty, offers[b] = "in"
  PROVE  WrittenFrom(from, OnTop(cart, b, q), offers)
<1>1. PICK w : w = OnTop(cart, b, q)
  OBVIOUS
<1>2. \A c : Has(w, c) <=> Has(cart, c) \/ c = b
  BY <1>1, OnTopLines
<1>3. \A c : Has(cart, c) => LineOf(w, c) = LineOf(cart, c)
  BY <1>1, OnTopLines
<1>4. ASSUME NEW c \in Books, Has(w, c)
      PROVE  IF Has(from, c)
             THEN /\ LineOf(w, c).priced => LineOf(from, c).priced
                  /\ LineOf(w, c).qty # LineOf(from, c).qty => LineOf(from, c).priced
                  /\ LineOf(w, c).qty > LineOf(from, c).qty => offers[c] # "out"
             ELSE offers[c] = "in"
  <2>1. CASE c # b
    BY <1>2, <1>3, <1>4, <2>1 DEF WrittenFrom
  <2>2. CASE c = b /\ Has(from, c)
    <3>1. PICK i \in 1..Len(from) : from[i].book = b /\ LineOf(from, b) = from[i]
      BY <2>2, LineFound
    <3>2. LineOf(from, b).priced
      BY <3>1 DEF OffersFit
    <3> QED BY <2>2, <3>2
  <2> QED BY <2>1, <2>2
<1> QED BY <1>1, <1>4 DEF WrittenFrom

LEMMA FromWithout ==
  ASSUME NEW from, NEW cart, CartOK(cart), NEW offers,
         WrittenFrom(from, cart, offers), NEW b, Has(cart, b)
  PROVE  WrittenFrom(from, Without(cart, b), offers)
BY WithoutLines DEF WrittenFrom

\* So a write keeps it that way.
LEMMA FromWrite ==
  ASSUME NEW from, CartOK(from), NEW cart, CartOK(cart), NEW offers \in [Books -> Offer],
         OffersFit(from, offers), WrittenFrom(from, cart, offers), NEW b \in Books, NEW q
  PROVE  /\ AddRefusal(cart, offers, b, q) = "ok" => WrittenFrom(from, WithBook(cart, b, q), offers)
         /\ UpdateRefusal(cart, offers, b, q) = "ok" => WrittenFrom(from, WithQty(cart, b, q), offers)
         /\ RemoveRefusal(cart, b) = "ok" => WrittenFrom(from, Without(cart, b), offers)
<1>1. ASSUME AddRefusal(cart, offers, b, q) = "ok"
      PROVE  WrittenFrom(from, WithBook(cart, b, q), offers)
  <2>1. q \in 1..MaxQty
    BY <1>1 DEF AddRefusal
  <2>2. CASE Has(cart, b)
    <3>1. ChangeRefusal(cart, offers, b, q) = "ok"
      BY <1>1, <2>1, <2>2 DEF AddRefusal
    <3> QED BY <2>1, <2>2, <3>1, FromWithQty DEF WithBook
  <2>3. CASE ~ Has(cart, b)
    <3>1. offers[b] # "none" /\ offers[b] # "out" /\ ~ (Len(cart) >= MaxLines)
      BY <1>1, <2>1, <2>3 DEF AddRefusal
    <3>2. offers[b] = "in"
      BY <3>1 DEF Offer
    <3>3. Len(cart) < MaxLines
      BY <3>1, TurnCartAssumption DEF CartOK
    <3> QED BY <2>1, <2>3, <3>2, <3>3, FromOnTop DEF WithBook, OnTop
  <2> QED BY <2>2, <2>3
<1>2. ASSUME UpdateRefusal(cart, offers, b, q) = "ok"
      PROVE  WrittenFrom(from, WithQty(cart, b, q), offers)
  <2>1. Has(cart, b) /\ q \in 1..MaxQty /\ ChangeRefusal(cart, offers, b, q) = "ok"
    BY <1>2 DEF UpdateRefusal
  <2> QED BY <2>1, FromWithQty
<1>3. ASSUME RemoveRefusal(cart, b) = "ok"
      PROVE  WrittenFrom(from, Without(cart, b), offers)
  <2>1. Has(cart, b)
    BY <1>3 DEF RemoveRefusal
  <2> QED BY <2>1, FromWithout
<1> QED BY <1>1, <1>2, <1>3

\* The cart and the checkpoint are what the rules of the cart leave of the cart
\* of the request; a turn with no write that stands has that cart, and one with
\* a write is of a user who is logged in, whose cart came with the request.
WrittenInv ==
  /\ PickInv
  /\ WrittenFrom(turn.start, lines, turn.offers)
  /\ WrittenFrom(turn.start, point, turn.offers)
  /\ changed => Prefetched(turn)
  /\ ~ changed => lines = turn.start
  /\ pc = "act" /\ ~ WroteBefore => point = turn.start

LEMMA StartFits ==
  ASSUME TypeOK
  PROVE  /\ CartOK(turn.start) /\ OffersFit(turn.start, turn.offers)
         /\ turn.offers \in [Books -> Offer] /\ WrittenFrom(turn.start, turn.start, turn.offers)
<1>1. turn \in Request /\ turn \in Requests
  BY AgentTurnAssumption DEF TypeOK
<1>2. CartOK(turn.start)
  BY <1>1, AgentTurnAssumption
<1>3. \A i \in DOMAIN turn.start : turn.start[i].priced \/ turn.offers[turn.start[i].book] = "none"
  BY <1>1, AgentTurnAssumption
<1>4. DOMAIN turn.start = 1..Len(turn.start)
  BY <1>2 DEF CartOK
<1> QED BY <1>1, <1>2, <1>3, <1>4, FromItself DEF Request, OffersFit

\* A call that may write and does it by the rules.
LEMMA WroteWritten ==
  ASSUME WrittenInv, NEW tool \in WriteTools, NEW ref, NEW q, NEW code, NEW after,
         Allowed(tool), code = "ok" => WrittenFrom(turn.start, after, turn.offers),
         Wrote(tool, ref, q, code, after), PickInv'
  PROVE  WrittenInv'
<1>1. /\ lines' = IF code = "ok" THEN after ELSE lines
      /\ changed' = (changed \/ code = "ok")
      /\ UNCHANGED <<turn, pc, point, history>>
  BY DEF Wrote, Running
<1>2. Prefetched(turn)
  <2>1. tool \in turn.allowed /\ tool \in CartTools
    BY DEF Allowed, CartTools
  <2>2. turn.loggedIn
    BY Zenon DEF Allowed
  <2>3. turn.allowed \cap CartTools # {}
    BY <2>1
  <2> QED BY <2>2, <2>3, Zenon DEF Prefetched
<1>3. Prefetched(turn)'
  BY <1>1, <1>2
<1>4. WrittenFrom(turn.start, lines, turn.offers)'
  BY <1>1 DEF WrittenInv
<1>5. WrittenFrom(turn.start, point, turn.offers)'
  BY <1>1 DEF WrittenInv
<1>6. ~ changed' => lines' = turn'.start
  BY <1>1 DEF WrittenInv
<1>7. pc' = "act" /\ ~ WroteBefore' => point' = turn'.start
  BY <1>1, SameHistory DEF WrittenInv
<1> QED BY <1>3, <1>4, <1>5, <1>6, <1>7 DEF WrittenInv

LEMMA ReadWritten ==
  ASSUME WrittenInv, NEW c, Running(c), UNCHANGED <<lines, changed>>, PickInv'
  PROVE  WrittenInv'
<1>1. UNCHANGED <<turn, pc, point, history, lines, changed>>
  BY DEF Running
<1> QED BY <1>1, SameHistory DEF WrittenInv

LEMMA ExecuteWritten ==
  ASSUME WrittenInv, Execute
  PROVE  WrittenInv'
<1>0. PickInv /\ TypeOK /\ PickInv'
  BY ExecutePick DEF WrittenInv, PickInv
<1>a. CartOK(turn.start) /\ OffersFit(turn.start, turn.offers) /\ turn.offers \in [Books -> Offer]
  BY <1>0, StartFits
<1>b. CartOK(lines) /\ WrittenFrom(turn.start, lines, turn.offers)
  BY <1>0 DEF TypeOK, WrittenInv
<1>1. CASE CartAdd
  <2>1. PICK ref \in Refs, q \in Quantities \cup {None} :
          /\ MayWrite("add", Resolve(ref))
          /\ Wrote("add", ref, QtyOf(q), AddCode(Resolve(ref), q),
                   WithBook(lines, Resolve(ref), QtyOf(q)))
    BY <1>1 DEF CartAdd
  <2>2. Allowed("add") /\ Resolve(ref) \in Books
    BY <1>0, <2>1, ResolveType DEF MayWrite
  <2>3. AddCode(Resolve(ref), q) = "ok" =>
          AddRefusal(lines, turn.offers, Resolve(ref), QtyOf(q)) = "ok"
    BY DEF AddCode
  <2>4. AddCode(Resolve(ref), q) = "ok" =>
          WrittenFrom(turn.start, WithBook(lines, Resolve(ref), QtyOf(q)), turn.offers)
    BY <1>a, <1>b, <2>2, <2>3, FromWrite
  <2> QED BY <1>0, <2>1, <2>2, <2>4, WroteWritten DEF WriteTools
<1>2. CASE CartUpdate
  <2>1. PICK ref \in Refs, q \in Quantities :
          /\ MayWrite("update", Resolve(ref))
          /\ Wrote("update", ref, q, UpdateRefusal(lines, turn.offers, Resolve(ref), q),
                   WithQty(lines, Resolve(ref), q))
    BY <1>2 DEF CartUpdate
  <2>2. Allowed("update") /\ Resolve(ref) \in Books
    BY <1>0, <2>1, ResolveType DEF MayWrite
  <2>3. UpdateRefusal(lines, turn.offers, Resolve(ref), q) = "ok" =>
          WrittenFrom(turn.start, WithQty(lines, Resolve(ref), q), turn.offers)
    BY <1>a, <1>b, <2>2, FromWrite
  <2> QED BY <1>0, <2>1, <2>2, <2>3, WroteWritten DEF WriteTools
<1>3. CASE CartRemove
  <2>1. PICK ref \in Refs :
          /\ MayWrite("remove", Resolve(ref))
          /\ Wrote("remove", ref, None, RemoveRefusal(lines, Resolve(ref)),
                   Without(lines, Resolve(ref)))
    BY <1>3 DEF CartRemove
  <2>2. Allowed("remove") /\ Resolve(ref) \in Books
    BY <1>0, <2>1, ResolveType DEF MayWrite
  <2>3. RemoveRefusal(lines, Resolve(ref)) = "ok" =>
          WrittenFrom(turn.start, Without(lines, Resolve(ref)), turn.offers)
    BY <1>a, <1>b, <2>2, FromWrite
  <2> QED BY <1>0, <2>1, <2>2, <2>3, WroteWritten DEF WriteTools
<1>4. CASE NoChange
  BY <1>0, <1>4, ReadWritten DEF NoChange
<1>5. CASE CartView
  BY <1>0, <1>5, ReadWritten DEF CartView
<1>6. CASE SelectionPick
  BY <1>0, <1>6, ReadWritten DEF SelectionPick
<1> QED BY <1>1, <1>2, <1>3, <1>4, <1>5, <1>6 DEF Execute

LEMMA EndBatchWritten ==
  ASSUME WrittenInv, EndBatch
  PROVE  WrittenInv'
<1>1. PickInv' /\ pc = "act" /\ pc' = "choose" /\ UNCHANGED <<turn, point>>
  BY EndBatchPick DEF WrittenInv, EndBatch
<1>2. Prefetched(turn)' <=> Prefetched(turn)
  BY <1>1 DEF Prefetched
<1>3. CASE UndoBatch
  <2>1. lines' = point /\ changed' = WroteBefore
    BY <1>3 DEF UndoBatch
  <2>2. WroteBefore => changed
    BY DEF WrittenInv, PickInv
  <2>3. changed' => Prefetched(turn)'
    BY <1>2, <2>1, <2>2, Zenon DEF WrittenInv
  <2>4. ~ changed' => lines' = turn'.start
    BY <1>1, <2>1 DEF WrittenInv
  <2> QED BY <1>1, <2>1, <2>3, <2>4 DEF WrittenInv
<1>4. CASE KeepBatch
  <2>1. UNCHANGED <<lines, changed>>
    BY <1>4 DEF KeepBatch
  <2> QED BY <1>1, <1>2, <2>1 DEF WrittenInv
<1> QED BY <1>3, <1>4 DEF EndBatch

LEMMA WrittenInit ==
  ASSUME Init
  PROVE  WrittenInv
<1>1. PickInv /\ TypeOK
  BY PickInit DEF PickInv
<1>2. WrittenFrom(turn.start, turn.start, turn.offers)
  BY <1>1, StartFits
<1> QED BY <1>1, <1>2 DEF Init, WrittenInv

LEMMA WrittenNext ==
  ASSUME WrittenInv, [Next]_vars
  PROVE  WrittenInv'
<1>0. PickInv /\ PickInv' /\ TypeOK
  BY PickNext DEF WrittenInv, PickInv
<1>1. CASE BeginBatch
  <2>1. batch = <<>> /\ point' = lines /\ UNCHANGED <<turn, lines, changed, history>>
    BY <1>0, <1>1 DEF BeginBatch, PickInv
  <2>2. ~ AnyOf(batch, Written)
    BY <2>1 DEF AnyOf
  <2>3. ~ WroteBefore => lines = turn.start
    BY <2>2 DEF WrittenInv, PickInv
  <2> QED BY <1>0, <2>1, <2>3, SameHistory DEF WrittenInv
<1>2. CASE Answer \/ UNCHANGED vars
  BY <1>0, <1>2, SameHistory DEF Answer, vars, WrittenInv
<1>3. CASE Discard
  <2>1. /\ lines' = turn.start /\ point' = turn.start /\ changed' = FALSE /\ turn' = turn
        /\ pc' = "failed"
    BY <1>3 DEF Discard
  <2>2. WrittenFrom(turn.start, turn.start, turn.offers)
    BY <1>0, StartFits
  <2> QED BY <1>0, <2>1, <2>2 DEF WrittenInv
<1> QED BY <1>1, <1>2, <1>3, ExecuteWritten, EndBatchWritten DEF Next, Fail, NothingLeft

LEMMA WrittenHolds == Spec => []WrittenInv
BY WrittenInit, WrittenNext, PTL DEF Spec

\* The backend after one action more.
BackendStep(at, offers, a) ==
  IF Refusal(at.cart, offers, a) = "ok"
  THEN [cart |-> Applied(at.cart, a), refused |-> at.refused]
  ELSE [cart |-> at.cart, refused |-> TRUE]

AppliedTo(cart, offers, actions, n, g) ==
  g = [k \in 0 .. n |->
        IF k = 0 THEN [cart |-> cart, refused |-> FALSE]
        ELSE IF Refusal(g[k - 1].cart, offers, actions[k]) = "ok"
        THEN [cart |-> Applied(g[k - 1].cart, actions[k]), refused |-> g[k - 1].refused]
        ELSE [cart |-> g[k - 1].cart, refused |-> TRUE]]

AppliedSoFar(cart, offers, actions, n, g) ==
  /\ g[0] = [cart |-> cart, refused |-> FALSE]
  /\ \A k \in 1 .. n : g[k] = BackendStep(g[k - 1], offers, actions[k])

LEMMA AppliedStep ==
  ASSUME NEW cart, NEW offers, NEW actions, NEW n \in Nat, NEW g,
         AppliedTo(cart, offers, actions, n, g)
  PROVE  AppliedSoFar(cart, offers, actions, n, g)
<1> DEFINE def(k) == IF k = 0 THEN [cart |-> cart, refused |-> FALSE]
        ELSE BackendStep(g[k - 1], offers, actions[k])
<1>1. g = [k \in 0 .. n |-> def(k)]
  BY Zenon DEF AppliedTo, BackendStep
<1> HIDE DEF def
<1>2. \A k \in 0 .. n : g[k] = def(k)
  BY <1>1
<1>3. 0 \in 0 .. n /\ \A k \in 1 .. n : k \in 0 .. n /\ k # 0
  OBVIOUS
<1> QED BY <1>2, <1>3 DEF def, AppliedSoFar

LEMMA AppliedExists ==
  ASSUME NEW cart, NEW offers, NEW actions, NEW n \in Nat
  PROVE  \E g : AppliedTo(cart, offers, actions, n, g)
<1> DEFINE M == {k \in Nat : \E g : AppliedTo(cart, offers, actions, k, g)}
<1>1. 0 \in M
  <2> DEFINE g == [k \in 0 .. 0 |-> [cart |-> cart, refused |-> FALSE]]
  <2>1. AppliedTo(cart, offers, actions, 0, g)
    BY DEF AppliedTo
  <2> QED BY <2>1
<1>2. ASSUME NEW k \in Nat, k \in M
      PROVE  k + 1 \in M
  <2>1. PICK g : AppliedTo(cart, offers, actions, k, g)
    BY <1>2
  <2> DEFINE f == [i \in 0 .. k + 1 |->
                    IF i <= k THEN g[i] ELSE BackendStep(g[k], offers, actions[k + 1])]
  <2>2. /\ g[0] = [cart |-> cart, refused |-> FALSE]
        /\ \A i \in 1 .. k : g[i] = BackendStep(g[i - 1], offers, actions[i])
    <3>1. AppliedSoFar(cart, offers, actions, k, g)
      BY <2>1, AppliedStep
    <3> QED BY <3>1 DEF AppliedSoFar
  <2>3. \A i \in 0 .. k + 1 :
          f[i] = IF i = 0 THEN [cart |-> cart, refused |-> FALSE]
                 ELSE BackendStep(f[i - 1], offers, actions[i])
    <3> TAKE i \in 0 .. k + 1
    <3>1. CASE i = 0
      BY <2>2, <3>1
    <3>2. CASE i \in 1 .. k
      <4>1. f[i] = g[i] /\ f[i - 1] = g[i - 1] /\ i # 0
        BY <3>2
      <4> HIDE DEF f
      <4> QED BY <2>2, <3>2, <4>1
    <3>3. CASE i = k + 1
      <4>1. f[i] = BackendStep(g[k], offers, actions[k + 1]) /\ f[i - 1] = g[k] /\ i # 0
        BY <3>3
      <4> HIDE DEF f
      <4> QED BY <3>3, <4>1
    <3> QED BY <3>1, <3>2, <3>3
  <2>4. f = [i \in 0 .. k + 1 |->
              IF i = 0 THEN [cart |-> cart, refused |-> FALSE]
              ELSE BackendStep(f[i - 1], offers, actions[i])]
    <3>1. PICK h : h = f
      OBVIOUS
    <3>2. h = [i \in 0 .. k + 1 |-> h[i]]
      BY <3>1
    <3>3. \A i \in 0 .. k + 1 :
            h[i] = IF i = 0 THEN [cart |-> cart, refused |-> FALSE]
                   ELSE BackendStep(h[i - 1], offers, actions[i])
      BY <2>3, <3>1
    <3> HIDE DEF f
    <3>4. h = [i \in 0 .. k + 1 |->
                IF i = 0 THEN [cart |-> cart, refused |-> FALSE]
                ELSE BackendStep(h[i - 1], offers, actions[i])]
      BY <3>2, <3>3
    <3> QED BY <3>1, <3>4
  <2>5. AppliedTo(cart, offers, actions, k + 1, f)
    <3> HIDE DEF f
    <3> QED BY <2>4, Zenon DEF AppliedTo, BackendStep
  <2> QED BY <2>5
<1>3. Nat \subseteq M
  <2> HIDE DEF M
  <2> QED BY <1>1, <1>2, EveryNumber
<1> QED BY <1>3

LEMMA BackendIs ==
  ASSUME NEW cart, NEW offers, NEW actions, Len(actions) \in Nat
  PROVE  \E g : /\ AppliedSoFar(cart, offers, actions, Len(actions), g)
                /\ AtBackend(cart, offers, actions) = g[Len(actions)]
<1>1. \E g : AppliedTo(cart, offers, actions, Len(actions), g)
  BY AppliedExists
<1> DEFINE c == CHOOSE g : g = [k \in 0 .. Len(actions) |->
        IF k = 0 THEN [cart |-> cart, refused |-> FALSE]
        ELSE IF Refusal(g[k - 1].cart, offers, actions[k]) = "ok"
        THEN [cart |-> Applied(g[k - 1].cart, actions[k]), refused |-> g[k - 1].refused]
        ELSE [cart |-> g[k - 1].cart, refused |-> TRUE]]
<1>2. AppliedTo(cart, offers, actions, Len(actions), c)
  BY <1>1, Zenon DEF AppliedTo
<1>3. AtBackend(cart, offers, actions) = c[Len(actions)]
  BY Zenon DEF AtBackend
<1>4. AppliedSoFar(cart, offers, actions, Len(actions), c)
  <2> HIDE DEF c
  <2> QED BY <1>2, AppliedStep
<1> QED BY <1>3, <1>4

\* The quantity of a line is the one the first cart has for its book.
Kept(from, l) == Has(from, l.book) /\ LineOf(from, l.book).qty = l.qty

\* The members of a filtered cart are lines of it, of different books, and none
\* of those that pass is left out.
LEMMA OnlyOfCart ==
  ASSUME NEW cart, CartOK(cart), NEW S, NEW r, r = Only(cart, S)
  PROVE  /\ r \in Seq(Line) /\ Len(r) \in Nat
         /\ \A k \in 1..Len(r) : r[k] \in Line /\ r[k] \in S /\ \E i \in 1..Len(cart) : r[k] = cart[i]
         /\ \A j, k \in 1..Len(r) : r[j].book = r[k].book => j = k
         /\ \A i \in 1..Len(cart) : cart[i] \in S => \E k \in 1..Len(r) : r[k] = cart[i]
<1>1. PICK c \in Seq(Line) : c = cart
  BY DEF CartOK
<1>2. r = Only(c, S) /\ r \in Seq(Line \cap S)
  BY <1>1, OnlyType
<1>3. PICK m : Places(c, S, Len(c), r, m)
  BY <1>2, OnlyPlaces
<1>4. PICK n \in Nat, l \in Nat : n = Len(c) /\ l = Len(r)
  BY <1>2
<1>5. ASSUME NEW k \in 1..l
      PROVE  m[k] \in 1..n /\ r[k] = c[m[k]] /\ r[k] \in S /\ r[k] \in Line
  BY <1>2, <1>3, <1>4 DEF Places
<1>6. \A j, k \in 1..l : r[j].book = r[k].book => j = k
  <2> SUFFICES ASSUME NEW j \in 1..l, NEW k \in 1..l, r[j].book = r[k].book PROVE j = k
    OBVIOUS
  <2>1. m[j] = m[k]
    BY <1>1, <1>4, <1>5 DEF CartOK
  <2>2. (j < k => m[j] < m[k]) /\ (k < j => m[k] < m[j])
    BY <1>3, <1>4 DEF Places
  <2>3. m[j] \in Int
    BY <1>5
  <2> QED BY <2>1, <2>2, <2>3
<1>7. \A i \in 1..n : c[i] \in S => \E k \in 1..l : r[k] = c[i]
  <2> SUFFICES ASSUME NEW i \in 1..n, c[i] \in S PROVE \E k \in 1..l : r[k] = c[i]
    OBVIOUS
  <2>1. PICK k \in 1..l : m[k] = i
    BY <1>3, <1>4 DEF Places
  <2> QED BY <1>5, <2>1
<1>8. r \in Seq(Line)
  BY <1>2
<1> QED BY <1>1, <1>4, <1>5, <1>6, <1>7, <1>8

\* One removal for each book that is gone.
RemovalsAre(from, to, n, gone) ==
  /\ Removals(from, to) = [i \in 1..n |-> Removal(gone[i])]
  /\ \A i \in 1..n : gone[i] \in Books /\ Has(from, gone[i]) /\ ~ Has(to, gone[i])
  /\ \A i, j \in 1..n : gone[i] = gone[j] => i = j
  /\ \A b : Has(from, b) /\ ~ Has(to, b) => \E i \in 1..n : gone[i] = b

LEMMA RemovalsFound ==
  ASSUME NEW from, CartOK(from), NEW to
  PROVE  \E n \in Nat : \E gone : RemovalsAre(from, to, n, gone)
<1>1. PICK S : S = {l \in ToSet(from) : ~ Has(to, l.book)}
  OBVIOUS
<1>2. PICK r : r = Only(from, S)
  OBVIOUS
<1>3. PICK n \in Nat : n = Len(r) /\ DOMAIN r = 1..n
  BY <1>2, OnlyOfCart
<1>4. PICK gone : gone = [i \in 1..n |-> r[i].book]
  OBVIOUS
<1>5. Removals(from, to) = [i \in 1..n |-> Removal(gone[i])]
  <2>1. Removals(from, to) = [i \in DOMAIN r |-> Removal(r[i].book)]
    BY <1>1, <1>2, Zenon DEF Removals
  <2> QED BY <1>3, <1>4, <2>1
<1>6. ASSUME NEW i \in 1..n
      PROVE  gone[i] \in Books /\ Has(from, gone[i]) /\ ~ Has(to, gone[i])
  <2>1. PICK k \in 1..Len(from) : r[i] = from[k]
    BY <1>2, <1>3, OnlyOfCart
  <2>2. r[i] \in S /\ r[i] \in Line
    BY <1>2, <1>3, OnlyOfCart
  <2>3. gone[i] = from[k].book /\ gone[i] = r[i].book
    BY <1>4, <2>1
  <2> QED BY <1>1, <2>2, <2>3, LineThere DEF Line
<1>7. \A i, j \in 1..n : gone[i] = gone[j] => i = j
  <2>1. \A i, j \in 1..n : r[i].book = r[j].book => i = j
    BY <1>2, <1>3, OnlyOfCart
  <2> QED BY <1>4, <2>1
<1>8. ASSUME NEW b, Has(from, b), ~ Has(to, b)
      PROVE  \E i \in 1..n : gone[i] = b
  <2>1. PICK k \in 1..Len(from) : from[k].book = b
    BY <1>8, LineFound
  <2>2. from[k] \in S
    <3>1. k \in DOMAIN from
      BY DEF CartOK
    <3> QED BY <1>1, <1>8, <2>1, <3>1 DEF ToSet
  <2>3. PICK i \in 1..n : r[i] = from[k]
    BY <1>2, <1>3, <2>2, OnlyOfCart
  <2> QED BY <1>4, <2>1, <2>3
<1>9. RemovalsAre(from, to, n, gone)
  BY <1>5, <1>6, <1>7, <1>8 DEF RemovalsAre
<1>10. \E x : RemovalsAre(from, to, n, x)
  BY <1>9
<1> QED BY <1>10

LEMMA ReverseOK ==
  ASSUME NEW to, CartOK(to)
  PROVE  /\ CartOK(Reverse(to))
         /\ \A i \in 1..Len(Reverse(to)) : \E j \in 1..Len(to) : Reverse(to)[i] = to[j]
         /\ \A j \in 1..Len(to) : \E i \in 1..Len(Reverse(to)) : Reverse(to)[i] = to[j]
<1>1. PICK n \in Nat : n = Len(to)
  BY DEF CartOK
<1>2. PICK r : r = Reverse(to)
  OBVIOUS
<1>3. \A i \in 1..n : to[i] \in Line
  BY <1>1 DEF CartOK
<1>4. r = [i \in 1..n |-> to[n - i + 1]]
  BY <1>1, <1>2 DEF Reverse
<1>5. \A i \in 1..n : r[i] = to[n - i + 1] /\ n - i + 1 \in 1..n
  BY <1>4
<1>6. r \in [1..n -> Line]
  <2>1. \A i \in 1..n : r[i] \in Line
    BY <1>3, <1>5
  <2> QED BY <1>4, <2>1
<1>7. r \in Seq(Line) /\ Len(r) = n /\ DOMAIN r = 1..n
  BY <1>6, SeqDef
<1>8. \A i, j \in 1..n : r[i].book = r[j].book => i = j
  <2> SUFFICES ASSUME NEW i \in 1..n, NEW j \in 1..n, r[i].book = r[j].book PROVE i = j
    OBVIOUS
  <2>1. n - i + 1 = n - j + 1
    <3>1. PICK x \in 1..n, y \in 1..n : x = n - i + 1 /\ y = n - j + 1
      OBVIOUS
    <3>2. to[x].book = to[y].book
      BY <1>5, <3>1
    <3>3. DOMAIN to = 1..n
      BY <1>1 DEF CartOK
    <3>4. x = y
      BY <3>2, <3>3 DEF CartOK
    <3> QED BY <3>1, <3>4
  <2> QED BY <2>1
<1>9. CartOK(r)
  BY <1>1, <1>7, <1>8 DEF CartOK
<1>10. \A j \in 1..n : n - j + 1 \in 1..n /\ r[n - j + 1] = to[j]
  <2> TAKE j \in 1..n
  <2>1. n - j + 1 \in 1..n /\ n - (n - j + 1) + 1 = j
    OBVIOUS
  <2> QED BY <1>5, <2>1
<1> QED BY <1>1, <1>2, <1>5, <1>7, <1>9, <1>10

\* One setting for each line of the last cart whose quantity the first has not.
SettingsAre(from, to, m, set) ==
  /\ Settings(from, to) = [i \in 1..m |-> Setting(set[i].book, set[i].qty)]
  /\ \A i \in 1..m : /\ set[i] \in Line /\ Has(to, set[i].book) /\ LineOf(to, set[i].book) = set[i]
                     /\ ~ Kept(from, set[i])
  /\ \A i, j \in 1..m : set[i].book = set[j].book => i = j
  /\ \A b : Has(to, b) /\ ~ Kept(from, LineOf(to, b)) => \E i \in 1..m : set[i].book = b

LEMMA SettingsFound ==
  ASSUME NEW from, NEW to, CartOK(to)
  PROVE  \E m \in Nat : \E set : SettingsAre(from, to, m, set)
<1>1. PICK S : S = {l \in ToSet(to) : ~ Kept(from, l)}
  OBVIOUS
<1>2. PICK back : back = Reverse(to)
  OBVIOUS
<1>3. CartOK(back)
  BY <1>2, ReverseOK
<1>4. PICK r : r = Only(back, S)
  OBVIOUS
<1>5. PICK m \in Nat : m = Len(r) /\ DOMAIN r = 1..m
  BY <1>3, <1>4, OnlyOfCart
<1>6. Settings(from, to) = [i \in 1..m |-> Setting(r[i].book, r[i].qty)]
  <2>1. Settings(from, to) = [i \in DOMAIN r |-> Setting(r[i].book, r[i].qty)]
    BY <1>1, <1>2, <1>4, Zenon DEF Settings, Kept
  <2> QED BY <1>5, <2>1
<1>7. ASSUME NEW i \in 1..m
      PROVE  /\ r[i] \in Line /\ Has(to, r[i].book) /\ LineOf(to, r[i].book) = r[i]
             /\ ~ Kept(from, r[i])
  <2>1. r[i] \in S /\ r[i] \in Line
    BY <1>3, <1>4, <1>5, OnlyOfCart
  <2>2. PICK j \in 1..Len(to) : r[i] = to[j]
    <3>1. DOMAIN to = 1..Len(to)
      BY DEF CartOK
    <3> QED BY <1>1, <2>1, <3>1 DEF ToSet
  <2> QED BY <1>1, <2>1, <2>2, LineThere
<1>8. \A i, j \in 1..m : r[i].book = r[j].book => i = j
  BY <1>3, <1>4, <1>5, OnlyOfCart
<1>9. ASSUME NEW b, Has(to, b), ~ Kept(from, LineOf(to, b))
      PROVE  \E i \in 1..m : r[i].book = b
  <2>1. PICK k \in 1..Len(to) : to[k].book = b /\ LineOf(to, b) = to[k]
    BY <1>9, LineFound
  <2>2. to[k] \in S
    <3>1. k \in DOMAIN to
      BY DEF CartOK
    <3> QED BY <1>1, <1>9, <2>1, <3>1 DEF ToSet
  <2>3. PICK j \in 1..Len(back) : back[j] = to[k]
    BY <1>2, ReverseOK
  <2>4. PICK i \in 1..m : r[i] = back[j]
    BY <1>3, <1>4, <1>5, <2>2, <2>3, OnlyOfCart
  <2> QED BY <2>1, <2>3, <2>4
<1>10. SettingsAre(from, to, m, r)
  BY <1>6, <1>7, <1>8, <1>9 DEF SettingsAre
<1> QED BY <1>10

\* The backend's cart after k removals: the books that are left, as they were.
RemovedSoFar(from, gone, k, cart) ==
  /\ CartOK(cart)
  /\ \A b : Has(cart, b) <=> Has(from, b) /\ \A i \in 1..k : gone[i] # b
  /\ \A b : Has(cart, b) => LineOf(cart, b) = LineOf(from, b)

LEMMA RemoveOne ==
  ASSUME NEW from, NEW to, NEW n \in Nat, NEW gone, RemovalsAre(from, to, n, gone),
         NEW k \in 1..n, NEW cart, RemovedSoFar(from, gone, k - 1, cart)
  PROVE  /\ RemoveRefusal(cart, gone[k]) = "ok"
         /\ RemovedSoFar(from, gone, k, Without(cart, gone[k]))
<1>1. PICK b : b = gone[k]
  OBVIOUS
<1>2. CartOK(cart) /\ Has(cart, b)
  <2>1. Has(from, b) /\ \A i \in 1..k - 1 : gone[i] # b
    BY <1>1 DEF RemovalsAre
  <2> QED BY <2>1 DEF RemovedSoFar
<1>3. CartOK(Without(cart, b))
  BY <1>2, WithoutOK
<1>4. \A c : Has(Without(cart, b), c) <=> Has(cart, c) /\ c # b
  BY <1>2, WithoutLines
<1>5. \A c : Has(cart, c) /\ c # b => LineOf(Without(cart, b), c) = LineOf(cart, c)
  BY <1>2, WithoutLines
<1>6. ASSUME NEW c
      PROVE  Has(Without(cart, b), c) <=> Has(from, c) /\ \A i \in 1..k : gone[i] # c
  <2>1. (\A i \in 1..k : gone[i] # c) <=> (\A i \in 1..k - 1 : gone[i] # c) /\ c # b
    <3>1. \A i \in 1..k : i = k \/ i \in 1..k - 1
      OBVIOUS
    <3> QED BY <1>1, <3>1
  <2> QED BY <1>4, <2>1 DEF RemovedSoFar
<1>7. \A c : Has(Without(cart, b), c) => LineOf(Without(cart, b), c) = LineOf(from, c)
  BY <1>4, <1>5 DEF RemovedSoFar
<1>8. RemovedSoFar(from, gone, k, Without(cart, b))
  BY <1>3, <1>6, <1>7 DEF RemovedSoFar
<1> QED BY <1>1, <1>2, <1>8 DEF RemoveRefusal

\* And after j settings: no book that is not wanted, and of those that are the
\* ones of the first cart and the ones that have been set, in their quantity.
SetUpTo(set, j, b) == \E i \in 1..j : set[i].book = b

SetSoFar(from, to, set, j, cart) ==
  /\ CartOK(cart)
  /\ \A b : Has(cart, b) <=> Has(to, b) /\ (Has(from, b) \/ SetUpTo(set, j, b))
  /\ \A b : Has(cart, b) => IF SetUpTo(set, j, b) THEN LineOf(cart, b).qty = LineOf(to, b).qty
                            ELSE LineOf(cart, b) = LineOf(from, b)

LEMMA AllRemoved ==
  ASSUME NEW from, NEW to, NEW n \in Nat, NEW gone, RemovalsAre(from, to, n, gone),
         NEW set, NEW cart, RemovedSoFar(from, gone, n, cart)
  PROVE  SetSoFar(from, to, set, 0, cart)
<1>1. \A b : ~ SetUpTo(set, 0, b)
  BY DEF SetUpTo
<1>2. ASSUME NEW b
      PROVE  Has(cart, b) <=> Has(to, b) /\ Has(from, b)
  <2>1. Has(from, b) => ((\A i \in 1..n : gone[i] # b) <=> Has(to, b))
    BY DEF RemovalsAre
  <2> QED BY <2>1 DEF RemovedSoFar
<1> QED BY <1>1, <1>2 DEF SetSoFar, RemovedSoFar

LEMMA SetOne ==
  ASSUME NEW from, CartOK(from), NEW to, CartOK(to), NEW offers, WrittenFrom(from, to, offers),
         NEW m \in Nat, NEW set, SettingsAre(from, to, m, set),
         NEW j \in 1..m, NEW cart, SetSoFar(from, to, set, j - 1, cart)
  PROVE  /\ AddRefusal(cart, offers, set[j].book, set[j].qty) = "ok"
         /\ SetSoFar(from, to, set, j, WithBook(cart, set[j].book, set[j].qty))
<1>1. PICK l \in Line : /\ l = set[j] /\ Has(to, l.book) /\ LineOf(to, l.book) = l
                        /\ ~ Kept(from, l)
  BY DEF SettingsAre
<1>2. PICK b \in Books, q \in 1..MaxQty : b = l.book /\ q = l.qty
  BY DEF Line
<1>3. CartOK(cart)
  BY DEF SetSoFar
<1>4. ~ SetUpTo(set, j - 1, b)
  <2> SUFFICES ASSUME NEW i \in 1..j - 1, set[i].book = b PROVE FALSE
    BY DEF SetUpTo
  <2>1. i \in 1..m /\ i # j
    OBVIOUS
  <2> QED BY <1>1, <1>2, <2>1 DEF SettingsAre
<1>5. Has(cart, b) <=> Has(from, b)
  BY <1>1, <1>2, <1>4 DEF SetSoFar
<1>6. \A c : SetUpTo(set, j, c) <=> SetUpTo(set, j - 1, c) \/ c = b
  <2>1. \A i \in 1..j : i = j \/ i \in 1..j - 1
    OBVIOUS
  <2>2. \A i \in 1..j - 1 : i \in 1..j
    OBVIOUS
  <2>3. j \in 1..j
    OBVIOUS
  <2> QED BY <1>1, <1>2, <2>1, <2>2, <2>3 DEF SetUpTo
<1> DEFINE w == WithBook(cart, b, q)
<1>7. CASE Has(cart, b)
  <2>1. PICK f \in Line : f = LineOf(from, b)
    BY <1>5, <1>7, LineFound
  <2>2. LineOf(cart, b) = f
    BY <1>4, <1>7, <2>1 DEF SetSoFar
  <2>3. q # f.qty
    BY <1>1, <1>2, <1>5, <1>7, <2>1 DEF Kept
  <2>4. f.priced /\ (q > f.qty => offers[b] # "out")
    BY <1>1, <1>2, <1>5, <1>7, <2>1, <2>3 DEF WrittenFrom
  <2>5. ChangeRefusal(cart, offers, b, q) = "ok"
    BY <2>2, <2>4 DEF ChangeRefusal
  <2>6. AddRefusal(cart, offers, b, q) = "ok"
    BY <1>7, <2>5 DEF AddRefusal
  <2>7. w = WithQty(cart, b, q)
    BY <1>7 DEF WithBook
  <2>8. \A c : Has(w, c) <=> Has(cart, c)
    BY <1>3, <2>7, WithQtyLines
  <2>9. \A c : Has(cart, c) =>
          LineOf(w, c) = IF c = b THEN [LineOf(cart, c) EXCEPT !.qty = q] ELSE LineOf(cart, c)
    BY <1>3, <2>7, WithQtyLines
  <2>10. LineOf(w, b).qty = q
    <3>1. LineOf(w, b) = [f EXCEPT !.qty = q]
      BY <1>7, <2>2, <2>9
    <3>2. [f EXCEPT !.qty = q].qty = q
      BY LineWithQty
    <3> QED BY <3>1, <3>2
  <2>11. CartOK(w)
    BY <1>3, <2>7, WithQtyOK
  <2> HIDE DEF w
  <2>12. \A c : Has(w, c) <=> Has(to, c) /\ (Has(from, c) \/ SetUpTo(set, j, c))
    BY <1>5, <1>6, <1>7, <2>8 DEF SetSoFar
  <2>13. ASSUME NEW c, Has(w, c)
         PROVE  IF SetUpTo(set, j, c) THEN LineOf(w, c).qty = LineOf(to, c).qty
                ELSE LineOf(w, c) = LineOf(from, c)
    <3>1. CASE c = b
      BY <1>1, <1>2, <1>6, <2>10, <3>1
    <3>2. CASE c # b
      <4>1. Has(cart, c) /\ LineOf(w, c) = LineOf(cart, c)
        BY <2>8, <2>9, <2>13, <3>2
      <4>2. SetUpTo(set, j, c) <=> SetUpTo(set, j - 1, c)
        BY <1>6, <3>2
      <4> QED BY <4>1, <4>2 DEF SetSoFar
    <3> QED BY <3>1, <3>2
  <2>14. SetSoFar(from, to, set, j, w)
    BY <2>11, <2>12, <2>13 DEF SetSoFar
  <2> QED BY <1>1, <1>2, <2>6, <2>14 DEF w
<1>8. CASE ~ Has(cart, b)
  <2>1. offers[b] = "in"
    BY <1>1, <1>2, <1>5, <1>8 DEF WrittenFrom
  <2>2. Len(cart) < MaxLines
    <3>1. Len(cart) < Len(to)
      BY <1>1, <1>2, <1>3, <1>8, FewerLines DEF SetSoFar
    <3>2. Len(cart) \in Nat /\ Len(to) \in Nat /\ Len(to) <= MaxLines
      BY <1>3 DEF CartOK
    <3> QED BY <3>1, <3>2, TurnCartAssumption
  <2>3. AddRefusal(cart, offers, b, q) = "ok"
    <3>1. ~ (Len(cart) >= MaxLines)
      BY <1>3, <2>2, TurnCartAssumption DEF CartOK
    <3> QED BY <1>8, <2>1, <3>1 DEF AddRefusal
  <2>4. w = OnTop(cart, b, q)
    BY <1>8 DEF WithBook, OnTop
  <2>5. \A c : Has(w, c) <=> Has(cart, c) \/ c = b
    BY <1>3, <1>8, <2>2, <2>4, OnTopLines
  <2>6. \A c : Has(cart, c) => LineOf(w, c) = LineOf(cart, c)
    BY <1>3, <1>8, <2>2, <2>4, OnTopLines
  <2>7. LineOf(w, b).qty = q
    <3>1. LineOf(w, b) = [book |-> b, qty |-> q, priced |-> TRUE]
      BY <1>3, <1>8, <2>2, <2>4, OnTopLines
    <3> QED BY <3>1
  <2>8. CartOK(w)
    BY <1>3, <1>8, <2>2, <2>4, OnTopOK DEF OnTop
  <2> HIDE DEF w
  <2>9. \A c : Has(w, c) <=> Has(to, c) /\ (Has(from, c) \/ SetUpTo(set, j, c))
    BY <1>1, <1>2, <1>6, <2>5 DEF SetSoFar
  <2>10. ASSUME NEW c, Has(w, c)
         PROVE  IF SetUpTo(set, j, c) THEN LineOf(w, c).qty = LineOf(to, c).qty
                ELSE LineOf(w, c) = LineOf(from, c)
    <3>1. CASE c = b
      BY <1>1, <1>2, <1>6, <2>7, <3>1
    <3>2. CASE c # b
      <4>1. Has(cart, c) /\ LineOf(w, c) = LineOf(cart, c)
        BY <2>5, <2>6, <2>10, <3>2
      <4>2. SetUpTo(set, j, c) <=> SetUpTo(set, j - 1, c)
        BY <1>6, <3>2
      <4> QED BY <4>1, <4>2 DEF SetSoFar
    <3> QED BY <3>1, <3>2
  <2>11. SetSoFar(from, to, set, j, w)
    BY <2>8, <2>9, <2>10 DEF SetSoFar
  <2> QED BY <1>1, <1>2, <2>3, <2>11 DEF w
<1> QED BY <1>7, <1>8

\* The books and the quantities of a cart.
SameCart(cart, to) ==
  /\ CartOK(cart) /\ \A b : Has(cart, b) <=> Has(to, b)
  /\ \A b : Has(cart, b) => LineOf(cart, b).qty = LineOf(to, b).qty

LEMMA AllSet ==
  ASSUME NEW from, NEW to, NEW m \in Nat, NEW set, SettingsAre(from, to, m, set),
         CartOK(to), NEW cart, SetSoFar(from, to, set, m, cart)
  PROVE  SameCart(cart, to)
<1>1. ASSUME NEW b, Has(to, b), ~ SetUpTo(set, m, b)
      PROVE  Has(from, b) /\ LineOf(from, b).qty = LineOf(to, b).qty
  <2>1. Kept(from, LineOf(to, b))
    BY <1>1 DEF SettingsAre, SetUpTo
  <2>2. LineOf(to, b).book = b
    BY <1>1, LineFound
  <2> QED BY <2>1, <2>2 DEF Kept
<1>2. \A b : Has(cart, b) <=> Has(to, b)
  BY <1>1 DEF SetSoFar
<1>3. \A b : Has(cart, b) => LineOf(cart, b).qty = LineOf(to, b).qty
  BY <1>1, <1>2 DEF SetSoFar
<1> QED BY <1>2, <1>3 DEF SameCart, SetSoFar

\* Setting the same quantities again.
LEMMA SetAgain ==
  ASSUME NEW to, NEW cart, SameCart(cart, to), NEW b, Has(to, b)
  PROVE  WithBook(cart, b, LineOf(to, b).qty) = cart
<1>1. CartOK(cart) /\ Has(cart, b) /\ LineOf(cart, b).qty = LineOf(to, b).qty
  BY DEF SameCart
<1>2. PICK q : q = LineOf(to, b).qty
  OBVIOUS
<1>3. WithQty(cart, b, q) = cart
  BY <1>1, <1>2, WithQtySame
<1> QED BY <1>1, <1>2, <1>3 DEF WithBook

\* The actions of a difference: removals, then settings.
LEMMA DiffIs ==
  ASSUME NEW from, NEW to, NEW n \in Nat, NEW gone, RemovalsAre(from, to, n, gone),
         NEW m \in Nat, NEW set, SettingsAre(from, to, m, set)
  PROVE  /\ Len(Diff(from, to)) = n + m
         /\ \A i \in 1..n : Diff(from, to)[i] = Removal(gone[i])
         /\ \A j \in 1..m : Diff(from, to)[n + j] = Setting(set[j].book, set[j].qty)
<1>1. PICK A : A = {Removal(gone[i]) : i \in 1..n} \cup {Setting(set[j].book, set[j].qty) : j \in 1..m}
  OBVIOUS
<1>2. PICK r \in [1..n -> A] : r = Removals(from, to) /\ \A i \in 1..n : r[i] = Removal(gone[i])
  BY <1>1 DEF RemovalsAre
<1>3. PICK s \in [1..m -> A] :
        s = Settings(from, to) /\ \A j \in 1..m : s[j] = Setting(set[j].book, set[j].qty)
  BY <1>1 DEF SettingsAre
<1>4. r \in Seq(A) /\ Len(r) = n /\ s \in Seq(A) /\ Len(s) = m
  BY SeqDef
<1>5. /\ Len(r \o s) = n + m
      /\ \A i \in 1..n + m : (r \o s)[i] = IF i <= n THEN r[i] ELSE s[i - n]
  BY <1>4, ConcatProperties
<1>6. PICK d : d = r \o s
  OBVIOUS
<1>7. d = Diff(from, to)
  BY <1>2, <1>3, <1>6 DEF Diff
<1>8. \A i \in 1..n : i \in 1..n + m /\ i <= n
  OBVIOUS
<1>9. \A j \in 1..m : n + j \in 1..n + m /\ ~ (n + j <= n) /\ n + j - n = j
  OBVIOUS
<1> QED BY <1>2, <1>3, <1>5, <1>6, <1>7, <1>8, <1>9

LEMMA RemovalStep ==
  ASSUME NEW at, NEW offers, NEW b
  PROVE  BackendStep(at, offers, Removal(b)) =
           IF RemoveRefusal(at.cart, b) = "ok"
           THEN [cart |-> Without(at.cart, b), refused |-> at.refused]
           ELSE [cart |-> at.cart, refused |-> TRUE]
<1>1. Removal(b).op # "set" /\ Removal(b).book = b
  BY DEF Removal
<1> QED BY <1>1 DEF BackendStep, Refusal, Applied

LEMMA SettingStep ==
  ASSUME NEW at, NEW offers, NEW b, NEW q
  PROVE  BackendStep(at, offers, Setting(b, q)) =
           IF AddRefusal(at.cart, offers, b, q) = "ok"
           THEN [cart |-> WithBook(at.cart, b, q), refused |-> at.refused]
           ELSE [cart |-> at.cart, refused |-> TRUE]
<1>1. Setting(b, q).op = "set" /\ Setting(b, q).book = b /\ Setting(b, q).qty = q
  BY DEF Setting
<1> QED BY <1>1 DEF BackendStep, Refusal, Applied

\* Nothing of the difference is refused, and in the end the backend has the
\* books and the quantities of the last cart.
LEMMA DiffApplies ==
  ASSUME NEW from, CartOK(from), NEW to, CartOK(to), NEW offers, WrittenFrom(from, to, offers)
  PROVE  /\ AtBackend(from, offers, Diff(from, to)).refused = FALSE
         /\ SameCart(AtBackend(from, offers, Diff(from, to)).cart, to)
<1>n. PICK n \in Nat : \E gone : RemovalsAre(from, to, n, gone)
  BY RemovalsFound
<1>1. PICK gone : RemovalsAre(from, to, n, gone)
  BY <1>n
<1>m. PICK m \in Nat : \E set : SettingsAre(from, to, m, set)
  BY SettingsFound
<1>2. PICK set : SettingsAre(from, to, m, set)
  BY <1>m
<1>3. PICK d : d = Diff(from, to)
  OBVIOUS
<1>4. /\ Len(d) = n + m /\ \A i \in 1..n : d[i] = Removal(gone[i])
      /\ \A j \in 1..m : d[n + j] = Setting(set[j].book, set[j].qty)
  BY <1>1, <1>2, <1>3, DiffIs
<1>5. PICK g : AppliedSoFar(from, offers, d, n + m, g) /\ AtBackend(from, offers, d) = g[n + m]
  <2>1. Len(d) \in Nat
    BY <1>4
  <2> QED BY <1>4, <2>1, BackendIs
<1>6. /\ g[0] = [cart |-> from, refused |-> FALSE]
      /\ \A k \in 1..n + m : g[k] = BackendStep(g[k - 1], offers, d[k])
  BY <1>5, Zenon DEF AppliedSoFar
<1> DEFINE Removed(k) == g[k].refused = FALSE /\ RemovedSoFar(from, gone, k, g[k].cart)
           Done(j) == g[n + j].refused = FALSE /\ SetSoFar(from, to, set, j, g[n + j].cart)
           R == {k \in Nat : k <= n => Removed(k)}
           S == {j \in Nat : j <= m => Done(j)}
<1>7. 0 \in R
  <2>1. g[0].refused = FALSE /\ g[0].cart = from
    BY <1>6
  <2>2. RemovedSoFar(from, gone, 0, from)
    BY DEF RemovedSoFar
  <2> QED BY <2>1, <2>2
<1>8. ASSUME NEW k \in Nat, k \in R
      PROVE  k + 1 \in R
  <2> SUFFICES ASSUME k + 1 <= n PROVE Removed(k + 1)
    <3> HIDE DEF Removed
    <3> QED OBVIOUS
  <2>1. PICK i \in 1..n : i = k + 1 /\ i - 1 = k /\ i \in 1..n + m
    OBVIOUS
  <2>2. g[k].refused = FALSE /\ RemovedSoFar(from, gone, i - 1, g[k].cart)
    BY <1>8, <2>1
  <2>3. g[i] = BackendStep(g[k], offers, Removal(gone[i]))
    BY <1>4, <1>6, <2>1
  <2>4. PICK c : c = g[k].cart
    OBVIOUS
  <2>5. RemoveRefusal(c, gone[i]) = "ok" /\ RemovedSoFar(from, gone, i, Without(c, gone[i]))
    BY <1>1, <2>2, <2>4, RemoveOne
  <2>6. g[i] = [cart |-> Without(c, gone[i]), refused |-> g[k].refused]
    BY <2>3, <2>4, <2>5, RemovalStep
  <2> QED BY <2>1, <2>2, <2>5, <2>6
<1>9. Nat \subseteq R
  <2> HIDE DEF R
  <2> QED BY <1>7, <1>8, EveryNumber
<1>10. 0 \in S
  <2>1. g[n].refused = FALSE /\ RemovedSoFar(from, gone, n, g[n].cart)
    BY <1>9
  <2>2. SetSoFar(from, to, set, 0, g[n].cart)
    BY <1>1, <2>1, AllRemoved
  <2> QED BY <2>1, <2>2
<1>11. ASSUME NEW j \in Nat, j \in S
       PROVE  j + 1 \in S
  <2> SUFFICES ASSUME j + 1 <= m PROVE Done(j + 1)
    <3> HIDE DEF Done
    <3> QED OBVIOUS
  <2>1. PICK i \in 1..m : i = j + 1 /\ i - 1 = j /\ n + i \in 1..n + m /\ n + i - 1 = n + j
    OBVIOUS
  <2>2. g[n + j].refused = FALSE /\ SetSoFar(from, to, set, i - 1, g[n + j].cart)
    BY <1>11, <2>1
  <2>3. PICK b, q : b = set[i].book /\ q = set[i].qty
    OBVIOUS
  <2>4. g[n + i] = BackendStep(g[n + j], offers, Setting(b, q))
    BY <1>4, <1>6, <2>1, <2>3
  <2>5. PICK c : c = g[n + j].cart
    OBVIOUS
  <2>6. AddRefusal(c, offers, b, q) = "ok" /\ SetSoFar(from, to, set, i, WithBook(c, b, q))
    BY <1>2, <2>2, <2>3, <2>5, SetOne
  <2>7. g[n + i] = [cart |-> WithBook(c, b, q), refused |-> g[n + j].refused]
    BY <2>4, <2>5, <2>6, SettingStep
  <2> QED BY <2>1, <2>2, <2>6, <2>7
<1>12. Nat \subseteq S
  <2> HIDE DEF S
  <2> QED BY <1>10, <1>11, EveryNumber
<1>13. g[n + m].refused = FALSE /\ SetSoFar(from, to, set, m, g[n + m].cart)
  BY <1>12
<1>14. SameCart(g[n + m].cart, to)
  BY <1>2, <1>13, AllSet
<1> QED BY <1>3, <1>5, <1>13, <1>14

\* A cart that has the books and the quantities already stays as it is.
LEMMA DiffAgain ==
  ASSUME NEW from, CartOK(from), NEW to, CartOK(to), NEW offers, NEW cart, SameCart(cart, to)
  PROVE  AtBackend(cart, offers, Diff(from, to)).cart = cart
<1>n. PICK n \in Nat : \E gone : RemovalsAre(from, to, n, gone)
  BY RemovalsFound
<1>1. PICK gone : RemovalsAre(from, to, n, gone)
  BY <1>n
<1>m. PICK m \in Nat : \E set : SettingsAre(from, to, m, set)
  BY SettingsFound
<1>2. PICK set : SettingsAre(from, to, m, set)
  BY <1>m
<1>3. PICK d : d = Diff(from, to)
  OBVIOUS
<1>4. /\ Len(d) = n + m /\ \A i \in 1..n : d[i] = Removal(gone[i])
      /\ \A j \in 1..m : d[n + j] = Setting(set[j].book, set[j].qty)
  BY <1>1, <1>2, <1>3, DiffIs
<1>5. PICK g : AppliedSoFar(cart, offers, d, n + m, g) /\ AtBackend(cart, offers, d) = g[n + m]
  <2>1. Len(d) \in Nat
    BY <1>4
  <2> QED BY <1>4, <2>1, BackendIs
<1>6. /\ g[0] = [cart |-> cart, refused |-> FALSE]
      /\ \A k \in 1..n + m : g[k] = BackendStep(g[k - 1], offers, d[k])
  BY <1>5, Zenon DEF AppliedSoFar
<1> DEFINE M == {k \in Nat : k <= n + m => g[k].cart = cart}
<1>7. 0 \in M
  BY <1>6
<1>8. ASSUME NEW k \in Nat, k \in M
      PROVE  k + 1 \in M
  <2> SUFFICES ASSUME k + 1 <= n + m PROVE g[k + 1].cart = cart
    OBVIOUS
  <2>1. g[k].cart = cart
    BY <1>8
  <2>2. k + 1 \in 1..n + m /\ k + 1 - 1 = k
    OBVIOUS
  <2>3. g[k + 1] = BackendStep(g[k], offers, d[k + 1])
    BY <1>6, <2>2
  <2>4. CASE k + 1 <= n
    <3>1. PICK b : b = gone[k + 1]
      OBVIOUS
    <3>2. d[k + 1] = Removal(b) /\ ~ Has(to, b)
      <4>1. k + 1 \in 1..n
        BY <2>4
      <4> QED BY <1>1, <1>4, <3>1, <4>1 DEF RemovalsAre
    <3>3. RemoveRefusal(cart, b) # "ok"
      BY <3>2 DEF SameCart, RemoveRefusal
    <3> QED BY <2>1, <2>3, <3>2, <3>3, RemovalStep
  <2>5. CASE ~ (k + 1 <= n)
    <3>1. PICK i \in 1..m : n + i = k + 1
      <4>1. k + 1 - n \in 1..m /\ n + (k + 1 - n) = k + 1
        BY <2>5
      <4> QED BY <4>1
    <3>2. PICK b, q : b = set[i].book /\ q = set[i].qty
      OBVIOUS
    <3>3. d[k + 1] = Setting(b, q)
      BY <1>4, <3>1, <3>2
    <3>4. Has(to, b) /\ LineOf(to, b).qty = q
      BY <1>2, <3>2 DEF SettingsAre
    <3>5. WithBook(cart, b, q) = cart
      BY <3>4, SetAgain
    <3> QED BY <2>1, <2>3, <3>3, <3>5, SettingStep
  <2> QED BY <2>4, <2>5
<1>9. Nat \subseteq M
  <2> HIDE DEF M
  <2> QED BY <1>7, <1>8, EveryNumber
<1>10. g[n + m].cart = cart
  BY <1>9
<1> QED BY <1>3, <1>5, <1>10

Counted(cart) == {[book |-> cart[i].book, qty |-> cart[i].qty] : i \in DOMAIN cart}

LEMMA SameCount ==
  ASSUME NEW cart, NEW to, CartOK(to), SameCart(cart, to)
  PROVE  Counted(cart) = Counted(to)
<1>0. CartOK(cart) /\ DOMAIN cart = 1..Len(cart) /\ DOMAIN to = 1..Len(to)
  BY DEF SameCart, CartOK
<1>1. ASSUME NEW i \in 1..Len(cart)
      PROVE  \E j \in 1..Len(to) : to[j].book = cart[i].book /\ to[j].qty = cart[i].qty
  <2>1. PICK b : b = cart[i].book
    OBVIOUS
  <2>2. Has(cart, b) /\ LineOf(cart, b) = cart[i]
    BY <1>0, <2>1, LineThere
  <2>3. Has(to, b) /\ LineOf(cart, b).qty = LineOf(to, b).qty
    BY <2>2 DEF SameCart
  <2> QED BY <2>1, <2>2, <2>3, LineFound
<1>2. ASSUME NEW j \in 1..Len(to)
      PROVE  \E i \in 1..Len(cart) : cart[i].book = to[j].book /\ cart[i].qty = to[j].qty
  <2>1. PICK b : b = to[j].book
    OBVIOUS
  <2>2. Has(to, b) /\ LineOf(to, b) = to[j]
    BY <2>1, LineThere
  <2>3. Has(cart, b) /\ LineOf(cart, b).qty = LineOf(to, b).qty
    BY <2>2 DEF SameCart
  <2> QED BY <1>0, <2>1, <2>2, <2>3, LineFound
<1>3. ASSUME NEW x \in Counted(cart) PROVE x \in Counted(to)
  <2>1. PICK i \in DOMAIN cart : x = [book |-> cart[i].book, qty |-> cart[i].qty]
    BY DEF Counted
  <2>2. PICK j \in 1..Len(to) : to[j].book = cart[i].book /\ to[j].qty = cart[i].qty
    BY <1>0, <1>1
  <2>3. j \in DOMAIN to /\ x = [book |-> to[j].book, qty |-> to[j].qty]
    BY <1>0, <2>1, <2>2
  <2> QED BY <2>3, Zenon DEF Counted
<1>4. ASSUME NEW x \in Counted(to) PROVE x \in Counted(cart)
  <2>1. PICK j \in DOMAIN to : x = [book |-> to[j].book, qty |-> to[j].qty]
    BY DEF Counted
  <2>2. PICK i \in 1..Len(cart) : cart[i].book = to[j].book /\ cart[i].qty = to[j].qty
    BY <1>0, <1>2
  <2>3. i \in DOMAIN cart /\ x = [book |-> cart[i].book, qty |-> cart[i].qty]
    BY <1>0, <2>1, <2>2
  <2> QED BY <2>3, Zenon DEF Counted
<1> QED BY <1>3, <1>4

\* With no actions the backend's cart stays the one of the request.
LEMMA NothingApplied ==
  ASSUME NEW cart, NEW offers
  PROVE  AtBackend(cart, offers, <<>>) = [cart |-> cart, refused |-> FALSE]
<1>1. Len(<<>>) = 0
  OBVIOUS
<1>2. PICK g : AppliedSoFar(cart, offers, <<>>, 0, g) /\ AtBackend(cart, offers, <<>>) = g[0]
  BY <1>1, BackendIs
<1> QED BY <1>2 DEF AppliedSoFar

\* The backend can apply what a turn asks of it, action by action and whatever
\* the limit on lines; it ends with the books and the quantities of the turn's
\* cart, and applying it all again changes nothing (commerce_snapshot.diff_cart,
\* run_agent, agent/replay.py).
THEOREM ActionsCanBeApplied == Spec => []ActionsApply
<1>1. ASSUME WrittenInv
      PROVE  ActionsApply
  <2> SUFFICES ASSUME pc = "done"
               PROVE  LET end == AtBackend(turn.start, turn.offers, Actions)
                      IN  /\ ~ end.refused /\ Counted(end.cart) = Counted(lines)
                          /\ AtBackend(end.cart, turn.offers, Actions).cart = end.cart
    BY Zenon DEF ActionsApply, Counted
  <2>1. PickInv /\ TypeOK /\ batch = <<>>
    BY <1>1 DEF WrittenInv, PickInv
  <2>2. changed <=> WroteBefore
    <3>1. ~ AnyOf(batch, Written)
      BY <2>1 DEF AnyOf
    <3> QED BY <2>1, <3>1 DEF PickInv
  <2>3. PICK from, offers, acts : from = turn.start /\ offers = turn.offers /\ acts = Actions
    OBVIOUS
  <2>4. CartOK(from) /\ CartOK(lines) /\ WrittenFrom(from, lines, offers)
    BY <1>1, <2>1, <2>3, StartFits DEF TypeOK, WrittenInv
  <2>5. CASE WroteBefore
    <3>1. acts = Diff(from, lines)
      BY <1>1, <2>2, <2>3, <2>5 DEF Actions, WrittenInv
    <3>2. PICK end : end = AtBackend(from, offers, acts)
      OBVIOUS
    <3>3. end.refused = FALSE /\ SameCart(end.cart, lines)
      BY <2>4, <3>1, <3>2, DiffApplies
    <3>4. AtBackend(end.cart, offers, acts).cart = end.cart
      BY <2>4, <3>1, <3>3, DiffAgain
    <3>5. Counted(end.cart) = Counted(lines)
      BY <2>4, <3>3, SameCount
    <3> QED BY <2>3, <3>2, <3>3, <3>4, <3>5
  <2>6. CASE ~ WroteBefore
    <3>1. acts = <<>> /\ lines = from
      BY <1>1, <2>2, <2>3, <2>6 DEF Actions, WrittenInv
    <3>2. PICK end : end = AtBackend(from, offers, acts)
      OBVIOUS
    <3>3. end.cart = from /\ end.refused = FALSE
      BY <3>1, <3>2, NothingApplied
    <3> QED BY <2>3, <3>1, <3>2, <3>3
  <2> QED BY <2>5, <2>6
<1> QED BY <1>1, WrittenHolds, PTL

=============================================================================
