--------------------------- MODULE ChatTurnProofs ---------------------------
(***************************************************************************)
(* What a conversation keeps for every set of messages, patches, words and *)
(* books and any number of turns.                                          *)
(***************************************************************************)
EXTENDS ChatTurn, TLAPS

\* The parts of a patch have no other keys than the code reads.
PatchShape(p) ==
  /\ DOMAIN p.exact \subseteq ExactKeys
  /\ DOMAIN p.filters \subseteq FilterKeys
  /\ \A k \in DOMAIN p.filters : p.filters[k] \in Int \cup {None, Odd}
  /\ DOMAIN p.plain \subseteq PlainKeys

LEMMA PatchesShaped == \A p \in Patches : PatchShape(p)
  BY ChatTurnAssumption DEF PatchShape

-----------------------------------------------------------------------------
(* Merging *)

\* One pair of ends after the merge: it is in order if it was, or else one end came alone.
LEMMA PairSettled ==
  ASSUME NEW f \in [FilterKeys -> Int \cup {None}], NEW sub,
         NEW low \in FilterKeys, NEW high \in FilterKeys, low # high,
         (low \in DOMAIN sub <=> high \in DOMAIN sub) => Ordered(f, low, high),
         NEW g, g = ClearInvertedRange(f, sub, low, high)
  PROVE  /\ g \in [FilterKeys -> Int \cup {None}]
         /\ \A k \in FilterKeys : g[k] = f[k] \/ g[k] = None
         /\ \A k \in FilterKeys \ {low, high} : g[k] = f[k]
         /\ Ordered(g, low, high)
<1>1. CASE Inverted(f, low, high) /\ low \in DOMAIN sub /\ high \notin DOMAIN sub
  <2>1. g = [k \in FilterKeys |-> IF k = high THEN None ELSE f[k]]
    BY <1>1 DEF ClearInvertedRange, Cleared
  <2>2. QED
    BY <2>1 DEF Ordered
<1>2. CASE Inverted(f, low, high) /\ high \in DOMAIN sub /\ low \notin DOMAIN sub
  <2>1. g = [k \in FilterKeys |-> IF k = low THEN None ELSE f[k]]
    BY <1>2 DEF ClearInvertedRange, Cleared
  <2>2. QED
    BY <2>1 DEF Ordered
<1>3. CASE ~ Inverted(f, low, high)
  <2>1. g = f
    BY <1>3 DEF ClearInvertedRange
  <2>2. QED
    BY <1>3, <2>1 DEF Ordered, Inverted
<1>4. CASE Inverted(f, low, high) /\ (low \in DOMAIN sub <=> high \in DOMAIN sub)
  <2>1. Ordered(f, low, high)
    BY <1>4
  <2>2. QED
    BY <1>4, <2>1, ChatSpecAssumption DEF Ordered, Inverted
<1>5. QED
  BY <1>1, <1>2, <1>3, <1>4

\* A good patch gives ends that are numbers in bounds or null, and pairs in order.
LEMMA GoodRanges ==
  ASSUME NEW p, PatchShape(p), Good(p)
  PROVE  /\ \A k \in DOMAIN p.filters :
              /\ p.filters[k] \in Int \cup {None}
              /\ p.filters[k] # None => Lowest(k) <= p.filters[k] /\ p.filters[k] <= MaxInt32
         /\ {"price_min", "price_max"} \subseteq DOMAIN p.filters
              => Ordered(p.filters, "price_min", "price_max")
         /\ {"pub_year_from", "pub_year_to"} \subseteq DOMAIN p.filters
              => Ordered(p.filters, "pub_year_from", "pub_year_to")
<1> DEFINE f == Overlay(InitialSpec.filters, p.filters)
           g == ClearInvertedRange(f, p.filters, "price_min", "price_max")
           h == ClearInvertedRange(g, p.filters, "pub_year_from", "pub_year_to")
<1>1. h \in Filters
  BY DEF Good, ValidSpec, MergeSpecPatch, MergedFilters
<1>2. /\ DOMAIN f = FilterKeys
      /\ \A k \in FilterKeys : f[k] = IF k \in DOMAIN p.filters THEN p.filters[k] ELSE None
  BY DEF Overlay, InitialSpec
<1>3. g = f
  BY <1>2, ChatSpecAssumption DEF ClearInvertedRange, Inverted, FilterKeys
<1>4. h = f
  BY <1>2, <1>3, ChatSpecAssumption DEF ClearInvertedRange, Inverted, FilterKeys
<1>5. f \in Filters
  BY <1>1, <1>4
<1>6. \A k \in DOMAIN p.filters : k \in FilterKeys /\ p.filters[k] = f[k]
  BY <1>2 DEF PatchShape
<1> HIDE DEF f, g, h
<1>7. QED
  BY <1>5, <1>6 DEF Filters, Ordered

\* A patch that is good by itself is good on all conditions that are valid.
LEMMA GoodStaysGood ==
  ASSUME NEW s, ValidSpec(s), NEW p, PatchShape(p), Good(p)
  PROVE  ~ MergeRaises(s, p) /\ ValidSpec(MergeSpecPatch(s, p))
<1> DEFINE q == p.filters
           f == Overlay(s.filters, q)
           g == ClearInvertedRange(f, q, "price_min", "price_max")
           h == ClearInvertedRange(g, q, "pub_year_from", "pub_year_to")
<1>1. /\ \A k \in DOMAIN q :
           /\ k \in FilterKeys /\ q[k] \in Int \cup {None}
           /\ q[k] # None => Lowest(k) <= q[k] /\ q[k] <= MaxInt32
      /\ {"price_min", "price_max"} \subseteq DOMAIN q => Ordered(q, "price_min", "price_max")
      /\ {"pub_year_from", "pub_year_to"} \subseteq DOMAIN q
           => Ordered(q, "pub_year_from", "pub_year_to")
  BY GoodRanges DEF PatchShape
<1>2. s.filters \in Filters
  BY DEF ValidSpec
<1>3. f = [k \in FilterKeys |-> IF k \in DOMAIN q THEN q[k] ELSE s.filters[k]]
  BY <1>2 DEF Overlay, Filters
<1>4. f \in [FilterKeys -> Int \cup {None}]
  BY <1>1, <1>2, <1>3 DEF Filters
<1>5. \A k \in FilterKeys : f[k] # None => Lowest(k) <= f[k] /\ f[k] <= MaxInt32
  BY <1>1, <1>2, <1>3 DEF Filters
<1>6. /\ ("price_min" \in DOMAIN q <=> "price_max" \in DOMAIN q)
           => Ordered(f, "price_min", "price_max")
      /\ ("pub_year_from" \in DOMAIN q <=> "pub_year_to" \in DOMAIN q)
           => Ordered(f, "pub_year_from", "pub_year_to")
  BY <1>1, <1>2, <1>3 DEF Filters, Ordered, FilterKeys
<1>7. ~ MergeRaises(s, p)
  BY <1>4, ChatSpecAssumption DEF MergeRaises, RaisesOn, FilterKeys
<1> HIDE DEF f, q
<1>8. /\ g \in [FilterKeys -> Int \cup {None}]
      /\ \A k \in FilterKeys : g[k] = f[k] \/ g[k] = None
      /\ \A k \in FilterKeys \ {"price_min", "price_max"} : g[k] = f[k]
      /\ Ordered(g, "price_min", "price_max")
  BY <1>4, <1>6, PairSettled DEF FilterKeys
<1> HIDE DEF g
<1>9. ("pub_year_from" \in DOMAIN q <=> "pub_year_to" \in DOMAIN q)
         => Ordered(g, "pub_year_from", "pub_year_to")
  BY <1>6, <1>8 DEF Ordered, FilterKeys
<1>10. /\ h \in [FilterKeys -> Int \cup {None}]
       /\ \A k \in FilterKeys : h[k] = g[k] \/ h[k] = None
       /\ \A k \in FilterKeys \ {"pub_year_from", "pub_year_to"} : h[k] = g[k]
       /\ Ordered(h, "pub_year_from", "pub_year_to")
  BY <1>8, <1>9, PairSettled DEF FilterKeys
<1> HIDE DEF h
<1>11. Ordered(h, "price_min", "price_max")
  BY <1>8, <1>10 DEF Ordered, FilterKeys
<1>12. h \in Filters
  BY <1>5, <1>8, <1>10, <1>11 DEF Filters
<1>13. MergedFilters(s, p) = h
  BY DEF MergedFilters, h, g, f, q
<1> DEFINE x == MergedExact(s, p)
           y == MergedExact(InitialSpec, p)
<1>14. /\ DOMAIN x = ExactKeys
       /\ \A k \in ExactKeys : x[k] = y[k] \/ x[k] = s.exact[k] \/ x[k] = None
  BY DEF MergedExact, ClearStaleExact, Cleared, Overlay, ValidSpec, InitialSpec, ExactKeys
<1>15. \A k \in ExactKeys : TextOrNull(x[k])
  <2>1. \A k \in ExactKeys : TextOrNull(y[k]) /\ TextOrNull(s.exact[k])
    BY DEF Good, ValidSpec, MergeSpecPatch
  <2>2. QED
    BY <1>14, <2>1 DEF TextOrNull
<1> HIDE DEF x, y
<1>16. MergeSpecPatch(s, p).exact = x /\ MergeSpecPatch(s, p).filters \in Filters
  BY <1>12, <1>13 DEF MergeSpecPatch, x
<1> DEFINE m == MergeSpecPatch(s, p)
           n == MergeSpecPatch(InitialSpec, p)
<1>17. ValidSpec(n)
  BY DEF Good
<1>18. m.intent \in Intents
  <2>1. MergedIntent(InitialSpec, p) \in Intents /\ s.intent \in Intents
    BY <1>17 DEF ValidSpec, MergeSpecPatch
  <2>2. QED
    BY <2>1 DEF MergeSpecPatch, MergedIntent, Pick, Intents
<1>19. TextOrNull(m.category) /\ TextOrNull(m.semantic) /\ m.anchor_book \in Book \cup {None}
  <2>1. /\ TextOrNull(Pick(p, "category", None)) /\ TextOrNull(Pick(p, "semantic", None))
        /\ Pick(p, "anchor_book", None) \in Book \cup {None}
    BY <1>17 DEF ValidSpec, MergeSpecPatch, InitialSpec
  <2>2. QED
    BY <2>1 DEF ValidSpec, MergeSpecPatch, Pick
<1>20. m.exclude \in SUBSET Book
  BY <1>17 DEF ValidSpec, MergeSpecPatch, InitialSpec
<1>21. DOMAIN m = {"intent", "exact", "filters", "category", "semantic", "anchor_book", "exclude"}
  BY DEF MergeSpecPatch
<1> HIDE DEF m, n
<1>22. ValidSpec(m)
  <2>1. m.exact = x /\ m.filters \in Filters
    BY <1>16 DEF m
  <2>2. QED
    BY <1>14, <1>15, <1>18, <1>19, <1>20, <1>21, <2>1 DEF ValidSpec
<1>23. QED
  BY <1>7, <1>22 DEF m

-----------------------------------------------------------------------------
(* Empty conditions and the repairs *)

LEMMA EmptyIsValid ==
  /\ ValidSpec(InitialSpec)
  /\ \A s : ValidSpec(s) => ValidSpec(FreshSpec(s)) /\ FreshSpec(s).exclude = s.exclude
<1>1. InitialSpec.filters \in Filters
  BY DEF InitialSpec, Filters, Ordered, FilterKeys
<1>2. ValidSpec(InitialSpec)
  BY <1>1 DEF ValidSpec, InitialSpec, TextOrNull, Intents
<1>3. QED
  BY <1>2 DEF FreshSpec, ValidSpec, InitialSpec

\* Putting another text into a field leaves valid conditions valid.
LEMMA NewText ==
  ASSUME NEW s, ValidSpec(s), NEW t, TextOrNull(t)
  PROVE  /\ ValidSpec([s EXCEPT !.semantic = t]) /\ ValidSpec([s EXCEPT !.category = t])
         /\ [s EXCEPT !.semantic = t].exclude = s.exclude
         /\ [s EXCEPT !.category = t].exclude = s.exclude
  BY DEF ValidSpec

LEMMA MoodStripped ==
  ASSUME NEW s, ValidSpec(s), NEW grounds
  PROVE  LET w == WithoutInventedMood(s, grounds)
         IN ValidSpec(w) /\ w.exclude = s.exclude
<1>1. CASE s.semantic = None
  BY <1>1 DEF WithoutInventedMood
<1>2. CASE s.semantic # None
  <2>1. TextOrNull(s.semantic \ (Mood \ grounds))
    BY <1>2, ChatSpecAssumption DEF ValidSpec, TextOrNull, Text
  <2>2. QED
    BY <1>2, <2>1, NewText DEF WithoutInventedMood
<1>3. QED
  BY <1>1, <1>2

LEMMA CategorySettled ==
  ASSUME NEW s, ValidSpec(s)
  PROVE  ValidSpec(SettleCategory(s)) /\ SettleCategory(s).exclude = s.exclude
<1> DEFINE open == [s EXCEPT !.category = None]
           word == s.category \cup (IF s.semantic = None THEN {} ELSE s.semantic)
<1>1. ValidSpec(open) /\ open.exclude = s.exclude
  BY NewText DEF TextOrNull
<1>2. ASSUME s.category # None
      PROVE  TextOrNull(s.category) /\ TextOrNull(word)
  BY <1>2, ChatSpecAssumption DEF ValidSpec, TextOrNull, Text
<1>3. /\ s.category # None => ValidSpec([open EXCEPT !.semantic = word])
                              /\ ValidSpec([s EXCEPT !.semantic = s.category])
      /\ [open EXCEPT !.semantic = word].exclude = s.exclude
      /\ [s EXCEPT !.semantic = s.category].exclude = s.exclude
  BY <1>1, <1>2, NewText DEF ValidSpec
<1>4. CASE s.category = None
  BY <1>4 DEF SettleCategory
<1>5. CASE s.category # None
  <2>1. \/ SettleCategory(s) = open
        \/ SettleCategory(s) = [open EXCEPT !.semantic = word]
        \/ SettleCategory(s) = [s EXCEPT !.semantic = s.category]
        \/ SettleCategory(s) = s
    BY <1>5 DEF SettleCategory, MoveCategoryToSemantic
  <2>2. QED
    BY <1>1, <1>3, <1>5, <2>1
<1>6. QED
  BY <1>4, <1>5

\* Whatever _recommend does to valid conditions leaves them valid and the rejected books alone.
LEMMA RepairsKeepValid ==
  ASSUME ValidSpec(turn.spec), turn.msg \in Messages
  PROVE  ValidSpec(Settled) /\ Settled.exclude = turn.spec.exclude
<1> DEFINE s == SettleCategory(WithoutInventedMood(turn.spec, Grounds))
<1>1. ValidSpec(s) /\ s.exclude = turn.spec.exclude
  BY MoodStripped, CategorySettled
<1>2. TextOrNull(turn.msg.lead)
  BY ChatTurnAssumption, ChatSpecAssumption DEF Message, TextOrNull
<1> HIDE DEF s
<1>3. ValidSpec(RecoverTopic(s, turn.msg.lead)) /\ RecoverTopic(s, turn.msg.lead).exclude = s.exclude
  BY <1>1, <1>2, NewText DEF RecoverTopic
<1>4. QED
  BY <1>1, <1>3 DEF Settled, s

-----------------------------------------------------------------------------
(* The inductive invariant, in its parts *)

ClientOK ==
  /\ DOMAIN client = {"spec", "talked", "last", "heard"}
  /\ client.talked \in BOOLEAN /\ client.last \in {"none", "asked", "other"}
  /\ ValidSpec(client.spec)

HistoryOK ==
  /\ since \in [ExactKeys -> 0..MaxTurns] /\ merged \in 0..MaxTurns
  /\ asks \in {0, 1} /\ (asks = 1 => client.talked)

Patching == {"spec", "relation", "restart"}

TurnOK ==
  /\ DOMAIN turn = {"pc", "no", "msg", "spec", "patch", "degraded", "used", "switched", "cards", "failed"}
  /\ turn.pc \in Places /\ turn.no \in 0..MaxTurns
  /\ turn.degraded \in BOOLEAN /\ turn.used \in BOOLEAN /\ turn.switched \in BOOLEAN
  /\ turn.failed \in {"no", "spec", "search", "cards", "left"}
  /\ turn.cards \subseteq Book
  /\ Idle \/ (turn.msg \in Messages /\ ValidSpec(turn.spec))
  /\ turn.pc \in {"relation", "restart"} => turn.patch \in Patches
  /\ turn.pc \in Patching => ~ turn.degraded
  /\ GoodAnswerCounts

\* A judge runs only while update_spec may still wait for it.
JudgesHeld ==
  /\ relation \in JudgeStates /\ scope \in JudgeStates
  /\ Idle => relation = "none" /\ scope = "none"
  /\ relation = "running" => turn.pc \in {"spec", "relation"}
  /\ scope = "running" => turn.pc \in Patching \cup {"scope"}

Apart(books, out) == \A b \in books, e \in out : ~ SameBook(b, e)

\* What the turn works on excludes at least what the backend's conditions exclude.
Rejections ==
  /\ Idle \/ client.spec.exclude \subseteq turn.spec.exclude
  /\ turn.pc \notin {"idle", "cards"} => turn.cards = {}
  /\ turn.pc = "cards" => Apart(turn.cards, turn.spec.exclude)

\* The broad judge was asked only because the user had not talked before.
AskPlace == turn.pc \in Patching \cup {"scope"} /\ scope # "none" => ~ client.talked

TurnInv == ClientOK /\ HistoryOK /\ TurnOK /\ JudgesHeld /\ Rejections /\ AskPlace

\* What RejectedStaysAway says of a step.
Kept == client.spec.exclude \subseteq client'.spec.exclude /\ Apart(turn'.cards, client.spec.exclude)

LEMMA InitOK == Init => TurnInv
  BY EmptyIsValid, ChatTurnAssumption
     DEF Init, TurnInv, ClientOK, HistoryOK, TurnOK, JudgesHeld, Rejections, AskPlace, Over, Idle,
         Places, JudgeStates, GoodAnswerCounts, Patching

-----------------------------------------------------------------------------
(* Ways a turn ends *)

LEMMA Ended ==
  ASSUME TurnInv, NEW cards \in SUBSET Book, NEW failed \in {"no", "spec", "search", "cards", "left"},
         NEW rel \in JudgeStates \ {"running"}, NEW sco \in JudgeStates \ {"running"},
         EndTurn(cards, failed, rel, sco), ClientOK', HistoryOK'
  PROVE  TurnInv'
<1>1. turn' = Over(turn.no, cards, failed) /\ relation' = "none" /\ scope' = "none"
  BY DEF EndTurn, Unheld
<1>2. TurnOK'
  BY <1>1 DEF TurnInv, TurnOK, Over, Idle, Places, GoodAnswerCounts, Patching
<1>3. JudgesHeld' /\ Rejections' /\ AskPlace'
  BY <1>1 DEF JudgesHeld, Rejections, AskPlace, Over, Idle, JudgeStates, Patching
<1>4. QED
  BY <1>2, <1>3 DEF TurnInv

LEMMA Dated ==
  ASSUME TurnInv, Date
  PROVE  since' \in [ExactKeys -> 0..MaxTurns] /\ merged' \in 0..MaxTurns
  BY DEF Date, TurnInv, TurnOK, HistoryOK

LEMMA Delivered ==
  ASSUME TurnInv, NEW said, NEW spec, NEW line \in {"asked", "other"}, Deliver(said, spec, line),
         ValidSpec(spec), line = "asked" => ~ client.talked,
         since' \in [ExactKeys -> 0..MaxTurns], merged' \in 0..MaxTurns
  PROVE  ClientOK' /\ HistoryOK' /\ client'.spec = spec
<1>1. ClientOK' /\ client'.spec = spec /\ client'.talked
  BY DEF Deliver, ClientOK
<1>2. asks' \in {0, 1}
  BY DEF Deliver, TurnInv, HistoryOK, ClientOK
<1>3. QED
  BY <1>1, <1>2 DEF HistoryOK

\* An answer goes out.
LEMMA Finished ==
  ASSUME TurnInv, ~ Idle, NEW spec, NEW cards \in SUBSET Book, NEW line \in {"asked", "other"},
         Finish(spec, cards, line), ValidSpec(spec), client.spec.exclude \subseteq spec.exclude,
         line = "asked" => ~ client.talked, Apart(cards, spec.exclude),
         relation # "running", scope # "running"
  PROVE  TurnInv' /\ Kept
<1>1. /\ Deliver(turn.msg.said, spec, line) /\ Date
      /\ EndTurn(cards, "no", relation, scope)
  BY DEF Finish
<1>2. ClientOK' /\ HistoryOK' /\ client'.spec = spec
  BY <1>1, Dated, Delivered
<1>3. TurnInv'
  BY <1>1, <1>2, Ended DEF TurnInv, JudgesHeld
<1>4. turn'.cards = cards
  BY <1>1 DEF EndTurn, Over
<1>5. QED
  BY <1>2, <1>3, <1>4 DEF Kept, Apart

\* The turn fails.
LEMMA Failed ==
  ASSUME TurnInv, NEW why \in {"spec", "search", "cards", "left"},
         NEW rel \in JudgeStates \ {"running"}, NEW sco \in JudgeStates \ {"running"},
         Fail(why, rel, sco)
  PROVE  TurnInv' /\ Kept
<1>1. EndTurn({}, why, rel, sco) /\ UNCHANGED <<since, merged, asks>>
  BY DEF Fail
<1>2. \/ client' = client
      \/ client' = [client EXCEPT !.talked = TRUE, !.last = "none",
                                  !.heard = client.heard \cup turn.msg.said]
  BY DEF Fail
<1>3. ClientOK' /\ client'.spec = client.spec /\ (client.talked => client'.talked)
  BY <1>2 DEF TurnInv, ClientOK
<1>4. HistoryOK'
  BY <1>1, <1>3 DEF TurnInv, HistoryOK
<1>5. TurnInv'
  BY <1>1, <1>3, <1>4, Ended
<1>6. turn'.cards = {}
  BY <1>1 DEF EndTurn, Over
<1>7. QED
  BY <1>3, <1>5, <1>6 DEF Kept, Apart

-----------------------------------------------------------------------------
(* Ways a turn goes on *)

LEMMA Moved ==
  ASSUME TurnInv, turn.pc \notin {"idle", "cards"}, NEW pc \in Places \ {"idle", "cards"}, Go(pc),
         relation' \in JudgeStates \ {"running"}, scope' \in JudgeStates,
         scope' = "running" => pc \in Patching \cup {"scope"},
         pc \in {"relation", "restart"} => turn.patch \in Patches,
         pc \in Patching => ~ turn.degraded,
         pc \in Patching \cup {"scope"} /\ scope' # "none" => ~ client.talked
  PROVE  TurnInv' /\ Kept
<1>1. turn' = [turn EXCEPT !.pc = pc] /\ UNCHANGED <<client, since, merged, asks>>
  BY DEF Go
<1>2. ClientOK' /\ HistoryOK'
  BY <1>1 DEF TurnInv, ClientOK, HistoryOK
<1>3. TurnOK'
  BY <1>1 DEF TurnInv, TurnOK, Idle, GoodAnswerCounts
<1>4. JudgesHeld' /\ Rejections' /\ AskPlace'
  BY <1>1 DEF TurnInv, TurnOK, JudgesHeld, Rejections, AskPlace, Idle
<1>5. Kept
  BY <1>1 DEF TurnInv, TurnOK, Rejections, Kept, Apart
<1>6. QED
  BY <1>2, <1>3, <1>4, <1>5 DEF TurnInv

LEMMA Degraded ==
  ASSUME TurnInv, turn.pc \in Patching, NEW patch, patch = None \/ ~ Good(patch),
         Degrade(patch), relation' \in JudgeStates \ {"running"}
  PROVE  TurnInv' /\ Kept
<1>1. /\ turn' = [turn EXCEPT !.pc = "search", !.spec = client.spec,
                              !.patch = patch, !.degraded = TRUE]
      /\ UNCHANGED <<client, since, merged, asks>>
      /\ scope' \in JudgeStates \ {"running"}
  BY DEF Degrade, Cancelled, TurnInv, JudgesHeld, JudgeStates
<1>2. ClientOK' /\ HistoryOK'
  BY <1>1 DEF TurnInv, ClientOK, HistoryOK
<1>3. TurnOK'
  BY <1>1 DEF TurnInv, TurnOK, ClientOK, Idle, GoodAnswerCounts, Patching, Places
<1>4. JudgesHeld' /\ Rejections' /\ AskPlace'
  BY <1>1 DEF TurnInv, TurnOK, JudgesHeld, Rejections, AskPlace, Idle, Patching
<1>5. Kept
  BY <1>1 DEF TurnInv, TurnOK, Rejections, Kept, Apart, Patching
<1>6. QED
  BY <1>2, <1>3, <1>4, <1>5 DEF TurnInv

\* A patch is laid over the conditions: an error, a degraded turn or new conditions.
LEMMA Folded ==
  ASSUME TurnInv, turn.pc \in Patching,
         NEW base, ValidSpec(base), client.spec.exclude \subseteq base.exclude,
         NEW patch \in Patches, NEW switched \in BOOLEAN, NEW rel \in JudgeStates \ {"running"},
         Fold(base, patch, switched, rel)
  PROVE  TurnInv' /\ Kept
<1> DEFINE m == MergeSpecPatch(base, patch)
<1>1. CASE MergeRaises(base, patch)
  <2>1. Fail("spec", rel, Cancelled(scope))
    BY <1>1 DEF Fold
  <2>2. Cancelled(scope) \in JudgeStates \ {"running"}
    BY DEF Cancelled, TurnInv, JudgesHeld, JudgeStates
  <2>3. QED
    BY <2>1, <2>2, Failed
<1>2. CASE ~ MergeRaises(base, patch) /\ ~ ValidSpec(m)
  <2>1. relation' = rel /\ Degrade(patch)
    BY <1>2 DEF Fold
  <2>2. ~ Good(patch)
    BY <1>2, GoodStaysGood, PatchesShaped
  <2>3. QED
    BY <2>1, <2>2, Degraded
<1>3. CASE ~ MergeRaises(base, patch) /\ ValidSpec(m)
  <2> DEFINE pc == IF scope = "none" THEN "search" ELSE "scope"
  <2>1. /\ turn' = [turn EXCEPT !.pc = pc, !.spec = m, !.patch = patch,
                                !.used = TRUE, !.switched = switched]
        /\ relation' = rel /\ UNCHANGED <<client, scope, since, merged, asks>>
    BY <1>3 DEF Fold
  <2>2. client.spec.exclude \subseteq m.exclude
    BY DEF MergeSpecPatch
  <2> HIDE DEF m
  <2>3. ClientOK' /\ HistoryOK'
    BY <2>1 DEF TurnInv, ClientOK, HistoryOK
  <2>4. TurnOK'
    BY <1>3, <2>1 DEF TurnInv, TurnOK, Idle, GoodAnswerCounts, Patching, Places
  <2>5. JudgesHeld' /\ Rejections' /\ AskPlace'
    BY <2>1, <2>2 DEF TurnInv, TurnOK, JudgesHeld, Rejections, AskPlace, Idle, Patching
  <2>6. Kept
    BY <2>1 DEF TurnInv, TurnOK, Rejections, Kept, Apart, Patching
  <2>7. QED
    BY <2>3, <2>4, <2>5, <2>6 DEF TurnInv
<1>4. QED
  BY <1>1, <1>2, <1>3

-----------------------------------------------------------------------------
(* The actions *)

LEMMA SendOK ==
  ASSUME TurnInv, NEW m \in Messages, Send(m)
  PROVE  TurnInv' /\ Kept
<1>1. Idle /\ turn.no + 1 \in 0..MaxTurns /\ relation = "none" /\ scope = "none"
  BY ChatTurnAssumption DEF Send, TurnInv, TurnOK, JudgesHeld
<1>2. CASE SendUnanswerable(m)
  <2>1. /\ Deliver(m.said, client.spec, "other") /\ turn' = Over(turn.no + 1, {}, "no")
        /\ UNCHANGED <<relation, scope, since, merged>>
    BY <1>2 DEF SendUnanswerable
  <2>2. ClientOK' /\ HistoryOK' /\ client'.spec = client.spec
    BY <2>1, Delivered DEF TurnInv, HistoryOK, ClientOK
  <2>3. TurnOK' /\ JudgesHeld' /\ Rejections' /\ AskPlace'
    BY <1>1, <2>1 DEF TurnOK, JudgesHeld, Rejections, AskPlace, Over, Idle, Places, JudgeStates,
                      GoodAnswerCounts, Patching
  <2>4. Kept
    BY <2>1, <2>2 DEF Kept, Apart, Over
  <2>5. QED
    BY <2>2, <2>3, <2>4 DEF TurnInv
<1>3. ASSUME NEW pc \in {"answer", "spec"}, turn' = Begun(m, pc),
             UNCHANGED <<client, since, merged, asks>>,
             relation' \in {"none", "running"}, scope' \in {"none", "running"},
             pc = "answer" => relation' = "none" /\ scope' = "none",
             scope' # "none" => ~ client.talked
      PROVE  TurnInv' /\ Kept
  <2>1. ClientOK' /\ HistoryOK'
    BY <1>3 DEF TurnInv, ClientOK, HistoryOK
  <2>2. TurnOK'
    BY <1>1, <1>3 DEF TurnInv, ClientOK, TurnOK, Begun, Over, Idle, Places, GoodAnswerCounts, Patching
  <2>3. JudgesHeld' /\ Rejections' /\ AskPlace'
    BY <1>3 DEF JudgesHeld, Rejections, AskPlace, Begun, Over, Idle, JudgeStates, Patching
  <2>4. Kept
    BY <1>3 DEF Kept, Apart, Begun, Over
  <2>5. QED
    BY <2>1, <2>2, <2>3, <2>4 DEF TurnInv
<1>4. CASE SendAboutCard(m)
  BY <1>1, <1>3, <1>4 DEF SendAboutCard
<1>5. CASE SendRequest(m)
  <2>1. AskStage = "may_ask" => ~ client.talked
    BY DEF AskStage
  <2>2. QED
    BY <1>3, <1>5, <2>1 DEF SendRequest
<1>6. QED
  BY <1>2, <1>4, <1>5 DEF Send

LEMMA JudgesOK ==
  ASSUME TurnInv, Judges
  PROVE  TurnInv' /\ Kept
<1>1. UNCHANGED <<client, turn, since, merged, asks>>
  BY DEF Judges, RelationEnds, ScopeEnds
<1>2. /\ \/ relation = "running" /\ relation' \in {"yes", "no"} /\ scope' = scope
         \/ scope = "running" /\ scope' \in {"yes", "no"} /\ relation' = relation
  BY DEF Judges, RelationEnds, ScopeEnds
<1>3. ClientOK' /\ HistoryOK' /\ TurnOK'
  BY <1>1 DEF TurnInv, ClientOK, HistoryOK, TurnOK, Idle, GoodAnswerCounts
<1>4. JudgesHeld' /\ Rejections' /\ AskPlace'
  BY <1>1, <1>2 DEF TurnInv, JudgesHeld, Rejections, AskPlace, Idle, JudgeStates
<1>5. Kept
  BY <1>1, <1>2 DEF TurnInv, TurnOK, JudgesHeld, Rejections, Kept, Apart, Idle, Patching
<1>6. QED
  BY <1>3, <1>4, <1>5 DEF TurnInv

LEMMA SpecCallOK ==
  ASSUME TurnInv, SpecCall
  PROVE  TurnInv' /\ Kept
<1>1. turn.pc = "spec" /\ ~ Idle /\ ValidSpec(client.spec)
  BY DEF SpecCall, Idle, TurnInv, ClientOK
<1>2. Cancelled(relation) \in JudgeStates \ {"running"} /\ Cancelled(scope) \in JudgeStates \ {"running"}
  BY DEF Cancelled, TurnInv, JudgesHeld, JudgeStates
<1>3. CASE SpecFails
  BY <1>1, <1>2, <1>3, Degraded DEF SpecFails, Patching
<1>4. ASSUME NEW p \in Patches, SpecSaysAnswer(p)
      PROVE  TurnInv' /\ Kept
  BY <1>1, <1>2, <1>4, Moved DEF SpecSaysAnswer, Places, Patching
<1>5. ASSUME NEW p \in Patches, SpecGivesPatch(p)
      PROVE  TurnInv' /\ Kept
  <2>1. CASE relation = "none"
    <3>1. Fold(client.spec, p, FALSE, relation)
      BY <1>5, <2>1 DEF SpecGivesPatch
    <3>2. QED
      BY <1>1, <2>1, <3>1, Folded DEF JudgeStates, Patching
  <2>2. CASE relation # "none"
    <3>1. /\ turn' = [turn EXCEPT !.pc = "relation", !.patch = p]
          /\ UNCHANGED <<client, relation, scope, since, merged, asks>>
      BY <1>5, <2>2 DEF SpecGivesPatch
    <3>2. ClientOK' /\ HistoryOK'
      BY <3>1 DEF TurnInv, ClientOK, HistoryOK
    <3>3. TurnOK'
      BY <1>1, <3>1 DEF TurnInv, TurnOK, Idle, Places, GoodAnswerCounts, Patching
    <3>4. JudgesHeld' /\ Rejections' /\ AskPlace'
      BY <1>1, <3>1 DEF TurnInv, TurnOK, JudgesHeld, Rejections, AskPlace, Idle, Patching
    <3>5. Kept
      BY <1>1, <3>1 DEF TurnInv, TurnOK, Rejections, Kept, Apart
    <3>6. QED
      BY <3>2, <3>3, <3>4, <3>5 DEF TurnInv
  <2>3. QED
    BY <2>1, <2>2
<1>6. QED
  BY <1>3, <1>4, <1>5 DEF SpecCall

LEMMA RelationOK ==
  ASSUME TurnInv, Relation
  PROVE  TurnInv' /\ Kept
<1>1. /\ turn.pc = "relation" /\ ~ Idle /\ turn.patch \in Patches
      /\ ValidSpec(client.spec) /\ relation \in JudgeStates
  BY DEF Relation, RelationInTime, RelationLate, Idle, TurnInv, ClientOK, TurnOK, JudgesHeld
<1>2. CASE relation = "yes" /\ Go("restart") /\ UNCHANGED <<relation, scope>>
  <2>1. /\ ~ turn.degraded /\ scope \in JudgeStates
        /\ scope # "none" => ~ client.talked
    BY <1>1 DEF TurnInv, TurnOK, JudgesHeld, AskPlace, Patching
  <2>2. QED
    BY <1>1, <1>2, <2>1, Moved DEF Places, Patching, JudgeStates
<1>3. CASE relation = "no" /\ Fold(client.spec, turn.patch, FALSE, relation)
  BY <1>1, <1>3, Folded DEF Patching, JudgeStates
<1>4. CASE Fold(client.spec, turn.patch, FALSE, "cancelled")
  BY <1>1, <1>4, Folded DEF Patching, JudgeStates
<1>5. QED
  BY <1>2, <1>3, <1>4 DEF Relation, RelationInTime, RelationLate

LEMMA RestartCallOK ==
  ASSUME TurnInv, RestartCall
  PROVE  TurnInv' /\ Kept
<1>1. /\ turn.pc = "restart" /\ turn.patch \in Patches /\ ValidSpec(client.spec)
      /\ relation \in JudgeStates \ {"running"}
  BY DEF RestartCall, TurnInv, ClientOK, TurnOK, JudgesHeld
<1>2. ASSUME NEW p \in Patches, Fold(FreshSpec(client.spec), p, TRUE, relation)
      PROVE  TurnInv' /\ Kept
  <2>1. ValidSpec(FreshSpec(client.spec)) /\ FreshSpec(client.spec).exclude = client.spec.exclude
    BY <1>1, EmptyIsValid
  <2> DEFINE base == FreshSpec(client.spec)
  <2>2. ValidSpec(base) /\ client.spec.exclude \subseteq base.exclude
    BY <2>1
  <2>3. Fold(base, p, TRUE, relation)
    BY <1>2
  <2> HIDE DEF base
  <2>4. QED
    BY <1>1, <2>2, <2>3, Folded DEF Patching
<1>3. CASE Fold(client.spec, turn.patch, FALSE, relation)
  BY <1>1, <1>3, Folded DEF Patching
<1>4. QED
  BY <1>2, <1>3 DEF RestartCall

LEMMA ScopeOK ==
  ASSUME TurnInv, Scope
  PROVE  TurnInv' /\ Kept
<1>1. /\ turn.pc = "scope" /\ ~ Idle /\ ValidSpec(turn.spec)
      /\ client.spec.exclude \subseteq turn.spec.exclude
      /\ relation \in JudgeStates \ {"running"} /\ scope \in JudgeStates
      /\ scope # "none" => ~ client.talked
  BY DEF Scope, ScopeInTime, ScopeLate, Idle, TurnInv, TurnOK, JudgesHeld, Rejections, AskPlace
<1>2. CASE scope \in {"yes", "no"} /\ Finish(turn.spec, {}, "asked")
  BY <1>1, <1>2, Finished DEF Apart
<1>3. CASE Go("search") /\ relation' = relation /\ scope' \in JudgeStates \ {"running"}
  BY <1>1, <1>3, Moved DEF Places, Patching
<1>4. QED
  BY <1>1, <1>2, <1>3 DEF Scope, ScopeInTime, ScopeLate, JudgeStates

LEMMA SearchOK ==
  ASSUME TurnInv, Search
  PROVE  TurnInv' /\ Kept
<1>1. /\ turn.pc = "search" /\ ~ Idle
      /\ relation \in JudgeStates \ {"running"} /\ scope \in JudgeStates \ {"running"}
  BY DEF Search, Idle, TurnInv, JudgesHeld, Patching
<1>2. ValidSpec(Settled) /\ client.spec.exclude \subseteq Settled.exclude
  BY <1>1, RepairsKeepValid DEF TurnInv, TurnOK, Rejections
<1>3. PICK found \in Candidates(Settled) :
        IF turn.degraded \/ found = {}
        THEN Finish(Settled, found, "other")
        ELSE /\ turn' = [turn EXCEPT !.pc = "cards", !.spec = Settled, !.cards = found]
             /\ UNCHANGED <<client, relation, scope, since, merged, asks>>
  BY DEF Search
<1>4. found \in SUBSET Book /\ Apart(found, Settled.exclude)
  BY DEF Candidates, Apart
<1>5. CASE Finish(Settled, found, "other")
  BY <1>1, <1>2, <1>4, <1>5, Finished
<1>6. CASE /\ turn' = [turn EXCEPT !.pc = "cards", !.spec = Settled, !.cards = found]
           /\ UNCHANGED <<client, relation, scope, since, merged, asks>>
  <2> DEFINE s == Settled
  <2>1. ValidSpec(s) /\ client.spec.exclude \subseteq s.exclude /\ Apart(found, s.exclude)
    BY <1>2, <1>4
  <2>2. /\ turn' = [turn EXCEPT !.pc = "cards", !.spec = s, !.cards = found]
        /\ UNCHANGED <<client, relation, scope, since, merged, asks>>
    BY <1>6
  <2> HIDE DEF s
  <2>3. ClientOK' /\ HistoryOK'
    BY <2>2 DEF TurnInv, ClientOK, HistoryOK
  <2>4. TurnOK'
    BY <1>1, <1>4, <2>1, <2>2 DEF TurnInv, TurnOK, Idle, Places, GoodAnswerCounts, Patching
  <2>5. JudgesHeld' /\ Rejections' /\ AskPlace'
    BY <1>1, <2>1, <2>2
       DEF TurnInv, TurnOK, JudgesHeld, Rejections, AskPlace, Idle, Patching, Apart
  <2>6. Kept
    BY <2>1, <2>2 DEF TurnInv, TurnOK, Kept, Apart
  <2>7. QED
    BY <2>3, <2>4, <2>5, <2>6 DEF TurnInv
<1>7. QED
  BY <1>3, <1>5, <1>6

LEMMA CardsOK ==
  ASSUME TurnInv, Cards
  PROVE  TurnInv' /\ Kept
<1>1. /\ turn.pc = "cards" /\ ~ Idle /\ ValidSpec(turn.spec)
      /\ client.spec.exclude \subseteq turn.spec.exclude
      /\ turn.cards \subseteq Book /\ Apart(turn.cards, turn.spec.exclude)
      /\ relation # "running" /\ scope # "running"
  BY DEF Cards, Idle, TurnInv, TurnOK, JudgesHeld, Rejections, Patching
<1>2. PICK chosen \in SUBSET turn.cards : Finish(turn.spec, chosen, "other")
  BY DEF Cards
<1>3. chosen \in SUBSET Book /\ Apart(chosen, turn.spec.exclude)
  BY <1>1 DEF Apart
<1>4. QED
  BY <1>1, <1>2, <1>3, Finished

LEMMA AnswerOK ==
  ASSUME TurnInv, Answer
  PROVE  TurnInv' /\ Kept
<1>1. /\ turn.pc = "answer" /\ ~ Idle /\ ValidSpec(client.spec)
      /\ relation # "running" /\ scope # "running"
  BY DEF Answer, Idle, TurnInv, ClientOK, JudgesHeld, Patching
<1>2. Finish(client.spec, {}, "other")
  BY DEF Answer
<1>3. QED
  BY <1>1, <1>2, Finished DEF Apart

LEMMA FailuresOK ==
  ASSUME TurnInv, SearchFails \/ CardsFail \/ Leave
  PROVE  TurnInv' /\ Kept
<1>1. relation \in JudgeStates /\ scope \in JudgeStates
  BY DEF TurnInv, JudgesHeld
<1>2. CASE SearchFails \/ CardsFail
  <2>1. relation # "running" /\ scope # "running"
    BY <1>2 DEF SearchFails, CardsFail, TurnInv, JudgesHeld, Patching
  <2>2. Fail("search", relation, scope) \/ Fail("cards", relation, scope)
    BY <1>2 DEF SearchFails, CardsFail
  <2>3. QED
    BY <1>1, <2>1, <2>2, Failed
<1>3. CASE Leave
  <2> DEFINE rel == IF turn.pc \in {"spec", "relation"} THEN Cancelled(relation) ELSE relation
             sco == IF turn.pc \in {"spec", "relation", "restart", "scope"}
                    THEN Cancelled(scope) ELSE scope
  <2>1. rel \in JudgeStates \ {"running"} /\ sco \in JudgeStates \ {"running"}
    BY <1>1 DEF Cancelled, JudgeStates, TurnInv, JudgesHeld, Patching
  <2>2. Fail("left", rel, sco)
    BY <1>3 DEF Leave
  <2> HIDE DEF rel, sco
  <2>3. QED
    BY <2>1, <2>2, Failed
<1>4. QED
  BY <1>2, <1>3

LEMMA StepOK ==
  ASSUME TurnInv, Next
  PROVE  TurnInv' /\ Kept
<1>1. ASSUME NEW m \in Messages, Send(m)
      PROVE  TurnInv' /\ Kept
  BY <1>1, SendOK
<1>2. QED
  BY <1>1, JudgesOK, SpecCallOK, RelationOK, RestartCallOK, ScopeOK, SearchOK, CardsOK, AnswerOK,
     FailuresOK DEF Next

LEMMA StutterOK == TurnInv /\ UNCHANGED vars => TurnInv'
  BY DEF vars, TurnInv, ClientOK, HistoryOK, TurnOK, JudgesHeld, Rejections, AskPlace, Idle,
         GoodAnswerCounts

-----------------------------------------------------------------------------
(* What follows for every conversation *)

\* The inductive invariant: the judges are held while update_spec may wait for them, every set of
\* conditions is valid, and the conditions of a turn exclude what the backend's exclude.
THEOREM TurnInvHolds == Spec => []TurnInv
<1>1. TurnInv /\ [Next]_vars => TurnInv'
  BY StepOK, StutterOK
<1>2. QED
  BY <1>1, InitOK, PTL DEF Spec

\* The control state of a turn is always one of the places update_spec and _recommend wait at.
THEOREM TypeCorrect == Spec => []TypeOK
<1>1. TurnInv => TypeOK
  BY DEF TurnInv, TypeOK, TurnOK, HistoryOK, ClientOK, JudgesHeld
<1>2. QED
  BY <1>1, TurnInvHolds, PTL

\* The conditions that go to the backend and come back are always accepted by Spec.model_validate.
THEOREM SpecsStayValid == Spec => []SpecStaysValid
<1>1. TurnInv => SpecStaysValid
  BY DEF TurnInv, SpecStaysValid, TurnOK, ClientOK
<1>2. QED
  BY <1>1, TurnInvHolds, PTL

\* What earlier turns left behind never makes update_spec throw away a good answer of the model:
\* _clear_inverted_range repairs every pair of ends that a good patch can meet.
THEOREM GoodAnswersCount == Spec => []GoodAnswerCounts
<1>1. TurnInv => GoodAnswerCounts
  BY DEF TurnInv, TurnOK
<1>2. QED
  BY <1>1, TurnInvHolds, PTL

\* Every way out of update_spec leaves no judge running behind the turn.
THEOREM NoJudgeStays == Spec => []NoJudgeLeft
<1>1. TurnInv => NoJudgeLeft
  BY DEF TurnInv, JudgesHeld, NoJudgeLeft
<1>2. QED
  BY <1>1, TurnInvHolds, PTL

\* The broad question reaches the user at most once in a conversation (_ask_stage).
THEOREM AskedAtMostOnce == Spec => []AskedOnce
<1>1. TurnInv => AskedOnce
  BY DEF TurnInv, HistoryOK, AskedOnce
<1>2. QED
  BY <1>1, TurnInvHolds, PTL

\* No step forgets a rejected book or shows an edition of one (fresh_spec, get_candidates).
THEOREM RejectedStayAway == Spec => RejectedStaysAway
<1>1. TurnInv /\ [Next]_vars =>
        [/\ client.spec.exclude \subseteq client'.spec.exclude
         /\ \A b \in turn'.cards, e \in client.spec.exclude : ~ SameBook(b, e)]_vars
  BY StepOK DEF Kept, Apart
<1>2. QED
  BY <1>1, TurnInvHolds, PTL DEF Spec, RejectedStaysAway

-----------------------------------------------------------------------------
(* What is old and what is new in the conditions *)

\* The dates of the three exact fields once the turn is answered.
Dates == [k \in ExactKeys |-> IF k \in DOMAIN turn.patch.exact THEN turn.no ELSE since[k]]

\* Neither is an author or a publisher older than the title, nor a title or author of a mood
\* request older than the last patch.
InDate(s, when, last) ==
  /\ \A k \in {"author", "publisher"} :
       s.exact["title"] # None /\ s.exact[k] # None => when["title"] <= when[k]
  /\ \A k \in {"title", "author"} : s.intent = "semantic" /\ s.exact[k] # None => when[k] = last

\* A turn whose patch is not used yet or not at all leaves the exact fields as the backend has them.
AgeInv ==
  /\ \A k \in ExactKeys : since[k] <= turn.no
  /\ InDate(client.spec, since, merged)
  /\ Idle => ~ turn.used
  /\ turn.used => InDate(turn.spec, Dates, turn.no)
  /\ ~ Idle /\ ~ turn.used
       => turn.spec.exact = client.spec.exact /\ turn.spec.intent = client.spec.intent
  /\ turn.pc \in Patching \cup {"answer"} => ~ turn.used
  /\ turn.switched => turn.used
  /\ OldRequestGone

LEMMA MergedInDate ==
  ASSUME TurnInv, AgeInv, NEW s, s = client.spec \/ s = FreshSpec(client.spec), NEW p \in Patches,
         NEW when,
         when = [k \in ExactKeys |-> IF k \in DOMAIN p.exact THEN turn.no ELSE since[k]]
  PROVE  InDate(MergeSpecPatch(s, p), when, turn.no)
<1> DEFINE x == MergedExact(s, p)
<1>1. /\ DOMAIN s.exact = ExactKeys
      /\ InDate(s, since, merged)
  <2>1. CASE s = client.spec
    BY <2>1 DEF TurnInv, ClientOK, ValidSpec, AgeInv
  <2>2. CASE s = FreshSpec(client.spec)
    BY <2>2 DEF FreshSpec, InitialSpec, InDate, ExactKeys
  <2>3. QED
    BY <2>1, <2>2
<1>2. \A k \in ExactKeys : x[k] # None /\ k \notin DOMAIN p.exact => x[k] = s.exact[k]
  BY <1>1 DEF MergedExact, ClearStaleExact, Cleared, Overlay, ExactKeys
<1>3. \A k \in {"author", "publisher"} :
        "title" \in DOMAIN p.exact /\ x[k] # None => k \in DOMAIN p.exact
  BY <1>1 DEF MergedExact, ClearStaleExact, Cleared, Overlay, ExactKeys
<1>4. \A k \in {"title", "author"} :
        MergedIntent(s, p) = "semantic" /\ x[k] # None => k \in DOMAIN p.exact
  BY <1>1 DEF MergedExact, ClearStaleExact, Cleared, Overlay, ExactKeys
<1>5. MergeSpecPatch(s, p).exact = x /\ MergeSpecPatch(s, p).intent = MergedIntent(s, p)
  BY DEF MergeSpecPatch
<1>6. turn.no \in Nat /\ \A k \in ExactKeys : since[k] \in Nat /\ since[k] <= turn.no
  BY ChatTurnAssumption DEF TurnInv, TurnOK, HistoryOK, AgeInv
<1> HIDE DEF x
<1>7. QED
  BY <1>1, <1>2, <1>3, <1>4, <1>5, <1>6 DEF InDate, ExactKeys

\* On fresh conditions every condition of the merge comes from the patch.
LEMMA FreshMerged ==
  ASSUME NEW s, NEW p, NEW m, m = MergeSpecPatch(FreshSpec(s), p)
  PROVE  /\ \A k \in ExactKeys : m.exact[k] # None => k \in DOMAIN p.exact
         /\ \A k \in FilterKeys : m.filters[k] # None => k \in DOMAIN p.filters
         /\ m.category # None => "category" \in DOMAIN p.plain
         /\ m.anchor_book # None => "anchor_book" \in DOMAIN p.plain
<1> DEFINE f == Overlay(InitialSpec.filters, p.filters)
           g == ClearInvertedRange(f, p.filters, "price_min", "price_max")
           h == ClearInvertedRange(g, p.filters, "pub_year_from", "pub_year_to")
<1>1. DOMAIN f = FilterKeys /\ \A k \in FilterKeys : f[k] # None => k \in DOMAIN p.filters
  BY DEF Overlay, InitialSpec
<1>2. DOMAIN g = FilterKeys /\ \A k \in FilterKeys : g[k] # None => k \in DOMAIN p.filters
  <2> HIDE DEF f
  <2>1. QED
    BY <1>1 DEF ClearInvertedRange, Cleared
<1>3. \A k \in FilterKeys : h[k] # None => k \in DOMAIN p.filters
  <2> HIDE DEF g
  <2>1. QED
    BY <1>2 DEF ClearInvertedRange, Cleared
<1>4. m.filters = h
  BY DEF MergeSpecPatch, MergedFilters, FreshSpec, InitialSpec
<1>5. \A k \in ExactKeys : m.exact[k] # None => k \in DOMAIN p.exact
  BY DEF MergeSpecPatch, MergedExact, ClearStaleExact, Cleared, Overlay, FreshSpec, InitialSpec,
         ExactKeys
<1>6. /\ m.category # None => "category" \in DOMAIN p.plain
      /\ m.anchor_book # None => "anchor_book" \in DOMAIN p.plain
  BY DEF MergeSpecPatch, Pick, FreshSpec, InitialSpec
<1> HIDE DEF h
<1>7. QED
  BY <1>3, <1>4, <1>5, <1>6

\* The repairs leave the exact fields alone and add no condition.
LEMMA RepairsAddNothing ==
  ASSUME ValidSpec(turn.spec)
  PROVE  /\ Settled.exact = turn.spec.exact /\ Settled.intent = turn.spec.intent
         /\ Settled.filters = turn.spec.filters /\ Settled.anchor_book = turn.spec.anchor_book
         /\ Settled.category # None => turn.spec.category # None
<1> DEFINE same(s) == /\ s.exact = turn.spec.exact /\ s.intent = turn.spec.intent
                      /\ s.filters = turn.spec.filters /\ s.anchor_book = turn.spec.anchor_book
                      /\ s.category # None => turn.spec.category # None
                      /\ DOMAIN s = DOMAIN turn.spec
           w == WithoutInventedMood(turn.spec, Grounds)
           c == SettleCategory(w)
<1>1. "category" \in DOMAIN turn.spec /\ "semantic" \in DOMAIN turn.spec
  BY DEF ValidSpec
<1>2. same(w)
  BY <1>1 DEF WithoutInventedMood
<1>3. same(c)
  <2> HIDE DEF w
  <2>1. QED
    BY <1>1, <1>2 DEF SettleCategory, MoveCategoryToSemantic
<1>4. Settled = RecoverTopic(c, turn.msg.lead)
  BY DEF Settled
<1> HIDE DEF c
<1>5. same(RecoverTopic(c, turn.msg.lead))
  BY <1>1, <1>3 DEF RecoverTopic
<1>6. QED
  BY <1>4, <1>5

-----------------------------------------------------------------------------
(* ... and over the steps *)

LEMMA AgeEnded ==
  ASSUME TurnInv, AgeInv, ~ Idle, NEW spec, NEW cards, NEW line, Finish(spec, cards, line),
         spec.exact = turn.spec.exact, spec.intent = turn.spec.intent
  PROVE  AgeInv'
<1>1. /\ turn' = Over(turn.no, cards, "no") /\ client'.spec = spec
      /\ since' = [k \in ExactKeys |->
                     IF turn.used /\ k \in DOMAIN turn.patch.exact THEN turn.no ELSE since[k]]
      /\ merged' = IF turn.used THEN turn.no ELSE merged
  BY DEF Finish, EndTurn, Deliver, Date
<1>2. /\ turn'.pc = "idle" /\ turn'.no = turn.no /\ ~ turn'.used /\ ~ turn'.switched
  BY <1>1 DEF Over
<1>3. InDate(client'.spec, since', merged')
  <2>1. CASE turn.used
    BY <1>1, <2>1 DEF AgeInv, InDate, Dates, ExactKeys
  <2>2. CASE ~ turn.used
    <3>1. since' = [k \in ExactKeys |-> since[k]] /\ merged' = merged
      BY <1>1, <2>2
    <3>2. QED
      BY <1>1, <2>2, <3>1 DEF AgeInv, InDate, ExactKeys
  <2>3. QED
    BY <2>1, <2>2 DEF TurnInv, TurnOK
<1>4. \A k \in ExactKeys : since'[k] <= turn.no
  BY <1>1, ChatTurnAssumption DEF AgeInv, TurnInv, TurnOK
<1>5. QED
  BY <1>2, <1>3, <1>4 DEF AgeInv, InDate, Idle, OldRequestGone, Patching

LEMMA AgeFailed ==
  ASSUME TurnInv, AgeInv, NEW why, NEW rel, NEW sco, Fail(why, rel, sco)
  PROVE  AgeInv'
<1>1. turn' = Over(turn.no, {}, why) /\ UNCHANGED <<since, merged>>
  BY DEF Fail, EndTurn
<1>2. client'.spec = client.spec
  BY DEF Fail, TurnInv, ClientOK
<1>3. turn'.pc = "idle" /\ turn'.no = turn.no /\ ~ turn'.used /\ ~ turn'.switched
  BY <1>1 DEF Over
<1>4. QED
  BY <1>1, <1>2, <1>3 DEF AgeInv, InDate, Idle, OldRequestGone, Patching

\* Steps that move the turn on without using a patch.
LEMMA AgeMoved ==
  ASSUME TurnInv, AgeInv, ~ Idle, UNCHANGED <<client, since, merged>>,
         DOMAIN turn' = DOMAIN turn, turn'.pc \in Places \ {"idle"},
         turn'.no = turn.no, turn'.used = turn.used, turn'.switched = turn.switched,
         turn'.patch = turn.patch \/ ~ turn.used,
         turn'.spec = turn.spec \/ (~ turn.used /\ turn'.spec = client.spec),
         turn'.pc \in Patching \cup {"answer"} => ~ turn.used
  PROVE  AgeInv'
<1>1. CASE turn.used
  <2>1. turn'.patch = turn.patch /\ turn'.spec = turn.spec
    BY <1>1
  <2>2. Dates' = Dates
    BY <2>1 DEF Dates
  <2>3. QED
    BY <1>1, <2>1, <2>2 DEF AgeInv, InDate, Idle, OldRequestGone
<1>2. CASE ~ turn.used
  BY <1>2 DEF AgeInv, InDate, Idle, OldRequestGone
<1>3. QED
  BY <1>1, <1>2 DEF TurnInv, TurnOK

LEMMA AgeFolded ==
  ASSUME TurnInv, AgeInv, turn.pc \in Patching, NEW s, NEW p \in Patches, NEW rel,
         NEW switched \in BOOLEAN,
         s = FreshSpec(client.spec) \/ (s = client.spec /\ ~ switched),
         Fold(s, p, switched, rel)
  PROVE  AgeInv'
<1> DEFINE m == MergeSpecPatch(s, p)
           pc == IF scope = "none" THEN "search" ELSE "scope"
<1>1. ~ turn.used /\ ~ turn.switched /\ ~ Idle
  BY DEF AgeInv, Idle, Patching, TurnInv, TurnOK
<1>2. CASE Fail("spec", rel, Cancelled(scope))
  BY <1>2, AgeFailed
<1>3. CASE Degrade(p)
  <2>1. /\ turn' = [turn EXCEPT !.pc = "search", !.spec = client.spec, !.patch = p, !.degraded = TRUE]
        /\ UNCHANGED <<client, since, merged>>
    BY <1>3 DEF Degrade
  <2>2. QED
    BY <1>1, <2>1, AgeMoved DEF TurnInv, TurnOK, Places, Patching
<1>4. CASE /\ turn' = [turn EXCEPT !.pc = pc, !.spec = m, !.patch = p,
                                   !.used = TRUE, !.switched = switched]
           /\ UNCHANGED <<client, scope, since, merged, asks>>
  <2> DEFINE when == [k \in ExactKeys |-> IF k \in DOMAIN p.exact THEN turn.no ELSE since[k]]
  <2>1. InDate(m, when, turn.no)
    BY MergedInDate
  <2>2. switched => /\ \A k \in ExactKeys : m.exact[k] # None => k \in DOMAIN p.exact
                    /\ \A k \in FilterKeys : m.filters[k] # None => k \in DOMAIN p.filters
                    /\ m.category # None => "category" \in DOMAIN p.plain
                    /\ m.anchor_book # None => "anchor_book" \in DOMAIN p.plain
    BY FreshMerged
  <2> HIDE DEF m
  <2>3. /\ turn'.pc \in {"search", "scope"} /\ turn'.no = turn.no /\ turn'.spec = m
        /\ turn'.patch = p /\ turn'.used = TRUE /\ turn'.switched = switched
    BY <1>4 DEF TurnInv, TurnOK
  <2>4. Dates' = when
    BY <1>4, <2>3 DEF Dates
  <2> HIDE DEF when
  <2>5. InDate(turn'.spec, Dates', turn'.no)
    BY <2>1, <2>3, <2>4
  <2>6. OldRequestGone'
    BY <2>2, <2>3 DEF OldRequestGone
  <2>7. \A k \in ExactKeys : since'[k] <= turn'.no
    BY <1>4, <2>3 DEF AgeInv
  <2>8. InDate(client'.spec, since', merged')
    BY <1>4 DEF AgeInv
  <2>9. QED
    BY <2>3, <2>5, <2>6, <2>7, <2>8 DEF AgeInv, Idle, InDate, Patching
<1>5. QED
  BY <1>2, <1>3, <1>4 DEF Fold

LEMMA AgeStepOK ==
  ASSUME TurnInv, AgeInv, Next
  PROVE  AgeInv'
<1>1. ASSUME NEW m \in Messages, Send(m)
      PROVE  AgeInv'
  <2>1. /\ client'.spec = client.spec /\ UNCHANGED <<since, merged>>
        /\ turn'.no = turn.no + 1 /\ ~ turn'.used /\ ~ turn'.switched
        /\ turn'.pc = "idle" \/ turn'.spec = client.spec
    <3>1. CASE SendUnanswerable(m)
      BY <3>1 DEF SendUnanswerable, Deliver, Over
    <3>2. CASE SendAboutCard(m) \/ SendRequest(m)
      BY <3>2 DEF SendAboutCard, SendRequest, Begun, Over
    <3>3. QED
      BY <1>1, <3>1, <3>2 DEF Send
  <2>2. \A k \in ExactKeys : since'[k] <= turn'.no
    BY <2>1, ChatTurnAssumption DEF AgeInv, TurnInv, TurnOK, HistoryOK
  <2>3. QED
    BY <2>1, <2>2 DEF AgeInv, InDate, Idle, OldRequestGone
<1>2. CASE Judges
  <2>1. UNCHANGED <<client, turn, since, merged>>
    BY <1>2 DEF Judges, RelationEnds, ScopeEnds
  <2>2. QED
    BY <2>1 DEF AgeInv, InDate, Idle, Dates, OldRequestGone
<1>3. CASE SpecCall
  <2>1. turn.pc = "spec" /\ ~ Idle /\ ~ turn.used
    BY <1>3 DEF SpecCall, Idle, AgeInv, Patching
  <2>2. CASE SpecFails
    BY <2>1, <2>2, AgeMoved DEF SpecFails, Degrade, TurnInv, TurnOK, Places
  <2>3. ASSUME NEW p \in Patches, SpecSaysAnswer(p)
        PROVE  AgeInv'
    BY <2>1, <2>3, AgeMoved DEF SpecSaysAnswer, Go, TurnInv, TurnOK, Places
  <2>4. ASSUME NEW p \in Patches, SpecGivesPatch(p)
        PROVE  AgeInv'
    <3>1. CASE relation = "none"
      BY <2>1, <2>4, <3>1, AgeFolded DEF SpecGivesPatch, Patching
    <3>2. CASE relation # "none"
      BY <2>1, <2>4, <3>2, AgeMoved DEF SpecGivesPatch, TurnInv, TurnOK, Places
    <3>3. QED
      BY <3>1, <3>2
  <2>5. QED
    BY <1>3, <2>2, <2>3, <2>4 DEF SpecCall
<1>4. CASE Relation
  <2>1. turn.pc = "relation" /\ ~ Idle /\ ~ turn.used /\ turn.patch \in Patches
    BY <1>4 DEF Relation, RelationInTime, RelationLate, Idle, AgeInv, Patching, TurnInv, TurnOK
  <2>2. CASE Go("restart")
    BY <2>1, <2>2, AgeMoved DEF Go, TurnInv, TurnOK, Places
  <2>3. ASSUME NEW rel, Fold(client.spec, turn.patch, FALSE, rel)
        PROVE  AgeInv'
    BY <2>1, <2>3, AgeFolded DEF Patching
  <2>4. QED
    BY <1>4, <2>2, <2>3 DEF Relation, RelationInTime, RelationLate
<1>5. CASE RestartCall
  <2>1. turn.pc = "restart" /\ turn.patch \in Patches
    BY <1>5 DEF RestartCall, TurnInv, TurnOK
  <2>2. ASSUME NEW p \in Patches, Fold(FreshSpec(client.spec), p, TRUE, relation)
        PROVE  AgeInv'
    BY <2>1, <2>2, AgeFolded DEF Patching
  <2>3. CASE Fold(client.spec, turn.patch, FALSE, relation)
    BY <2>1, <2>3, AgeFolded DEF Patching
  <2>4. QED
    BY <1>5, <2>2, <2>3 DEF RestartCall
<1>6. CASE Scope
  <2>1. turn.pc = "scope" /\ ~ Idle
    BY <1>6 DEF Scope, ScopeInTime, ScopeLate, Idle
  <2>2. CASE Finish(turn.spec, {}, "asked")
    BY <2>1, <2>2, AgeEnded
  <2>3. CASE Go("search")
    BY <2>1, <2>3, AgeMoved DEF Go, TurnInv, TurnOK, Places, Patching
  <2>4. QED
    BY <1>6, <2>2, <2>3 DEF Scope, ScopeInTime, ScopeLate
<1>7. CASE Search
  <2> DEFINE s == Settled
  <2>1. turn.pc = "search" /\ ~ Idle /\ ValidSpec(turn.spec)
    BY <1>7 DEF Search, Idle, TurnInv, TurnOK
  <2>2. /\ s.exact = turn.spec.exact /\ s.intent = turn.spec.intent
        /\ s.filters = turn.spec.filters /\ s.anchor_book = turn.spec.anchor_book
        /\ s.category # None => turn.spec.category # None
    BY <2>1, RepairsAddNothing
  <2>3. PICK found \in Candidates(Settled) :
          \/ Finish(s, found, "other")
          \/ /\ turn' = [turn EXCEPT !.pc = "cards", !.spec = s, !.cards = found]
             /\ UNCHANGED <<client, relation, scope, since, merged, asks>>
    BY <1>7 DEF Search
  <2> HIDE DEF s
  <2>4. CASE Finish(s, found, "other")
    BY <2>1, <2>2, <2>4, AgeEnded
  <2>5. CASE /\ turn' = [turn EXCEPT !.pc = "cards", !.spec = s, !.cards = found]
             /\ UNCHANGED <<client, relation, scope, since, merged, asks>>
    <3>1. /\ turn'.pc = "cards" /\ turn'.no = turn.no /\ turn'.spec = s /\ turn'.patch = turn.patch
          /\ turn'.used = turn.used /\ turn'.switched = turn.switched
      BY <2>5 DEF TurnInv, TurnOK
    <3>2. Dates' = Dates
      BY <2>5, <3>1 DEF Dates
    <3>3. OldRequestGone'
      BY <2>2, <3>1 DEF OldRequestGone, AgeInv
    <3>4. QED
      BY <2>1, <2>2, <2>5, <3>1, <3>2, <3>3 DEF AgeInv, InDate, Idle, Patching
  <2>6. QED
    BY <2>3, <2>4, <2>5
<1>8. CASE Cards
  BY <1>8, AgeEnded DEF Cards, Idle
<1>9. CASE Answer
  <2>1. turn.pc = "answer" /\ ~ Idle /\ Finish(client.spec, {}, "other")
    BY <1>9 DEF Answer, Idle
  <2>2. turn.spec.exact = client.spec.exact /\ turn.spec.intent = client.spec.intent
    BY <2>1 DEF AgeInv
  <2>3. QED
    BY <2>1, <2>2, AgeEnded
<1>10. CASE SearchFails \/ CardsFail \/ Leave
  BY <1>10, AgeFailed DEF SearchFails, CardsFail, Leave
<1>11. QED
  BY <1>1, <1>2, <1>3, <1>4, <1>5, <1>6, <1>7, <1>8, <1>9, <1>10 DEF Next

LEMMA AgeHolds == Spec => []AgeInv
<1>1. Init => AgeInv
  BY DEF Init, AgeInv, InDate, Over, Idle, OldRequestGone, InitialSpec, Patching, ExactKeys
<1>2. TurnInv /\ AgeInv /\ UNCHANGED vars => AgeInv'
  BY DEF vars, AgeInv, InDate, Idle, Dates, OldRequestGone
<1>3. TurnInv /\ AgeInv /\ [Next]_vars => AgeInv'
  BY <1>2, AgeStepOK
<1>4. QED
  BY <1>1, <1>3, TurnInvHolds, PTL DEF Spec

\* After a change of topic no condition of the old request but the rejected books is left.
THEOREM OldRequestsGo == Spec => []OldRequestGone
<1>1. AgeInv => OldRequestGone
  BY DEF AgeInv
<1>2. QED
  BY <1>1, AgeHolds, PTL

\* The title of one turn never stands beside the author or publisher of an earlier one.
THEOREM AuthorsFollowTitles == Spec => []AuthorNotOlderThanTitle
<1>1. AgeInv => AuthorNotOlderThanTitle
  BY DEF AgeInv, InDate, AuthorNotOlderThanTitle
<1>2. QED
  BY <1>1, AgeHolds, PTL

\* In a mood request a title or an author is one that the last patch chose.
THEOREM TitlesOfLastPatch == Spec => []TitleOfLastPatch
<1>1. AgeInv => TitleOfLastPatch
  BY DEF AgeInv, InDate, TitleOfLastPatch
<1>2. QED
  BY <1>1, AgeHolds, PTL

\* The words of an exact search belong together: both of the above.
THEOREM ExactWordsBelong == Spec => []ExactWordsOfOneTurn
<1>1. AuthorNotOlderThanTitle /\ TitleOfLastPatch => ExactWordsOfOneTurn
  BY DEF ExactWordsOfOneTurn
<1>2. QED
  BY <1>1, AuthorsFollowTitles, TitlesOfLastPatch, PTL
=============================================================================
