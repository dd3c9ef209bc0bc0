----------------------------- MODULE ChatTurn -----------------------------
(***************************************************************************)
(* One conversation of the chat (3). The server keeps nothing between two  *)
(* turns: the backend sends the conditions and the last lines along and    *)
(* takes the conditions back from the answer. In a turn up to three calls  *)
(* of the model run side by side: the patch, and two judges that may only  *)
(* hold the turn for a short grace once the patch is there.                *)
(* An action is the code between two awaits of _recommend or update_spec.  *)
(***************************************************************************)
EXTENDS ChatSpec

CONSTANTS
  Messages,   \* what the user says: [kind, said, lead, pointed]
  Patches,    \* what the model may answer when asked for a patch
  Narrowing,  \* CHAT_NARROWING: a broad first request may be asked about
  MaxTurns    \* turns of the conversation

VARIABLES
  client,    \* what the backend holds: conditions, the user's words, the last line of the bot
  turn,      \* the turn being answered, or what is left of the last one
  relation,  \* task: is this a new request?
  scope,     \* task: is the first request too broad?
  since,     \* history: the turn that last gave title, author and publisher
  merged,    \* history: the last answered turn whose patch was used
  asks       \* history: the broad questions that reached the user

vars == <<client, turn, relation, scope, since, merged, asks>>

\* unclear: no words at all; nowhere: points at a book that nobody showed;
\* card: the gate says that the message is about a card on the screen.
Kinds == {"plain", "unclear", "nowhere", "card"}
Message == [kind : Kinds, said : Text, lead : Text, pointed : Text]

ASSUME ChatTurnAssumption ==
  /\ Messages \subseteq Message
  /\ \A p \in Patches :
       /\ DOMAIN p = {"answer", "exact", "filters", "plain", "exclude"}
       /\ DOMAIN p.exact \subseteq ExactKeys
       /\ DOMAIN p.filters \subseteq FilterKeys
       /\ DOMAIN p.plain \subseteq PlainKeys
       /\ \A k \in DOMAIN p.filters : p.filters[k] \in Int \cup {None, Odd}
       /\ p.exclude \subseteq Book \cup {Odd}
  /\ Narrowing \in BOOLEAN
  /\ MaxTurns \in Nat

JudgeStates == {"none", "running", "yes", "no", "cancelled"}
Places == {"idle", "spec", "relation", "restart", "scope", "search", "cards", "answer"}

Idle == turn.pc = "idle"

Over(no, cards, failed) ==
  [pc |-> "idle", no |-> no, msg |-> None, spec |-> InitialSpec, patch |-> None,
   degraded |-> FALSE, used |-> FALSE, switched |-> FALSE, cards |-> cards, failed |-> failed]

Begun(m, pc) ==
  [Over(turn.no + 1, {}, "no") EXCEPT !.pc = pc, !.msg = m, !.spec = client.spec]

Init ==
  /\ client = [spec |-> InitialSpec, talked |-> FALSE, last |-> "none", heard |-> {}]
  /\ turn = Over(0, {}, "no")
  /\ relation = "none" /\ scope = "none"
  /\ since = [k \in ExactKeys |-> 0] /\ merged = 0 /\ asks = 0

-----------------------------------------------------------------------------
(* The steps that actions share *)

\* Mutant: whoever has not just been asked may be asked.
AskStageAgain ==
  IF client.last = "asked" THEN "answered" ELSE IF Narrowing THEN "may_ask" ELSE "none"

\* Whether to ask is judged from the lines that the backend sends.
AskStage ==
  IF client.last = "asked" THEN "answered"
  ELSE IF ~ Narrowing \/ client.talked THEN "none"
  ELSE "may_ask"

\* cancel() of a task that has ended does nothing.
Cancelled(task) == IF task = "running" THEN "cancelled" ELSE task

\* Nothing waits for a task once the turn is over; one that runs goes on unseen.
Unheld(task) == IF task = "running" THEN task ELSE "none"

EndTurn(cards, failed, rel, sco) ==
  /\ turn' = Over(turn.no, cards, failed)
  /\ relation' = Unheld(rel)
  /\ scope' = Unheld(sco)

\* The answer reaches the backend, which keeps the conditions and the lines.
Deliver(said, spec, line) ==
  /\ client' = [spec |-> spec, talked |-> TRUE, last |-> line, heard |-> client.heard \cup said]
  /\ asks' = IF line = "asked" THEN asks + 1 ELSE asks

\* What the patch of an answered turn gave is as new as the turn.
Date ==
  /\ since' = [k \in ExactKeys |->
                 IF turn.used /\ k \in DOMAIN turn.patch.exact THEN turn.no ELSE since[k]]
  /\ merged' = IF turn.used THEN turn.no ELSE merged

Finish(spec, cards, line) ==
  /\ Deliver(turn.msg.said, spec, line)
  /\ EndTurn(cards, "no", relation, scope)
  /\ Date

\* The turn ends without an answer. Whether the backend lists the user's line is its own affair.
Fail(why, rel, sco) ==
  /\ EndTurn({}, why, rel, sco)
  /\ \E kept \in BOOLEAN :
       client' = IF kept THEN [client EXCEPT !.talked = TRUE, !.last = "none",
                                             !.heard = @ \cup turn.msg.said] ELSE client
  /\ UNCHANGED <<since, merged, asks>>

Go(pc) == turn' = [turn EXCEPT !.pc = pc] /\ UNCHANGED <<client, since, merged, asks>>

\* Mutant: without the finally.
DegradeLeavingJudge(patch) ==
  /\ turn' = [turn EXCEPT !.pc = "search", !.spec = client.spec, !.patch = patch, !.degraded = TRUE]
  /\ UNCHANGED <<client, scope, since, merged, asks>>

\* update_spec gives back the conditions of the request; its finally stops the broad judge.
Degrade(patch) ==
  /\ turn' = [turn EXCEPT !.pc = "search", !.spec = client.spec, !.patch = patch, !.degraded = TRUE]
  /\ scope' = Cancelled(scope)
  /\ UNCHANGED <<client, since, merged, asks>>

\* Mutant: the merged conditions are not checked (model_construct).
FoldUnchecked(base, patch, switched, rel) ==
  IF MergeRaises(base, patch)
  THEN Fail("spec", rel, Cancelled(scope))
  ELSE /\ relation' = rel
       /\ turn' = [turn EXCEPT !.pc = IF scope = "none" THEN "search" ELSE "scope",
                               !.spec = MergeSpecPatch(base, patch),
                               !.patch = patch, !.used = TRUE, !.switched = switched]
       /\ UNCHANGED <<client, scope, since, merged, asks>>

\* update_spec from the chosen patch to the broad judge.
Fold(base, patch, switched, rel) ==
  IF MergeRaises(base, patch)
  THEN Fail("spec", rel, Cancelled(scope))
  ELSE /\ relation' = rel
       /\ IF ~ ValidSpec(MergeSpecPatch(base, patch))
          THEN Degrade(patch)
          ELSE /\ turn' = [turn EXCEPT !.pc = IF scope = "none" THEN "search" ELSE "scope",
                                       !.spec = MergeSpecPatch(base, patch),
                                       !.patch = patch, !.used = TRUE, !.switched = switched]
               /\ UNCHANGED <<client, scope, since, merged, asks>>

-----------------------------------------------------------------------------
(* A message comes in *)

Unanswerable(m) ==
  \/ m.kind = "unclear"
  \/ m.kind = "nowhere" /\ ~ client.talked /\ client.spec.anchor_book = None

\* Answered without the model, with the conditions as they came.
SendUnanswerable(m) ==
  /\ Unanswerable(m)
  /\ Deliver(m.said, client.spec, "other")
  /\ turn' = Over(turn.no + 1, {}, "no")
  /\ UNCHANGED <<relation, scope, since, merged>>

SendAboutCard(m) ==
  /\ m.kind = "card"
  /\ turn' = Begun(m, "answer")
  /\ UNCHANGED <<client, relation, scope, since, merged, asks>>

\* update_spec starts its judges and asks for the patch.
SendRequest(m) ==
  /\ ~ Unanswerable(m) /\ m.kind # "card"
  /\ turn' = Begun(m, "spec")
  /\ scope' = IF AskStage = "may_ask" THEN "running" ELSE "none"
  /\ relation' = IF HasPrevious(client.spec) /\ AskStage # "answered" THEN "running" ELSE "none"
  /\ UNCHANGED <<client, since, merged, asks>>

Send(m) ==
  /\ Idle /\ turn.no < MaxTurns
  /\ SendUnanswerable(m) \/ SendAboutCard(m) \/ SendRequest(m)

-----------------------------------------------------------------------------
(* The judges end by themselves, at any time *)

\* A failed call counts as no.
RelationEnds(verdict) ==
  /\ relation = "running"
  /\ relation' = verdict
  /\ UNCHANGED <<client, turn, scope, since, merged, asks>>

ScopeEnds(verdict) ==
  /\ scope = "running"
  /\ scope' = verdict
  /\ UNCHANGED <<client, turn, relation, since, merged, asks>>

-----------------------------------------------------------------------------
(* update_spec *)

\* A question: the conditions stay and no judge is waited for.
SpecSaysAnswer(p) ==
  /\ p.answer
  /\ Go("answer")
  /\ relation' = Cancelled(relation) /\ scope' = Cancelled(scope)

SpecGivesPatch(p) ==
  /\ ~ p.answer
  /\ IF relation = "none"
     THEN Fold(client.spec, p, FALSE, relation)
     ELSE /\ turn' = [turn EXCEPT !.pc = "relation", !.patch = p]
          /\ UNCHANGED <<client, relation, scope, since, merged, asks>>

SpecFails ==
  /\ relation' = Cancelled(relation)
  /\ Degrade(None)

SpecCall ==
  /\ turn.pc = "spec"
  /\ SpecFails \/ \E p \in Patches : SpecSaysAnswer(p) \/ SpecGivesPatch(p)

RelationInTime ==
  /\ turn.pc = "relation"
  /\ \/ /\ relation = "yes"
        /\ Go("restart") /\ UNCHANGED <<relation, scope>>
     \/ /\ relation = "no"
        /\ Fold(client.spec, turn.patch, FALSE, relation)

\* Mutant: the wait for the judge has no time limit.
RelationLateNever ==
  /\ turn.pc = "relation" /\ relation = "cancelled"
  /\ Fold(client.spec, turn.patch, FALSE, relation)

\* After the grace the judge is cancelled and the message goes on with the old request.
RelationLate ==
  /\ turn.pc = "relation" /\ relation = "running"
  /\ Fold(client.spec, turn.patch, FALSE, "cancelled")

\* The same message once more without conditions and lines. A patch without a topic is not used.
RestartCall ==
  /\ turn.pc = "restart"
  /\ \/ \E p \in Patches : HasTopic(p) /\ Fold(FreshSpec(client.spec), p, TRUE, relation)
     \/ Fold(client.spec, turn.patch, FALSE, relation)

\* Broad and not pinned: one question back, with the conditions as the patch left them.
ScopeInTime ==
  /\ turn.pc = "scope" /\ scope \in {"yes", "no"}
  /\ IF scope = "yes" /\ ~ Pinned(turn.spec)
     THEN Finish(turn.spec, {}, "asked")
     ELSE Go("search") /\ UNCHANGED <<relation, scope>>

ScopeLate ==
  /\ turn.pc = "scope" /\ scope = "running"
  /\ scope' = "cancelled"
  /\ Go("search") /\ UNCHANGED relation

-----------------------------------------------------------------------------
(* Search, cards and answers *)

Grounds == turn.msg.said \cup client.heard \cup turn.msg.pointed
             \cup (IF client.spec.semantic = None THEN {} ELSE client.spec.semantic)

Settled == RecoverTopic(SettleCategory(WithoutInventedMood(turn.spec, Grounds)), turn.msg.lead)

SameBook(b, c) == Edition[b] = Edition[c]

\* Every edition of a rejected book is taken out of the hits, and of every other book one is left.
Candidates(spec) ==
  IF HasQuery(spec)
  THEN {found \in SUBSET Book :
          /\ \A b \in found, e \in spec.exclude : ~ SameBook(b, e)
          /\ \A b, c \in found : SameBook(b, c) => b = c}
  ELSE {{}}

\* Without a working model the best candidates are the cards; without candidates there are none.
Search ==
  /\ turn.pc = "search"
  /\ \E found \in Candidates(Settled) :
       IF turn.degraded \/ found = {}
       THEN Finish(Settled, found, "other")
       ELSE /\ turn' = [turn EXCEPT !.pc = "cards", !.spec = Settled, !.cards = found]
            /\ UNCHANGED <<client, relation, scope, since, merged, asks>>

SearchFails ==
  /\ turn.pc = "search"
  /\ Fail("search", relation, scope)

\* The model chooses among the candidates; when it fails the best ones are shown.
Cards ==
  /\ turn.pc = "cards"
  /\ \E chosen \in SUBSET turn.cards : Finish(turn.spec, chosen, "other")

\* A book id that cannot be looked up (a list) ends the turn with an error.
CardsFail ==
  /\ turn.pc = "cards"
  /\ Fail("cards", relation, scope)

Answer ==
  /\ turn.pc = "answer"
  /\ Finish(client.spec, {}, "other")

\* The reader of a stream goes away, or a polled job gets too old: the task of the turn is
\* cancelled where it waits, and update_spec cancels its judges on the way out.
Leave ==
  /\ ~ Idle
  /\ Fail("left", IF turn.pc \in {"spec", "relation"} THEN Cancelled(relation) ELSE relation,
          IF turn.pc \in {"spec", "relation", "restart", "scope"} THEN Cancelled(scope) ELSE scope)

-----------------------------------------------------------------------------
Judges == \E verdict \in {"yes", "no"} : RelationEnds(verdict) \/ ScopeEnds(verdict)

Relation == RelationInTime \/ RelationLate
Scope == ScopeInTime \/ ScopeLate

Next ==
  \/ \E m \in Messages : Send(m)
  \/ Judges
  \/ SpecCall \/ Relation \/ RestartCall \/ Scope
  \/ Search \/ SearchFails \/ Cards \/ CardsFail \/ Answer
  \/ Leave

Spec == Init /\ [][Next]_vars

\* Every call the turn itself waits for has a time limit. The judges get no fairness.
FairSpec ==
  /\ Spec
  /\ WF_vars(SpecCall) /\ WF_vars(Relation) /\ WF_vars(RestartCall) /\ WF_vars(Scope)
  /\ WF_vars(Search \/ SearchFails) /\ WF_vars(Cards \/ CardsFail) /\ WF_vars(Answer)

-----------------------------------------------------------------------------
(* Properties *)

\* The control state, and a turn that works on conditions has a message to work on.
TypeOK ==
  /\ turn.pc \in Places /\ turn.no \in 0..MaxTurns
  /\ turn.degraded \in BOOLEAN /\ turn.used \in BOOLEAN /\ turn.switched \in BOOLEAN
  /\ turn.failed \in {"no", "spec", "search", "cards", "left"}
  /\ turn.cards \subseteq Book
  /\ Idle \/ turn.msg \in Messages
  /\ turn.pc \in {"relation", "restart"} => turn.patch \in Patches
  /\ relation \in JudgeStates /\ scope \in JudgeStates
  /\ client.talked \in BOOLEAN /\ client.last \in {"none", "asked", "other"}
  /\ since \in [ExactKeys -> 0..MaxTurns] /\ merged \in 0..MaxTurns

\* What the server gives back it accepts in the next turn: the conditions that the backend holds,
\* and those that a turn works on, pass Spec.model_validate, although the steps after the merge
\* (model_copy in _settle_category, _recover_topic, _without_invented_mood) validate nothing.
SpecStaysValid == ValidSpec(client.spec) /\ (Idle \/ ValidSpec(turn.spec))

\* The patch is a good answer by itself: on empty conditions it would be taken.
Good(p) == ValidSpec(MergeSpecPatch(InitialSpec, p))

\* A good answer of the model is never thrown away for what earlier turns left behind
\* (_clear_inverted_range): update_spec degrades only when the call failed or the answer is bad by itself.
GoodAnswerCounts == turn.degraded => turn.patch = None \/ ~ Good(turn.patch)

\* Between two turns no judge of a finished turn runs on: every way out of update_spec
\* (answer, failure, ValidationError, TypeError, cancellation) has stopped or awaited both.
NoJudgeLeft == Idle => relation # "running" /\ scope # "running"

\* When the topic changed, every condition but the rejected books comes from the new patch
\* (topic_switch.fresh_spec); nothing of the old request narrows the new one.
OldRequestGone ==
  turn.switched =>
    /\ \A k \in ExactKeys : turn.spec.exact[k] # None => k \in DOMAIN turn.patch.exact
    /\ \A k \in FilterKeys : turn.spec.filters[k] # None => k \in DOMAIN turn.patch.filters
    /\ turn.spec.category # None => "category" \in DOMAIN turn.patch.plain
    /\ turn.spec.anchor_book # None => "anchor_book" \in DOMAIN turn.patch.plain

\* An author or a publisher that the backend holds beside a title was given with it or after it
\* (_clear_stale_exact): the title of one turn is never searched with the author of an earlier book.
AuthorNotOlderThanTitle ==
  \A k \in {"author", "publisher"} :
    client.spec.exact["title"] # None /\ client.spec.exact[k] # None
      => since["title"] <= since[k]

\* In a mood request a title or an author is there only if the last patch chose it
\* (_merge_spec_patch, #513): a title of an earlier turn does not come back through the backend.
TitleOfLastPatch ==
  \A k \in {"title", "author"} :
    client.spec.intent = "semantic" /\ client.spec.exact[k] # None => since[k] = merged

\* The words of an exact search belong together: none is left of an earlier turn.
ExactWordsOfOneTurn == AuthorNotOlderThanTitle /\ TitleOfLastPatch

\* A conversation is asked the broad question at most once (_ask_stage), whatever failed between.
AskedOnce == asks <= 1

\* A book that the conditions exclude stays excluded over changes of topic, failed and broken-off
\* turns, and no later turn shows it or another edition of it (get_candidates).
RejectedStaysAway ==
  [][/\ client.spec.exclude \subseteq client'.spec.exclude
     /\ \A b \in turn'.cards, e \in client.spec.exclude : ~ SameBook(b, e)]_vars

\* Every turn ends, even when the judges never answer (RELATION_GRACE_SECONDS, SCOPE_GRACE_SECONDS).
TurnEnds == ~ Idle ~> Idle

=============================================================================
