------------------------------- MODULE Replay -------------------------------
(***************************************************************************)
(* Shopping requests with an idempotency key: shop_turn in                 *)
(* app/routers/agent.py, app/agent/replay.py and app/core/idempotency.py,  *)
(* reached by POST /agent/act or, behind the gate of the chat, by the      *)
(* three chat routes. The backend sends a request again with the same key  *)
(* when it got no answer, possibly while the first attempt still runs,     *)
(* possibly to another server: only the table is shared. The lookup, the   *)
(* turn and the save are three steps; the lookup and the save are          *)
(* transactions of their own and may fail, which never stops the turn.     *)
(***************************************************************************)
EXTENDS Integers, FiniteSets

CONSTANTS
  Attempts,     \* every time the backend sends a request
  Keys,
  Bodies,
  Request,      \* what an attempt sends, and to which of the routes
  SureBodies,   \* the messages the gate's rules send to the shop by a word
  Malformed,    \* what the check of the agent's request refuses
  MaxFaults,    \* bound: failures of the table in one behaviour
  None

\* "write": a turn with actions, the only kind that is stored; "read": a turn
\* without; "recommend": the chat took the request for no shopping.
Answer == [kind : {"write", "read", "recommend", "error", "conflict"}, by : Attempts]

\* A row of idempotency_records: the body and the attempt whose answer is stored.
Record == [body : Bodies, by : Attempts]

ASSUME ReplayAssumption ==
  /\ Request \in [Attempts -> [key : Keys, body : Bodies, via : {"act", "chat"}]]
  /\ SureBodies \subseteq Bodies /\ Malformed \subseteq Bodies /\ MaxFaults \in Nat
  /\ None \notin Answer \cup Record

VARIABLES
  record,   \* idempotency_records
  pc,       \* where an attempt is
  answer,   \* the answer of an attempt that is done: what it is and whose turn it is of
  faults,   \* failures of the table so far
  earlier   \* history: the turns with changes answered before an attempt came in

vars == <<record, pc, answer, faults, earlier>>

Key(a) == Request[a].key
Body(a) == Request[a].body

-----------------------------------------------------------------------------

Done(a, kind, by) ==
  /\ pc' = [pc EXCEPT ![a] = "done"]
  /\ answer' = [answer EXCEPT ![a] = [kind |-> kind, by |-> by]]

Goes(a, from, to) ==
  /\ pc[a] = from /\ pc' = [pc EXCEPT ![a] = to]
  /\ UNCHANGED answer

Fault == faults < MaxFaults /\ faults' = faults + 1

Init ==
  /\ record = [k \in Keys |-> None]
  /\ pc = [a \in Attempts |-> "new"]
  /\ answer = [a \in Attempts |-> None]
  /\ faults = 0
  /\ earlier = [a \in Attempts |-> {}]

\* The turns with changes that an attempt has given the backend as its answer.
Given(k, b) ==
  {answer[a].by : a \in {x \in Attempts : /\ Key(x) = k /\ Body(x) = b
                                          /\ pc[x] = "done" /\ answer[x].kind = "write"}}

\* agent.act checks the request first, the chat only for the shop (Gate).
Arrive(a) ==
  /\ IF Request[a].via = "act" /\ Body(a) \in Malformed
     THEN pc[a] = "new" /\ Done(a, "error", a)
     ELSE Goes(a, "new", IF Request[a].via = "act" THEN "find" ELSE "gate")
  /\ earlier' = [earlier EXCEPT ![a] = Given(Key(a), Body(a))]
  /\ UNCHANGED <<record, faults>>

\* chat._respond up to shop_turn: a message without a word of shopping is judged
\* by a model, anew each time, before anybody looks at the key; and so is a request
\* for the shop checked and refused with 400.
Gate(a) ==
  /\ pc[a] = "gate"
  /\ \/ Body(a) \notin Malformed /\ Goes(a, "gate", "find")
     \/ Body(a) \in Malformed /\ Done(a, "error", a)
     \/ Body(a) \notin SureBodies /\ Done(a, "recommend", a)
  /\ UNCHANGED <<record, faults, earlier>>

\* Mutant: a record of the key is the answer, whatever it was asked for.
LookupOfKeyOnly(a) ==
  /\ record[Key(a)] # None
  /\ Done(a, "write", record[Key(a)].by)

\* idempotency.lookup with a record of the key.
Lookup(a) ==
  /\ record[Key(a)] # None
  /\ IF record[Key(a)].body = Body(a)
     THEN Done(a, "write", record[Key(a)].by) ELSE Done(a, "conflict", a)

\* Mutant: nobody looks for a record before the turn.
FindSkipped(a) == Goes(a, "find", "run") /\ UNCHANGED <<record, faults, earlier>>

\* replay.find
Find(a) ==
  /\ pc[a] = "find"
  /\ \/ Lookup(a) /\ UNCHANGED faults
     \/ record[Key(a)] = None /\ Goes(a, "find", "run") /\ UNCHANGED faults
     \/ Fault /\ Goes(a, "find", "run")
  /\ UNCHANGED <<record, earlier>>

\* The turn itself. Errors and turns without a write that stands are not stored;
\* what the agent finds to be no shopping goes back to the chat.
Run(a) ==
  /\ pc[a] = "run"
  /\ \/ Goes(a, "run", "save")
     \/ Done(a, "read", a)
     \/ Done(a, "error", a)
     \/ Request[a].via = "chat" /\ Done(a, "recommend", a)
  /\ UNCHANGED <<record, faults, earlier>>

Inserted(a) == [record EXCEPT ![Key(a)] = [body |-> Body(a), by |-> a]]

\* Mutant: a turn that finds its key taken gives its own answer.
SaveOrOwn(a) ==
  /\ pc[a] = "save" /\ Done(a, "write", a)
  /\ IF record[Key(a)] = None THEN record' = Inserted(a) ELSE UNCHANGED record
  /\ UNCHANGED <<faults, earlier>>

\* replay.save: the INSERT, of which the first of a key wins. When it fails the
\* answer goes out all the same, and the record may have been written.
Save(a) ==
  /\ pc[a] = "save"
  /\ \/ /\ record[Key(a)] = None
        /\ record' = Inserted(a) /\ Done(a, "write", a) /\ UNCHANGED faults
     \/ /\ record[Key(a)] # None
        /\ Goes(a, "save", "look") /\ UNCHANGED <<record, faults>>
     \/ /\ Fault /\ Done(a, "write", a)
        /\ record' \in {record} \cup (IF record[Key(a)] = None THEN {Inserted(a)} ELSE {})
  /\ UNCHANGED earlier

\* Mutant: a refused INSERT is taken for another body.
LookNot(a) ==
  /\ pc[a] = "look" /\ Done(a, "conflict", a)
  /\ UNCHANGED <<record, faults, earlier>>

\* replay.save after the INSERT was refused: the earlier answer is the answer.
Look(a) ==
  /\ pc[a] = "look"
  /\ \/ Lookup(a) /\ UNCHANGED faults
     \/ Fault /\ Done(a, "write", a)
  /\ UNCHANGED <<record, earlier>>

\* A stream whose reader leaves, a polled job that is swept, a killed server: the
\* attempt ends at any await, in the middle of the INSERT too.
Vanish(a) ==
  /\ pc[a] \in {"gate", "find", "run", "save", "look"}
  /\ pc' = [pc EXCEPT ![a] = "gone"]
  /\ record' \in {record} \cup
       (IF pc[a] = "save" /\ record[Key(a)] = None THEN {Inserted(a)} ELSE {})
  /\ UNCHANGED <<answer, faults, earlier>>

Step(a) == Arrive(a) \/ Gate(a) \/ Find(a) \/ Run(a) \/ Save(a) \/ Look(a) \/ Vanish(a)

Next == \E a \in Attempts : Step(a)

Spec == Init /\ [][Next]_vars

-----------------------------------------------------------------------------
(* Properties.                                                             *)

\* The state keeps its shape; an attempt has an answer exactly if it is done.
TypeOK ==
  /\ record \in [Keys -> Record \cup {None}]
  /\ pc \in [Attempts -> {"new", "gate", "find", "run", "save", "look", "done", "gone"}]
  /\ answer \in [Attempts -> Answer \cup {None}]
  /\ faults \in 0..MaxFaults
  /\ earlier \in [Attempts -> SUBSET Attempts]
  /\ \A a \in Attempts : pc[a] = "done" <=> answer[a] # None

\* Nobody gets the changes of a turn that was run for another key or another
\* body, nor those of a turn nobody has finished (idempotency.lookup, replay.save).
OwnTurn ==
  /\ \A k \in Keys : record[k] # None =>
       Key(record[k].by) = k /\ Body(record[k].by) = record[k].body
  /\ \A a \in Attempts : answer[a] # None =>
       Key(answer[a].by) = Key(a) /\ Body(answer[a].by) = Body(a)

\* A conflict is told only when the key stands for another body.
ConflictIsReal ==
  \A a \in Attempts : answer[a] # None /\ answer[a].kind = "conflict" =>
    record[Key(a)] # None /\ record[Key(a)].body # Body(a)

\* What the table says of a key is true, whichever attempts overlapped, failed or vanished.
RecordIsTrue == OwnTurn /\ ConflictIsReal

\* The answer stored first stays (remember inserts and never replaces).
FirstStays ==
  [][\A k \in Keys : record[k] # None => record'[k] = record[k]]_vars

\* However attempts overlap, the backend is given the changes of at most one turn
\* per key, and of one more for each failure of the table: two attempts that
\* both ran agree on the first one saved (replay.save).
OneTurnPerKey ==
  \A k \in Keys : Cardinality(UNION {Given(k, b) : b \in Bodies}) <= 1 + faults

\* An attempt that comes in after the changes were given to the backend does not
\* end with another turn, unless the table failed. The gate of the chat must be
\* sure of the message.
RetryWith(S) ==
  \A a \in Attempts :
    /\ pc[a] = "done" /\ faults = 0 /\ earlier[a] # {}
    /\ Request[a].via = "act" \/ Body(a) \in S
    => answer[a].kind = "write" /\ answer[a].by \in earlier[a]

\* What the code does: a repeated request whose lane is sure is answered with the
\* first answer (agent/replay.py).
SureRetryGetsFirst == RetryWith(SureBodies)

\* What the documents promise of every repeated request (agent/replay.py, and
\* docs/wiki/ai/1-model-api/spec.md on idempotency keys).
RetryGetsFirst == RetryWith(Bodies)
=============================================================================
