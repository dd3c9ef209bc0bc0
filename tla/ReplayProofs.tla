---------------------------- MODULE ReplayProofs ----------------------------
(***************************************************************************)
(* Proofs about Replay, for any attempts, keys, bodies and failures: what  *)
(* a step can do to the table and to the answers is stated once (StepOK),  *)
(* and the invariants follow from that.                                    *)
(***************************************************************************)
EXTENDS Replay, FiniteSetTheorems, TLAPS

LEMMA RequestType ==
  \A a \in Attempts : Key(a) \in Keys /\ Body(a) \in Bodies
BY ReplayAssumption DEF Key, Body

-----------------------------------------------------------------------------
(* The shape of the state.                                                 *)

\* What is the case with the answer of every attempt but that it is typed.
Settled == \A a \in Attempts : pc[a] = "done" <=> answer[a] # None

LEMMA TypeInit ==
  ASSUME Init
  PROVE  TypeOK
BY ReplayAssumption DEF Init, TypeOK

\* The answer an attempt ends with, and the table, for every step.
LEMMA DoneType ==
  ASSUME TypeOK, NEW a \in Attempts, NEW kind, NEW by, [kind |-> kind, by |-> by] \in Answer,
         Done(a, kind, by)
  PROVE  /\ pc' \in [Attempts -> {"new", "gate", "find", "run", "save", "look", "done", "gone"}]
         /\ answer' \in [Attempts -> Answer \cup {None}]
         /\ Settled'
BY ReplayAssumption DEF TypeOK, Done, Settled

LEMMA GoesType ==
  ASSUME TypeOK, NEW a \in Attempts, NEW from, from # "done",
         NEW to \in {"gate", "find", "run", "save", "look", "gone"}, Goes(a, from, to)
  PROVE  /\ pc' \in [Attempts -> {"new", "gate", "find", "run", "save", "look", "done", "gone"}]
         /\ answer' \in [Attempts -> Answer \cup {None}]
         /\ Settled'
BY DEF TypeOK, Goes, Settled

LEMMA InsertedType ==
  ASSUME TypeOK, NEW a \in Attempts
  PROVE  Inserted(a) \in [Keys -> Record \cup {None}]
BY RequestType DEF TypeOK, Inserted, Record

LEMMA OwnAnswer ==
  \A a \in Attempts : \A kind \in {"write", "read", "recommend", "error", "conflict"} :
    [kind |-> kind, by |-> a] \in Answer
BY DEF Answer

LEMMA LookupType ==
  ASSUME TypeOK, NEW a \in Attempts, Lookup(a)
  PROVE  \E kind \in {"write", "conflict"}, by \in Attempts : Done(a, kind, by)
<1>1. Key(a) \in Keys /\ record[Key(a)] \in Record
  BY RequestType DEF Lookup, TypeOK
<1>2. record[Key(a)].by \in Attempts
  BY <1>1 DEF Record
<1> QED BY <1>2 DEF Lookup

\* Whatever an attempt does, it ends, goes on or vanishes.
LEMMA TypeStep ==
  ASSUME TypeOK, NEW a \in Attempts, Step(a)
  PROVE  TypeOK'
<1> DEFINE Shape ==
      /\ pc' \in [Attempts -> {"new", "gate", "find", "run", "save", "look", "done", "gone"}]
      /\ answer' \in [Attempts -> Answer \cup {None}]
      /\ Settled'
<1>1. ASSUME NEW kind \in {"write", "read", "recommend", "error", "conflict"}, NEW by \in Attempts,
             Done(a, kind, by)
      PROVE  Shape
  BY <1>1, DoneType DEF Answer
<1>2. ASSUME NEW from, from # "done", NEW to \in {"gate", "find", "run", "save", "look", "gone"},
             Goes(a, from, to)
      PROVE  Shape
  BY <1>2, GoesType
<1>3. ASSUME Lookup(a)
      PROVE  Shape
  BY <1>1, <1>3, LookupType
<1>4. ASSUME Fault
      PROVE  faults' \in 0..MaxFaults
  BY <1>4, ReplayAssumption DEF Fault, TypeOK
<1> HIDE DEF Shape
<1>5. Shape
  <2>1. CASE Arrive(a)
    BY <1>1, <1>2, <2>1 DEF Arrive
  <2>2. CASE Gate(a)
    BY <1>1, <1>2, <2>2 DEF Gate
  <2>3. CASE Find(a)
    BY <1>2, <1>3, <2>3 DEF Find
  <2>4. CASE Run(a)
    BY <1>1, <1>2, <2>4 DEF Run
  <2>5. CASE Save(a)
    BY <1>1, <1>2, <2>5 DEF Save
  <2>6. CASE Look(a)
    BY <1>1, <1>3, <2>6 DEF Look
  <2>7. CASE Vanish(a)
    BY <2>7 DEF Vanish, TypeOK, Shape, Settled
  <2> QED BY <2>1, <2>2, <2>3, <2>4, <2>5, <2>6, <2>7 DEF Step
<1>6. record' \in [Keys -> Record \cup {None}]
  BY InsertedType DEF TypeOK, Step, Arrive, Gate, Find, Run, Save, Look, Vanish
<1>7. faults' \in 0..MaxFaults
  BY <1>4 DEF TypeOK, Step, Arrive, Gate, Find, Run, Save, Look, Vanish
<1>8. earlier' \in [Attempts -> SUBSET Attempts]
  <2>1. CASE Arrive(a)
    <3>1. Given(Key(a), Body(a)) \subseteq Attempts
      BY DEF Given, TypeOK, Answer, Settled
    <3> QED BY <2>1, <3>1 DEF Arrive, TypeOK
  <2>2. CASE UNCHANGED earlier
    BY <2>2 DEF TypeOK
  <2> QED BY <2>1, <2>2 DEF Step, Gate, Find, Run, Save, Look, Vanish
<1> QED BY <1>5, <1>6, <1>7, <1>8 DEF Shape, Settled, TypeOK

LEMMA TypeNext ==
  ASSUME TypeOK, [Next]_vars
  PROVE  TypeOK'
<1>1. CASE Next
  BY <1>1, TypeStep DEF Next
<1>2. CASE UNCHANGED vars
  BY <1>2 DEF vars, TypeOK
<1> QED BY <1>1, <1>2

\* The state keeps its shape, and an attempt has an answer exactly if it is done.
THEOREM TypeCorrect == Spec => []TypeOK
BY TypeInit, TypeNext, PTL DEF Spec

-----------------------------------------------------------------------------
(* What a step can do.                                                     *)

\* The answer an attempt ends with is of its own turn or of the recorded one,
\* and a turn with changes is the recorded one or costs a failure of the table.
AnswerOK(a) ==
  LET x == answer'[a]
      old == record[Key(a)]
      new == record'[Key(a)]
  IN  /\ x.by = a \/ (old # None /\ old.body = Body(a) /\ x.by = old.by)
      /\ x.kind = "conflict" => old # None /\ old.body # Body(a)
      /\ x.kind = "write" =>
           \/ new # None /\ new.body = Body(a) /\ x.by = new.by
           \/ x.by = a /\ faults' = faults + 1

RecordOK(a) ==
  record' = record \/ (record[Key(a)] = None /\ record' = Inserted(a))

OthersKept(a) == \A x \in Attempts \ {a} : answer'[x] = answer[x]

StepOK(a) ==
  /\ RecordOK(a) /\ OthersKept(a)
  /\ answer'[a] = answer[a] \/ AnswerOK(a)
  /\ faults' \in {faults, faults + 1}

LEMMA InsertedIs ==
  ASSUME TypeOK, NEW a \in Attempts, record' = Inserted(a)
  PROVE  /\ record'[Key(a)] # None
         /\ record'[Key(a)].body = Body(a) /\ record'[Key(a)].by = a
         /\ \A k \in Keys \ {Key(a)} : record'[k] = record[k]
BY RequestType, ReplayAssumption DEF TypeOK, Inserted, Record

LEMMA DoneIs ==
  ASSUME TypeOK, NEW a \in Attempts, NEW kind, NEW by, Done(a, kind, by)
  PROVE  OthersKept(a) /\ answer'[a].kind = kind /\ answer'[a].by = by
BY DEF TypeOK, Done, OthersKept

LEMMA LookupOK ==
  ASSUME TypeOK, NEW a \in Attempts, Lookup(a), UNCHANGED record
  PROVE  OthersKept(a) /\ AnswerOK(a)
<1>1. CASE record[Key(a)].body = Body(a)
  <2>1. Done(a, "write", record[Key(a)].by) /\ record[Key(a)] # None
    BY <1>1 DEF Lookup
  <2> QED BY <1>1, <2>1, DoneIs DEF AnswerOK
<1>2. CASE record[Key(a)].body # Body(a)
  <2>1. Done(a, "conflict", a) /\ record[Key(a)] # None
    BY <1>2 DEF Lookup
  <2> QED BY <1>2, <2>1, DoneIs DEF AnswerOK
<1> QED BY <1>1, <1>2

LEMMA NextIsOK ==
  ASSUME TypeOK, NEW a \in Attempts, Step(a)
  PROVE  StepOK(a)
<1>1. ASSUME UNCHANGED answer, UNCHANGED record, faults' \in {faults, faults + 1}
      PROVE  StepOK(a)
  BY <1>1 DEF StepOK, RecordOK, OthersKept
<1>2. ASSUME NEW kind \in {"read", "recommend", "error"}, Done(a, kind, a),
             UNCHANGED <<record, faults>>
      PROVE  StepOK(a)
  BY <1>2, DoneIs DEF StepOK, RecordOK, AnswerOK
<1>3. CASE Arrive(a)
  BY <1>1, <1>2, <1>3 DEF Arrive, Goes
<1>4. CASE Gate(a)
  BY <1>1, <1>2, <1>4 DEF Gate, Goes
<1>5. CASE Find(a)
  BY <1>1, <1>5, LookupOK DEF Find, Goes, Fault, StepOK, RecordOK
<1>6. CASE Run(a)
  BY <1>1, <1>2, <1>6 DEF Run, Goes
<1>7. CASE Save(a)
  <2>1. CASE record[Key(a)] = None /\ record' = Inserted(a) /\ Done(a, "write", a) /\ UNCHANGED faults
    <3>1. AnswerOK(a)
      BY <2>1, DoneIs, InsertedIs DEF AnswerOK
    <3> QED BY <2>1, <3>1, DoneIs DEF StepOK, RecordOK
  <2>2. CASE Goes(a, "save", "look") /\ UNCHANGED <<record, faults>>
    BY <1>1, <2>2 DEF Goes
  <2>3. CASE /\ Fault /\ Done(a, "write", a)
             /\ record' \in {record} \cup (IF record[Key(a)] = None THEN {Inserted(a)} ELSE {})
    <3>1. AnswerOK(a)
      BY <2>3, DoneIs DEF AnswerOK, Fault
    <3>2. RecordOK(a)
      BY <2>3 DEF RecordOK
    <3> QED BY <2>3, <3>1, <3>2, DoneIs DEF StepOK, Fault
  <2> QED BY <1>7, <2>1, <2>2, <2>3 DEF Save
<1>8. CASE Look(a)
  <2>1. CASE Lookup(a) /\ UNCHANGED <<record, faults>>
    BY <2>1, LookupOK DEF StepOK, RecordOK
  <2>2. CASE Fault /\ Done(a, "write", a) /\ UNCHANGED record
    <3>1. AnswerOK(a)
      BY <2>2, DoneIs DEF AnswerOK, Fault
    <3> QED BY <2>2, <3>1, DoneIs DEF StepOK, RecordOK, Fault
  <2> QED BY <1>8, <2>1, <2>2 DEF Look
<1>9. CASE Vanish(a)
  <2>1. RecordOK(a) /\ OthersKept(a) /\ answer'[a] = answer[a] /\ faults' = faults
    BY <1>9 DEF Vanish, RecordOK, OthersKept
  <2> QED BY <2>1 DEF StepOK
<1> QED BY <1>3, <1>4, <1>5, <1>6, <1>7, <1>8, <1>9 DEF Step

\* The table only ever gains rows.
LEMMA RecordGrows ==
  ASSUME TypeOK, NEW a \in Attempts, RecordOK(a)
  PROVE  \A k \in Keys : record[k] # None => record'[k] = record[k]
BY InsertedIs, RequestType DEF RecordOK

\* The answer stored first stays (idempotency.remember).
THEOREM FirstOneStays == Spec => FirstStays
<1>1. ASSUME TypeOK, Next
      PROVE  \A k \in Keys : record[k] # None => record'[k] = record[k]
  <2>1. PICK a \in Attempts : Step(a)
    BY <1>1 DEF Next
  <2> QED BY <1>1, <2>1, NextIsOK, RecordGrows DEF StepOK
<1>2. TypeOK /\ [Next]_vars => [\A k \in Keys : record[k] # None => record'[k] = record[k]]_vars
  BY <1>1
<1> QED BY <1>2, TypeCorrect, PTL DEF Spec, FirstStays

-----------------------------------------------------------------------------
(* Whose turn an answer is of.                                             *)

\* A turn with changes is given to nobody but the asker, or those who asked the
\* same with the same key (idempotency.lookup, replay.save).
LEMMA OwnTurnInit ==
  ASSUME Init
  PROVE  OwnTurn /\ ConflictIsReal
BY RequestType DEF Init, OwnTurn, ConflictIsReal

LEMMA OwnTurnStep ==
  ASSUME TypeOK, OwnTurn, ConflictIsReal, NEW a \in Attempts, StepOK(a)
  PROVE  OwnTurn' /\ ConflictIsReal'
<1>1. \A k \in Keys : record[k] # None => record'[k] = record[k]
  BY RecordGrows DEF StepOK
<1>2. ASSUME NEW k \in Keys, record'[k] # None
      PROVE  Key(record'[k].by) = k /\ Body(record'[k].by) = record'[k].body
  <2>1. CASE record' = record
    BY <1>2, <2>1 DEF OwnTurn
  <2>2. CASE record' = Inserted(a)
    BY <1>2, <2>2, InsertedIs DEF OwnTurn
  <2> QED BY <2>1, <2>2 DEF StepOK, RecordOK
<1>3. ASSUME NEW x \in Attempts, answer'[x] # None
      PROVE  /\ Key(answer'[x].by) = Key(x) /\ Body(answer'[x].by) = Body(x)
             /\ answer'[x].kind = "conflict" => record'[Key(x)] # None /\ record'[Key(x)].body # Body(x)
  <2>0. Key(x) \in Keys
    BY RequestType
  <2>1. CASE answer'[x] = answer[x]
    BY <1>1, <1>3, <2>0, <2>1 DEF OwnTurn, ConflictIsReal
  <2>2. CASE x = a /\ AnswerOK(a)
    BY <1>1, <2>0, <2>2 DEF AnswerOK, OwnTurn
  <2> QED BY <2>1, <2>2 DEF StepOK, OthersKept
<1> QED BY <1>2, <1>3 DEF OwnTurn, ConflictIsReal

-----------------------------------------------------------------------------
(* How many turns with changes are given to the backend.                   *)

Wrote(a) == answer[a] # None /\ answer[a].kind = "write"

Recorded(a) == record[Key(a)] # None /\ answer[a].by = record[Key(a)].by

\* All but a set F of turns, one for a failure of the table, are the recorded ones.
Explains(F) ==
  /\ IsFiniteSet(F) /\ Cardinality(F) <= faults
  /\ \A a \in Attempts : Wrote(a) => answer[a].by \in F \/ Recorded(a)

Counted == \E F \in SUBSET Attempts : Explains(F)

LEMMA CountedInit ==
  ASSUME Init
  PROVE  Counted
<1>1. Explains({})
  BY FS_EmptySet DEF Init, Explains, Wrote
<1> QED BY <1>1 DEF Counted

LEMMA CountedStep ==
  ASSUME TypeOK, Counted, NEW a \in Attempts, StepOK(a)
  PROVE  Counted'
<1>1. \A k \in Keys : record[k] # None => record'[k] = record[k]
  BY RecordGrows DEF StepOK
<1>2. PICK F \in SUBSET Attempts : Explains(F)
  BY DEF Counted
<1>3. faults \in Nat /\ faults' \in {faults, faults + 1} /\ Cardinality(F) \in Nat
  BY <1>2, FS_CardinalityType, ReplayAssumption DEF TypeOK, StepOK, Explains
<1>4. ASSUME NEW x \in Attempts, answer'[x] = answer[x], Wrote(x)'
      PROVE  answer'[x].by \in F \/ Recorded(x)'
  <2>1. Wrote(x)
    BY <1>4 DEF Wrote
  <2>2. answer[x].by \in F \/ Recorded(x)
    BY <1>2, <2>1 DEF Explains
  <2> QED BY <1>1, <1>4, <2>2, RequestType DEF Recorded
<1>5. CASE Wrote(a)' => answer'[a].by \in F \/ Recorded(a)'
  <2>1. \A x \in Attempts : Wrote(x)' => answer'[x].by \in F \/ Recorded(x)'
    BY <1>4, <1>5 DEF StepOK, OthersKept
  <2>2. Cardinality(F) <= faults'
    BY <1>2, <1>3 DEF Explains
  <2>3. IsFiniteSet(F)
    BY <1>2 DEF Explains
  <2> QED BY <2>1, <2>2, <2>3 DEF Counted, Explains
<1>6. CASE answer'[a].by = a /\ faults' = faults + 1
  <2> DEFINE G == F \cup {a}
  <2>1. IsFiniteSet(G) /\ Cardinality(G) <= faults'
    BY <1>2, <1>3, <1>6, FS_AddElement DEF Explains
  <2>2. \A x \in Attempts : Wrote(x)' => answer'[x].by \in G \/ Recorded(x)'
    BY <1>4, <1>6 DEF StepOK, OthersKept
  <2>3. G \in SUBSET Attempts
    OBVIOUS
  <2> HIDE DEF G
  <2> QED BY <2>1, <2>2, <2>3 DEF Counted, Explains
<1>7. CASE answer'[a] = answer[a]
  BY <1>4, <1>5, <1>7
<1>8. CASE AnswerOK(a) /\ ~ (answer'[a].by = a /\ faults' = faults + 1)
  BY <1>5, <1>8 DEF AnswerOK, Wrote, Recorded
<1> QED BY <1>6, <1>7, <1>8 DEF StepOK

LEMMA CountedBounds ==
  ASSUME TypeOK, Counted
  PROVE  OneTurnPerKey
<1>1. PICK F \in SUBSET Attempts : Explains(F)
  BY DEF Counted
<1> SUFFICES ASSUME NEW k \in Keys
             PROVE  Cardinality(UNION {Given(k, b) : b \in Bodies}) <= 1 + faults
  BY DEF OneTurnPerKey
<1> DEFINE U == UNION {Given(k, b) : b \in Bodies}
           G == F \cup {record[k].by}
<1>2. U \subseteq G
  BY <1>1 DEF Given, Explains, Wrote, Recorded, TypeOK
<1>3. IsFiniteSet(G) /\ Cardinality(G) <= Cardinality(F) + 1 /\ Cardinality(F) \in Nat
  BY <1>1, FS_AddElement, FS_CardinalityType DEF Explains
<1>4. IsFiniteSet(U) /\ Cardinality(U) <= Cardinality(G)
  BY <1>2, <1>3, FS_Subset
<1>5. Cardinality(U) \in Nat /\ Cardinality(G) \in Nat /\ faults \in Nat
  BY <1>3, <1>4, FS_CardinalityType, ReplayAssumption DEF TypeOK
<1>6. Cardinality(F) <= faults
  BY <1>1 DEF Explains
<1> HIDE DEF U, G
<1>7. Cardinality(U) <= 1 + faults
  BY <1>3, <1>4, <1>5, <1>6
<1> QED BY <1>7 DEF U

-----------------------------------------------------------------------------
(* A retry that comes in after an answer.                                  *)

\* While the table has not failed, an attempt that came in after an answer with
\* changes finds it recorded, runs no turn, and ends with it, unless the gate
\* could take its message for no shopping.
OnTrack(a) ==
  /\ earlier[a] # {} =>
       /\ record[Key(a)] # None /\ record[Key(a)].body = Body(a)
       /\ earlier[a] = {record[Key(a)].by}
       /\ pc[a] \notin {"run", "save", "look"}
       /\ pc[a] = "done" =>
            \/ answer[a].kind = "write" /\ answer[a].by = record[Key(a)].by
            \/ Request[a].via # "act" /\ Body(a) \notin SureBodies
  /\ pc[a] = "gate" => Request[a].via # "act"

AllOnTrack == faults = 0 => \A a \in Attempts : OnTrack(a)

\* What the check of the request refuses never gets to the table.
OnlyWellFormed ==
  /\ \A a \in Attempts : pc[a] \in {"find", "run", "save", "look"} => Body(a) \notin Malformed
  /\ \A k \in Keys : record[k] # None => record[k].body \notin Malformed

ReplayInv == TypeOK /\ OwnTurn /\ ConflictIsReal /\ Counted /\ OnlyWellFormed /\ AllOnTrack

LEMMA WellFormedStep ==
  ASSUME TypeOK, OnlyWellFormed, NEW a \in Attempts, Step(a)
  PROVE  OnlyWellFormed'
<1>1. \A x \in Attempts \ {a} : pc'[x] = pc[x]
  BY DEF TypeOK, Step, Arrive, Gate, Find, Run, Save, Look, Vanish, Lookup, Goes, Done
<1>2. pc'[a] \in {"find", "run", "save", "look"} =>
        pc[a] \in {"find", "run", "save", "look"} \/ Body(a) \notin Malformed
  BY DEF TypeOK, Step, Arrive, Gate, Find, Run, Save, Look, Vanish, Lookup, Goes, Done
<1>3. record' = record \/ (record' = Inserted(a) /\ pc[a] \in {"find", "run", "save", "look"})
  BY DEF Step, Arrive, Gate, Find, Run, Save, Look, Vanish
<1>4. \A k \in Keys : record'[k] # None => record'[k].body \notin Malformed
  <2>1. CASE record' = record
    BY <2>1 DEF OnlyWellFormed
  <2>2. CASE record' = Inserted(a) /\ pc[a] \in {"find", "run", "save", "look"}
    BY <2>2, InsertedIs DEF OnlyWellFormed
  <2> QED BY <1>3, <2>1, <2>2
<1> QED BY <1>1, <1>2, <1>4 DEF OnlyWellFormed

LEMMA OnTrackInit ==
  ASSUME Init
  PROVE  AllOnTrack
BY DEF Init, AllOnTrack, OnTrack

\* Without a failure what was given is what is recorded.
LEMMA GivenIsRecorded ==
  ASSUME TypeOK, OwnTurn, Counted, faults = 0, NEW a \in Attempts, Given(Key(a), Body(a)) # {}
  PROVE  /\ record[Key(a)] # None /\ record[Key(a)].body = Body(a)
         /\ Given(Key(a), Body(a)) = {record[Key(a)].by}
<1>1. PICK F \in SUBSET Attempts : Explains(F)
  BY DEF Counted
<1>2. F = {}
  <2>1. IsFiniteSet(F) /\ Cardinality(F) <= 0
    BY <1>1 DEF Explains
  <2>2. Cardinality(F) \in Nat
    BY <2>1, FS_CardinalityType
  <2> QED BY <2>1, <2>2, FS_EmptySet
<1>3. \A x \in Attempts : Wrote(x) => Recorded(x)
  BY <1>1, <1>2 DEF Explains
<1>4. ASSUME NEW x \in Attempts, Key(x) = Key(a), Body(x) = Body(a),
             pc[x] = "done", answer[x].kind = "write"
      PROVE  /\ record[Key(a)] # None /\ record[Key(a)].body = Body(a)
             /\ answer[x].by = record[Key(a)].by
  <2>1. answer[x] # None
    BY <1>4 DEF TypeOK
  <2>2. Recorded(x)
    BY <1>3, <1>4, <2>1 DEF Wrote
  <2>3. Body(answer[x].by) = Body(x)
    BY <2>1 DEF OwnTurn
  <2>4. Body(record[Key(x)].by) = record[Key(x)].body
    BY <2>2, RequestType DEF OwnTurn, Recorded
  <2> QED BY <1>4, <2>2, <2>3, <2>4 DEF Recorded
<1> QED BY <1>4 DEF Given

\* What a step does to the attempts that do not make it.
LEMMA OthersStay ==
  ASSUME TypeOK, NEW a \in Attempts, Step(a)
  PROVE  \A x \in Attempts \ {a} :
           pc'[x] = pc[x] /\ earlier'[x] = earlier[x] /\ answer'[x] = answer[x]
<1>1. \A x \in Attempts \ {a} : answer'[x] = answer[x]
  BY NextIsOK DEF StepOK, OthersKept
<1>2. \A x \in Attempts \ {a} : earlier'[x] = earlier[x]
  BY DEF TypeOK, Step, Arrive, Gate, Find, Run, Save, Look, Vanish
<1>3. \A x \in Attempts \ {a} : pc'[x] = pc[x]
  BY DEF TypeOK, Step, Arrive, Gate, Find, Run, Save, Look, Vanish, Lookup, Goes, Done
<1> QED BY <1>1, <1>2, <1>3

LEMMA OnTrackStep ==
  ASSUME ReplayInv, NEW a \in Attempts, Step(a)
  PROVE  AllOnTrack'
<1>0. TypeOK /\ OwnTurn /\ Counted /\ OnlyWellFormed /\ StepOK(a)
  BY NextIsOK DEF ReplayInv
<1> SUFFICES ASSUME faults' = 0
             PROVE  \A x \in Attempts : OnTrack(x)'
  BY DEF AllOnTrack
<1>1. faults = 0 /\ ~ Fault
  BY <1>0, ReplayAssumption DEF StepOK, TypeOK, Fault
<1>2. \A x \in Attempts : OnTrack(x)
  BY <1>1 DEF ReplayInv, AllOnTrack
<1>3. \A k \in Keys : record[k] # None => record'[k] = record[k]
  BY <1>0, RecordGrows DEF StepOK
<1>4. ASSUME NEW x \in Attempts, x # a
      PROVE  OnTrack(x)'
  <2>1. pc'[x] = pc[x] /\ earlier'[x] = earlier[x] /\ answer'[x] = answer[x]
    BY <1>0, <1>4, OthersStay
  <2> QED BY <1>2, <1>3, <2>1, RequestType DEF OnTrack
<1> SUFFICES OnTrack(a)'
  BY <1>4
<1>5. CASE Arrive(a)
  <2>1. earlier'[a] = Given(Key(a), Body(a)) /\ record' = record
    BY <1>0, <1>5 DEF Arrive, TypeOK
  <2>2. \/ pc'[a] = (IF Request[a].via = "act" THEN "find" ELSE "gate")
        \/ pc'[a] = "done" /\ Body(a) \in Malformed
    BY <1>0, <1>5 DEF Arrive, Goes, Done, TypeOK
  <2>3. Given(Key(a), Body(a)) # {} => Body(a) \notin Malformed
    BY <1>0, <1>1, GivenIsRecorded, RequestType DEF OnlyWellFormed
  <2> QED BY <1>0, <1>1, <2>1, <2>2, <2>3, GivenIsRecorded DEF OnTrack
<1>6. CASE Gate(a)
  <2>1. pc[a] = "gate" /\ UNCHANGED <<record, earlier>>
    BY <1>6 DEF Gate
  <2>2. \/ pc'[a] = "find"
        \/ pc'[a] = "done" /\ (Body(a) \in Malformed \/ Body(a) \notin SureBodies)
    BY <1>0, <1>6 DEF Gate, Goes, Done, TypeOK
  <2>3. earlier[a] # {} => record[Key(a)] # None /\ Body(a) \notin Malformed
    BY <1>0, <1>2, RequestType DEF OnTrack, OnlyWellFormed
  <2> QED BY <1>2, <2>1, <2>2, <2>3 DEF OnTrack
<1>7. CASE Find(a)
  <2>1. pc[a] = "find" /\ UNCHANGED <<record, earlier>>
    BY <1>7 DEF Find
  <2>2. CASE record[Key(a)] = None
    <3>1. pc'[a] = "run"
      BY <1>0, <1>1, <1>7, <2>2 DEF Find, Lookup, Goes, TypeOK
    <3> QED BY <1>2, <2>1, <2>2, <3>1 DEF OnTrack
  <2>3. CASE record[Key(a)] # None /\ record[Key(a)].body = Body(a)
    <3>1. Done(a, "write", record[Key(a)].by)
      BY <1>1, <1>7, <2>3 DEF Find, Lookup
    <3>2. answer'[a].kind = "write" /\ answer'[a].by = record[Key(a)].by
      BY <1>0, <3>1, DoneIs
    <3>3. pc'[a] = "done"
      BY <1>0, <3>1 DEF Done, TypeOK
    <3> QED BY <1>2, <2>1, <3>2, <3>3 DEF OnTrack
  <2>4. CASE record[Key(a)] # None /\ record[Key(a)].body # Body(a)
    <3>1. earlier[a] = {} /\ pc'[a] = "done"
      BY <1>0, <1>1, <1>2, <1>7, <2>4 DEF Find, Lookup, Done, OnTrack, TypeOK
    <3> QED BY <2>1, <3>1 DEF OnTrack
  <2> QED BY <2>2, <2>3, <2>4
<1>8. CASE Run(a) \/ Save(a) \/ Look(a)
  <2>1. pc[a] \in {"run", "save", "look"} /\ UNCHANGED earlier
    BY <1>8 DEF Run, Save, Look
  <2>2. earlier'[a] = {}
    BY <1>2, <2>1 DEF OnTrack
  <2>3. pc'[a] \in {"save", "look", "done"}
    BY <1>0, <1>8 DEF Run, Save, Look, Lookup, Goes, Done, TypeOK
  <2> QED BY <2>2, <2>3 DEF OnTrack
<1>9. CASE Vanish(a)
  <2>1. pc'[a] = "gone" /\ UNCHANGED earlier
    BY <1>0, <1>9 DEF Vanish, TypeOK
  <2> QED BY <1>2, <1>3, <2>1, RequestType DEF OnTrack
<1> QED BY <1>5, <1>6, <1>7, <1>8, <1>9 DEF Step

LEMMA OnTrackBounds ==
  ASSUME ReplayInv
  PROVE  SureRetryGetsFirst
BY DEF ReplayInv, AllOnTrack, OnTrack, SureRetryGetsFirst, RetryWith

-----------------------------------------------------------------------------
(* The theorems.                                                           *)

LEMMA InvInit ==
  ASSUME Init
  PROVE  ReplayInv
<1>1. OnlyWellFormed
  BY RequestType DEF Init, OnlyWellFormed
<1> QED BY <1>1, TypeInit, OwnTurnInit, CountedInit, OnTrackInit DEF ReplayInv

LEMMA InvNext ==
  ASSUME ReplayInv, [Next]_vars
  PROVE  ReplayInv'
<1>1. CASE Next
  <2>1. PICK a \in Attempts : Step(a)
    BY <1>1 DEF Next
  <2>2. StepOK(a)
    BY <2>1, NextIsOK DEF ReplayInv
  <2>3. TypeOK'
    BY <2>1, TypeStep DEF ReplayInv
  <2>4. OwnTurn' /\ ConflictIsReal'
    BY <2>2, OwnTurnStep DEF ReplayInv
  <2>5. Counted'
    BY <2>2, CountedStep DEF ReplayInv
  <2>6. AllOnTrack'
    BY <2>1, OnTrackStep
  <2>7. OnlyWellFormed'
    BY <2>1, WellFormedStep DEF ReplayInv
  <2> QED BY <2>3, <2>4, <2>5, <2>6, <2>7 DEF ReplayInv
<1>2. CASE UNCHANGED vars
  <2>1. TypeOK' /\ OwnTurn' /\ ConflictIsReal'
    BY <1>2 DEF vars, ReplayInv, TypeOK, OwnTurn, ConflictIsReal
  <2>2. Counted'
    BY <1>2 DEF vars, ReplayInv, Counted, Explains, Wrote, Recorded
  <2>3. AllOnTrack'
    BY <1>2 DEF vars, ReplayInv, AllOnTrack, OnTrack
  <2>4. OnlyWellFormed'
    BY <1>2 DEF vars, ReplayInv, OnlyWellFormed
  <2> QED BY <2>1, <2>2, <2>3, <2>4 DEF ReplayInv
<1> QED BY <1>1, <1>2

\* The inductive invariant: the properties, the set of turns that failures of the
\* table explain, and where a retry of an answered request can be.
THEOREM ReplayInvHolds == Spec => []ReplayInv
BY InvInit, InvNext, PTL DEF Spec

\* Nobody gets the changes of a turn for another key or another body.
THEOREM TurnsAreOwn == Spec => []OwnTurn
<1>1. ReplayInv => OwnTurn
  BY DEF ReplayInv
<1> QED BY <1>1, ReplayInvHolds, PTL

\* A conflict is told only when the key stands for another body.
THEOREM ConflictsAreReal == Spec => []ConflictIsReal
<1>1. ReplayInv => ConflictIsReal
  BY DEF ReplayInv
<1> QED BY <1>1, ReplayInvHolds, PTL

\* What the table says of a key is true: both of the above.
THEOREM RecordsAreTrue == Spec => []RecordIsTrue
<1>1. ReplayInv => RecordIsTrue
  BY DEF ReplayInv, RecordIsTrue
<1> QED BY <1>1, ReplayInvHolds, PTL

\* The backend is given the changes of one turn per key, and of one more for each
\* failure of the table, however many attempts overlap (replay.save).
THEOREM OneTurnForKey == Spec => []OneTurnPerKey
<1>1. ReplayInv => OneTurnPerKey
  BY CountedBounds DEF ReplayInv
<1> QED BY <1>1, ReplayInvHolds, PTL

\* A retry of an answered request whose lane is sure gets the first answer.
THEOREM RetriesGetFirst == Spec => []SureRetryGetsFirst
<1>1. ReplayInv => SureRetryGetsFirst
  BY OnTrackBounds
<1> QED BY <1>1, ReplayInvHolds, PTL
=============================================================================
