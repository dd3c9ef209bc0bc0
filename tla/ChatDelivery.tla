---------------------------- MODULE ChatDelivery ----------------------------
(***************************************************************************)
(* How a turn of the chat is carried to the backend: as one answer, as a   *)
(* stream of events (app/chat/streaming.py) or as a job that is asked for  *)
(* (app/chat/jobs.py), and which way the gate sends it (_respond in        *)
(* app/routers/chat.py). What a turn of the chat or of the agent does is   *)
(* the subject of ChatTurn and AgentTurn; here it takes its time, may show *)
(* its words early, and ends well, with an error or with an exception.     *)
(***************************************************************************)
EXTENDS GateRules, Integers, FiniteSets

CONSTANTS
  Streams, Polled, \* the requests, by the way they are carried
  Says,            \* what each may say: [signs, shown, turns, shopping]; turns: [role, question]
  Keep,            \* KEEP_SECONDS
  MaxAge, MaxPolls, MaxStops \* bounds: the clock, polls of each job, restarts

ASSUME DeliveryAssumption ==
  /\ Streams \cap Polled = {} /\ Keep \in Nat /\ MaxAge \in Nat /\ MaxPolls \in [Polled -> Nat] /\ MaxStops \in Nat
  /\ \A r \in Streams \cup Polled : \A m \in Says[r] : m.signs \subseteq Signs

Asked == Streams \cup Polled

VARIABLES
  age,    \* the clock of the server
  work,   \* the task of each request
  queue,  \* the pieces of a stream that are not sent yet
  events, \* what a stream has sent
  client, \* who reads a stream: "no", "here", "gone", "ended"
  jobs,   \* _jobs: when each job that is kept was handed in
  polls,  \* history: the answers of GET, oldest first
  stops   \* restarts of the server so far

deliveryVars == <<age, work, queue, events, client, jobs, polls, stops>>

\* The task: where it is, what was said, the way it takes, its result and whether its
\* words were shown early; declined: the agent sent it back; cut: cancel was called.
NoWork == [at |-> "none", said |-> <<>>, lane |-> "none", status |-> 0,
           since |-> 0, shown |-> FALSE, declined |-> FALSE, searched |-> FALSE, cut |-> FALSE]

Over == {"done", "failed", "cancelled"}
Running(r) == work[r].at \notin Over \cup {"none"}

DeliveryInit ==
  /\ age = 0 /\ jobs = [r \in {} |-> 0] /\ stops = 0
  /\ work = [r \in Asked |-> NoWork]
  /\ queue = [r \in Asked |-> <<>>] /\ events = [r \in Asked |-> <<>>]
  /\ client = [r \in Asked |-> "no"] /\ polls = [r \in Asked |-> <<>>]

-----------------------------------------------------------------------------
(* The work (_respond and what it calls).                                  *)

\* The done callback: the end of the pieces, whatever the end of the task was.
Pieces(r, more) == [queue EXCEPT ![r] = IF r \in Streams THEN @ \o more ELSE @]

\* Mutant: the end is only put where the task went well.
EndIfDone(r, at) == IF at = "done" THEN Pieces(r, <<"end">>) ELSE queue

Ended(r, at) == IF at \in Over THEN Pieces(r, <<"end">>) ELSE queue

\* One step of the task that may go on: it was not cancelled.
Step(r, from, new) ==
  /\ work[r].at = from /\ ~work[r].cut
  /\ work' = [work EXCEPT ![r] = new]
  /\ queue' = Ended(r, new.at)
  /\ UNCHANGED <<age, events, client, jobs, polls, stops>>

Replied(r, status) == [work[r] EXCEPT !.at = "done", !.status = status]
Going(r, at, lane) == [work[r] EXCEPT !.at = at, !.lane = lane]
By(lane) == IF lane = "shop" THEN "shopping" ELSE IF lane = "card" THEN "answering" ELSE "finding"

Decided(m) == Decide(m.signs, m.shown, LastQuestion(m.turns))

\* The gate is off for a request without an idempotency key; else its rules decide, and
\* where they are not sure a call that may fail (answer "none") or answer anything.
Gate(r) ==
  /\ work[r].at = "asked"
  /\ LET m == work[r].said  d == Decided(m) IN
       \/ ~m.shopping /\ Step(r, "asked", Going(r, "finding", "recommend"))
       \/ m.shopping /\ d.sure /\ Step(r, "asked", Going(r, By(Lane(d)), Lane(d)))
       \/ m.shopping /\ ~d.sure /\ Step(r, "asked", Going(r, "judging", "none"))

Judge(r) ==
  /\ work[r].at = "judging"
  /\ \E answer \in Lanes \cup {"none"} :
       LET lane == Judged(answer, Decided(work[r].said))
       IN Step(r, "judging", Going(r, By(lane), lane))

\* to_agent_request and shop_turn: a bad request (400), an error that is passed on as it
\* is, a turn of the agent, or a message it declines.
Shop(r) ==
  \/ \E status \in {200, 400, 500} : Step(r, "shopping", Replied(r, status))
  \/ Step(r, "shopping", [Going(r, "finding", "recommend") EXCEPT !.declined = TRUE])

\* The answer turn: a failed model gives a fixed answer.
AnswerAboutCard(r) == Step(r, "answering", Replied(r, 200))

\* _recommend: fixed words, a question or an answer end it without a search; else the
\* candidates are searched, which may fail (500), and the model writes.
Recommend(r) ==
  \/ Step(r, "finding", Replied(r, 200))
  \/ \E status \in {0, 500} :
       Step(r, "finding",
            [IF status = 0 THEN Going(r, "writing", work[r].lane) ELSE Replied(r, status)
               EXCEPT !.searched = TRUE])

\* ReplyPreview: once the reply is closed, and only if something is left of it.
Preview(r) ==
  /\ work[r].at = "writing" /\ ~work[r].cut /\ ~work[r].shown
  /\ work' = [work EXCEPT ![r].shown = TRUE]
  /\ queue' = Pieces(r, <<"text">>)
  /\ UNCHANGED <<age, events, client, jobs, polls, stops>>

Written(r) == Step(r, "writing", Replied(r, 200))

\* Something nobody foresaw.
Raises(r) ==
  \E at \in {"asked", "judging", "shopping", "answering", "finding", "writing"} :
    Step(r, at, [work[r] EXCEPT !.at = "failed"])

\* A cancelled task ends at its next await.
Cancelled(r) ==
  /\ Running(r) /\ work[r].cut
  /\ work' = [work EXCEPT ![r].at = "cancelled"]
  /\ queue' = Ended(r, "cancelled")
  /\ UNCHANGED <<age, events, client, jobs, polls, stops>>

Works(r) == \/ Gate(r) \/ Judge(r) \/ Shop(r) \/ AnswerAboutCard(r) \/ Recommend(r)
            \/ Preview(r) \/ Written(r) \/ Cancelled(r)

-----------------------------------------------------------------------------
(* Streams.                                                                *)

Asks(r, m) == [work EXCEPT ![r] = [NoWork EXCEPT !.at = "asked", !.said = m, !.since = age]]

\* stream_response.
OpenStream(r, m) ==
  /\ r \in Streams /\ work[r].at = "none"
  /\ work' = Asks(r, m) /\ client' = [client EXCEPT ![r] = "here"]
  /\ UNCHANGED <<age, queue, events, jobs, polls, stops>>

\* Mutant: whatever a task answers is done.
AlwaysDone(w) == IF w.at = "done" THEN "done" ELSE "error"

\* The last event of a task that has ended.
LastEvent(w) ==
  IF w.at = "done" /\ w.status = 200 THEN "done" ELSE "error"

\* events: a piece as a delta; at the end the result, and the cancel that does nothing more.
Send(r) ==
  /\ client[r] = "here" /\ queue[r] # <<>>
  /\ LET piece == Head(queue[r]) IN
       /\ events' = [events EXCEPT ![r] =
            Append(@, IF piece = "text" THEN "delta" ELSE LastEvent(work[r]))]
       /\ client' = [client EXCEPT ![r] = IF piece = "text" THEN @ ELSE "ended"]
  /\ queue' = [queue EXCEPT ![r] = Tail(@)]
  /\ UNCHANGED <<age, work, jobs, polls, stops>>

\* The backend hangs up: the finally of events cancels the task.
HangUp(r) ==
  /\ client[r] = "here"
  /\ client' = [client EXCEPT ![r] = "gone"]
  /\ work' = [work EXCEPT ![r].cut = Running(r)]
  /\ UNCHANGED <<age, queue, events, jobs, polls, stops>>

-----------------------------------------------------------------------------
(* Jobs.                                                                   *)

\* Mutant: a job that has ended is dropped with the first sweep.
SweptEnded == {r \in DOMAIN jobs : age - jobs[r] > Keep \/ work[r].at \in Over}

\* _sweep: the jobs whose time is over.
Swept == {r \in DOMAIN jobs : age - jobs[r] > Keep}
Kept == [r \in DOMAIN jobs \ Swept |-> jobs[r]]
CutSwept(w) == [r \in Asked |-> IF r \in Swept /\ Running(r) THEN [w[r] EXCEPT !.cut = TRUE] ELSE w[r]]

\* submit.
HandIn(r, m) ==
  /\ r \in Polled /\ work[r].at = "none"
  /\ work' = CutSwept(Asks(r, m))
  /\ jobs' = [q \in DOMAIN Kept \cup {r} |-> IF q = r THEN age ELSE Kept[q]]
  /\ UNCHANGED <<age, queue, events, client, polls, stops>>

\* get_chat_job: not known, not ended (with what is already written), failed, or the result.
Reply(r) ==
  IF r \notin DOMAIN Kept THEN [code |-> 404, final |-> FALSE, text |-> FALSE]
  ELSE IF Running(r) THEN [code |-> 202, final |-> FALSE, text |-> work[r].shown]
  ELSE [code |-> IF work[r].at = "done" THEN work[r].status ELSE 500, final |-> TRUE, text |-> FALSE]

Poll(r) ==
  /\ r \in Polled /\ work[r].at # "none" /\ Len(polls[r]) < MaxPolls[r]
  /\ polls' = [polls EXCEPT ![r] =
       Append(@, [reply |-> Reply(r), due |-> stops > 0 \/ age - work[r].since > Keep])]
  /\ jobs' = Kept /\ work' = CutSwept(work)
  /\ UNCHANGED <<age, queue, events, client, stops>>

-----------------------------------------------------------------------------
\* The server is restarted: tasks, jobs and connections are gone.
Restart ==
  /\ stops < MaxStops /\ stops' = stops + 1
  /\ jobs' = [r \in {} |-> 0]
  /\ work' = [r \in Asked |-> IF Running(r) THEN [work[r] EXCEPT !.at = "cancelled"] ELSE work[r]]
  /\ client' = [r \in Asked |-> IF client[r] = "here" THEN "gone" ELSE client[r]]
  /\ UNCHANGED <<age, queue, events, polls>>

Ages ==
  /\ jobs # [r \in {} |-> 0] /\ age < MaxAge /\ age' = age + 1
  /\ UNCHANGED <<work, queue, events, client, jobs, polls, stops>>

DeliveryNext ==
  \/ \E r \in Asked : \/ Works(r) \/ Raises(r) \/ Send(r) \/ HangUp(r) \/ Poll(r)
                      \/ \E m \in Says[r] : OpenStream(r, m) \/ HandIn(r, m)
  \/ Restart \/ Ages

DeliverySpec == DeliveryInit /\ [][DeliveryNext]_deliveryVars

\* The event loop runs every task that can go on.
DeliveryFairness == \A r \in Asked : WF_deliveryVars(Works(r)) /\ WF_deliveryVars(Send(r))

-----------------------------------------------------------------------------
(* Properties.                                                             *)

\* A stream carries at most one early text and then exactly one last event, which is that
\* of the task's result; nothing comes after it and nothing is missing to a client that
\* stayed (streaming.py:3-6).
StreamEndsOnce ==
  \A r \in Streams :
    LET e == events[r]  last == {i \in DOMAIN e : e[i] # "delta"} IN
    /\ Cardinality(last) = (IF client[r] = "ended" THEN 1 ELSE 0)
    /\ last \subseteq {Len(e)} /\ Len(e) <= 2
    /\ client[r] = "ended" => /\ work[r].at \in Over
                              /\ work[r].shown => e[1] = "delta"
                              /\ (e[Len(e)] = "done") = (work[r].status = 200)

\* Every stream ends or is left, and the work of one that was left stops (streaming.py:111).
StreamsEnd == \A r \in Streams : client[r] = "here" ~> ~Running(r) /\ client[r] # "here"

\* The answers to one job agree: pending first, its text never taken back, then the same
\* result however often it is asked for; it is forgotten only after its time or with its
\* process (jobs.py:8-12).
JobAnswersStay ==
  \A r \in Polled : \A i, j \in DOMAIN polls[r] :
    LET a == polls[r][i]  b == polls[r][j] IN
    /\ a.reply.code = 404 => a.due
    /\ i < j /\ a.reply.final => b.reply = a.reply \/ b.reply.code = 404
    /\ i < j /\ a.reply.text => b.reply.text \/ b.reply.code # 202
    /\ i < j /\ a.reply.code = 404 => b.reply.code = 404

\* Cards on the screen give way to a new search only where the words ask for one, answer a
\* question of the chat, left the judge to say it, or were sent back by the agent: never
\* for a message that buys, or rates one of the cards (rules.py:22-30, 198).
SearchHasReason ==
  \A r \in Asked :
    LET w == work[r]  m == w.said IN
    w.searched /\ ~w.declined /\ m.shopping /\ m.shown =>
      LET finds == m.signs \cap {"recommend", "condition"} # {}  asked == LastQuestion(m.turns) IN
      /\ "cart" \notin m.signs
      /\ finds \/ asked \in {"ask", "fork"} \/ ~Decided(m).sure
      /\ "buy" \in m.signs => finds \/ asked = "ask"
      /\ {"interest", "pointer"} \subseteq m.signs /\ asked = "none" => finds \/ "comparison" \in m.signs
=============================================================================
