-------------------------- MODULE HomeFeedProofs --------------------------
(***************************************************************************)
(* Proofs about HomeFeed, for every number of users, requests, servers,    *)
(* refresh calls, nights and failures.                                     *)
(***************************************************************************)
EXTENDS HomeFeed, TLAPS

-----------------------------------------------------------------------------
(* Queues.                                                                 *)

\* A queue stays a sequence of requests, one per user, when a job is put in.
LEMMA EnqueueKeepsQueue ==
  ASSUME NEW q \in Seq(Requests), OnePerUser(q), NEW r \in Requests
  PROVE  Enqueue(q, r) \in Seq(Requests) /\ OnePerUser(Enqueue(q, r))
<1>1. CASE \E i \in DOMAIN q : UserOf[q[i]] = UserOf[r]
  <2>1. Enqueue(q, r) = [i \in 1..Len(q) |-> IF UserOf[q[i]] = UserOf[r] THEN r ELSE q[i]]
    <3>1. DOMAIN q = 1..Len(q)
      OBVIOUS
    <3>2. Enqueue(q, r) = [i \in DOMAIN q |-> IF UserOf[q[i]] = UserOf[r] THEN r ELSE q[i]]
      BY <1>1 DEF Enqueue
    <3> QED
      BY <3>1, <3>2, Zenon
  <2>2. Enqueue(q, r) \in Seq(Requests) /\ DOMAIN Enqueue(q, r) = 1..Len(q)
    <3>1. \A i \in 1..Len(q) : (IF UserOf[q[i]] = UserOf[r] THEN r ELSE q[i]) \in Requests
      OBVIOUS
    <3> QED
      BY <2>1, <3>1
  <2>3. ASSUME NEW i \in 1..Len(q)
        PROVE  UserOf[Enqueue(q, r)[i]] = UserOf[q[i]]
    BY <2>1
  <2> QED
    BY <2>2, <2>3 DEF OnePerUser
<1>2. CASE ~ \E i \in DOMAIN q : UserOf[q[i]] = UserOf[r]
  <2>1. Enqueue(q, r) = Append(q, r)
    BY <1>2 DEF Enqueue
  <2> QED
    BY <1>2, <2>1 DEF OnePerUser
<1> QED
  BY <1>1, <1>2

\* Taking the first job out leaves such a queue.
LEMMA TailKeepsQueue ==
  ASSUME NEW q \in Seq(Requests), OnePerUser(q), q # <<>>
  PROVE  Head(q) \in Requests /\ Tail(q) \in Seq(Requests) /\ OnePerUser(Tail(q))
  BY DEF OnePerUser

-----------------------------------------------------------------------------
(* Rows.                                                                   *)

\* What each statement does to a row leaves a row.
LEMMA PublishKeepsRow ==
  ASSUME NEW f \in Row, NEW l \in List
  PROVE  Publish(f, l) \in Row
<1>1. Before(f) \in List \cup {None}
  BY DEF Before, Row
<1>2. f.ver + 1 \in Nat
  BY DEF Row
<1> QED
  BY <1>1, <1>2 DEF Publish, Row

LEMMA SaveJobKeepsRow ==
  ASSUME NEW f \in Row, NEW l \in List
  PROVE  SaveJob(f, l) \in Row
<1>1. Publish(f, l) \in Row
  BY PublishKeepsRow
<1>2. 0 \in 0..MaxNight
  BY HomeFeedAssumption
<1> QED
  BY <1>1, <1>2 DEF SaveJob, Row

LEMMA SaveRefreshKeepsRow ==
  ASSUME NEW f \in Row, NEW l \in List, NEW n \in 0..MaxNight
  PROVE  SaveRefresh(f, l, n) \in Row
<1>1. Publish(f, l) \in Row
  BY PublishKeepsRow
<1> QED
  BY <1>1 DEF SaveRefresh, Row

LEMMA SaveProfileKeepsRow ==
  ASSUME NEW f \in Row, NEW t \in Tastes,
         NEW seen \in [profile : Tastes \cup {None}, pver : Nat]
  PROVE  SaveProfile(f, seen, t) \in Row
<1>1. NextVersion(seen, t) \in Nat
  BY DEF NextVersion
<1> QED
  BY <1>1 DEF SaveProfile, Row

LEMMA MarkKeepsRow ==
  ASSUME NEW f \in Row, NEW r \in Requests
  PROVE  Mark(f, r) \in Row
  BY DEF Mark, Row

LEMMA StoredIsRow ==
  ASSUME TypeOK, NEW r \in Requests
  PROVE  Stored(r) \in Row
<1>1. UserOf[r] \in Users /\ TasteOf[r] \in Tastes
  BY HomeFeedAssumption
<1>2. row[UserOf[r]] \in Row
  BY <1>1 DEF TypeOK
<1>3. req[r].seen \in [profile : Tastes \cup {None}, pver : Nat]
  BY DEF TypeOK, Req
<1>4. SaveProfile(row[UserOf[r]], req[r].seen, TasteOf[r]) \in Row
  BY <1>1, <1>2, <1>3, SaveProfileKeepsRow
<1> QED
  BY <1>4, MarkKeepsRow DEF Stored

-----------------------------------------------------------------------------
(* Type correctness.                                                       *)

LEMMA TypeInit == Init => TypeOK
<1> SUFFICES ASSUME Init PROVE TypeOK
  OBVIOUS
<1>1. row \in [Users -> Row]
  BY HomeFeedAssumption DEF Init, Row
<1>2. req \in [Requests -> Req]
  BY DEF Init, Req
<1>3. worker \in [Servers -> IdleWorker \cup BusyWorker]
  BY DEF Init, IdleWorker
<1>4. call \in [Calls -> FreeCall \cup ClaimedCall \cup LockedCall]
  BY HomeFeedAssumption DEF Init, FreeCall
<1>5. night \in 1..MaxNight /\ faults \in 0..MaxFaults
  BY HomeFeedAssumption DEF Init
<1>6. \A s \in Servers : OnePerUser(jobs[s])
  BY DEF Init, OnePerUser
<1>7. jobs \in [Servers -> Seq(Requests)] /\ ready \in [Servers -> BOOLEAN]
  BY DEF Init
<1>8. asked \in [Users -> Seq(Requests)] /\ published \in [Users -> Seq(List)]
  BY DEF Init
<1>9. lost \subseteq Requests
  BY DEF Init
<1> QED
  BY <1>1, <1>2, <1>3, <1>4, <1>5, <1>6, <1>7, <1>8, <1>9 DEF TypeOK

\* A request whose state moves on keeps its shape.
LEMMA MovedRequest ==
  ASSUME req \in [Requests -> Req], NEW r \in Requests,
         NEW p \in {"new", "waiting", "locked", "written", "building", "built", "committed",
                    "done", "failed"}
  PROVE  [req EXCEPT ![r].pc = p] \in [Requests -> Req]
<1>1. [req[r] EXCEPT !.pc = p] \in Req
  BY DEF Req
<1> QED
  BY <1>1

LEMMA RequestStepType ==
  ASSUME TypeOK, NEW r \in Requests, RequestStep(r) \/ RequestFails(r)
  PROVE  TypeOK'
<1> USE DEF TypeOK
<1>1. UserOf[r] \in Users /\ TasteOf[r] \in Tastes
  BY HomeFeedAssumption
<1>2. CASE Lock(r)
  <2> DEFINE seen == [profile |-> row[UserOf[r]].profile, pver |-> row[UserOf[r]].pver]
  <2>1. seen \in [profile : Tastes \cup {None}, pver : Nat]
    BY <1>1 DEF Row
  <2>2. req' = [req EXCEPT ![r].pc = "locked", ![r].seen = seen]
    BY <1>2 DEF Lock
  <2> HIDE DEF seen
  <2>3. [req[r] EXCEPT !.pc = "locked", !.seen = seen] \in Req
    <3>1. req[r] \in Req
      OBVIOUS
    <3> QED
      BY <2>1, <3>1 DEF Req
  <2>4. req' \in [Requests -> Req]
    BY <2>2, <2>3
  <2> QED
    BY <1>2, <2>4 DEF Lock
<1>3. CASE Write(r)
  <2>1. req' \in [Requests -> Req]
    BY <1>3, MovedRequest DEF Write
  <2> QED
    BY <1>3, <2>1 DEF Write
<1>4. CASE Commit(r)
  <2>1. req' \in [Requests -> Req]
    BY <1>4, MovedRequest DEF Commit
  <2>2. row' \in [Users -> Row]
    BY <1>1, <1>4, StoredIsRow DEF Commit
  <2>3. asked' \in [Users -> Seq(Requests)]
    BY <1>1, <1>4 DEF Commit
  <2> QED
    BY <1>4, <2>1, <2>2, <2>3 DEF Commit
<1>5. CASE Submit(r)
  <2>1. req' \in [Requests -> Req]
    BY <1>5, MovedRequest DEF Submit
  <2>2. jobs' \in [Servers -> Seq(Requests)] /\ \A s \in Servers : OnePerUser(jobs'[s])
    <3> SUFFICES ASSUME NEW s \in Servers
                 PROVE  jobs'[s] \in Seq(Requests) /\ OnePerUser(jobs'[s])
      BY <1>5 DEF Submit
    <3> QED
      BY <1>5, EnqueueKeepsQueue DEF Submit
  <2>3. ready' \in [Servers -> BOOLEAN]
    BY <1>5 DEF Submit
  <2> QED
    BY <1>5, <2>1, <2>2, <2>3 DEF Submit
<1>6. CASE StartInline(r)
  <2>1. req' \in [Requests -> Req]
    BY <1>6, MovedRequest DEF StartInline
  <2> QED
    BY <1>6, <2>1 DEF StartInline
<1>7. CASE CommitInline(r)
  <2>1. req' \in [Requests -> Req]
    BY <1>7, MovedRequest DEF CommitInline
  <2>2. [from |-> r, subs |-> req[r].subs] \in List
    BY DEF List, Req
  <2>3. row' \in [Users -> Row]
    BY <1>1, <1>7, <2>2, StoredIsRow, SaveJobKeepsRow DEF CommitInline
  <2>4. asked' \in [Users -> Seq(Requests)]
    BY <1>1, <1>7 DEF CommitInline
  <2>5. published' \in [Users -> Seq(List)]
    BY <1>1, <1>7, <2>2 DEF CommitInline
  <2> QED
    BY <1>7, <2>1, <2>3, <2>4, <2>5 DEF CommitInline
<1>8. ASSUME NEW S \in SUBSET Interests, FinishInline(r, S)
      PROVE  TypeOK'
  <2>1. req' = [req EXCEPT ![r].pc = "built", ![r].subs = S]
    BY <1>8 DEF FinishInline
  <2>2. [req[r] EXCEPT !.pc = "built", !.subs = S] \in Req
    BY DEF Req
  <2>3. req' \in [Requests -> Req]
    BY <2>1, <2>2
  <2> QED
    BY <1>8, <2>3 DEF FinishInline
<1>9. CASE RequestFails(r)
  <2>1. req' \in [Requests -> Req] /\ lost' \subseteq Requests
    BY <1>9, MovedRequest DEF RequestFails
  <2>2. faults' \in 0..MaxFaults
    BY <1>9, HomeFeedAssumption DEF RequestFails
  <2> QED
    BY <1>9, <2>1, <2>2 DEF RequestFails
<1> QED
  BY <1>2, <1>3, <1>4, <1>5, <1>6, <1>7, <1>8, <1>9 DEF RequestStep

LEMMA WorkerStepType ==
  ASSUME TypeOK, NEW s \in Servers, WorkerStep(s) \/ JobFails(s)
  PROVE  TypeOK'
<1> USE DEF TypeOK
<1>1. /\ worker[s].pc \in {"wait", "take", "off"} => worker[s] \in IdleWorker
      /\ worker[s].pc \in {"got", "building", "built"} => worker[s] \in BusyWorker
  BY DEF IdleWorker, BusyWorker
<1>2. [pc |-> "take", job |-> None, subs |-> {}] \in IdleWorker
  BY DEF IdleWorker
<1>3. CASE Wake(s)
  <2>1. [worker[s] EXCEPT !.pc = "take"] \in IdleWorker
    BY <1>1, <1>3 DEF Wake, IdleWorker
  <2> QED
    BY <1>3, <2>1 DEF Wake
<1>4. CASE Take(s)
  <2>1. /\ Head(jobs[s]) \in Requests
        /\ Tail(jobs[s]) \in Seq(Requests) /\ OnePerUser(Tail(jobs[s]))
    BY <1>4, TailKeepsQueue DEF Take
  <2>2. [worker[s] EXCEPT !.pc = "got", !.job = Head(jobs[s])] \in BusyWorker
    BY <1>1, <1>4, <2>1 DEF Take, IdleWorker, BusyWorker
  <2> QED
    BY <1>4, <2>1, <2>2 DEF Take
<1>5. CASE Rest(s)
  <2>1. [worker[s] EXCEPT !.pc = "wait"] \in IdleWorker
    BY <1>1, <1>5 DEF Rest, IdleWorker
  <2> QED
    BY <1>5, <2>1 DEF Rest
<1>6. CASE StartJob(s)
  <2>1. [worker[s] EXCEPT !.pc = "building"] \in BusyWorker
    BY <1>1, <1>6 DEF StartJob, BusyWorker
  <2> QED
    BY <1>6, <2>1 DEF StartJob
<1>7. ASSUME NEW S \in SUBSET Interests, FinishJob(s, S)
      PROVE  TypeOK'
  <2>1. [worker[s] EXCEPT !.pc = "built", !.subs = S] \in BusyWorker
    BY <1>1, <1>7 DEF FinishJob, BusyWorker
  <2> QED
    BY <1>7, <2>1 DEF FinishJob
<1>8. CASE SaveBuilt(s)
  <2> DEFINE r == worker[s].job
             l == [from |-> r, subs |-> worker[s].subs]
  <2>1. r \in Requests /\ UserOf[r] \in Users /\ l \in List
    BY <1>1, <1>8, HomeFeedAssumption DEF SaveBuilt, BusyWorker, List
  <2>2. worker' \in [Servers -> IdleWorker \cup BusyWorker]
    BY <1>2, <1>8 DEF SaveBuilt, JobDone
  <2>3. row[UserOf[r]] \in Row /\ published[UserOf[r]] \in Seq(List)
    BY <2>1
  <2>4. SaveJob(row[UserOf[r]], l) \in Row /\ Append(published[UserOf[r]], l) \in Seq(List)
    BY <2>1, <2>3, SaveJobKeepsRow
  <2>5. \/ /\ row' = [row EXCEPT ![UserOf[r]] = SaveJob(row[UserOf[r]], l)]
           /\ published' =
                [published EXCEPT ![UserOf[r]] = Append(published[UserOf[r]], l)]
        \/ row' = row /\ published' = published
    BY <1>8 DEF SaveBuilt
  <2> HIDE DEF l, r
  <2>6. row' \in [Users -> Row] /\ published' \in [Users -> Seq(List)]
    BY <2>1, <2>4, <2>5
  <2> QED
    BY <1>8, <2>2, <2>6 DEF SaveBuilt
<1>9. CASE JobFails(s)
  <2>1. worker[s].job \in Requests
    BY <1>1, <1>9 DEF JobFails, BusyWorker
  <2>2. faults' \in 0..MaxFaults
    BY <1>9, HomeFeedAssumption DEF JobFails
  <2> QED
    BY <1>2, <1>9, <2>1, <2>2 DEF JobFails, JobDone
<1> QED
  BY <1>3, <1>4, <1>5, <1>6, <1>7, <1>8, <1>9 DEF WorkerStep

LEMMA CallOverType ==
  ASSUME TypeOK, NEW n \in Calls
  PROVE  CallOver(n) \in FreeCall
  BY DEF TypeOK, CallOver, FreeCall, ClaimedCall, LockedCall

\* A call that works on a user works on one who has a list.
ClaimedHasList ==
  \A n \in Calls : call[n].user # None => row[call[n].user].feed # None

LEMMA RefreshStepType ==
  ASSUME TypeOK, ClaimedHasList, NEW n \in Calls, RefreshStep(n) \/ RefreshFails(n)
  PROVE  TypeOK'
<1>0. call[n].user # None => row[call[n].user].feed # None
  BY DEF ClaimedHasList
<1> USE DEF TypeOK
<1>1. /\ call[n].pc \in {"new", "loop", "done"} => call[n] \in FreeCall
      /\ call[n].pc = "claimed" => call[n] \in ClaimedCall
      /\ call[n].pc \in {"locked", "building", "built"} => call[n] \in LockedCall
  BY DEF FreeCall, ClaimedCall, LockedCall
<1>2. ASSUME NEW u \in Users, Claim(n, u)
      PROVE  TypeOK'
  <2>1. [call[n] EXCEPT !.pc = "claimed", !.user = u] \in ClaimedCall
    BY <1>1, <1>2 DEF Claim, FreeCall, ClaimedCall
  <2>2. call[n].night \in 0..MaxNight
    BY <1>1, <1>2 DEF Claim, FreeCall
  <2>3. [row[u] EXCEPT !.retried = call[n].night] \in Row
    <3>1. row[u] \in Row
      OBVIOUS
    <3> QED
      BY <2>2, <3>1 DEF Row
  <2> QED
    BY <1>2, <2>1, <2>3 DEF Claim
<1>3. CASE RefreshLock(n)
  <2>1. call[n] \in ClaimedCall
    BY <1>1, <1>3 DEF RefreshLock
  <2>2. call[n].user \in Users /\ call[n].user # None
    BY <2>1, HomeFeedAssumption DEF ClaimedCall
  <2>3. row[call[n].user].feed \in List
    <3>1. row[call[n].user].feed # None
      BY <1>0, <2>2
    <3>2. row[call[n].user] \in Row
      BY <2>2
    <3> QED
      BY <3>1, <3>2 DEF Row
  <2>4. [call[n] EXCEPT !.pc = "locked", !.base = row[call[n].user].feed] \in LockedCall
    BY <2>1, <2>3 DEF ClaimedCall, LockedCall
  <2> QED
    BY <1>3, <2>4 DEF RefreshLock
<1>4. CASE RefreshBuild(n)
  <2>1. [call[n] EXCEPT !.pc = "building"] \in LockedCall
    BY <1>1, <1>4 DEF RefreshBuild, LockedCall
  <2> QED
    BY <1>4, <2>1 DEF RefreshBuild
<1>5. ASSUME NEW S \in SUBSET Interests, RefreshBuilt(n, S)
      PROVE  TypeOK'
  <2>1. [call[n] EXCEPT !.pc = "built", !.subs = S] \in LockedCall
    BY <1>1, <1>5 DEF RefreshBuilt, LockedCall
  <2> QED
    BY <1>5, <2>1 DEF RefreshBuilt
<1>6. CASE RefreshSave(n)
  <2> DEFINE u == call[n].user
             l == [from |-> call[n].base.from, subs |-> call[n].subs]
  <2>1. call[n] \in LockedCall
    BY <1>1, <1>6 DEF RefreshSave
  <2>2. u \in Users /\ l \in List /\ call[n].night \in 0..MaxNight
    BY <2>1 DEF LockedCall, List
  <2>3. [call[n] EXCEPT !.pc = "loop", !.user = None, !.base = None, !.subs = {}] \in FreeCall
    BY <2>1 DEF LockedCall, FreeCall
  <2>4. call' \in [Calls -> FreeCall \cup ClaimedCall \cup LockedCall]
    BY <1>6, <2>3 DEF RefreshSave
  <2>5. row[u] \in Row /\ published[u] \in Seq(List)
    BY <2>2
  <2>6. SaveRefresh(row[u], l, call[n].night) \in Row /\ Append(published[u], l) \in Seq(List)
    BY <2>2, <2>5, SaveRefreshKeepsRow
  <2>7. \/ /\ row' = [row EXCEPT ![u] = SaveRefresh(row[u], l, call[n].night)]
           /\ published' = [published EXCEPT ![u] = Append(published[u], l)]
        \/ row' = row /\ published' = published
    BY <1>6 DEF RefreshSave
  <2> HIDE DEF u, l
  <2>8. row' \in [Users -> Row] /\ published' \in [Users -> Seq(List)]
    BY <2>2, <2>6, <2>7
  <2> QED
    BY <1>6, <2>4, <2>8 DEF RefreshSave
<1>7. CASE RefreshEnd(n)
  BY <1>7, CallOverType DEF RefreshEnd
<1>8. CASE RefreshFails(n)
  <2>1. faults' \in 0..MaxFaults
    BY <1>8, HomeFeedAssumption DEF RefreshFails
  <2> QED
    BY <1>8, <2>1, CallOverType DEF RefreshFails
<1> QED
  BY <1>2, <1>3, <1>4, <1>5, <1>6, <1>7, <1>8 DEF RefreshStep

\* The jobs of a server that stops are requests.
LEMMA HeldAreRequests ==
  ASSUME TypeOK, NEW s \in Servers
  PROVE  Held(s) \subseteq Requests
  BY DEF TypeOK, Held, IdleWorker, BusyWorker

LEMMA DropQueueType ==
  ASSUME TypeOK, NEW s \in Servers, DropQueue(s)
  PROVE  /\ jobs' \in [Servers -> Seq(Requests)] /\ \A z \in Servers : OnePerUser(jobs'[z])
         /\ ready' \in [Servers -> BOOLEAN]
         /\ worker' \in [Servers -> IdleWorker \cup BusyWorker]
         /\ faults' \in 0..MaxFaults
<1> USE DEF TypeOK
<1>1. [pc |-> "off", job |-> None, subs |-> {}] \in IdleWorker
  BY DEF IdleWorker
<1>2. worker' \in [Servers -> IdleWorker \cup BusyWorker]
  BY <1>1 DEF DropQueue
<1>3. faults' \in 0..MaxFaults
  BY HomeFeedAssumption DEF DropQueue
<1>4. OnePerUser(<<>>) /\ <<>> \in Seq(Requests)
  BY DEF OnePerUser
<1>5. jobs' \in [Servers -> Seq(Requests)] /\ \A z \in Servers : OnePerUser(jobs'[z])
  BY <1>4 DEF DropQueue
<1>6. ready' \in [Servers -> BOOLEAN]
  BY DEF DropQueue
<1> QED
  BY <1>2, <1>3, <1>5, <1>6

LEMMA ServerStepType ==
  ASSUME TypeOK, NEW s \in Servers, ServerStep(s)
  PROVE  TypeOK'
<1> USE DEF TypeOK
<1>1. CASE Stop(s)
  <2>1. DropQueue(s) /\ UNCHANGED <<row, req, call, night, asked, published>>
    BY <1>1 DEF Stop
  <2>2. lost' \subseteq Requests
    BY <1>1, HeldAreRequests DEF Stop
  <2> QED
    BY <2>1, <2>2, DropQueueType
<1>2. CASE Crash(s)
  <2>1. DropQueue(s) /\ UNCHANGED <<row, night, asked, published>>
    BY <1>2 DEF Crash
  <2>2. lost' \subseteq Requests
    BY <1>2, HeldAreRequests DEF Crash
  <2>3. \A r \in Requests : [req[r] EXCEPT !.pc = "failed"] \in Req
    BY DEF Req
  <2>4. req' \in [Requests -> Req]
    BY <1>2, <2>3 DEF Crash
  <2>5. call' \in [Calls -> FreeCall \cup ClaimedCall \cup LockedCall]
    BY <1>2, CallOverType DEF Crash
  <2> QED
    BY <2>1, <2>2, <2>4, <2>5, DropQueueType
<1>3. CASE Start(s)
  <2>1. [worker[s] EXCEPT !.pc = "wait"] \in IdleWorker
    BY <1>3 DEF Start, Up, IdleWorker, BusyWorker
  <2>2. ready' \in [Servers -> BOOLEAN]
    BY <1>3 DEF Start
  <2> QED
    BY <1>3, <2>1, <2>2 DEF Start
<1>4. CASE JobFails(s)
  BY <1>4, WorkerStepType
<1>5. ASSUME NEW r \in Requests, Begin(r, s)
      PROVE  TypeOK'
  <2>1. [req[r] EXCEPT !.pc = "waiting", !.srv = s] \in Req
    BY DEF Req
  <2>2. req' \in [Requests -> Req]
    BY <1>5, <2>1 DEF Begin
  <2> QED
    BY <1>5, <2>2 DEF Begin
<1>6. ASSUME NEW n \in Calls, RefreshBegin(n, s)
      PROVE  TypeOK'
  <2>1. call[n] \in FreeCall
    BY <1>6 DEF RefreshBegin, FreeCall, ClaimedCall, LockedCall
  <2>2. night \in 0..MaxNight
    OBVIOUS
  <2>3. [call[n] EXCEPT !.pc = "loop", !.srv = s, !.night = night] \in FreeCall
    BY <2>1, <2>2 DEF FreeCall
  <2> QED
    BY <1>6, <2>3 DEF RefreshBegin
<1> QED
  BY <1>1, <1>2, <1>3, <1>4, <1>5, <1>6 DEF ServerStep

LEMMA NextType == TypeOK /\ ClaimedHasList /\ [Next]_vars => TypeOK'
<1> SUFFICES ASSUME TypeOK, ClaimedHasList, [Next]_vars
             PROVE  TypeOK'
  OBVIOUS
<1>1. CASE NextNight
  <2>1. night' \in 1..MaxNight
    BY <1>1, HomeFeedAssumption DEF NextNight, TypeOK
  <2> QED
    BY <1>1, <2>1 DEF NextNight, TypeOK
<1>2. CASE UNCHANGED vars
  BY <1>2 DEF vars, TypeOK
<1> QED
  BY <1>1, <1>2, RequestStepType, WorkerStepType, RefreshStepType, ServerStepType DEF Next

-----------------------------------------------------------------------------
(* Paging: the row holds the last two lists of the history under their     *)
(* versions.                                                               *)

Paged(f, p) ==
  /\ f.ver = Len(p)
  /\ f.feed = IF p = <<>> THEN None ELSE p[Len(p)]
  /\ f.prev = IF Len(p) < 2 THEN None ELSE p[Len(p) - 1]

Pages == \A u \in Users : Paged(row[u], published[u])

\* The inductive invariant of type correctness and paging.
FeedInv == TypeOK /\ ClaimedHasList /\ Pages

\* A save extends the history and moves the lists along.
LEMMA PublishKeepsPaged ==
  ASSUME NEW f \in Row, NEW p \in Seq(List), Paged(f, p), NEW l \in List
  PROVE  Paged(Publish(f, l), Append(p, l))
<1>1. None \notin List
  BY HomeFeedAssumption
<1>2. p # <<>> => p[Len(p)] \in List
  OBVIOUS
<1>3. Before(f) = IF p = <<>> THEN None ELSE p[Len(p)]
  BY <1>1, <1>2 DEF Before, Paged
<1>4. Publish(f, l) = [f EXCEPT !.prev = Before(f), !.feed = l, !.ver = f.ver + 1]
  BY DEF Publish
<1>5. /\ Publish(f, l).ver = Len(p) + 1
      /\ Publish(f, l).feed = l
      /\ Publish(f, l).prev = Before(f)
  BY <1>4 DEF Row, Paged
<1> HIDE DEF Publish
<1>6. /\ Append(p, l) # <<>> /\ Len(Append(p, l)) = Len(p) + 1
      /\ Append(p, l)[Len(p) + 1] = l
      /\ p # <<>> => Append(p, l)[Len(p)] = p[Len(p)]
  OBVIOUS
<1> QED
  BY <1>3, <1>5, <1>6 DEF Paged

\* What else the statements write, the lists and their versions do not see.
LEMMA OthersKeepPaged ==
  ASSUME NEW f \in Row, NEW p, Paged(f, p)
  PROVE  /\ \A seen, t : Paged(SaveProfile(f, seen, t), p)
         /\ \A r : Paged(Mark(f, r), p)
         /\ \A n : Paged([f EXCEPT !.retried = n], p)
         /\ \A n : Paged([f EXCEPT !.pending = None, !.retried = n], p)
  BY DEF Row, Paged, SaveProfile, Mark

LEMMA SavesKeepPaged ==
  ASSUME NEW f \in Row, NEW p \in Seq(List), Paged(f, p), NEW l \in List
  PROVE  /\ Paged(SaveJob(f, l), Append(p, l))
         /\ \A n : Paged(SaveRefresh(f, l, n), Append(p, l))
<1>1. Publish(f, l) \in Row /\ Paged(Publish(f, l), Append(p, l))
  BY PublishKeepsRow, PublishKeepsPaged
<1> QED
  BY <1>1, OthersKeepPaged DEF SaveJob, SaveRefresh

LEMMA StoredKeepsPaged ==
  ASSUME TypeOK, NEW r \in Requests, NEW p, Paged(row[UserOf[r]], p)
  PROVE  Paged(Stored(r), p)
<1>1. UserOf[r] \in Users /\ TasteOf[r] \in Tastes
  BY HomeFeedAssumption
<1>2. row[UserOf[r]] \in Row
  BY <1>1 DEF TypeOK
<1>3. req[r].seen \in [profile : Tastes \cup {None}, pver : Nat]
  BY DEF TypeOK, Req
<1> DEFINE f == SaveProfile(row[UserOf[r]], req[r].seen, TasteOf[r])
<1>4. f \in Row /\ Paged(f, p)
  BY <1>1, <1>2, <1>3, SaveProfileKeepsRow, OthersKeepPaged
<1> HIDE DEF f
<1>5. Paged(Mark(f, r), p)
  BY <1>4, OthersKeepPaged
<1> QED
  BY <1>5 DEF Stored, f

\* The steps of a worker and a refresh save lists; a worker's job and a call's base
\* are what TypeOK says they are.
LEMMA SavedLists ==
  ASSUME TypeOK
  PROVE  /\ \A r \in Requests : [from |-> r, subs |-> req[r].subs] \in List
         /\ \A s \in Servers : worker[s].pc = "built" =>
              /\ UserOf[worker[s].job] \in Users
              /\ [from |-> worker[s].job, subs |-> worker[s].subs] \in List
         /\ \A n \in Calls : call[n].pc = "built" =>
              /\ call[n].user \in Users
              /\ [from |-> call[n].base.from, subs |-> call[n].subs] \in List
<1>1. \A r \in Requests : [from |-> r, subs |-> req[r].subs] \in List
  BY DEF TypeOK, Req, List
<1>2. ASSUME NEW s \in Servers, worker[s].pc = "built"
      PROVE  /\ UserOf[worker[s].job] \in Users
             /\ [from |-> worker[s].job, subs |-> worker[s].subs] \in List
  <2>1. worker[s] \in BusyWorker
    BY <1>2 DEF TypeOK, IdleWorker
  <2> QED
    BY <2>1, HomeFeedAssumption DEF BusyWorker, List
<1>3. ASSUME NEW n \in Calls, call[n].pc = "built"
      PROVE  /\ call[n].user \in Users
             /\ [from |-> call[n].base.from, subs |-> call[n].subs] \in List
  <2>1. call[n] \in LockedCall
    BY <1>3 DEF TypeOK, FreeCall, ClaimedCall
  <2> QED
    BY <2>1 DEF LockedCall, List
<1> QED
  BY <1>1, <1>2, <1>3

\* One user's row and history change by one statement, or nothing does.
LEMMA PagesStep ==
  ASSUME TypeOK, Pages, NEW u \in Users, NEW f, NEW p,
         row' = [row EXCEPT ![u] = f], published' = [published EXCEPT ![u] = p],
         Paged(f, p)
  PROVE  Pages'
  BY DEF TypeOK, Pages

LEMMA NextPages == TypeOK /\ Pages /\ [Next]_vars => Pages'
<1> SUFFICES ASSUME TypeOK, Pages, [Next]_vars
             PROVE  Pages'
  OBVIOUS
<1>1. \A u \in Users : row[u] \in Row /\ published[u] \in Seq(List)
  BY DEF TypeOK
<1>2. \A u \in Users : Paged(row[u], published[u])
  BY DEF Pages
<1>3. \A u \in Users : published = [published EXCEPT ![u] = published[u]]
  BY DEF TypeOK
<1>4. ASSUME NEW r \in Requests, Commit(r)
      PROVE  Pages'
  <2>1. UserOf[r] \in Users
    BY HomeFeedAssumption
  <2>2. Paged(Stored(r), published[UserOf[r]])
    BY <1>2, <2>1, StoredKeepsPaged
  <2>3. row' = [row EXCEPT ![UserOf[r]] = Stored(r)] /\ published' = published
    BY <1>4 DEF Commit
  <2> QED
    BY <1>3, <2>1, <2>2, <2>3, PagesStep
<1>5. ASSUME NEW r \in Requests, CommitInline(r)
      PROVE  Pages'
  <2> DEFINE u == UserOf[r]
             l == [from |-> r, subs |-> req[r].subs]
  <2>1. u \in Users /\ l \in List
    BY HomeFeedAssumption, SavedLists
  <2>2. Stored(r) \in Row /\ Paged(Stored(r), published[u])
    BY <1>2, <2>1, StoredIsRow, StoredKeepsPaged
  <2>3. Paged(SaveJob(Stored(r), l), Append(published[u], l))
    BY <1>1, <2>1, <2>2, SavesKeepPaged
  <2>4. /\ row' = [row EXCEPT ![u] = SaveJob(Stored(r), l)]
        /\ published' = [published EXCEPT ![u] = Append(published[u], l)]
    BY <1>5 DEF CommitInline
  <2> HIDE DEF u, l
  <2> QED
    BY <2>1, <2>3, <2>4, PagesStep
<1>6. ASSUME NEW s \in Servers, SaveBuilt(s)
      PROVE  Pages'
  <2> DEFINE r == worker[s].job
             u == UserOf[r]
             l == [from |-> r, subs |-> worker[s].subs]
  <2>1. u \in Users /\ l \in List
    BY <1>6, SavedLists DEF SaveBuilt
  <2>2. Paged(SaveJob(row[u], l), Append(published[u], l))
    BY <1>1, <1>2, <2>1, SavesKeepPaged
  <2>3. \/ /\ row' = [row EXCEPT ![u] = SaveJob(row[u], l)]
           /\ published' = [published EXCEPT ![u] = Append(published[u], l)]
        \/ row' = row /\ published' = published
    BY <1>6 DEF SaveBuilt
  <2> HIDE DEF r, u, l
  <2> QED
    BY <2>1, <2>2, <2>3, PagesStep DEF Pages
<1>7. ASSUME NEW n \in Calls, NEW u \in Users, Claim(n, u)
      PROVE  Pages'
  <2>1. row' = [row EXCEPT ![u] = [row[u] EXCEPT !.retried = call[n].night]]
        /\ published' = published
    BY <1>7 DEF Claim
  <2>2. Paged([row[u] EXCEPT !.retried = call[n].night], published[u])
    BY <1>1, <1>2, OthersKeepPaged
  <2> QED
    BY <1>3, <2>1, <2>2, PagesStep
<1>8. ASSUME NEW n \in Calls, RefreshSave(n)
      PROVE  Pages'
  <2> DEFINE u == call[n].user
             l == [from |-> call[n].base.from, subs |-> call[n].subs]
  <2>1. u \in Users /\ l \in List
    BY <1>8, SavedLists DEF RefreshSave
  <2>2. Paged(SaveRefresh(row[u], l, call[n].night), Append(published[u], l))
    BY <1>1, <1>2, <2>1, SavesKeepPaged
  <2>3. \/ /\ row' = [row EXCEPT ![u] = SaveRefresh(row[u], l, call[n].night)]
           /\ published' = [published EXCEPT ![u] = Append(published[u], l)]
        \/ row' = row /\ published' = published
    BY <1>8 DEF RefreshSave
  <2> HIDE DEF u, l
  <2> QED
    BY <2>1, <2>2, <2>3, PagesStep DEF Pages
<1>9. CASE UNCHANGED <<row, published>>
  BY <1>9 DEF Pages
<1>10. ASSUME NEW r \in Requests, RequestStep(r) \/ RequestFails(r)
       PROVE  Pages'
  BY <1>4, <1>5, <1>9, <1>10
     DEF RequestStep, RequestFails, Lock, Write, Submit, StartInline, FinishInline
<1>11. ASSUME NEW n \in Calls, RefreshStep(n) \/ RefreshFails(n)
       PROVE  Pages'
  BY <1>7, <1>8, <1>9, <1>11
     DEF RefreshStep, RefreshFails, RefreshLock, RefreshBuild, RefreshBuilt, RefreshEnd
<1>12. ASSUME NEW s \in Servers, WorkerStep(s) \/ ServerStep(s)
       PROVE  Pages'
  BY <1>6, <1>9, <1>12
     DEF WorkerStep, Wake, Take, Rest, StartJob, FinishJob, ServerStep, Stop, Crash, Start,
         JobFails, Begin, RefreshBegin
<1> QED
  BY <1>9, <1>10, <1>11, <1>12 DEF Next, NextNight, vars

\* The steps of a call after the claim keep its user or let go of it.
LEMMA CallsKeepUser ==
  ASSUME TypeOK, NEW n \in Calls, NEW m \in Calls,
         \/ RefreshLock(m) \/ RefreshBuild(m) \/ RefreshSave(m) \/ RefreshEnd(m)
         \/ RefreshFails(m) \/ \E u \in Users : Claim(m, u)
         \/ \E S \in SUBSET Interests : RefreshBuilt(m, S)
  PROVE  \/ call'[n].user \in {call[n].user, None}
         \/ \E u \in Users : Claim(n, u)
<1>1. call \in [Calls -> FreeCall \cup ClaimedCall \cup LockedCall]
  BY DEF TypeOK
<1>2. CASE m # n
  <2>1. call'[n] = call[n]
    BY <1>1, <1>2 DEF RefreshLock, RefreshBuild, RefreshSave, RefreshEnd, RefreshFails,
                      RefreshBuilt, Claim
  <2> QED
    BY <2>1
<1>3. \A c \in FreeCall \cup ClaimedCall \cup LockedCall :
        /\ \A x : [c EXCEPT !.pc = x].user = c.user
        /\ \A x, b : [c EXCEPT !.pc = x, !.base = b].user = c.user
        /\ \A x, S : [c EXCEPT !.pc = x, !.subs = S].user = c.user
        /\ \A x, y, b, S : [c EXCEPT !.pc = x, !.user = y, !.base = b, !.subs = S].user = y
  BY DEF FreeCall, ClaimedCall, LockedCall
<1>4. CASE m = n
  <2>1. CASE RefreshLock(n)
    BY <1>1, <1>3, <2>1 DEF RefreshLock
  <2>2. CASE RefreshBuild(n)
    BY <1>1, <1>3, <2>2 DEF RefreshBuild
  <2>3. CASE RefreshSave(n)
    BY <1>1, <1>3, <2>3 DEF RefreshSave
  <2>4. CASE RefreshEnd(n) \/ RefreshFails(n)
    <3>1. call'[n] = CallOver(n)
      BY <1>1, <2>4 DEF RefreshEnd, RefreshFails
    <3> QED
      BY <3>1, CallOverType DEF FreeCall
  <2>5. ASSUME NEW S \in SUBSET Interests, RefreshBuilt(n, S)
        PROVE  call'[n].user = call[n].user
    <3>1. call'[n] = [call[n] EXCEPT !.pc = "built", !.subs = S]
      BY <1>1, <2>5 DEF RefreshBuilt
    <3> QED
      BY <1>1, <1>3, <3>1
  <2> QED
    BY <1>4, <2>1, <2>2, <2>3, <2>4, <2>5
<1> QED
  BY <1>2, <1>4

\* A user has a list exactly if one was ever saved.
LEMMA PagedHasList ==
  ASSUME TypeOK, Pages, NEW u \in Users
  PROVE  row[u].feed # None <=> published[u] # <<>>
<1>1. published[u] \in Seq(List) /\ Paged(row[u], published[u])
  BY DEF TypeOK, Pages
<1>2. published[u] # <<>> => published[u][Len(published[u])] \in List
  BY <1>1
<1> QED
  BY <1>1, <1>2, HomeFeedAssumption DEF Paged

\* A call can only claim a user who has a list, and no list is ever taken away.
LEMMA NextClaimedHasList ==
  TypeOK /\ Pages /\ ClaimedHasList /\ [Next]_vars /\ TypeOK' /\ Pages' => ClaimedHasList'
<1> SUFFICES ASSUME TypeOK, Pages, ClaimedHasList, [Next]_vars, TypeOK', Pages',
                    NEW n \in Calls, call'[n].user # None
             PROVE  row'[call'[n].user].feed # None
  BY DEF ClaimedHasList
<1>1. \A u \in Users : row[u].feed # None <=> published[u] # <<>>
  BY PagedHasList
<1>2. \A u \in Users : row'[u].feed # None <=> published'[u] # <<>>
  <2>1. ASSUME NEW u \in Users
        PROVE  row'[u].feed # None <=> published'[u] # <<>>
    <3>1. published'[u] \in Seq(List) /\ Paged(row'[u], published'[u])
      BY DEF TypeOK, Pages, Paged
    <3>2. published'[u] # <<>> => published'[u][Len(published'[u])] \in List
      BY <3>1
    <3> QED
      BY <3>1, <3>2, HomeFeedAssumption DEF Paged
  <2> QED
    BY <2>1
<1>3. \A u \in Users : published[u] # <<>> => published'[u] # <<>>
  <2>1. ASSUME NEW u \in Users, NEW l \in List
        PROVE  Append(published[u], l) # <<>>
    <3>1. published[u] \in Seq(List)
      BY DEF TypeOK
    <3> QED
      BY <3>1
  <2>2. CASE published' = published
    BY <2>2
  <2>3. ASSUME NEW u \in Users, NEW l \in List,
               published' = [published EXCEPT ![u] = Append(published[u], l)]
        PROVE  \A v \in Users : published[v] # <<>> => published'[v] # <<>>
    BY <2>1, <2>3, published \in [Users -> Seq(List)] DEF TypeOK
  <2>4. ASSUME NEW r \in Requests, CommitInline(r)
        PROVE  \A v \in Users : published[v] # <<>> => published'[v] # <<>>
    BY <2>3, <2>4, SavedLists, HomeFeedAssumption DEF CommitInline
  <2>5. ASSUME NEW s \in Servers, SaveBuilt(s)
        PROVE  \A v \in Users : published[v] # <<>> => published'[v] # <<>>
    BY <2>2, <2>3, <2>5, SavedLists DEF SaveBuilt
  <2>6. ASSUME NEW m \in Calls, RefreshSave(m)
        PROVE  \A v \in Users : published[v] # <<>> => published'[v] # <<>>
    BY <2>2, <2>3, <2>6, SavedLists DEF RefreshSave
  <2>7. \/ published' = published
        \/ \E r \in Requests : CommitInline(r)
        \/ \E s \in Servers : SaveBuilt(s)
        \/ \E m \in Calls : RefreshSave(m)
    BY DEF Next, vars, RequestStep, RequestFails, Lock, Write, Commit, Submit, StartInline,
           FinishInline, RefreshStep, RefreshFails, RefreshLock, RefreshBuild, RefreshBuilt,
           RefreshEnd, Claim, WorkerStep, Wake, Take, Rest, StartJob, FinishJob, ServerStep,
           Stop, Crash, Start, JobFails, Begin, RefreshBegin, NextNight
  <2> QED
    BY <2>2, <2>4, <2>5, <2>6, <2>7
<1>4. \/ call'[n].user = call[n].user
      \/ \E u \in Users : Claim(n, u)
  <2>3. ASSUME NEW m \in Calls, RefreshStep(m) \/ RefreshFails(m)
        PROVE  \/ call'[n].user = call[n].user
               \/ \E u \in Users : Claim(n, u)
    BY <2>3, CallsKeepUser DEF RefreshStep
  <2>4. ASSUME NEW s \in Servers, WorkerStep(s) \/ ServerStep(s)
        PROVE  call'[n].user = call[n].user
    <3>1. CASE Crash(s)
      <4>1. call'[n] \in {CallOver(n), call[n]}
        BY <3>1 DEF Crash
      <4> QED
        BY <4>1, CallOverType DEF FreeCall
    <3>2. ASSUME NEW m \in Calls, RefreshBegin(m, s)
          PROVE  call'[n].user = call[n].user
      BY <3>2 DEF RefreshBegin, TypeOK, FreeCall, ClaimedCall, LockedCall
    <3>3. CASE call' = call
      BY <3>3
    <3> QED
      BY <2>4, <3>1, <3>2, <3>3 DEF WorkerStep, Wake, Take, Rest, StartJob, FinishJob,
         SaveBuilt, ServerStep, Stop, Start, JobFails, Begin
  <2>5. ASSUME NEW r \in Requests, RequestStep(r) \/ RequestFails(r)
        PROVE  call'[n].user = call[n].user
    BY <2>5 DEF RequestStep, RequestFails, Lock, Write, Commit, Submit, StartInline,
       FinishInline, CommitInline
  <2> QED
    BY <2>3, <2>4, <2>5 DEF Next, NextNight, vars
<1>5. CASE call'[n].user = call[n].user
  <2>1. call[n].user \in Users
    BY <1>5 DEF TypeOK, FreeCall, ClaimedCall, LockedCall
  <2> QED
    BY <1>1, <1>2, <1>3, <1>5, <2>1 DEF ClaimedHasList
<1>6. ASSUME NEW u \in Users, Claim(n, u)
      PROVE  row'[call'[n].user].feed # None
  <2>1. call'[n].user = u
    BY <1>6 DEF TypeOK, Claim, FreeCall, ClaimedCall, LockedCall
  <2>2. row[u].feed # None
    BY <1>6 DEF Claim, Claimable, Partial
  <2> QED
    BY <1>1, <1>2, <1>3, <2>1, <2>2
<1> QED
  BY <1>4, <1>5, <1>6

LEMMA InitFeedInv == Init => FeedInv
<1> SUFFICES ASSUME Init PROVE FeedInv
  OBVIOUS
<1>1. TypeOK
  BY TypeInit
<1>2. ClaimedHasList
  BY DEF Init, ClaimedHasList
<1>3. Pages
  BY DEF Init, Pages, Paged
<1> QED
  BY <1>1, <1>2, <1>3 DEF FeedInv

LEMMA NextFeedInv == FeedInv /\ [Next]_vars => FeedInv'
  BY NextType, NextPages, NextClaimedHasList DEF FeedInv

THEOREM FeedInvHolds == Spec => []FeedInv
  BY InitFeedInv, NextFeedInv, PTL DEF Spec

\* The state of requests, jobs, workers, refresh calls and rows keeps its shape: a
\* worker has a job exactly while it works on one, a call a user and a list exactly
\* while it works on them, and no queue ever holds two jobs of one user.
THEOREM TypeCorrect == Spec => []TypeOK
<1>1. FeedInv => TypeOK
  BY DEF FeedInv
<1> QED
  BY <1>1, FeedInvHolds, PTL

\* Paging (interest_page.Stored.at) goes on in exactly the list a cursor began in, for
\* cursors of the current list and of the one before, whatever saves, claims and
\* failures interleave and on however many servers.
THEOREM CursorsContinue == Spec => []CursorContinues
<1>1. FeedInv => CursorContinues
  <2> SUFFICES ASSUME FeedInv, NEW u \in Users, NEW v \in DOMAIN published[u],
                      v >= row[u].ver - 1
               PROVE  At(row[u], v) = [list |-> published[u][v], ver |-> v]
    BY DEF FeedInv, Pages, Paged, CursorContinues
  <2>1. published[u] \in Seq(List) /\ Paged(row[u], published[u])
    BY DEF FeedInv, TypeOK, Pages
  <2>2. v \in 1..Len(published[u]) /\ published[u][v] \in List /\ published[u] # <<>>
    BY <2>1
  <2>3. row[u].ver = Len(published[u]) /\ row[u].feed = published[u][Len(published[u])]
    BY <2>1, <2>2 DEF Paged
  <2>4. CASE v = row[u].ver
    BY <2>2, <2>3, <2>4 DEF At
  <2>5. CASE v = row[u].ver - 1
    <3>1. row[u].prev = published[u][v] /\ row[u].prev # None
      BY <2>1, <2>2, <2>3, <2>5, HomeFeedAssumption DEF Paged
    <3> QED
      BY <2>2, <2>5, <3>1 DEF At
  <2> QED
    BY <2>2, <2>3, <2>4, <2>5
<1> QED
  BY <1>1, FeedInvHolds, PTL

-----------------------------------------------------------------------------
(* The newest request of a user: its list, or a token that stands and a    *)
(* job on its way. Replies to COMMIT are taken to reach a server in the    *)
(* order of the commits.                                                   *)

\* A job is only held for a request that is answered.
HeldDone == \A s \in Servers : \A r \in Held(s) : req[r].pc = "done"

\* The reply to a COMMIT comes in at a server.
RepliesHere == \A r \in Requests : req[r].pc = "committed" => req[r].srv \in Servers

\* A server waits for one reply of a user at a time.
OneReply ==
  \A q, r \in Requests :
    /\ req[q].pc = "committed" /\ req[r].pc = "committed"
    /\ UserOf[q] = UserOf[r] /\ req[q].srv = req[r].srv
    => q = r

\* Who still waits for a reply committed after every job of that user that its server
\* holds, so that taking the place of one of them loses nothing.
RepliesLater ==
  \A q \in Requests, s \in Servers : req[q].pc = "committed" /\ req[q].srv = s =>
    \A r \in Held(s) : UserOf[r] = UserOf[q] => ~Newest(r)

\* The inductive invariant of LatestRequestKept.
KeptInv == HeldDone /\ RepliesHere /\ OneReply /\ RepliesLater /\ LatestRequestKept

\* What all but three actions do: no request takes effect and no job is queued; a list is
\* only added, and what is no longer on its way was lost, or delivered.
Keeps ==
  /\ asked' = asked
  /\ \A r \in Requests : Delivered(r) => Delivered(r)'
  /\ \A s \in Servers : Held(s)' \subseteq Held(s)
  /\ \A r \in Requests :
       /\ req'[r].pc = "committed" => req[r].pc = "committed" /\ req'[r].srv = req[r].srv
       /\ req[r].pc = "done" => req'[r].pc = "done"
  /\ lost \subseteq lost'
  /\ \A r \in Requests : Newest(r) =>
       \/ Delivered(r)'
       \/ /\ row'[UserOf[r]].pending = row[UserOf[r]].pending
          /\ OnItsWay(r) => OnItsWay(r)' \/ r \in lost'

LEMMA KeepsKeptInv ==
  ASSUME TypeOK, KeptInv, Keeps
  PROVE  KeptInv'
<1>1. \A r : Newest(r)' <=> Newest(r)
  BY DEF Keeps, Newest
<1>2. HeldDone'
  <2> SUFFICES ASSUME NEW s \in Servers, NEW r \in Held(s)'
               PROVE  req'[r].pc = "done"
    BY DEF HeldDone
  <2>1. r \in Held(s) /\ r \in Requests
    BY HeldAreRequests DEF Keeps
  <2> QED
    BY <2>1 DEF Keeps, KeptInv, HeldDone
<1>3. RepliesHere'
  BY DEF Keeps, KeptInv, RepliesHere
<1>4. OneReply'
  BY DEF Keeps, KeptInv, OneReply
<1>5. RepliesLater'
  <2> SUFFICES ASSUME NEW q \in Requests, NEW s \in Servers, req'[q].pc = "committed",
                      req'[q].srv = s, NEW r \in Held(s)', UserOf[r] = UserOf[q]
               PROVE  ~Newest(r)'
    BY DEF RepliesLater
  <2>1. req[q].pc = "committed" /\ req[q].srv = s /\ r \in Held(s)
    BY DEF Keeps
  <2> QED
    BY <1>1, <2>1 DEF KeptInv, RepliesLater
<1>6. LatestRequestKept'
  <2> SUFFICES ASSUME NEW r \in Requests, Newest(r)', ~Delivered(r)'
               PROVE  row'[UserOf[r]].pending = r /\ (OnItsWay(r)' \/ r \in lost')
    BY DEF LatestRequestKept
  <2>1. Newest(r) /\ ~Delivered(r)
    BY <1>1 DEF Keeps
  <2>2. row[UserOf[r]].pending = r /\ (OnItsWay(r) \/ r \in lost)
    BY <2>1 DEF KeptInv, LatestRequestKept
  <2> QED
    BY <2>1, <2>2 DEF Keeps
<1> QED
  BY <1>2, <1>3, <1>4, <1>5, <1>6 DEF KeptInv

\* A saved list stays delivered, and delivers the request it was made for.
LEMMA AppendKeepsDelivered ==
  ASSUME published \in [Users -> Seq(List)], NEW u \in Users, NEW l \in List,
         published' = [published EXCEPT ![u] = Append(published[u], l)]
  PROVE  \A r \in Requests :
           /\ Delivered(r) => Delivered(r)'
           /\ UserOf[r] = u /\ l.from = r => Delivered(r)'
<1> SUFFICES ASSUME NEW r \in Requests
             PROVE  /\ Delivered(r) => Delivered(r)'
                    /\ UserOf[r] = u /\ l.from = r => Delivered(r)'
  OBVIOUS
<1> DEFINE p == published[UserOf[r]]
<1>1. UserOf[r] \in Users /\ p \in Seq(List)
  BY HomeFeedAssumption
<1>2. CASE UserOf[r] # u
  <2>1. published'[UserOf[r]] = p
    BY <1>1, <1>2
  <2> QED
    BY <1>2, <2>1 DEF Delivered
<1>3. CASE UserOf[r] = u
  <2>1. published'[UserOf[r]] = Append(p, l)
    BY <1>1, <1>3
  <2> HIDE DEF p
  <2>2. /\ DOMAIN Append(p, l) = 1..Len(p) + 1 /\ DOMAIN p = 1..Len(p) /\ Len(p) \in Nat
        /\ \A i \in 1..Len(p) : Append(p, l)[i] = p[i]
        /\ Append(p, l)[Len(p) + 1] = l
    BY <1>1
  <2>3. ASSUME NEW i \in DOMAIN p, p[i].from = r
        PROVE  \E j \in DOMAIN Append(p, l) : Append(p, l)[j].from = r
    BY <2>2, <2>3
  <2>4. ASSUME l.from = r
        PROVE  \E j \in DOMAIN Append(p, l) : Append(p, l)[j].from = r
    <3>1. Len(p) + 1 \in DOMAIN Append(p, l)
      BY <2>2
    <3> QED
      BY <2>2, <2>4, <3>1
  <2> QED
    BY <2>1, <2>3, <2>4 DEF Delivered, p
<1> QED
  BY <1>2, <1>3

\* What an action does that saves no list and takes, queues or drops no job.
Plain ==
  /\ asked' = asked /\ published' = published /\ lost' = lost
  /\ \A u \in Users : row'[u].pending = row[u].pending
  /\ \A s \in Servers : Held(s)' = Held(s)
  /\ \A r \in Requests :
       /\ req'[r].pc = "committed" <=> req[r].pc = "committed"
       /\ req'[r].pc = "committed" => req'[r].srv = req[r].srv
       /\ req[r].pc = "done" => req'[r].pc = "done"

LEMMA PlainKeeps == Plain => Keeps
<1> SUFFICES ASSUME Plain PROVE Keeps
  OBVIOUS
<1>1. \A r \in Requests : Delivered(r)' <=> Delivered(r)
  BY DEF Plain, Delivered
<1>2. \A r \in Requests : OnItsWay(r) => OnItsWay(r)'
  BY DEF Plain, OnItsWay
<1>3. \A r \in Requests : UserOf[r] \in Users
  BY HomeFeedAssumption
<1> QED
  BY <1>1, <1>2, <1>3 DEF Plain, Keeps

\* Held jobs stay as they are while the queues and the jobs of the workers do.
LEMMA SameJobsHeld ==
  ASSUME jobs' = jobs, \A s \in Servers : worker'[s].job = worker[s].job
  PROVE  \A s \in Servers : Held(s)' = Held(s)
  BY DEF Held

LEMMA RequestKeeps ==
  ASSUME TypeOK, NEW r \in Requests,
         \/ Lock(r) \/ Write(r) \/ StartInline(r)
         \/ \E S \in SUBSET Interests : FinishInline(r, S)
  PROVE  Keeps
<1>1. /\ UNCHANGED <<row, jobs, worker, asked, published, lost>>
      /\ req[r].pc \notin {"committed", "done"}
  BY DEF Lock, Write, StartInline, FinishInline
<1>2. req \in [Requests -> Req]
  BY DEF TypeOK
<1>3. \A q \in Requests : q # r => req'[q] = req[q]
  BY <1>2 DEF Lock, Write, StartInline, FinishInline
<1>4. req'[r].pc # "committed"
  <2>1. req[r] \in Req
    BY <1>2
  <2> QED
    BY <1>2, <2>1 DEF Lock, Write, StartInline, FinishInline, Req
<1>5. \A s \in Servers : Held(s)' = Held(s)
  BY <1>1, SameJobsHeld
<1> QED
  BY <1>1, <1>3, <1>4, <1>5, PlainKeeps DEF Plain

\* A request fails; if its COMMIT was applied, the job is lost.
LEMMA RequestFailsKeeps ==
  ASSUME TypeOK, NEW r \in Requests, RequestFails(r)
  PROVE  Keeps
<1>1. /\ UNCHANGED <<row, jobs, worker, asked, published>> /\ req[r].pc # "done"
      /\ lost' = lost \cup {q \in {r} : req[q].pc = "committed"}
  BY DEF RequestFails, InTransaction
<1>2. \A q \in Requests : q # r => req'[q] = req[q]
  BY DEF RequestFails, TypeOK
<1>3. req'[r].pc = "failed"
  <2>1. req[r] \in Req /\ req' = [req EXCEPT ![r] = [req[r] EXCEPT !.pc = "failed"]]
    BY DEF TypeOK, RequestFails
  <2>2. [req[r] EXCEPT !.pc = "failed"].pc = "failed"
    BY <2>1 DEF Req
  <2> QED
    BY <2>1, <2>2 DEF TypeOK
<1>4. \A s \in Servers : Held(s)' = Held(s)
  BY <1>1, SameJobsHeld
<1>5. \A q \in Requests : Delivered(q)' <=> Delivered(q)
  BY <1>1 DEF Delivered
<1>6. \A q \in Requests : OnItsWay(q) => OnItsWay(q)' \/ q \in lost'
  BY <1>1, <1>2, <1>4 DEF OnItsWay
<1> QED
  BY <1>1, <1>2, <1>3, <1>4, <1>5, <1>6 DEF Keeps

\* What a worker does but to save.
LEMMA WorkerKeeps ==
  ASSUME TypeOK, NEW s \in Servers,
         \/ Wake(s) \/ Take(s) \/ Rest(s) \/ StartJob(s) \/ Start(s)
         \/ \E S \in SUBSET Interests : FinishJob(s, S)
  PROVE  Keeps
<1>1. UNCHANGED <<row, req, asked, published, lost>>
  BY DEF Wake, Take, Rest, StartJob, Start, FinishJob
<1>2. worker \in [Servers -> IdleWorker \cup BusyWorker] /\ jobs \in [Servers -> Seq(Requests)]
  BY DEF TypeOK
<1>3. ASSUME NEW z \in Servers
      PROVE  Held(z)' = Held(z)
  <2>1. CASE Take(s)
    <3>1. CASE z # s
      BY <1>2, <2>1, <3>1 DEF Take, Held
    <3>2. CASE z = s
      <4>1. worker[s] \in IdleWorker
        BY <1>2, <2>1 DEF Take, BusyWorker
      <4>2. worker[s].job = None /\ worker'[s].job = Head(jobs[s]) /\ jobs'[s] = Tail(jobs[s])
        BY <1>2, <2>1, <4>1 DEF Take, IdleWorker
      <4>3. jobs[s] \in Seq(Requests) /\ jobs[s] # <<>>
        BY <1>2, <2>1 DEF Take
      <4>4. Head(jobs[s]) # None
        BY <4>3, HomeFeedAssumption
      <4>5. {jobs[s][i] : i \in DOMAIN jobs[s]}
              = {Tail(jobs[s])[i] : i \in DOMAIN Tail(jobs[s])} \cup {Head(jobs[s])}
        <5> DEFINE q == jobs[s]
        <5>1. q \in Seq(Requests) /\ q # <<>>
          BY <4>3
        <5> HIDE DEF q
        <5>2. /\ Len(q) \in Nat /\ Len(q) >= 1 /\ DOMAIN q = 1..Len(q)
              /\ DOMAIN Tail(q) = 1..Len(q) - 1 /\ Head(q) = q[1]
              /\ \A i \in 1..Len(q) - 1 : Tail(q)[i] = q[i + 1]
          BY <5>1
        <5>3. ASSUME NEW i \in DOMAIN q
              PROVE  q[i] \in {Tail(q)[j] : j \in DOMAIN Tail(q)} \cup {Head(q)}
          <6>1. CASE i = 1
            BY <5>2, <6>1
          <6>2. CASE i # 1
            <7>1. i - 1 \in DOMAIN Tail(q) /\ Tail(q)[i - 1] = q[i]
              BY <5>2, <6>2
            <7> QED
              BY <7>1
          <6> QED
            BY <6>1, <6>2
        <5>4. ASSUME NEW i \in DOMAIN Tail(q)
              PROVE  Tail(q)[i] \in {q[j] : j \in DOMAIN q}
          <6>1. i + 1 \in DOMAIN q /\ Tail(q)[i] = q[i + 1]
            BY <5>2
          <6> QED
            BY <6>1
        <5>5. Head(q) \in {q[j] : j \in DOMAIN q}
          BY <5>2
        <5> QED
          BY <5>3, <5>4, <5>5 DEF q
      <4>6. /\ Held(s) = {jobs[s][i] : i \in DOMAIN jobs[s]} \cup ({worker[s].job} \ {None})
            /\ Held(s)' = {jobs'[s][i] : i \in DOMAIN jobs'[s]} \cup ({worker'[s].job} \ {None})
        BY DEF Held
      <4> QED
        BY <3>2, <4>2, <4>4, <4>5, <4>6
    <3> QED
      BY <3>1, <3>2
  <2>2. CASE ~Take(s)
    <3>1. jobs' = jobs
      BY <2>2 DEF Wake, Rest, StartJob, Start, FinishJob
    <3>2. \A y \in Servers : worker'[y].job = worker[y].job
      <4>1. worker[s] \in IdleWorker \cup BusyWorker
        BY <1>2
      <4>2. \A y \in Servers : y # s => worker'[y] = worker[y]
        BY <1>2, <2>2 DEF Wake, Rest, StartJob, Start, FinishJob
      <4>3. ASSUME NEW S \in SUBSET Interests, FinishJob(s, S)
            PROVE  worker'[s].job = worker[s].job
        <5>1. worker'[s] = [worker[s] EXCEPT !.pc = "built", !.subs = S]
          BY <1>2, <4>3 DEF FinishJob
        <5> QED
          BY <4>1, <5>1 DEF IdleWorker, BusyWorker
      <4>4. ASSUME NEW x, worker' = [worker EXCEPT ![s].pc = x]
            PROVE  worker'[s].job = worker[s].job
        <5>1. worker'[s] = [worker[s] EXCEPT !.pc = x]
          BY <1>2, <4>4
        <5> QED
          BY <4>1, <5>1 DEF IdleWorker, BusyWorker
      <4>5. worker'[s].job = worker[s].job
        BY <2>2, <4>3, <4>4 DEF Wake, Rest, StartJob, Start
      <4> QED
        BY <4>2, <4>5
    <3> QED
      BY <3>1, <3>2, SameJobsHeld
  <2> QED
    BY <2>1, <2>2
<1> QED
  BY <1>1, <1>3, PlainKeeps DEF Plain

\* What a nightly call does: it may add a list, and leaves the token.
LEMMA RefreshKeeps ==
  ASSUME TypeOK, NEW n \in Calls, RefreshStep(n) \/ RefreshFails(n)
  PROVE  Keeps
<1>1. UNCHANGED <<req, jobs, worker, asked, lost>>
  BY DEF RefreshStep, RefreshFails, RefreshLock, RefreshBuild, RefreshBuilt, RefreshSave,
         RefreshEnd, Claim
<1>2. \A s \in Servers : Held(s)' = Held(s)
  BY <1>1, SameJobsHeld
<1>3. row \in [Users -> Row]
  BY DEF TypeOK
<1>4. CASE RefreshSave(n)
  <2> DEFINE u == call[n].user
             l == [from |-> call[n].base.from, subs |-> call[n].subs]
             f == SaveRefresh(row[u], l, call[n].night)
  <2>1. u \in Users /\ l \in List /\ call[n].night \in 0..MaxNight
    <3>1. call[n] \in LockedCall
      BY <1>4 DEF TypeOK, RefreshSave, FreeCall, ClaimedCall
    <3> QED
      BY <3>1 DEF LockedCall, List
  <2>2. \/ /\ row' = [row EXCEPT ![u] = f]
           /\ published' = [published EXCEPT ![u] = Append(published[u], l)]
        \/ row' = row /\ published' = published
    BY <1>4 DEF RefreshSave
  <2>3. f.pending = row[u].pending
    <3>1. row[u] \in Row
      BY <1>3, <2>1
    <3> QED
      BY <3>1 DEF SaveRefresh, Publish, Row
  <2> HIDE DEF u, l, f
  <2>4. \A v \in Users : row'[v].pending = row[v].pending
    BY <1>3, <2>1, <2>2, <2>3
  <2>5. \A r \in Requests : Delivered(r) => Delivered(r)'
    <3>1. CASE published' = published
      BY <3>1 DEF Delivered
    <3>2. CASE published' # published
      BY <2>1, <2>2, <3>2, AppendKeepsDelivered DEF TypeOK
    <3> QED
      BY <3>1, <3>2
  <2>6. \A r \in Requests : OnItsWay(r)' <=> OnItsWay(r)
    BY <1>1, <1>2 DEF OnItsWay
  <2>7. \A r \in Requests : UserOf[r] \in Users
    BY HomeFeedAssumption
  <2> QED
    BY <1>1, <1>2, <2>4, <2>5, <2>6, <2>7 DEF Keeps
<1>5. CASE ~RefreshSave(n)
  <2>1. published' = published
    BY <1>5 DEF RefreshStep, RefreshFails, RefreshLock, RefreshBuild, RefreshBuilt, RefreshEnd,
                Claim
  <2>2. \A u \in Users : row'[u].pending = row[u].pending
    <3>1. CASE row' = row
      BY <3>1
    <3>2. ASSUME NEW v \in Users, Claim(n, v)
          PROVE  \A u \in Users : row'[u].pending = row[u].pending
      <4>1. row' = [row EXCEPT ![v] = [row[v] EXCEPT !.retried = call[n].night]]
        BY <3>2 DEF Claim
      <4>2. [row[v] EXCEPT !.retried = call[n].night].pending = row[v].pending
        BY <1>3 DEF Row
      <4> QED
        BY <1>3, <4>1, <4>2
    <3> QED
      BY <1>5, <3>1, <3>2 DEF RefreshStep, RefreshFails, RefreshLock, RefreshBuild,
                              RefreshBuilt, RefreshEnd
  <2> QED
    BY <1>1, <1>2, <2>1, <2>2, PlainKeeps DEF Plain
<1> QED
  BY <1>4, <1>5

\* A job that is finished, or fails, leaves its worker.
LEMMA JobDoneHeld ==
  ASSUME TypeOK, NEW s \in Servers, JobDone(s), jobs' = jobs
  PROVE  \A z \in Servers : /\ Held(z)' \subseteq Held(z)
                            /\ \A r \in Held(z) : r \in Held(z)' \/ r = worker[s].job
<1>1. worker \in [Servers -> IdleWorker \cup BusyWorker]
  BY DEF TypeOK
<1>2. worker'[s].job = None /\ \A z \in Servers : z # s => worker'[z] = worker[z]
  BY <1>1 DEF JobDone
<1>3. ASSUME NEW z \in Servers
      PROVE  /\ Held(z)' \subseteq Held(z)
             /\ \A r \in Held(z) : r \in Held(z)' \/ r = worker[s].job
  <2>1. jobs'[z] = jobs[z]
    OBVIOUS
  <2> QED
    BY <1>2, <2>1 DEF Held
<1> QED
  BY <1>3

LEMMA SaveKeeps ==
  ASSUME TypeOK, KeptInv, NEW s \in Servers, SaveBuilt(s)
  PROVE  Keeps
<1> DEFINE q == worker[s].job
           u == UserOf[q]
           l == [from |-> q, subs |-> worker[s].subs]
<1>1. q \in Requests /\ u \in Users /\ l \in List
  <2>1. worker[s] \in BusyWorker
    BY DEF TypeOK, SaveBuilt, IdleWorker
  <2> QED
    BY <2>1, HomeFeedAssumption DEF BusyWorker, List
<1>2. UNCHANGED <<req, jobs, asked, lost>> /\ JobDone(s)
  BY DEF SaveBuilt
<1>3. \/ /\ row[u].pending = q
         /\ row' = [row EXCEPT ![u] = SaveJob(row[u], l)]
         /\ published' = [published EXCEPT ![u] = Append(published[u], l)]
      \/ row[u].pending # q /\ row' = row /\ published' = published
  BY DEF SaveBuilt, TokenStands
<1>4. u = UserOf[q] /\ l.from = q /\ q = worker[s].job
  OBVIOUS
<1> HIDE DEF q, u, l
<1>5. \A r \in Requests : Delivered(r) => Delivered(r)'
  <2>1. CASE published' = published
    BY <2>1 DEF Delivered
  <2>2. CASE published' # published
    BY <1>1, <1>3, <2>2, AppendKeepsDelivered DEF TypeOK
  <2> QED
    BY <2>1, <2>2
<1>6. \A z \in Servers : /\ Held(z)' \subseteq Held(z)
                         /\ \A r \in Held(z) : r \in Held(z)' \/ r = q
  BY <1>2, <1>4, JobDoneHeld
<1>7. ASSUME NEW r \in Requests, Newest(r)
      PROVE  \/ Delivered(r)'
             \/ /\ row'[UserOf[r]].pending = row[UserOf[r]].pending
                /\ OnItsWay(r) => OnItsWay(r)'
  <2>1. Delivered(r) \/ row[UserOf[r]].pending = r
    BY <1>7 DEF KeptInv, LatestRequestKept
  <2>2. CASE Delivered(r)
    BY <1>5, <2>2
  <2>3. CASE row[UserOf[r]].pending = r /\ r = q
    <3>1. published' = [published EXCEPT ![u] = Append(published[u], l)]
      BY <1>3, <1>4, <2>3
    <3> QED
      BY <1>1, <1>4, <2>3, <3>1, AppendKeepsDelivered DEF TypeOK
  <2>4. CASE row[UserOf[r]].pending = r /\ r # q
    <3>1. row'[UserOf[r]] = row[UserOf[r]]
      <4>1. UserOf[r] \in Users /\ row \in [Users -> Row]
        BY HomeFeedAssumption DEF TypeOK
      <4>2. row' = row \/ (row[u].pending = q /\ row' = [row EXCEPT ![u] = SaveJob(row[u], l)])
        BY <1>3
      <4>3. row[u].pending = q => UserOf[r] # u
        BY <2>4
      <4> QED
        BY <1>1, <4>1, <4>2, <4>3
    <3>2. OnItsWay(r) => OnItsWay(r)'
      BY <1>2, <1>6, <2>4 DEF OnItsWay
    <3> QED
      BY <3>1, <3>2
  <2> QED
    BY <2>1, <2>2, <2>3, <2>4
<1> QED
  BY <1>2, <1>5, <1>6, <1>7 DEF Keeps

LEMMA JobFailsKeeps ==
  ASSUME TypeOK, NEW s \in Servers, JobFails(s)
  PROVE  Keeps
<1>1. /\ UNCHANGED <<row, req, jobs, asked, published>> /\ JobDone(s)
      /\ lost' = lost \cup {worker[s].job}
  BY DEF JobFails
<1>2. \A z \in Servers : /\ Held(z)' \subseteq Held(z)
                         /\ \A r \in Held(z) : r \in Held(z)' \/ r = worker[s].job
  BY <1>1, JobDoneHeld
<1>3. \A r \in Requests : Delivered(r)' <=> Delivered(r)
  BY <1>1 DEF Delivered
<1>4. \A r \in Requests : OnItsWay(r) => OnItsWay(r)' \/ r \in lost'
  BY <1>1, <1>2 DEF OnItsWay
<1> QED
  BY <1>1, <1>2, <1>3, <1>4 DEF Keeps

\* The queue of a server that goes down is empty, the others are as they were.
LEMMA DropQueueHeld ==
  ASSUME TypeOK, NEW s \in Servers, DropQueue(s)
  PROVE  /\ Held(s)' = {}
         /\ \A z \in Servers : z # s => Held(z)' = Held(z)
<1>1. /\ jobs'[s] = <<>> /\ worker'[s].job = None
      /\ \A z \in Servers : z # s => jobs'[z] = jobs[z] /\ worker'[z] = worker[z]
  BY DEF TypeOK, DropQueue
<1> QED
  BY <1>1 DEF Held

LEMMA StopKeeps ==
  ASSUME TypeOK, NEW s \in Servers, Stop(s)
  PROVE  Keeps
<1>1. /\ UNCHANGED <<row, req, asked, published>> /\ DropQueue(s)
      /\ lost' = lost \cup Held(s)
  BY DEF Stop
<1>2. \A r \in Requests : Delivered(r)' <=> Delivered(r)
  BY <1>1 DEF Delivered
<1>3. \A r \in Requests : OnItsWay(r) => OnItsWay(r)' \/ r \in lost'
  BY <1>1, DropQueueHeld DEF OnItsWay
<1>4. \A z \in Servers : Held(z)' \subseteq Held(z)
  BY <1>1, DropQueueHeld
<1> QED
  BY <1>1, <1>2, <1>3, <1>4 DEF Keeps

LEMMA CrashKeeps ==
  ASSUME TypeOK, NEW s \in Servers, Crash(s)
  PROVE  Keeps
<1>1. UNCHANGED <<row, asked, published>> /\ DropQueue(s)
  BY DEF Crash
<1>2. lost' = lost \cup Held(s) \cup {r \in Requests : req[r].srv = s /\ req[r].pc = "committed"}
  BY DEF Crash
<1>3. ASSUME NEW r \in Requests
      PROVE  /\ req'[r].pc = "committed" => req[r].pc = "committed" /\ req'[r].srv = req[r].srv
             /\ req[r].pc = "done" => req'[r].pc = "done"
             /\ req[r].pc = "committed" => req'[r].pc = "committed" \/ r \in lost'
  <2>1. req[r] \in Req
    BY DEF TypeOK
  <2>2. [req[r] EXCEPT !.pc = "failed"].pc = "failed"
    BY <2>1 DEF Req
  <2>3. req'[r] = IF req[r].srv = s /\ req[r].pc \in InTransaction \cup {"waiting", "committed"}
                  THEN [req[r] EXCEPT !.pc = "failed"] ELSE req[r]
    BY DEF Crash
  <2> QED
    BY <1>2, <2>2, <2>3 DEF InTransaction
<1>4. \A r \in Requests : Delivered(r)' <=> Delivered(r)
  BY <1>1 DEF Delivered
<1>5. \A z \in Servers : Held(z)' \subseteq Held(z)
  BY <1>1, DropQueueHeld
<1>6. \A r \in Requests : OnItsWay(r) => OnItsWay(r)' \/ r \in lost'
  BY <1>1, <1>2, <1>3, DropQueueHeld DEF OnItsWay
<1>7. \A r \in Requests : row'[UserOf[r]].pending = row[UserOf[r]].pending
  BY <1>1
<1>8. asked' = asked /\ lost \subseteq lost'
  BY <1>1, <1>2
<1> QED
  BY <1>3, <1>4, <1>5, <1>6, <1>7, <1>8 DEF Keeps

LEMMA BeginKeeps ==
  ASSUME TypeOK, NEW s \in Servers,
         (\E r \in Requests : Begin(r, s)) \/ (\E n \in Calls : RefreshBegin(n, s))
  PROVE  Keeps
<1>1. UNCHANGED <<row, jobs, worker, asked, published, lost>>
  BY DEF Begin, RefreshBegin
<1>2. \A z \in Servers : Held(z)' = Held(z)
  BY <1>1, SameJobsHeld
<1>3. CASE req' = req
  BY <1>1, <1>2, <1>3, PlainKeeps DEF Plain
<1>4. ASSUME NEW r \in Requests, Begin(r, s)
      PROVE  Keeps
  <2>1. req[r] \in Req /\ req[r].pc = "new" /\ req \in [Requests -> Req]
    BY <1>4 DEF TypeOK, Begin
  <2>2. req' = [req EXCEPT ![r] = [req[r] EXCEPT !.pc = "waiting", !.srv = s]]
    BY <1>4, <2>1 DEF Begin
  <2>3. [req[r] EXCEPT !.pc = "waiting", !.srv = s].pc = "waiting"
    BY <2>1 DEF Req
  <2>4. req'[r].pc = "waiting" /\ \A q \in Requests : q # r => req'[q] = req[q]
    BY <2>1, <2>2, <2>3
  <2> QED
    BY <1>1, <1>2, <2>1, <2>4, PlainKeeps DEF Plain
<1> QED
  BY <1>3, <1>4 DEF RefreshBegin

\* A request that takes effect is the newest of its user, and nobody else becomes one.
LEMMA AskedMakesNewest ==
  ASSUME TypeOK, NEW r \in Requests,
         asked' = [asked EXCEPT ![UserOf[r]] = Append(asked[UserOf[r]], r)]
  PROVE  \A q \in Requests : Newest(q)' <=> IF UserOf[q] = UserOf[r] THEN q = r ELSE Newest(q)
<1> SUFFICES ASSUME NEW q \in Requests
             PROVE  Newest(q)' <=> IF UserOf[q] = UserOf[r] THEN q = r ELSE Newest(q)
  OBVIOUS
<1> DEFINE a == asked[UserOf[r]]
<1>1. UserOf[r] \in Users /\ UserOf[q] \in Users /\ a \in Seq(Requests)
  BY HomeFeedAssumption DEF TypeOK
<1>2. CASE UserOf[q] = UserOf[r]
  <2>1. asked'[UserOf[q]] = Append(a, r)
    BY <1>1, <1>2 DEF TypeOK
  <2> HIDE DEF a
  <2>2. Append(a, r) # <<>> /\ Append(a, r)[Len(Append(a, r))] = r
    BY <1>1
  <2> QED
    BY <1>2, <2>1, <2>2 DEF Newest
<1>3. CASE UserOf[q] # UserOf[r]
  <2>1. asked'[UserOf[q]] = asked[UserOf[q]]
    BY <1>1, <1>3 DEF TypeOK
  <2> QED
    BY <1>3, <2>1 DEF Newest
<1> QED
  BY <1>2, <1>3

\* The token of a request that takes effect, with and without its list.
LEMMA StoredPending ==
  ASSUME TypeOK, NEW r \in Requests
  PROVE  /\ Stored(r).pending = r
         /\ \A l \in List : SaveJob(Stored(r), l).pending = None
<1>1. Stored(r) \in Row
  BY StoredIsRow
<1>2. Stored(r).pending = r
  <2>1. UserOf[r] \in Users /\ row[UserOf[r]] \in Row
    BY HomeFeedAssumption DEF TypeOK
  <2> QED
    BY <2>1 DEF Stored, Mark, SaveProfile, Row
<1>3. \A l \in List : SaveJob(Stored(r), l).pending = None
  <2> SUFFICES ASSUME NEW l \in List PROVE SaveJob(Stored(r), l).pending = None
    OBVIOUS
  <2>1. Publish(Stored(r), l) \in Row
    BY <1>1, PublishKeepsRow
  <2> QED
    BY <2>1 DEF SaveJob, Row
<1> QED
  BY <1>2, <1>3

\* A request that takes effect was not held and becomes the newest; the newest requests of
\* the others stay what they were.
LEMMA CommitKeepsKept ==
  ASSUME TypeOK, KeptInv, InOrderReplies, NEW r \in Requests, Commit(r)
  PROVE  KeptInv'
<1> DEFINE u == UserOf[r]
<1>1. /\ UNCHANGED <<jobs, worker, published, lost>> /\ req[r].pc = "written"
      /\ req[r].srv \in Servers /\ EarlierRepliesIn(r)
      /\ row' = [row EXCEPT ![u] = Stored(r)]
      /\ asked' = [asked EXCEPT ![u] = Append(asked[u], r)]
      /\ req' = [req EXCEPT ![r].pc = "committed"]
  BY HomeFeedAssumption DEF Commit
<1>2. /\ req'[r].pc = "committed" /\ req'[r].srv = req[r].srv
      /\ \A q \in Requests : q # r => req'[q] = req[q]
  <2>1. req \in [Requests -> Req] /\ req[r] \in Req
    BY DEF TypeOK
  <2>2. /\ [req[r] EXCEPT !.pc = "committed"].pc = "committed"
        /\ [req[r] EXCEPT !.pc = "committed"].srv = req[r].srv
    BY <2>1 DEF Req
  <2> QED
    BY <1>1, <2>1, <2>2
<1>3. \A s \in Servers : Held(s)' = Held(s)
  BY <1>1, SameJobsHeld
<1>4. \A q \in Requests : Newest(q)' <=> IF UserOf[q] = u THEN q = r ELSE Newest(q)
  BY <1>1, AskedMakesNewest
<1>5. \A s \in Servers : Held(s) \subseteq Requests /\ r \notin Held(s)
  BY <1>1, HeldAreRequests DEF KeptInv, HeldDone
<1>6. HeldDone'
  BY <1>2, <1>3, <1>5 DEF KeptInv, HeldDone
<1>7. RepliesHere'
  BY <1>1, <1>2 DEF KeptInv, RepliesHere
<1>8. OneReply'
  BY <1>1, <1>2 DEF KeptInv, OneReply, EarlierRepliesIn
<1>9. RepliesLater'
  <2> SUFFICES ASSUME NEW q \in Requests, NEW s \in Servers, req'[q].pc = "committed",
                      req'[q].srv = s, NEW x \in Held(s)', UserOf[x] = UserOf[q]
               PROVE  ~Newest(x)'
    BY DEF RepliesLater
  <2>1. x \in Held(s) /\ x \in Requests /\ x # r
    BY <1>3, <1>5
  <2>2. CASE q = r
    BY <1>4, <2>1, <2>2
  <2>3. CASE q # r
    <3>1. ~Newest(x)
      BY <1>2, <2>1, <2>3 DEF KeptInv, RepliesLater
    <3> QED
      BY <1>4, <2>1, <3>1
  <2> QED
    BY <2>2, <2>3
<1>10. LatestRequestKept'
  <2> SUFFICES ASSUME NEW q \in Requests, Newest(q)'
               PROVE  Delivered(q)' \/ (row'[UserOf[q]].pending = q /\ (OnItsWay(q)' \/ q \in lost'))
    BY DEF LatestRequestKept
  <2>1. row \in [Users -> Row] /\ u \in Users /\ UserOf[q] \in Users
    BY HomeFeedAssumption DEF TypeOK
  <2>2. CASE UserOf[q] = u
    <3>1. q = r
      BY <1>4, <2>2
    <3>2. row'[u].pending = r
      BY <1>1, <2>1, StoredPending
    <3> QED
      BY <1>2, <3>1, <3>2 DEF OnItsWay
  <2>3. CASE UserOf[q] # u
    <3>1. Newest(q) /\ row'[UserOf[q]] = row[UserOf[q]]
      BY <1>1, <1>4, <2>1, <2>3
    <3>2. Delivered(q)' <=> Delivered(q)
      BY <1>1 DEF Delivered
    <3>3. OnItsWay(q) => OnItsWay(q)'
      BY <1>2, <1>3 DEF OnItsWay
    <3> QED
      BY <1>1, <3>1, <3>2, <3>3 DEF KeptInv, LatestRequestKept
  <2> QED
    BY <2>2, <2>3
<1> QED
  BY <1>6, <1>7, <1>8, <1>9, <1>10 DEF KeptInv

LEMMA CommitInlineKeepsKept ==
  ASSUME TypeOK, KeptInv, NEW r \in Requests, CommitInline(r)
  PROVE  KeptInv'
<1> DEFINE u == UserOf[r]
           l == [from |-> r, subs |-> req[r].subs]
<1>1. /\ UNCHANGED <<jobs, worker, lost>> /\ req[r].pc = "built"
      /\ row' = [row EXCEPT ![u] = SaveJob(Stored(r), l)]
      /\ asked' = [asked EXCEPT ![u] = Append(asked[u], r)]
      /\ published' = [published EXCEPT ![u] = Append(published[u], l)]
      /\ req' = [req EXCEPT ![r].pc = "done"]
  BY DEF CommitInline
<1>2. req'[r].pc = "done" /\ \A q \in Requests : q # r => req'[q] = req[q]
  <2>1. req \in [Requests -> Req] /\ req[r] \in Req
    BY DEF TypeOK
  <2>2. [req[r] EXCEPT !.pc = "done"].pc = "done"
    BY <2>1 DEF Req
  <2> QED
    BY <1>1, <2>1, <2>2
<1>3. \A s \in Servers : Held(s)' = Held(s)
  BY <1>1, SameJobsHeld
<1>4. \A q \in Requests : Newest(q)' <=> IF UserOf[q] = u THEN q = r ELSE Newest(q)
  BY <1>1, AskedMakesNewest
<1>5. \A s \in Servers : Held(s) \subseteq Requests /\ r \notin Held(s)
  BY <1>1, HeldAreRequests DEF KeptInv, HeldDone
<1>6. u \in Users /\ l \in List /\ l.from = r
  BY HomeFeedAssumption, SavedLists
<1> HIDE DEF l
<1>7. \A q \in Requests : Delivered(q) => Delivered(q)'
  BY <1>1, <1>6, AppendKeepsDelivered DEF TypeOK
<1>8. Delivered(r)'
  BY <1>1, <1>6, AppendKeepsDelivered DEF TypeOK
<1>9. HeldDone'
  BY <1>2, <1>3, <1>5 DEF KeptInv, HeldDone
<1>10. RepliesHere'
  BY <1>2 DEF KeptInv, RepliesHere
<1>11. OneReply'
  BY <1>2 DEF KeptInv, OneReply
<1>12. RepliesLater'
  <2> SUFFICES ASSUME NEW q \in Requests, NEW s \in Servers, req'[q].pc = "committed",
                      req'[q].srv = s, NEW x \in Held(s)', UserOf[x] = UserOf[q]
               PROVE  ~Newest(x)'
    BY DEF RepliesLater
  <2>1. x \in Held(s) /\ x \in Requests /\ x # r /\ q # r
    BY <1>2, <1>3, <1>5
  <2>2. ~Newest(x)
    BY <1>2, <2>1 DEF KeptInv, RepliesLater
  <2> QED
    BY <1>4, <2>1, <2>2
<1>13. LatestRequestKept'
  <2> SUFFICES ASSUME NEW q \in Requests, Newest(q)', q # r
               PROVE  Delivered(q)' \/ (row'[UserOf[q]].pending = q /\ (OnItsWay(q)' \/ q \in lost'))
    BY <1>8 DEF LatestRequestKept
  <2>1. Newest(q) /\ UserOf[q] # u
    BY <1>4
  <2>2. row'[UserOf[q]] = row[UserOf[q]]
    <3>1. UserOf[q] \in Users /\ row \in [Users -> Row]
      BY HomeFeedAssumption DEF TypeOK
    <3> QED
      BY <1>1, <2>1, <3>1
  <2>3. OnItsWay(q) => OnItsWay(q)'
    BY <1>2, <1>3 DEF OnItsWay
  <2> QED
    BY <1>1, <1>7, <2>1, <2>2, <2>3 DEF KeptInv, LatestRequestKept
<1> QED
  BY <1>9, <1>10, <1>11, <1>12, <1>13 DEF KeptInv

\* A job that is queued takes the place of one of its user at most.
LEMMA EnqueueHeld ==
  ASSUME TypeOK, NEW s \in Servers, NEW r \in Requests, UNCHANGED worker,
         jobs' = [jobs EXCEPT ![s] = Enqueue(jobs[s], r)]
  PROVE  /\ \A z \in Servers : z # s => Held(z)' = Held(z)
         /\ Held(s)' \subseteq Held(s) \cup {r} /\ r \in Held(s)'
         /\ \A x \in Held(s) : UserOf[x] # UserOf[r] => x \in Held(s)'
<1> DEFINE q == jobs[s]
           e == Enqueue(q, r)
<1>1. q \in Seq(Requests) /\ jobs \in [Servers -> Seq(Requests)]
  BY DEF TypeOK
<1>2. jobs'[s] = e /\ \A z \in Servers : z # s => jobs'[z] = jobs[z]
  BY <1>1
<1> HIDE DEF q, e
<1>3. /\ \A i \in DOMAIN e : e[i] = r \/ (i \in DOMAIN q /\ e[i] = q[i])
      /\ \E i \in DOMAIN e : e[i] = r
      /\ \A i \in DOMAIN q : UserOf[q[i]] # UserOf[r] => i \in DOMAIN e /\ e[i] = q[i]
  <2>1. CASE \E i \in DOMAIN q : UserOf[q[i]] = UserOf[r]
    <3>1. e = [i \in DOMAIN q |-> IF UserOf[q[i]] = UserOf[r] THEN r ELSE q[i]]
      BY <2>1 DEF Enqueue, e
    <3> QED
      BY <2>1, <3>1
  <2>2. CASE ~ \E i \in DOMAIN q : UserOf[q[i]] = UserOf[r]
    <3>1. e = Append(q, r)
      BY <2>2 DEF Enqueue, e
    <3>2. /\ DOMAIN Append(q, r) = 1 .. Len(q) + 1 /\ DOMAIN q = 1 .. Len(q) /\ Len(q) \in Nat
          /\ Append(q, r)[Len(q) + 1] = r
          /\ \A i \in 1 .. Len(q) : Append(q, r)[i] = q[i]
      BY <1>1
    <3>3. Len(q) + 1 \in DOMAIN e /\ e[Len(q) + 1] = r
      BY <3>1, <3>2
    <3> QED
      BY <3>1, <3>2, <3>3
  <2> QED
    BY <2>1, <2>2
<1>4. /\ Held(s) = {q[i] : i \in DOMAIN q} \cup ({worker[s].job} \ {None})
      /\ Held(s)' = {e[i] : i \in DOMAIN e} \cup ({worker[s].job} \ {None})
  BY <1>2 DEF Held, q
<1>5. \A z \in Servers : z # s => Held(z)' = Held(z)
  BY <1>2 DEF Held
<1>6. Held(s)' \subseteq Held(s) \cup {r} /\ r \in Held(s)'
  BY <1>3, <1>4
<1>7. \A x \in Held(s) : UserOf[x] # UserOf[r] => x \in Held(s)'
  BY <1>3, <1>4
<1> QED
  BY <1>5, <1>6, <1>7

\* A job that is queued takes the place of an older one only.
LEMMA SubmitKeepsKept ==
  ASSUME TypeOK, KeptInv, NEW r \in Requests, Submit(r)
  PROVE  KeptInv'
<1>1. PICK s \in Servers : req[r].srv = s
  BY DEF KeptInv, RepliesHere, Submit
<1>2. /\ UNCHANGED <<row, worker, asked, published, lost>> /\ req[r].pc = "committed"
      /\ jobs' = [jobs EXCEPT ![s] = Enqueue(jobs[s], r)]
      /\ req' = [req EXCEPT ![r].pc = "done"]
  BY <1>1 DEF Submit
<1>3. req'[r].pc = "done" /\ \A q \in Requests : q # r => req'[q] = req[q]
  <2>1. req \in [Requests -> Req] /\ req[r] \in Req
    BY DEF TypeOK
  <2>2. [req[r] EXCEPT !.pc = "done"].pc = "done"
    BY <2>1 DEF Req
  <2> QED
    BY <1>2, <2>1, <2>2
<1>4. /\ \A z \in Servers : z # s => Held(z)' = Held(z)
      /\ Held(s)' \subseteq Held(s) \cup {r} /\ r \in Held(s)'
      /\ \A x \in Held(s) : UserOf[x] # UserOf[r] => x \in Held(s)'
  BY <1>2, EnqueueHeld
<1>5. \A q : Newest(q)' <=> Newest(q)
  BY <1>2 DEF Newest
<1>6. \A z \in Servers : Held(z) \subseteq Requests
  BY HeldAreRequests
<1>7. HeldDone'
  <2> SUFFICES ASSUME NEW z \in Servers, NEW x \in Held(z)'
               PROVE  req'[x].pc = "done"
    BY DEF HeldDone
  <2>1. x = r \/ x \in Held(z)
    BY <1>4
  <2> QED
    BY <1>3, <1>6, <2>1 DEF KeptInv, HeldDone
<1>8. RepliesHere'
  BY <1>3 DEF KeptInv, RepliesHere
<1>9. OneReply'
  BY <1>3 DEF KeptInv, OneReply
<1>10. RepliesLater'
  <2> SUFFICES ASSUME NEW q \in Requests, NEW z \in Servers, req'[q].pc = "committed",
                      req'[q].srv = z, NEW x \in Held(z)', UserOf[x] = UserOf[q]
               PROVE  ~Newest(x)'
    BY DEF RepliesLater
  <2>1. q # r /\ req[q].pc = "committed" /\ req[q].srv = z
    BY <1>3
  <2>2. ~(z = s /\ x = r)
    BY <1>1, <1>2, <2>1 DEF KeptInv, OneReply
  <2>3. x \in Held(z)
    BY <1>4, <2>2
  <2> QED
    BY <1>5, <2>1, <2>3 DEF KeptInv, RepliesLater
<1>11. LatestRequestKept'
  <2> SUFFICES ASSUME NEW q \in Requests, Newest(q), ~Delivered(q)
               PROVE  row[UserOf[q]].pending = q /\ (OnItsWay(q)' \/ q \in lost)
    BY <1>2, <1>5 DEF LatestRequestKept, Delivered
  <2>1. row[UserOf[q]].pending = q /\ (OnItsWay(q) \/ q \in lost)
    BY DEF KeptInv, LatestRequestKept
  <2>2. CASE q = r
    BY <1>4, <2>1, <2>2 DEF OnItsWay
  <2>3. CASE req[q].pc = "committed" /\ q # r
    BY <1>3, <2>1, <2>3 DEF OnItsWay
  <2>4. ASSUME NEW z \in Servers, q \in Held(z), q # r
        PROVE  q \in Held(z)'
    <3>1. CASE z # s
      BY <1>4, <2>4, <3>1
    <3>2. CASE z = s
      <4>1. UserOf[q] # UserOf[r]
        BY <1>1, <1>2, <2>4, <3>2 DEF KeptInv, RepliesLater
      <4> QED
        BY <1>4, <2>4, <3>2, <4>1
    <3> QED
      BY <3>1, <3>2
  <2> QED
    BY <2>1, <2>2, <2>3, <2>4 DEF OnItsWay
<1> QED
  BY <1>7, <1>8, <1>9, <1>10, <1>11 DEF KeptInv

LEMMA NextKept ==
  ASSUME TypeOK, KeptInv, InOrderReplies, [Next]_vars
  PROVE  KeptInv'
<1>1. ASSUME NEW r \in Requests, RequestStep(r) \/ RequestFails(r)
      PROVE  KeptInv'
  BY <1>1, CommitKeepsKept, CommitInlineKeepsKept, SubmitKeepsKept, RequestKeeps, RequestFailsKeeps,
     KeepsKeptInv DEF RequestStep
<1>2. ASSUME NEW n \in Calls, RefreshStep(n) \/ RefreshFails(n)
      PROVE  KeptInv'
  BY <1>2, RefreshKeeps, KeepsKeptInv
<1>3. ASSUME NEW s \in Servers, WorkerStep(s)
      PROVE  KeptInv'
  BY <1>3, WorkerKeeps, SaveKeeps, KeepsKeptInv DEF WorkerStep
<1>4. ASSUME NEW s \in Servers, ServerStep(s)
      PROVE  KeptInv'
  BY <1>4, WorkerKeeps, JobFailsKeeps, StopKeeps, CrashKeeps, BeginKeeps, KeepsKeptInv
     DEF ServerStep
<1>5. CASE NextNight \/ UNCHANGED vars
  <2>1. UNCHANGED <<row, req, jobs, worker, asked, published, lost>>
    BY <1>5 DEF NextNight, vars
  <2> QED
    BY <2>1, SameJobsHeld, PlainKeeps, KeepsKeptInv DEF Plain
<1> QED
  BY <1>1, <1>2, <1>3, <1>4, <1>5 DEF Next

LEMMA InitKept == Init => KeptInv
<1> SUFFICES ASSUME Init PROVE KeptInv
  OBVIOUS
<1>1. \A s \in Servers : Held(s) = {}
  BY DEF Init, Held
<1>2. \A r \in Requests : req[r].pc = "new" /\ ~Newest(r)
  BY HomeFeedAssumption DEF Init, Newest
<1> QED
  BY <1>1, <1>2 DEF KeptInv, HeldDone, RepliesHere, OneReply, RepliesLater, LatestRequestKept

\* Provided that replies to COMMIT reach a server in the order of the commits (the run
\* late_reply shows that the code needs it): the newest request of a user either has its
\* list or keeps its token in the row, and then its job is on its way, or was dropped by a
\* failure or a stop; no older job, nightly rebuild or other server takes it away.
THEOREM NewestIsKept ==
  ASSUME InOrderReplies
  PROVE  Spec => []LatestRequestKept
<1>1. Init => FeedInv /\ KeptInv
  BY InitFeedInv, InitKept
<1>2. FeedInv /\ KeptInv /\ [Next]_vars => FeedInv' /\ KeptInv'
  BY NextFeedInv, NextKept DEF FeedInv
<1>3. KeptInv => LatestRequestKept
  BY DEF KeptInv
<1> QED
  BY <1>1, <1>2, <1>3, PTL DEF Spec

-----------------------------------------------------------------------------
(* HomeFeed implements FeedPromise.                                        *)

Waited == {"committed", "done", "failed"}

\* The user lock is held by one request or one refresh call at a time.
OneHolder ==
  /\ \A q, r \in Requests :
       req[q].pc \in InTransaction /\ req[r].pc \in InTransaction /\ UserOf[q] = UserOf[r] => q = r
  /\ \A m, n \in Calls :
       call[m].pc \in InTransaction /\ call[n].pc \in InTransaction /\ call[m].user = call[n].user
         => m = n
  /\ \A r \in Requests, n \in Calls :
       req[r].pc \in InTransaction /\ call[n].pc \in InTransaction => UserOf[r] # call[n].user

\* What a refresh call read under the lock is still what the row holds.
BaseIsCurrent ==
  \A n \in Calls : call[n].pc \in InTransaction => call[n].base = row[call[n].user].feed

\* Only requests that took effect are in the history of their user.
AskedTookEffect ==
  \A u \in Users : \A i \in DOMAIN asked[u] : req[asked[u][i]].pc \in Waited

\* A token in the row is the one of the newest request.
TokenIsNewest ==
  \A u \in Users : row[u].pending # None =>
    asked[u] # <<>> /\ row[u].pending = asked[u][Len(asked[u])]

\* The inductive invariant of the refinement.
PromiseInv == OneHolder /\ BaseIsCurrent /\ AskedTookEffect /\ TokenIsNewest

\* Nobody takes the lock, and no list changes under a refresh call that holds it.
LockKept ==
  /\ \A r \in Requests : req'[r].pc \in InTransaction => req[r].pc \in InTransaction
  /\ \A n \in Calls : call'[n].pc \in InTransaction =>
       /\ call[n].pc \in InTransaction
       /\ call'[n].user = call[n].user /\ call'[n].base = call[n].base
       /\ row'[call[n].user].feed = row[call[n].user].feed

LEMMA LockKeptHolder ==
  ASSUME OneHolder, BaseIsCurrent, LockKept
  PROVE  OneHolder' /\ BaseIsCurrent'
<1>1. OneHolder'
  BY DEF OneHolder, LockKept
<1>2. BaseIsCurrent'
  <2> SUFFICES ASSUME NEW n \in Calls, call'[n].pc \in InTransaction
               PROVE  call'[n].base = row'[call'[n].user].feed
    BY DEF BaseIsCurrent, InTransaction
  <2>1. /\ call[n].pc \in InTransaction
        /\ call'[n].user = call[n].user /\ call'[n].base = call[n].base
        /\ row'[call[n].user].feed = row[call[n].user].feed
    BY DEF LockKept
  <2>2. row'[call'[n].user].feed = row'[call[n].user].feed
    BY <2>1
  <2> QED
    BY <2>1, <2>2 DEF BaseIsCurrent
<1> QED
  BY <1>1, <1>2

\* The history grows no further and the token of a row is at most taken away.
TokenKept ==
  /\ asked' = asked
  /\ \A r \in Requests : req[r].pc \in Waited => req'[r].pc \in Waited
  /\ \A u \in Users : row'[u].pending \in {row[u].pending, None}

LEMMA TokenKeptNewest ==
  ASSUME TypeOK, AskedTookEffect, TokenIsNewest, TokenKept
  PROVE  AskedTookEffect' /\ TokenIsNewest'
<1>1. \A u \in Users : \A i \in DOMAIN asked[u] : asked[u][i] \in Requests
  BY DEF TypeOK
<1>2. AskedTookEffect'
  BY <1>1 DEF AskedTookEffect, TokenKept, Waited
<1>3. TokenIsNewest'
  BY DEF TokenIsNewest, TokenKept
<1> QED
  BY <1>2, <1>3

\* A step of a request moves that request only.
LEMMA RequestMovesAlone ==
  ASSUME TypeOK, NEW r \in Requests, RequestStep(r) \/ RequestFails(r)
  PROVE  \A q \in Requests : q # r => req'[q] = req[q]
  BY DEF TypeOK, RequestStep, RequestFails, Lock, Write, Commit, Submit, StartInline,
         CommitInline, FinishInline

\* Where a step of a request leads.
LEMMA RequestMovesTo ==
  ASSUME TypeOK, NEW r \in Requests
  PROVE  /\ Lock(r) => req'[r].pc = "locked"
         /\ Write(r) => req'[r].pc = "written"
         /\ Commit(r) => req'[r].pc = "committed"
         /\ Submit(r) => req'[r].pc = "done"
         /\ StartInline(r) => req'[r].pc = "building"
         /\ CommitInline(r) => req'[r].pc = "done"
         /\ \A S \in SUBSET Interests : FinishInline(r, S) => req'[r].pc = "built"
         /\ RequestFails(r) => req'[r].pc = "failed"
<1>1. req \in [Requests -> Req] /\ req[r] \in Req
  BY DEF TypeOK
<1>2. \A p : [req[r] EXCEPT !.pc = p].pc = p
  BY <1>1 DEF Req
<1>3. \A p, x : [req[r] EXCEPT !.pc = p, !.seen = x].pc = p
  BY <1>1 DEF Req
<1>4. \A p, x : [req[r] EXCEPT !.pc = p, !.subs = x].pc = p
  BY <1>1 DEF Req
<1>5. Lock(r) => req'[r].pc = "locked"
  BY <1>1, <1>3 DEF Lock
<1>6. \A S \in SUBSET Interests : FinishInline(r, S) => req'[r].pc = "built"
  BY <1>1, <1>4 DEF FinishInline
<1> QED
  BY <1>1, <1>2, <1>5, <1>6
     DEF Write, Commit, Submit, StartInline, CommitInline, RequestFails

LEMMA RequestKeepsLock ==
  ASSUME TypeOK, OneHolder, NEW r \in Requests, RequestStep(r) \/ RequestFails(r), ~Lock(r)
  PROVE  LockKept
<1>1. call' = call
  BY DEF RequestStep, RequestFails, Write, Commit, Submit, StartInline, CommitInline,
         FinishInline
<1>2. \A q \in Requests : req'[q].pc \in InTransaction => req[q].pc \in InTransaction
  <2>1. req'[r].pc \in InTransaction => req[r].pc \in InTransaction
    BY RequestMovesTo DEF RequestStep, RequestFails, Write, Commit, Submit, StartInline,
       CommitInline, FinishInline, InTransaction
  <2> QED
    BY <2>1, RequestMovesAlone
<1>3. ASSUME NEW n \in Calls, call[n].pc \in InTransaction
      PROVE  row'[call[n].user].feed = row[call[n].user].feed
  <2>1. CASE row' = row
    BY <2>1
  <2>2. CASE Commit(r)
    <3>1. UserOf[r] \in Users /\ row \in [Users -> Row] /\ row[UserOf[r]] \in Row
      BY HomeFeedAssumption DEF TypeOK
    <3>2. row' = [row EXCEPT ![UserOf[r]] = Stored(r)]
      BY <2>2 DEF Commit
    <3>3. Stored(r).feed = row[UserOf[r]].feed
      BY <3>1 DEF Stored, Mark, SaveProfile, Row
    <3> QED
      BY <3>1, <3>2, <3>3
  <2>3. CASE CommitInline(r)
    <3>1. call[n].user # UserOf[r]
      BY <1>3, <2>3 DEF OneHolder, CommitInline, InTransaction
    <3> QED
      BY <2>3, <3>1 DEF CommitInline, TypeOK
  <2> QED
    BY <2>1, <2>2, <2>3 DEF RequestStep, RequestFails, Write, Submit, StartInline,
       FinishInline
<1> QED
  BY <1>1, <1>2, <1>3 DEF LockKept

\* The lock goes to a request only when nobody holds it.
LEMMA LockTakesHolder ==
  ASSUME TypeOK, OneHolder, BaseIsCurrent, NEW r \in Requests, Lock(r)
  PROVE  OneHolder' /\ BaseIsCurrent'
<1>1. UNCHANGED <<call, row>> /\ LockFree(UserOf[r])
  BY DEF Lock
<1>2. \A q \in Requests : q # r => req'[q] = req[q]
  BY RequestMovesAlone DEF RequestStep
<1>3. \A q \in Requests : req'[q].pc \in InTransaction => q = r \/ req[q].pc \in InTransaction
  BY <1>2
<1>4. BaseIsCurrent'
  BY <1>1 DEF BaseIsCurrent
<1>5. OneHolder'
  BY <1>1, <1>2, <1>3 DEF OneHolder, LockFree
<1> QED
  BY <1>4, <1>5

LEMMA RequestKeepsToken ==
  ASSUME TypeOK, NEW r \in Requests, RequestStep(r) \/ RequestFails(r),
         ~Commit(r), ~CommitInline(r)
  PROVE  TokenKept
<1>1. UNCHANGED <<row, asked>>
  BY DEF RequestStep, RequestFails, Lock, Write, Submit, StartInline, FinishInline
<1>2. req[r].pc \in Waited => req'[r].pc \in Waited
  BY RequestMovesTo DEF RequestStep, RequestFails, Lock, Write, Submit, StartInline,
     FinishInline, Waited, InTransaction
<1> QED
  BY <1>1, <1>2, RequestMovesAlone DEF TokenKept

\* A request that takes effect: its token is the newest one, unless its list is there.
LEMMA AskedKeepsToken ==
  ASSUME TypeOK, AskedTookEffect, TokenIsNewest, NEW r \in Requests,
         Commit(r) \/ CommitInline(r)
  PROVE  AskedTookEffect' /\ TokenIsNewest'
<1> DEFINE u == UserOf[r]
<1>1. u \in Users /\ row \in [Users -> Row] /\ asked \in [Users -> Seq(Requests)]
  BY HomeFeedAssumption DEF TypeOK
<1>2. asked' = [asked EXCEPT ![u] = Append(asked[u], r)]
  BY DEF Commit, CommitInline
<1>3. row'[u].pending \in {r, None} /\ \A v \in Users : v # u => row'[v] = row[v]
  <2>1. [from |-> r, subs |-> req[r].subs] \in List
    BY SavedLists
  <2> QED
    BY <1>1, <2>1, StoredPending DEF Commit, CommitInline
<1> HIDE DEF u
<1>4. req'[r].pc \in Waited /\ \A q \in Requests : q # r => req'[q] = req[q]
  BY RequestMovesTo, RequestMovesAlone DEF RequestStep, Waited
<1>5. DOMAIN Append(asked[u], r) = 1 .. Len(asked[u]) + 1
      /\ Len(Append(asked[u], r)) = Len(asked[u]) + 1
      /\ DOMAIN asked[u] = 1 .. Len(asked[u]) /\ Len(asked[u]) \in Nat
      /\ Append(asked[u], r)[Len(asked[u]) + 1] = r
      /\ \A i \in 1 .. Len(asked[u]) : Append(asked[u], r)[i] = asked[u][i]
  <2>1. asked[u] \in Seq(Requests)
    BY <1>1
  <2> QED
    BY <2>1
<1>6. AskedTookEffect'
  <2> SUFFICES ASSUME NEW v \in Users, NEW i \in DOMAIN asked'[v]
               PROVE  req'[asked'[v][i]].pc \in Waited
    BY DEF AskedTookEffect, Waited
  <2>1. asked'[v][i] = r \/ (i \in DOMAIN asked[v] /\ asked'[v][i] = asked[v][i])
    <3>1. CASE v = u
      <4>1. asked'[v] = Append(asked[u], r)
        BY <1>1, <1>2, <3>1
      <4> QED
        BY <1>5, <3>1, <4>1
    <3>2. CASE v # u
      BY <1>1, <1>2, <3>2
    <3> QED
      BY <3>1, <3>2
  <2>2. \A j \in DOMAIN asked[v] : asked[v][j] \in Requests
    BY <1>1
  <2> QED
    BY <1>4, <2>1, <2>2 DEF AskedTookEffect
<1>7. TokenIsNewest'
  <2> SUFFICES ASSUME NEW v \in Users, row'[v].pending # None
               PROVE  asked'[v] # <<>> /\ row'[v].pending = asked'[v][Len(asked'[v])]
    BY DEF TokenIsNewest
  <2>1. CASE v = u
    <3>1. asked'[v] = Append(asked[u], r) /\ row'[v].pending = r
      BY <1>1, <1>2, <1>3, <2>1
    <3>2. Append(asked[u], r) # <<>>
      <4>1. Len(Append(asked[u], r)) # Len(<<>>)
        BY <1>5
      <4> QED
        BY <4>1
    <3> QED
      BY <1>5, <3>1, <3>2
  <2>2. CASE v # u
    BY <1>1, <1>2, <1>3, <2>2 DEF TokenIsNewest
  <2> QED
    BY <2>1, <2>2
<1> QED
  BY <1>6, <1>7

LEMMA SaveKeepsPromise ==
  ASSUME TypeOK, NEW s \in Servers, SaveBuilt(s)
  PROVE  LockKept /\ TokenKept
<1> DEFINE q == worker[s].job
           u == UserOf[q]
           l == [from |-> q, subs |-> worker[s].subs]
<1>1. u \in Users /\ l \in List /\ row \in [Users -> Row]
  BY SavedLists DEF SaveBuilt, TypeOK
<1>2. UNCHANGED <<req, call, asked>> /\ LockFree(u)
  BY DEF SaveBuilt
<1>3. row' = row \/ row' = [row EXCEPT ![u] = SaveJob(row[u], l)]
  BY DEF SaveBuilt
<1>4. SaveJob(row[u], l).pending = None
  <2>1. Publish(row[u], l) \in Row
    BY <1>1, PublishKeepsRow
  <2> QED
    BY <2>1 DEF SaveJob, Row
<1> HIDE DEF q, u, l
<1>5. \A n \in Calls : call[n].pc \in InTransaction => row'[call[n].user] = row[call[n].user]
  <2>1. \A n \in Calls : call[n].pc \in InTransaction => call[n].user \in Users
    BY DEF TypeOK, InTransaction, FreeCall, ClaimedCall, LockedCall
  <2> QED
    BY <1>1, <1>2, <1>3, <2>1 DEF LockFree
<1>6. \A v \in Users : row'[v].pending \in {row[v].pending, None}
  BY <1>1, <1>3, <1>4
<1> QED
  BY <1>2, <1>5, <1>6 DEF LockKept, TokenKept

\* What the other steps of a worker and of a server leave alone.
LEMMA OthersKeepPromise ==
  ASSUME TypeOK, NEW s \in Servers,
         \/ WorkerStep(s) /\ ~SaveBuilt(s)
         \/ ServerStep(s)
  PROVE  LockKept /\ TokenKept
<1>1. UNCHANGED <<row, asked>>
  BY DEF WorkerStep, Wake, Take, Rest, StartJob, FinishJob, ServerStep, Stop, Crash, Start,
         JobFails, Begin, RefreshBegin
<1>2. CASE UNCHANGED <<req, call>>
  BY <1>1, <1>2 DEF LockKept, TokenKept
<1>3. CASE Crash(s)
  <2>1. \A r \in Requests : req'[r].pc \in {req[r].pc, "failed"}
    <3>1. \A r \in Requests : [req[r] EXCEPT !.pc = "failed"].pc = "failed"
      BY DEF TypeOK, Req
    <3> QED
      BY <1>3, <3>1 DEF Crash
  <2>2. \A n \in Calls : call'[n] = call[n] \/ call'[n] = CallOver(n)
    BY <1>3 DEF Crash
  <2>3. \A n \in Calls : CallOver(n).pc \notin InTransaction
    BY CallOverType DEF FreeCall, InTransaction
  <2>4. \A r \in Requests : req[r].pc \in Waited => req'[r].pc \in Waited
    BY <2>1 DEF Waited
  <2>5. \A r \in Requests : req'[r].pc \in InTransaction => req[r].pc \in InTransaction
    BY <2>1 DEF InTransaction
  <2>6. \A n \in Calls : call'[n].pc \in InTransaction => call'[n] = call[n]
    BY <2>2, <2>3
  <2> QED
    BY <1>1, <2>4, <2>5, <2>6 DEF LockKept, TokenKept
<1>4. ASSUME NEW r \in Requests, Begin(r, s)
      PROVE  LockKept /\ TokenKept
  <2>1. req \in [Requests -> Req] /\ req[r].pc = "new" /\ req[r] \in Req /\ call' = call
    BY <1>4 DEF TypeOK, Begin
  <2>2. req' = [req EXCEPT ![r] = [req[r] EXCEPT !.pc = "waiting", !.srv = s]]
    BY <1>4, <2>1 DEF Begin
  <2>3. [req[r] EXCEPT !.pc = "waiting", !.srv = s].pc = "waiting"
    BY <2>1 DEF Req
  <2>4. req'[r].pc = "waiting" /\ \A q \in Requests : q # r => req'[q] = req[q]
    BY <2>1, <2>2, <2>3
  <2>5. \A q \in Requests : req'[q].pc \in InTransaction => req[q].pc \in InTransaction
    BY <2>4 DEF InTransaction
  <2>6. \A q \in Requests : req[q].pc \in Waited => req'[q].pc \in Waited
    BY <2>1, <2>4 DEF Waited
  <2> QED
    BY <1>1, <2>1, <2>5, <2>6 DEF LockKept, TokenKept
<1>5. ASSUME NEW n \in Calls, RefreshBegin(n, s)
      PROVE  LockKept /\ TokenKept
  <2>1. call[n] \in FreeCall /\ req' = req
    BY <1>5 DEF TypeOK, RefreshBegin, FreeCall, ClaimedCall, LockedCall
  <2>2. [call[n] EXCEPT !.pc = "loop", !.srv = s, !.night = night].pc = "loop"
    BY <2>1 DEF FreeCall
  <2>3. call'[n].pc = "loop" /\ \A m \in Calls : m # n => call'[m] = call[m]
    BY <1>5, <2>2 DEF TypeOK, RefreshBegin
  <2>4. \A m \in Calls : call'[m].pc \in InTransaction => call'[m] = call[m]
    BY <2>3 DEF InTransaction
  <2> QED
    BY <1>1, <2>1, <2>4 DEF LockKept, TokenKept
<1> QED
  BY <1>2, <1>3, <1>4, <1>5
     DEF WorkerStep, Wake, Take, Rest, StartJob, FinishJob, ServerStep, Stop, Start, JobFails

\* A nightly call moves alone.
LEMMA RefreshMovesAlone ==
  ASSUME TypeOK, NEW n \in Calls, RefreshStep(n) \/ RefreshFails(n)
  PROVE  /\ UNCHANGED <<req, asked>>
         /\ \A m \in Calls : m # n => call'[m] = call[m]
<1>1. call \in [Calls -> FreeCall \cup ClaimedCall \cup LockedCall]
  BY DEF TypeOK
<1> QED
  BY <1>1 DEF RefreshStep, RefreshFails, RefreshLock, RefreshBuild, RefreshBuilt, RefreshSave,
              RefreshEnd, Claim

\* Where a step of a nightly call leads.
LEMMA RefreshMovesTo ==
  ASSUME TypeOK, NEW n \in Calls
  PROVE  /\ \A u \in Users : Claim(n, u) => call'[n].pc = "claimed"
         /\ RefreshLock(n) =>
              /\ call'[n].pc = "locked" /\ call'[n].user = call[n].user
              /\ call'[n].base = row[call[n].user].feed
         /\ RefreshBuild(n) \/ (\E S \in SUBSET Interests : RefreshBuilt(n, S)) =>
              /\ call[n].pc \in InTransaction
              /\ call'[n].user = call[n].user /\ call'[n].base = call[n].base
         /\ RefreshSave(n) => call'[n].pc = "loop"
         /\ RefreshEnd(n) \/ RefreshFails(n) => call'[n].pc = "done"
<1>1. /\ call \in [Calls -> FreeCall \cup ClaimedCall \cup LockedCall]
      /\ call[n] \in FreeCall \cup ClaimedCall \cup LockedCall
  BY DEF TypeOK
<1>2. /\ \A p, u : [call[n] EXCEPT !.pc = p, !.user = u].pc = p
      /\ \A p, b : /\ [call[n] EXCEPT !.pc = p, !.base = b].pc = p
                   /\ [call[n] EXCEPT !.pc = p, !.base = b].user = call[n].user
                   /\ [call[n] EXCEPT !.pc = p, !.base = b].base = b
      /\ \A p : /\ [call[n] EXCEPT !.pc = p].user = call[n].user
                /\ [call[n] EXCEPT !.pc = p].base = call[n].base
      /\ \A p, S : /\ [call[n] EXCEPT !.pc = p, !.subs = S].user = call[n].user
                   /\ [call[n] EXCEPT !.pc = p, !.subs = S].base = call[n].base
      /\ \A p, u, b, S : [call[n] EXCEPT !.pc = p, !.user = u, !.base = b, !.subs = S].pc = p
  BY <1>1 DEF FreeCall, ClaimedCall, LockedCall
<1>3. \A u \in Users : Claim(n, u) => call'[n].pc = "claimed"
  <2> SUFFICES ASSUME NEW u \in Users, Claim(n, u) PROVE call'[n].pc = "claimed"
    OBVIOUS
  <2>1. call'[n] = [call[n] EXCEPT !.pc = "claimed", !.user = u]
    BY <1>1 DEF Claim
  <2> QED
    BY <1>2, <2>1
<1>4. ASSUME RefreshLock(n)
      PROVE  /\ call'[n].pc = "locked" /\ call'[n].user = call[n].user
             /\ call'[n].base = row[call[n].user].feed
  <2>1. call'[n] = [call[n] EXCEPT !.pc = "locked", !.base = row[call[n].user].feed]
    BY <1>1, <1>4 DEF RefreshLock
  <2> QED
    BY <1>2, <2>1
<1>5. ASSUME RefreshBuild(n)
      PROVE  /\ call[n].pc \in InTransaction
             /\ call'[n].user = call[n].user /\ call'[n].base = call[n].base
  <2>1. call'[n] = [call[n] EXCEPT !.pc = "building"]
    BY <1>1, <1>5 DEF RefreshBuild
  <2> QED
    BY <1>2, <1>5, <2>1 DEF RefreshBuild, InTransaction
<1>6. ASSUME NEW S \in SUBSET Interests, RefreshBuilt(n, S)
      PROVE  /\ call[n].pc \in InTransaction
             /\ call'[n].user = call[n].user /\ call'[n].base = call[n].base
  <2>1. call'[n] = [call[n] EXCEPT !.pc = "built", !.subs = S]
    BY <1>1, <1>6 DEF RefreshBuilt
  <2>2. call[n].pc \in InTransaction
    BY <1>6 DEF RefreshBuilt, InTransaction
  <2>3. call'[n].user = call[n].user /\ call'[n].base = call[n].base
    BY <1>2, <2>1
  <2> QED
    BY <2>2, <2>3
<1>7. ASSUME RefreshSave(n)
      PROVE  call'[n].pc = "loop"
  <2>1. call'[n] = [call[n] EXCEPT !.pc = "loop", !.user = None, !.base = None, !.subs = {}]
    BY <1>1, <1>7 DEF RefreshSave
  <2> QED
    BY <1>2, <2>1
<1>8. ASSUME RefreshEnd(n) \/ RefreshFails(n)
      PROVE  call'[n].pc = "done"
  <2>1. call'[n] = CallOver(n)
    BY <1>1, <1>8 DEF RefreshEnd, RefreshFails
  <2> QED
    BY <1>2, <2>1 DEF CallOver
<1> QED
  BY <1>3, <1>4, <1>5, <1>6, <1>7, <1>8

LEMMA RefreshKeepsPromise ==
  ASSUME TypeOK, PromiseInv, NEW n \in Calls, RefreshStep(n) \/ RefreshFails(n)
  PROVE  OneHolder' /\ BaseIsCurrent' /\ TokenKept
<1>1. /\ UNCHANGED <<req, asked>>
      /\ \A m \in Calls : m # n => call'[m] = call[m]
  BY RefreshMovesAlone
<1>2. row \in [Users -> Row] /\ OneHolder /\ BaseIsCurrent
  BY DEF TypeOK, PromiseInv
<1>3. \A m \in Calls : call[m].pc \in InTransaction => call[m].user \in Users
  BY DEF TypeOK, InTransaction, FreeCall, ClaimedCall, LockedCall
<1>4. CASE RefreshLock(n)
  <2>1. row' = row /\ LockFree(call[n].user)
    BY <1>4 DEF RefreshLock
  <2>2. /\ call'[n].user = call[n].user /\ call'[n].base = row[call[n].user].feed
    BY <1>4, RefreshMovesTo
  <2>3. OneHolder'
    BY <1>1, <1>2, <2>1, <2>2 DEF OneHolder, LockFree
  <2>4. BaseIsCurrent'
    <3> SUFFICES ASSUME NEW m \in Calls, call'[m].pc \in InTransaction
                 PROVE  call'[m].base = row[call'[m].user].feed
      BY <2>1 DEF BaseIsCurrent, InTransaction
    <3> QED
      BY <1>1, <1>2, <2>2 DEF BaseIsCurrent
  <2> QED
    BY <1>1, <2>1, <2>3, <2>4 DEF TokenKept
<1>5. ASSUME NEW u \in Users, Claim(n, u)
      PROVE  LockKept /\ TokenKept
  <2>1. row' = [row EXCEPT ![u] = [row[u] EXCEPT !.retried = call[n].night]]
    BY <1>5 DEF Claim
  <2>2. \A x : /\ [row[u] EXCEPT !.retried = x].feed = row[u].feed
              /\ [row[u] EXCEPT !.retried = x].pending = row[u].pending
    BY <1>2 DEF Row
  <2>3. \A v \in Users : row'[v].feed = row[v].feed /\ row'[v].pending = row[v].pending
    BY <1>2, <2>1, <2>2
  <2>4. call'[n].pc = "claimed"
    BY <1>5, RefreshMovesTo
  <2>5. \A m \in Calls : call'[m].pc \in InTransaction => m # n
    BY <2>4 DEF InTransaction
  <2> QED
    BY <1>1, <1>3, <2>3, <2>5 DEF LockKept, TokenKept
<1>6. CASE RefreshSave(n)
  <2> DEFINE u == call[n].user
             l == [from |-> call[n].base.from, subs |-> call[n].subs]
             f == SaveRefresh(row[u], l, call[n].night)
  <2>1. row' = row \/ row' = [row EXCEPT ![u] = f]
    BY <1>6 DEF RefreshSave
  <2>2. call[n].pc \in InTransaction /\ u \in Users
    BY <1>3, <1>6 DEF RefreshSave, InTransaction
  <2>3. f.pending = row[u].pending
    <3>1. row[u] \in Row
      BY <1>2, <2>2
    <3> QED
      BY <3>1 DEF SaveRefresh, Publish, Row
  <2>4. \A m \in Calls : m # n /\ call[m].pc \in InTransaction => call[m].user # u
    BY <1>2, <2>2 DEF OneHolder
  <2> HIDE DEF u, f
  <2>5. call'[n].pc = "loop"
    BY <1>6, RefreshMovesTo
  <2>6. \A m \in Calls : call'[m].pc \in InTransaction =>
          /\ call'[m] = call[m] /\ call[m].pc \in InTransaction
          /\ row'[call[m].user].feed = row[call[m].user].feed
    <3> SUFFICES ASSUME NEW m \in Calls, call'[m].pc \in InTransaction
                 PROVE  /\ call'[m] = call[m] /\ call[m].pc \in InTransaction
                        /\ row'[call[m].user].feed = row[call[m].user].feed
      OBVIOUS
    <3>1. m # n
      BY <2>5 DEF InTransaction
    <3>2. call'[m] = call[m] /\ call[m].user # u /\ call[m].user \in Users
      BY <1>1, <1>3, <2>4, <3>1
    <3> QED
      BY <1>2, <2>1, <2>2, <3>2
  <2>7. \A v \in Users : row'[v].pending = row[v].pending
    BY <1>2, <2>1, <2>2, <2>3
  <2> QED
    BY <1>1, <1>2, <2>6, <2>7, LockKeptHolder DEF LockKept, TokenKept
<1>7. CASE RefreshBuild(n) \/ \E S \in SUBSET Interests : RefreshBuilt(n, S)
  <2>1. row' = row
    BY <1>7 DEF RefreshBuild, RefreshBuilt
  <2>2. /\ call[n].pc \in InTransaction
        /\ call'[n].user = call[n].user /\ call'[n].base = call[n].base
    BY <1>7, RefreshMovesTo
  <2>3. LockKept
    BY <1>1, <2>1, <2>2 DEF LockKept
  <2> QED
    BY <1>1, <1>2, <2>1, <2>3, LockKeptHolder DEF TokenKept
<1>8. CASE RefreshEnd(n) \/ RefreshFails(n)
  <2>1. row' = row
    BY <1>8 DEF RefreshEnd, RefreshFails
  <2>2. call'[n].pc = "done"
    BY <1>8, RefreshMovesTo
  <2>3. LockKept
    BY <1>1, <2>1, <2>2 DEF LockKept, InTransaction
  <2> QED
    BY <1>1, <1>2, <2>1, <2>3, LockKeptHolder DEF TokenKept
<1> QED
  BY <1>2, <1>4, <1>5, <1>6, <1>7, <1>8, LockKeptHolder DEF RefreshStep

LEMMA NextPromiseInv ==
  ASSUME TypeOK, PromiseInv, [Next]_vars
  PROVE  PromiseInv'
<1>1. ASSUME NEW r \in Requests, RequestStep(r) \/ RequestFails(r)
      PROVE  PromiseInv'
  <2>1. OneHolder' /\ BaseIsCurrent'
    BY <1>1, RequestKeepsLock, LockKeptHolder, LockTakesHolder DEF PromiseInv
  <2>2. AskedTookEffect' /\ TokenIsNewest'
    BY <1>1, RequestKeepsToken, TokenKeptNewest, AskedKeepsToken DEF PromiseInv
  <2> QED
    BY <2>1, <2>2 DEF PromiseInv
<1>2. ASSUME NEW n \in Calls, RefreshStep(n) \/ RefreshFails(n)
      PROVE  PromiseInv'
  BY <1>2, RefreshKeepsPromise, TokenKeptNewest DEF PromiseInv
<1>3. ASSUME NEW s \in Servers, WorkerStep(s) \/ ServerStep(s)
      PROVE  PromiseInv'
  BY <1>3, SaveKeepsPromise, OthersKeepPromise, LockKeptHolder, TokenKeptNewest DEF PromiseInv
<1>4. CASE NextNight \/ UNCHANGED vars
  <2>1. UNCHANGED <<row, req, call, asked>>
    BY <1>4 DEF NextNight, vars
  <2>2. LockKept /\ TokenKept
    BY <2>1 DEF LockKept, TokenKept
  <2> QED
    BY <2>2, LockKeptHolder, TokenKeptNewest DEF PromiseInv
<1> QED
  BY <1>1, <1>2, <1>3, <1>4 DEF Next

LEMMA InitPromiseInv == Init => PromiseInv
  BY DEF Init, PromiseInv, OneHolder, BaseIsCurrent, AskedTookEffect, TokenIsNewest,
         InTransaction

Owed == [u \in Users |-> row[u].pending # None]

\* A step that saves no list, adds no request and takes no token away is none of
\* FeedPromise's.
LEMMA PromiseStutters ==
  ASSUME UNCHANGED <<asked, published>>,
         \A u \in Users : row'[u].pending = row[u].pending
  PROVE  UNCHANGED Promise!pvars
<1>1. Owed' = Owed
  BY DEF Owed
<1> QED
  BY <1>1 DEF Promise!pvars, Owed

\* One row changes its token.
LEMMA OwedChanges ==
  ASSUME TypeOK, NEW u \in Users, NEW f, row' = [row EXCEPT ![u] = f]
  PROVE  Owed' = [Owed EXCEPT ![u] = (f.pending # None)]
  BY DEF Owed, TypeOK

\* A request that takes effect is new to the history of its user.
LEMMA TakesEffectOnce ==
  ASSUME TypeOK, AskedTookEffect, NEW r \in Requests, req[r].pc \notin Waited
  PROVE  UserOf[r] \in Users /\ Promise!New(UserOf[r], r)
<1>1. UserOf[r] \in Users
  BY HomeFeedAssumption
<1> QED
  BY <1>1 DEF AskedTookEffect, Promise!New

\* The steps of FeedPromise that carry substitutes.
LEMMA PromiseSteps ==
  \A u \in Users : \A S \in SUBSET Interests :
    /\ Promise!Deliver(u, S) => Promise!PNext
    /\ Promise!Improve(u, S) => Promise!PNext
    /\ \A r \in Requests : Promise!Answer(u, r, S) => Promise!PNext
<1> TAKE u \in Users
<1> TAKE S \in SUBSET Interests
<1>1. ASSUME Promise!Deliver(u, S) \/ Promise!Improve(u, S)
      PROVE  Promise!PNext
  <2>1. \E X \in SUBSET Interests : Promise!Deliver(u, X) \/ Promise!Improve(u, X)
    BY <1>1
  <2> QED
    BY <2>1 DEF Promise!PNext
<1>2. ASSUME NEW r \in Requests, Promise!Answer(u, r, S)
      PROVE  Promise!PNext
  <2>1. \E q \in Requests, X \in SUBSET Interests : Promise!Answer(u, q, X)
    BY <1>2
  <2> QED
    BY <2>1 DEF Promise!PNext
<1> QED
  BY <1>1, <1>2

LEMMA CommitIsAsk ==
  ASSUME TypeOK, AskedTookEffect, NEW r \in Requests, Commit(r)
  PROVE  Promise!PNext
<1> DEFINE u == UserOf[r]
<1>1. u \in Users /\ Promise!New(u, r)
  BY TakesEffectOnce DEF Commit, Waited
<1>2. row' = [row EXCEPT ![u] = Stored(r)] /\ Stored(r).pending # None
  BY StoredPending, HomeFeedAssumption DEF Commit
<1>3. Owed' = [Owed EXCEPT ![u] = TRUE]
  <2>1. Owed' = [Owed EXCEPT ![u] = (Stored(r).pending # None)]
    BY <1>1, <1>2, OwedChanges
  <2> QED
    BY <1>2, <2>1
<1>4. asked' = [asked EXCEPT ![u] = Append(asked[u], r)] /\ published' = published
  BY DEF Commit
<1>5. Promise!Ask(u, r)
  BY <1>1, <1>3, <1>4 DEF Promise!Ask, Owed
<1> QED
  BY <1>1, <1>5 DEF Promise!PNext

LEMMA CommitInlineIsAnswer ==
  ASSUME TypeOK, AskedTookEffect, NEW r \in Requests, CommitInline(r)
  PROVE  Promise!PNext
<1>1. req[r].subs \in SUBSET Interests
  BY DEF TypeOK, Req
<1>2. PICK S \in SUBSET Interests : S = req[r].subs
  BY <1>1
<1> DEFINE u == UserOf[r]
           l == [from |-> r, subs |-> S]
<1>3. u \in Users /\ Promise!New(u, r)
  BY TakesEffectOnce DEF CommitInline, Waited
<1>4. row' = [row EXCEPT ![u] = SaveJob(Stored(r), l)] /\ SaveJob(Stored(r), l).pending = None
  BY <1>2, StoredPending, SavedLists DEF CommitInline
<1>5. Owed' = [Owed EXCEPT ![u] = FALSE]
  <2>1. Owed' = [Owed EXCEPT ![u] = (SaveJob(Stored(r), l).pending # None)]
    BY <1>3, <1>4, OwedChanges
  <2> QED
    BY <1>4, <2>1
<1>6. /\ asked' = [asked EXCEPT ![u] = Append(asked[u], r)]
      /\ published' = [published EXCEPT ![u] = Append(published[u], l)]
  BY <1>2 DEF CommitInline
<1>7. Promise!Answer(u, r, S)
  BY <1>3, <1>5, <1>6 DEF Promise!Answer, Promise!Save, Owed
<1> QED
  BY <1>3, <1>7, PromiseSteps

\* A worker saves the list of the newest request, or none.
LEMMA SaveIsDeliver ==
  ASSUME TypeOK, TokenIsNewest, NEW s \in Servers, SaveBuilt(s)
  PROVE  Promise!PNext \/ UNCHANGED Promise!pvars
<1>1. worker[s].job \in Requests /\ worker[s].subs \in SUBSET Interests
  <2>1. worker[s].pc = "built"
    BY DEF SaveBuilt
  <2>2. worker[s] \in BusyWorker
    BY <2>1 DEF TypeOK, IdleWorker
  <2> QED
    BY <2>2 DEF BusyWorker
<1>2. PICK r \in Requests, S \in SUBSET Interests : r = worker[s].job /\ S = worker[s].subs
  BY <1>1
<1> DEFINE u == UserOf[r]
           l == [from |-> r, subs |-> S]
<1>3. u \in Users /\ l \in List /\ asked' = asked
  BY HomeFeedAssumption DEF List, SaveBuilt
<1>4. CASE TokenStands(r)
  <2>1. /\ row' = [row EXCEPT ![u] = SaveJob(row[u], l)]
        /\ published' = [published EXCEPT ![u] = Append(published[u], l)]
    BY <1>2, <1>4 DEF SaveBuilt
  <2>2. SaveJob(row[u], l).pending = None
    <3>1. Publish(row[u], l) \in Row
      BY <1>3, PublishKeepsRow DEF TypeOK
    <3> QED
      BY <3>1 DEF SaveJob, Row
  <2>3. Owed' = [Owed EXCEPT ![u] = FALSE]
    <3>1. Owed' = [Owed EXCEPT ![u] = (SaveJob(row[u], l).pending # None)]
      BY <1>3, <2>1, OwedChanges
    <3> QED
      BY <2>2, <3>1
  <2>4. row[u].pending = r /\ r # None
    BY <1>4, HomeFeedAssumption DEF TokenStands
  <2>5. Owed[u] /\ Promise!Latest(u) = r
    BY <1>3, <2>4 DEF TokenIsNewest, Owed, Promise!Latest
  <2>6. Promise!Deliver(u, S)
    BY <1>3, <2>1, <2>3, <2>5 DEF Promise!Deliver, Promise!Save, Owed
  <2> QED
    BY <1>3, <2>6, PromiseSteps
<1>5. CASE ~TokenStands(r)
  <2>1. UNCHANGED <<row, published>>
    BY <1>2, <1>5 DEF SaveBuilt
  <2> QED
    BY <1>3, <2>1, PromiseStutters
<1> QED
  BY <1>4, <1>5

\* The nightly rebuild improves the list that is there.
LEMMA RefreshIsImprove ==
  ASSUME TypeOK, Pages, BaseIsCurrent, NEW n \in Calls, RefreshSave(n)
  PROVE  Promise!PNext \/ UNCHANGED Promise!pvars
<1>1. asked' = asked /\ call[n].pc = "built"
  BY DEF RefreshSave
<1>2. /\ call[n].user \in Users /\ call[n].base \in List /\ call[n].subs \in SUBSET Interests
      /\ call[n].base = row[call[n].user].feed
  <2>1. call[n] \in LockedCall
    BY <1>1 DEF TypeOK, FreeCall, ClaimedCall
  <2> QED
    BY <1>1, <2>1 DEF LockedCall, BaseIsCurrent, InTransaction
<1>3. PICK u \in Users, S \in SUBSET Interests : u = call[n].user /\ S = call[n].subs
  BY <1>2
<1> DEFINE base == call[n].base
           l == [from |-> base.from, subs |-> S]
           f == SaveRefresh(row[u], l, call[n].night)
<1>4. CASE Improves(S, base)
  <2>1. /\ row' = [row EXCEPT ![u] = f]
        /\ published' = [published EXCEPT ![u] = Append(published[u], l)]
    BY <1>3, <1>4 DEF RefreshSave
  <2>2. f.pending = row[u].pending
    <3>1. row[u] \in Row
      BY DEF TypeOK
    <3> QED
      BY <3>1 DEF SaveRefresh, Publish, Row
  <2>3. Owed' = Owed
    <3>1. Owed' = [Owed EXCEPT ![u] = (f.pending # None)]
      BY <2>1, OwedChanges
    <3>2. Owed' = [Owed EXCEPT ![u] = Owed[u]]
      BY <2>2, <3>1 DEF Owed
    <3> QED
      BY <3>2 DEF Owed
  <2>4. published[u] # <<>> /\ published[u][Len(published[u])] = base
    <3>1. row[u].feed = base /\ base # None /\ Paged(row[u], published[u])
      BY <1>2, <1>3, HomeFeedAssumption DEF Pages
    <3> QED
      BY <3>1 DEF Paged
  <2>5. S \subseteq base.subs /\ S # base.subs
    BY <1>4 DEF Improves
  <2> HIDE DEF base
  <2>6. Promise!Improve(u, S)
    BY <1>1, <2>1, <2>3, <2>4, <2>5 DEF Promise!Improve, Promise!Save, Owed
  <2> QED
    BY <2>6, PromiseSteps
<1>5. CASE ~Improves(S, base)
  <2>1. UNCHANGED <<row, published>>
    BY <1>3, <1>5 DEF RefreshSave
  <2> QED
    BY <1>1, <2>1, PromiseStutters
<1> QED
  BY <1>4, <1>5

LEMMA StepKeepsPromise ==
  ASSUME FeedInv, PromiseInv, [Next]_vars
  PROVE  [Promise!PNext]_(Promise!pvars)
<1>1. TypeOK /\ Pages /\ BaseIsCurrent /\ AskedTookEffect /\ TokenIsNewest
  BY DEF FeedInv, PromiseInv
<1>2. ASSUME NEW r \in Requests, RequestStep(r) \/ RequestFails(r)
      PROVE  Promise!PNext \/ UNCHANGED Promise!pvars
  <2>1. CASE Commit(r)
    BY <1>1, <2>1, CommitIsAsk
  <2>2. CASE CommitInline(r)
    BY <1>1, <2>2, CommitInlineIsAnswer
  <2>3. CASE UNCHANGED <<row, asked, published>>
    BY <2>3, PromiseStutters
  <2> QED
    BY <1>2, <2>1, <2>2, <2>3
       DEF RequestStep, RequestFails, Lock, Write, Submit, StartInline, FinishInline
<1>3. ASSUME NEW n \in Calls, RefreshStep(n) \/ RefreshFails(n)
      PROVE  Promise!PNext \/ UNCHANGED Promise!pvars
  <2>1. CASE RefreshSave(n)
    BY <1>1, <2>1, RefreshIsImprove
  <2>2. ASSUME NEW u \in Users, Claim(n, u)
        PROVE  UNCHANGED Promise!pvars
    <3>1. row' = [row EXCEPT ![u] = [row[u] EXCEPT !.retried = call[n].night]]
      BY <2>2 DEF Claim
    <3>2. \A x : [row[u] EXCEPT !.retried = x].pending = row[u].pending
      BY <1>1 DEF TypeOK, Row
    <3>3. \A v \in Users : row'[v].pending = row[v].pending
      BY <1>1, <3>1, <3>2 DEF TypeOK
    <3> QED
      BY <2>2, <3>3, PromiseStutters DEF Claim
  <2>3. CASE UNCHANGED <<row, asked, published>>
    BY <2>3, PromiseStutters
  <2> QED
    BY <1>3, <2>1, <2>2, <2>3
       DEF RefreshStep, RefreshFails, RefreshLock, RefreshBuild, RefreshBuilt, RefreshEnd
<1>4. ASSUME NEW s \in Servers, WorkerStep(s) \/ ServerStep(s)
      PROVE  Promise!PNext \/ UNCHANGED Promise!pvars
  <2>1. CASE SaveBuilt(s)
    BY <1>1, <2>1, SaveIsDeliver
  <2>2. CASE UNCHANGED <<row, asked, published>>
    BY <2>2, PromiseStutters
  <2> QED
    BY <1>4, <2>1, <2>2
       DEF WorkerStep, Wake, Take, Rest, StartJob, FinishJob, ServerStep, Stop, Crash, Start,
           JobFails, Begin, RefreshBegin
<1>5. CASE NextNight \/ UNCHANGED vars
  BY <1>5, PromiseStutters DEF NextNight, vars
<1> QED
  BY <1>2, <1>3, <1>4, <1>5 DEF Next

\* Every behaviour of the requests, queues, workers and nightly rebuilds is one that
\* FeedPromise allows: lists only ever follow from the newest request that took effect, once,
\* or improve the last list, and a nightly rebuild takes no list away that is still owed.
THEOREM ImplementsFeedPromise == Spec => ImplementsPromise
<1>1. Init => FeedInv /\ PromiseInv /\ Promise!PInit
  <2>1. Init => Promise!PInit
    <3> SUFFICES ASSUME Init PROVE Promise!PInit
      OBVIOUS
    <3>1. \A u \in Users : row[u].pending = None
      BY DEF Init
    <3> QED
      BY <3>1 DEF Init, Promise!PInit
  <2> QED
    BY <2>1, InitFeedInv, InitPromiseInv
<1>2. FeedInv /\ PromiseInv /\ [Next]_vars => FeedInv' /\ PromiseInv'
  BY NextFeedInv, NextPromiseInv DEF FeedInv
<1>3. FeedInv /\ PromiseInv /\ [Next]_vars => [Promise!PNext]_(Promise!pvars)
  BY StepKeepsPromise
<1> QED
  BY <1>1, <1>2, <1>3, PTL DEF Spec, ImplementsPromise, Promise!PSpec
=============================================================================
