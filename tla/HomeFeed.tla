----------------------------- MODULE HomeFeed -----------------------------
(***************************************************************************)
(* The saved home feed of app/profile/service.py (6), app/feed/            *)
(* build_queue.py (the list builder behind it) and app/feed/refresh.py     *)
(* (9, the nightly rebuild), around one taste_profile row per user.        *)
(*                                                                         *)
(*   6  locks the user, computes the profile, stores it with a fresh token *)
(*      ("pending"), commits, and either hands a job to the queue of its   *)
(*      server (profile_feed_async) or builds the list in the transaction. *)
(*   the worker of a server takes jobs one by one, builds the list without *)
(*      the user lock and saves it if the token is still the job's own.    *)
(*   9  claims one partial list at a time, rebuilds it from the stored     *)
(*      values under the user lock and saves it only if it got better.     *)
(*                                                                         *)
(* A token is a fresh uuid per request, so a request is its own token. A   *)
(* list is abstracted to the request whose materials it was built from and *)
(* the interests that were substituted for lack of time.                   *)
(***************************************************************************)
EXTENDS Integers, Sequences, FiniteSets

CONSTANTS
  Users, Requests, Calls, Servers, Interests, Tastes,
  None,            \* SQL NULL, an absent JSON key, no job
  UserOf,          \* the user each profile request (6) is for
  TasteOf,         \* the profile each request computes to
  AsyncServers,    \* the servers started with profile_feed_async
  MaxNight,        \* bound: nights the model runs through
  MaxFaults,       \* bound: failures, stops and crashes in a behaviour
  InOrderReplies   \* do replies to COMMIT reach one server in commit order?

List == [from : Requests, subs : SUBSET Interests]

ASSUME HomeFeedAssumption ==
  /\ UserOf \in [Requests -> Users] /\ TasteOf \in [Requests -> Tastes]
  /\ AsyncServers \subseteq Servers
  /\ None \notin Requests \cup List \cup Servers \cup Users \cup Tastes
  /\ MaxNight \in Nat \ {0} /\ MaxFaults \in Nat /\ InOrderReplies \in BOOLEAN

VARIABLES
  row,        \* the committed taste_profile row of each user
  req,        \* the state of each profile request (6)
  jobs,       \* Queue._jobs of each server, oldest first
  ready,      \* Queue._ready of each server
  worker,     \* the worker task of each server; "off" while it is down
  call,       \* the state of each refresh call (9)
  night,      \* the night it is now (night_of)
  faults,     \* failures, stops and crashes so far
  asked,      \* history: the requests of a user in the order they committed
  published,  \* history: the lists of a user in the order they were saved
  lost        \* history: requests whose job a failure or a stop has dropped

vars == <<row, req, jobs, ready, worker, call, night, faults, asked, published, lost>>

-----------------------------------------------------------------------------
(* Locks. Both are read off the states of those who hold them.             *)

\* pg_advisory_xact_lock(6, user): from the lock to the end of the transaction.
InTransaction == {"locked", "written", "building", "built"}

LockFree(u) ==
  /\ \A r \in Requests : UserOf[r] = u => req[r].pc \notin InTransaction
  /\ \A n \in Calls : call[n].user = u => call[n].pc \notin InTransaction

\* The row lock a request holds from its first UPDATE to its end.
RowFree(u) ==
  \A r \in Requests : UserOf[r] = u => req[r].pc \notin InTransaction \ {"locked"}

\* Mutant: the worker saves inside the build lock, waiting for one with the other.
BuildFreeAfterSave(s) ==
  /\ worker[s].pc \notin {"building", "built"}
  /\ \A r \in Requests : req[r].srv = s => req[r].pc # "building"
  /\ \A n \in Calls : call[n].srv = s => call[n].pc # "building"

\* interest_feed._BUILDING: one list at a time in one process.
BuildFree(s) ==
  /\ worker[s].pc # "building"
  /\ \A r \in Requests : req[r].srv = s => req[r].pc # "building"
  /\ \A n \in Calls : call[n].srv = s => call[n].pc # "building"

-----------------------------------------------------------------------------
(* What the SQL statements do to a row.                                    *)

Up(s) == worker[s].pc # "off"

\* compute.next_version: 0 stands for "no row yet".
NextVersion(seen, taste) ==
  IF seen.pver = 0 THEN 1
  ELSE IF seen.profile = taste THEN seen.pver ELSE seen.pver + 1

SaveProfile(f, seen, taste) ==
  [f EXCEPT !.profile = taste, !.pver = NextVersion(seen, taste)]

\* Mutant: the token counts the version up as well.
MarkCountingUp(f, r) == [f EXCEPT !.pending = r, !.ver = f.ver + 1]

Mark(f, r) == [f EXCEPT !.pending = r]

\* feed_prev keeps the list there was; a row that held only a token has none.
Before(f) == IF f.feed # None THEN f.feed ELSE f.prev

Publish(f, l) == [f EXCEPT !.prev = Before(f), !.feed = l, !.ver = f.ver + 1]

\* build_queue._SAVE_SQL: the new feed has neither a token nor a retry mark.
SaveJob(f, l) == [Publish(f, l) EXCEPT !.pending = None, !.retried = 0]

\* Mutant: the nightly rebuild wipes the token of a job under way.
SaveRefreshWipingToken(f, l, n) ==
  [Publish(f, l) EXCEPT !.retried = n, !.pending = None]

\* refresh._SAVE_SQL: the token of a job under way stays.
SaveRefresh(f, l, n) == [Publish(f, l) EXCEPT !.retried = n]

Partial(f) == f.feed # None /\ f.feed.subs # {}

\* Stored.at: the list a cursor of version v goes on reading, and its version.
At(f, v) ==
  IF v = f.ver - 1 /\ f.prev # None
  THEN [list |-> f.prev, ver |-> v] ELSE [list |-> f.feed, ver |-> f.ver]

-----------------------------------------------------------------------------
Init ==
  /\ row = [u \in Users |-> [profile |-> None, pver |-> 0, feed |-> None, prev |-> None,
                             ver |-> 0, pending |-> None, retried |-> 0]]
  /\ req = [r \in Requests |-> [pc |-> "new", srv |-> None,
                                seen |-> [profile |-> None, pver |-> 0], subs |-> {}]]
  /\ jobs = [s \in Servers |-> <<>>]
  /\ ready = [s \in Servers |-> FALSE]
  /\ worker = [s \in Servers |-> [pc |-> "wait", job |-> None, subs |-> {}]]
  /\ call = [n \in Calls |-> [pc |-> "new", srv |-> None, night |-> 0, user |-> None,
                              base |-> None, subs |-> {}]]
  /\ night = 1 /\ faults = 0
  /\ asked = [u \in Users |-> <<>>] /\ published = [u \in Users |-> <<>>]
  /\ lost = {}

-----------------------------------------------------------------------------
(* The profile request (6): rebuild_locked_on.                             *)

Begin(r, s) ==
  /\ req[r].pc = "new" /\ Up(s)
  /\ req' = [req EXCEPT ![r].pc = "waiting", ![r].srv = s]
  /\ UNCHANGED <<row, jobs, ready, worker, call, night, faults, asked, published, lost>>

\* The lock is taken and the stored profile and its version are read.
Lock(r) ==
  /\ req[r].pc = "waiting" /\ LockFree(UserOf[r])
  /\ req' = [req EXCEPT ![r].pc = "locked",
       ![r].seen = [profile |-> row[UserOf[r]].profile, pver |-> row[UserOf[r]].pver]]
  /\ UNCHANGED <<row, jobs, ready, worker, call, night, faults, asked, published, lost>>

\* The profile and the token are written, which locks the row; nobody sees it yet.
Write(r) ==
  /\ req[r].pc = "locked"
  /\ req' = [req EXCEPT ![r].pc = "written"]
  /\ UNCHANGED <<row, jobs, ready, worker, call, night, faults, asked, published, lost>>

Stored(r) == Mark(SaveProfile(row[UserOf[r]], req[r].seen, TasteOf[r]), r)

\* Nobody of this user and this server waits for the reply to an earlier COMMIT.
EarlierRepliesIn(r) ==
  \A q \in Requests : UserOf[q] = UserOf[r] /\ req[q].srv = req[r].srv
                        => req[q].pc # "committed"

\* profile_feed_async: the transaction ends and frees the lock; the job of the
\* request is not queued before the reply to COMMIT arrives (Submit).
Commit(r) ==
  /\ req[r].pc = "written" /\ req[r].srv \in AsyncServers
  /\ InOrderReplies => EarlierRepliesIn(r)
  /\ row' = [row EXCEPT ![UserOf[r]] = Stored(r)]
  /\ asked' = [asked EXCEPT ![UserOf[r]] = Append(@, r)]
  /\ req' = [req EXCEPT ![r].pc = "committed"]
  /\ UNCHANGED <<jobs, ready, worker, call, night, faults, published, lost>>

\* dict assignment: a job of the same user is replaced and keeps its place.
Enqueue(q, r) ==
  IF \E i \in DOMAIN q : UserOf[q[i]] = UserOf[r]
  THEN [i \in DOMAIN q |-> IF UserOf[q[i]] = UserOf[r] THEN r ELSE q[i]]
  ELSE Append(q, r)

\* Mutant: the job is queued without setting the event the worker waits for.
SubmitWithoutWaking(r) ==
  /\ req[r].pc = "committed"
  /\ jobs' = [jobs EXCEPT ![req[r].srv] = Enqueue(@, r)]
  /\ req' = [req EXCEPT ![r].pc = "done"]
  /\ UNCHANGED <<row, ready, worker, call, night, faults, asked, published, lost>>

Submit(r) ==
  /\ req[r].pc = "committed"
  /\ jobs' = [jobs EXCEPT ![req[r].srv] = Enqueue(@, r)]
  /\ ready' = [ready EXCEPT ![req[r].srv] = TRUE]
  /\ req' = [req EXCEPT ![r].pc = "done"]
  /\ UNCHANGED <<row, worker, call, night, faults, asked, published, lost>>

\* Without profile_feed_async the list is built and saved in the transaction.
StartInline(r) ==
  /\ req[r].pc = "written" /\ req[r].srv \notin AsyncServers /\ BuildFree(req[r].srv)
  /\ req' = [req EXCEPT ![r].pc = "building"]
  /\ UNCHANGED <<row, jobs, ready, worker, call, night, faults, asked, published, lost>>

FinishInline(r, S) ==
  /\ req[r].pc = "building"
  /\ req' = [req EXCEPT ![r].pc = "built", ![r].subs = S]
  /\ UNCHANGED <<row, jobs, ready, worker, call, night, faults, asked, published, lost>>

CommitInline(r) ==
  LET u == UserOf[r]
      l == [from |-> r, subs |-> req[r].subs]
  IN  /\ req[r].pc = "built"
      /\ row' = [row EXCEPT ![u] = SaveJob(Stored(r), l)]
      /\ asked' = [asked EXCEPT ![u] = Append(@, r)]
      /\ published' = [published EXCEPT ![u] = Append(@, l)]
      /\ req' = [req EXCEPT ![r].pc = "done"]
      /\ UNCHANGED <<jobs, ready, worker, call, night, faults, lost>>

\* A query fails or the 5 s statement limit cuts the wait for the lock: 500,
\* and the transaction is rolled back. If only the reply to COMMIT fails or comes too
\* late, the row and its token stand, but the job is never queued.
RequestFails(r) ==
  /\ req[r].pc \in InTransaction \cup {"waiting", "committed"} /\ faults < MaxFaults
  /\ faults' = faults + 1
  /\ req' = [req EXCEPT ![r].pc = "failed"]
  /\ lost' = lost \cup {q \in {r} : req[q].pc = "committed"}
  /\ UNCHANGED <<row, jobs, ready, worker, call, night, asked, published>>

-----------------------------------------------------------------------------
(* The queue's worker: Queue._work, build_and_save, save.                  *)

Wake(s) ==
  /\ worker[s].pc = "wait" /\ ready[s]
  /\ worker' = [worker EXCEPT ![s].pc = "take"]
  /\ UNCHANGED <<row, req, jobs, ready, call, night, faults, asked, published, lost>>

Take(s) ==
  /\ worker[s].pc = "take" /\ jobs[s] # <<>>
  /\ worker' = [worker EXCEPT ![s].pc = "got", ![s].job = Head(jobs[s])]
  /\ jobs' = [jobs EXCEPT ![s] = Tail(@)]
  /\ UNCHANGED <<row, req, ready, call, night, faults, asked, published, lost>>

\* No await between the empty test and clear().
Rest(s) ==
  /\ worker[s].pc = "take" /\ jobs[s] = <<>>
  /\ worker' = [worker EXCEPT ![s].pc = "wait"]
  /\ ready' = [ready EXCEPT ![s] = FALSE]
  /\ UNCHANGED <<row, req, jobs, call, night, faults, asked, published, lost>>

StartJob(s) ==
  /\ worker[s].pc = "got" /\ BuildFree(s)
  /\ worker' = [worker EXCEPT ![s].pc = "building"]
  /\ UNCHANGED <<row, req, jobs, ready, call, night, faults, asked, published, lost>>

FinishJob(s, S) ==
  /\ worker[s].pc = "building"
  /\ worker' = [worker EXCEPT ![s].pc = "built", ![s].subs = S]
  /\ UNCHANGED <<row, req, jobs, ready, call, night, faults, asked, published, lost>>

\* Mutant: the job just finished is not forgotten.
JobDoneKeepingJob(s) == worker' = [worker EXCEPT ![s].pc = "take"]

JobDone(s) == worker' = [worker EXCEPT ![s] = [pc |-> "take", job |-> None, subs |-> {}]]

\* Mutant: the save does not look at the token.
TokenIgnored(r) == r \in Requests

\* WHERE feed->>'pending' = token.
TokenStands(r) == row[UserOf[r]].pending = r

\* The lock, the UPDATE and its COMMIT: whoever holds the lock keeps others out.
SaveBuilt(s) ==
  LET r == worker[s].job
      u == UserOf[r]
      l == [from |-> r, subs |-> worker[s].subs]
  IN  /\ worker[s].pc = "built" /\ LockFree(u)
      /\ IF TokenStands(r)
         THEN /\ row' = [row EXCEPT ![u] = SaveJob(@, l)]
              /\ published' = [published EXCEPT ![u] = Append(@, l)]
         ELSE UNCHANGED <<row, published>>
      /\ JobDone(s)
      /\ UNCHANGED <<req, jobs, ready, call, night, faults, asked, lost>>

\* A query fails or the 30 s wait for the lock ends: logged, and the job is gone.
JobFails(s) ==
  /\ worker[s].pc \in {"got", "building", "built"} /\ faults < MaxFaults
  /\ faults' = faults + 1
  /\ lost' = lost \cup {worker[s].job}
  /\ JobDone(s)
  /\ UNCHANGED <<row, req, jobs, ready, call, night, asked, published>>

-----------------------------------------------------------------------------
(* The nightly rebuild (9): refresh, _refresh_one.                         *)

RefreshBegin(n, s) ==
  /\ call[n].pc = "new" /\ Up(s)
  /\ call' = [call EXCEPT ![n].pc = "loop", ![n].srv = s, ![n].night = night]
  /\ UNCHANGED <<row, req, jobs, ready, worker, night, faults, asked, published, lost>>

Claimable(u, n) ==
  Partial(row[u]) /\ row[u].retried # call[n].night /\ RowFree(u)

\* The statement takes the first claimable user by id; any of them may be that one.
Claim(n, u) ==
  /\ call[n].pc = "loop" /\ Claimable(u, n)
  /\ row' = [row EXCEPT ![u].retried = call[n].night]
  /\ call' = [call EXCEPT ![n].pc = "claimed", ![n].user = u]
  /\ UNCHANGED <<req, jobs, ready, worker, night, faults, asked, published, lost>>

\* The lock is taken and the stored values are read.
RefreshLock(n) ==
  /\ call[n].pc = "claimed" /\ LockFree(call[n].user)
  /\ call' = [call EXCEPT ![n].pc = "locked", ![n].base = row[call[n].user].feed]
  /\ UNCHANGED <<row, req, jobs, ready, worker, night, faults, asked, published, lost>>

RefreshBuild(n) ==
  /\ call[n].pc = "locked" /\ BuildFree(call[n].srv)
  /\ call' = [call EXCEPT ![n].pc = "building"]
  /\ UNCHANGED <<row, req, jobs, ready, worker, night, faults, asked, published, lost>>

RefreshBuilt(n, S) ==
  /\ call[n].pc = "building"
  /\ call' = [call EXCEPT ![n].pc = "built", ![n].subs = S]
  /\ UNCHANGED <<row, req, jobs, ready, worker, night, faults, asked, published, lost>>

\* Mutant: any other list replaces the stored one.
Differs(subs, base) == subs # base.subs

Improves(subs, base) == subs \subseteq base.subs /\ subs # base.subs

RefreshSave(n) ==
  LET u == call[n].user
      l == [from |-> call[n].base.from, subs |-> call[n].subs]
  IN  /\ call[n].pc = "built"
      /\ IF Improves(call[n].subs, call[n].base)
         THEN /\ row' = [row EXCEPT ![u] = SaveRefresh(@, l, call[n].night)]
              /\ published' = [published EXCEPT ![u] = Append(@, l)]
         ELSE UNCHANGED <<row, published>>
      /\ call' = [call EXCEPT ![n].pc = "loop", ![n].user = None, ![n].base = None,
                              ![n].subs = {}]
      /\ UNCHANGED <<req, jobs, ready, worker, night, faults, asked, lost>>

CallOver(n) ==
  [call[n] EXCEPT !.pc = "done", !.user = None, !.base = None, !.subs = {}]

\* Nothing is left to claim, or less than 8 of the 20 s are.
RefreshEnd(n) ==
  /\ call[n].pc = "loop"
  /\ call' = [call EXCEPT ![n] = CallOver(n)]
  /\ UNCHANGED <<row, req, jobs, ready, worker, night, faults, asked, published, lost>>

\* A query fails: 500. The claim was a transaction of its own and stays.
RefreshFails(n) ==
  /\ call[n].pc \in InTransaction \cup {"loop", "claimed"} /\ faults < MaxFaults
  /\ faults' = faults + 1
  /\ call' = [call EXCEPT ![n] = CallOver(n)]
  /\ UNCHANGED <<row, req, jobs, ready, worker, night, asked, published, lost>>

NextNight ==
  /\ night < MaxNight /\ night' = night + 1
  /\ UNCHANGED <<row, req, jobs, ready, worker, call, faults, asked, published, lost>>

-----------------------------------------------------------------------------
(* Servers: the lifespan of main.py, Queue.start and Queue.stop.           *)

InFlight(s) ==
  \/ \E r \in Requests :
       req[r].srv = s /\ req[r].pc \in InTransaction \cup {"waiting", "committed"}
  \/ \E n \in Calls : call[n].srv = s /\ call[n].pc \in InTransaction \cup {"loop", "claimed"}

Held(s) == {jobs[s][i] : i \in DOMAIN jobs[s]} \cup ({worker[s].job} \ {None})

\* stop() clears the queue and cancels the worker; a save under way is rolled back.
DropQueue(s) ==
  /\ faults < MaxFaults /\ faults' = faults + 1
  /\ jobs' = [jobs EXCEPT ![s] = <<>>]
  /\ ready' = [ready EXCEPT ![s] = FALSE]
  /\ worker' = [worker EXCEPT ![s] = [pc |-> "off", job |-> None, subs |-> {}]]

\* Orderly: the ASGI server lets requests finish before the lifespan ends.
Stop(s) ==
  /\ Up(s) /\ ~InFlight(s)
  /\ DropQueue(s)
  /\ lost' = lost \cup Held(s)
  /\ UNCHANGED <<row, req, call, night, asked, published>>

\* Killed: open transactions are rolled back, committed ones never queue a job.
Crash(s) ==
  /\ Up(s) /\ InFlight(s)
  /\ DropQueue(s)
  /\ lost' = lost \cup Held(s)
       \cup {r \in Requests : req[r].srv = s /\ req[r].pc = "committed"}
  /\ req' = [r \in Requests |->
       IF req[r].srv = s /\ req[r].pc \in InTransaction \cup {"waiting", "committed"}
       THEN [req[r] EXCEPT !.pc = "failed"] ELSE req[r]]
  /\ call' = [n \in Calls |->
       IF call[n].srv = s /\ call[n].pc # "done" THEN CallOver(n) ELSE call[n]]
  /\ UNCHANGED <<row, night, asked, published>>

Start(s) ==
  /\ ~Up(s)
  /\ worker' = [worker EXCEPT ![s].pc = "wait"]
  /\ ready' = [ready EXCEPT ![s] = jobs[s] # <<>>]
  /\ UNCHANGED <<row, req, jobs, call, night, faults, asked, published, lost>>

-----------------------------------------------------------------------------
RequestStep(r) ==
  \/ Lock(r) \/ Write(r) \/ Commit(r) \/ Submit(r)
  \/ StartInline(r) \/ CommitInline(r)
  \/ \E S \in SUBSET Interests : FinishInline(r, S)

WorkerStep(s) ==
  \/ Wake(s) \/ Take(s) \/ Rest(s) \/ StartJob(s) \/ SaveBuilt(s)
  \/ \E S \in SUBSET Interests : FinishJob(s, S)

RefreshStep(n) ==
  \/ RefreshLock(n) \/ RefreshBuild(n) \/ RefreshSave(n) \/ RefreshEnd(n)
  \/ \E u \in Users : Claim(n, u)
  \/ \E S \in SUBSET Interests : RefreshBuilt(n, S)

ServerStep(s) ==
  \/ Stop(s) \/ Crash(s) \/ Start(s) \/ JobFails(s)
  \/ \E r \in Requests : Begin(r, s)
  \/ \E n \in Calls : RefreshBegin(n, s)

Next ==
  \/ \E r \in Requests : RequestStep(r) \/ RequestFails(r)
  \/ \E n \in Calls : RefreshStep(n) \/ RefreshFails(n)
  \/ \E s \in Servers : WorkerStep(s) \/ ServerStep(s)
  \/ NextNight

Spec == Init /\ [][Next]_vars

\* A task that can run does: the event loop, PostgreSQL's lock queue and
\* asyncio.Lock are first come first served. A call that looks at its deadline of 20 s
\* again and again finds it past: two calls of different nights would otherwise claim
\* the same list in turn for ever. Arrivals, failures, stops and the next night are
\* not promised.
Fairness ==
  /\ \A r \in Requests : WF_vars(RequestStep(r))
  /\ \A s \in Servers : WF_vars(WorkerStep(s)) /\ WF_vars(Start(s))
  /\ \A n \in Calls : WF_vars(RefreshStep(n)) /\ SF_vars(RefreshEnd(n))

FairSpec == Spec /\ Fairness

-----------------------------------------------------------------------------
(* Properties.                                                             *)

Row == [profile : Tastes \cup {None}, pver : Nat,
        feed : List \cup {None}, prev : List \cup {None}, ver : Nat,
        pending : Requests \cup {None}, retried : 0..MaxNight]

Req == [pc : {"new", "waiting", "locked", "written", "building", "built", "committed",
              "done", "failed"},
        srv : Servers \cup {None}, seen : [profile : Tastes \cup {None}, pver : Nat],
        subs : SUBSET Interests]

IdleWorker == [pc : {"off", "wait", "take"}, job : {None}, subs : SUBSET Interests]
BusyWorker == [pc : {"got", "building", "built"}, job : Requests, subs : SUBSET Interests]

FreeCall ==
  [pc : {"new", "loop", "done"}, srv : Servers \cup {None}, night : 0..MaxNight,
   user : {None}, base : {None}, subs : SUBSET Interests]
ClaimedCall ==
  [pc : {"claimed"}, srv : Servers \cup {None}, night : 0..MaxNight,
   user : Users, base : {None}, subs : SUBSET Interests]
LockedCall ==
  [pc : {"locked", "building", "built"}, srv : Servers \cup {None}, night : 0..MaxNight,
   user : Users, base : List, subs : SUBSET Interests]

\* At most one job per user.
OnePerUser(q) == \A i, j \in DOMAIN q : UserOf[q[i]] = UserOf[q[j]] => i = j

\* The shape of the state: a worker holds a job exactly while it works on one, a
\* refresh call a user and a list while it works on them, and a queue holds at most
\* one job per user.
TypeOK ==
  /\ row \in [Users -> Row]
  /\ req \in [Requests -> Req]
  /\ jobs \in [Servers -> Seq(Requests)] /\ \A s \in Servers : OnePerUser(jobs[s])
  /\ ready \in [Servers -> BOOLEAN]
  /\ worker \in [Servers -> IdleWorker \cup BusyWorker]
  /\ call \in [Calls -> FreeCall \cup ClaimedCall \cup LockedCall]
  /\ night \in 1..MaxNight /\ faults \in 0..MaxFaults
  /\ asked \in [Users -> Seq(Requests)] /\ published \in [Users -> Seq(List)]
  /\ lost \subseteq Requests

\* Paging (interest_page.Stored.at): whoever holds a cursor of the current list
\* or of the one before reads on in exactly the list that was saved under that
\* version, however requests, jobs and nightly rebuilds interleave.
CursorContinues ==
  \A u \in Users :
    /\ row[u].ver = Len(published[u])
    /\ \A v \in DOMAIN published[u] :
         v >= row[u].ver - 1 => At(row[u], v) = [list |-> published[u][v], ver |-> v]

Delivered(r) ==
  \E i \in DOMAIN published[UserOf[r]] : published[UserOf[r]][i].from = r

\* A job of the request is on its way: its COMMIT is being answered, or a queue or
\* a worker holds it.
OnItsWay(r) == req[r].pc = "committed" \/ \E s \in Servers : r \in Held(s)

Newest(r) ==
  LET history == asked[UserOf[r]]
  IN  history # <<>> /\ history[Len(history)] = r

\* build_queue.py: the newest request of a user has its list, or its token still
\* stands and its job is on its way, unless a failure or a stop dropped that job.
LatestRequestKept ==
  \A r \in Requests : Newest(r) =>
    \/ Delivered(r)
    \/ row[UserOf[r]].pending = r /\ (OnItsWay(r) \/ r \in lost)

\* Without failures the newest request of a user is delivered after its answer: no
\* wakeup of the worker is lost and no waiting job is passed over for ever.
LatestDelivered ==
  \A r \in Requests :
    Newest(r) ~> Delivered(r) \/ ~Newest(r)

\* Nobody waits on anybody in a circle: with the user lock, the row lock and the
\* one-build-at-a-time lock all in play, every request and refresh is answered.
EveryoneAnswered ==
  /\ \A r \in Requests : req[r].pc = "waiting" ~> req[r].pc \in {"done", "failed"}
  /\ \A n \in Calls : call[n].pc = "loop" ~> call[n].pc = "done"

\* HomeFeed does what FeedPromise promises: the newest request of a user is owed its list
\* exactly while its token stands in the row.
Promise == INSTANCE FeedPromise
             WITH owed <- [u \in Users |-> row[u].pending # None], lists <- published
ImplementsPromise == Promise!PSpec
=============================================================================
