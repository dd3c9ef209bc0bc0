# Formal model of the book recommendation AI server

TLA+ modules, TLC runs and TLAPS proofs for the code under `src/app/`: a FastAPI server
(one uvicorn process, PostgreSQL with pgvector, LLM calls over HTTP) that computes taste
profiles, keeps a home feed per user, answers a recommendation chat and runs a shopping
agent for a bookshop. The backend that calls it ("BE") is outside the repository.

## 1. Inventory of the system

| part | state it keeps | operations | what is hard about it |
|---|---|---|---|
| Profile request (6), `profile/service.py`, `profile/compute.py` | the row of `taste_profile`: profile, `profile_version`, feed with its token | compute and store the profile under a per-user advisory lock, mark a token, hand a job to the queue or build the list in the transaction | two requests of one user, lock waits against a 5 s statement limit, the gap between COMMIT and queueing |
| List builder, `feed/build_queue.py`, `feed/interest_feed.py` | `Queue._jobs`, `_ready`, the worker task, the one-build-at-a-time lock | submit, start, stop, build and save | stale jobs, lost wakeups, two locks, jobs lost when a server stops, two servers during a deployment |
| Nightly rebuild (9), `feed/refresh.py` | `feed.retried_on`, `feed_partial` | claim, rebuild under the user lock, save if better | runs against requests and jobs of the same user; two calls at once; the claim is a transaction of its own |
| Home feed reads (4), `feed/service.py`, `feed/interest_page.py`, `feed/cursor.py`, `feed/personalized.py`, `feed/cold_start.py`, `feed/rule_only.py` | signed cursors in the client's hands | first page, more pages, fallbacks when a query is slow | a list replaced while somebody scrolls; a mode fixed by the cursor; expiry |
| Shopping agent (7), `agent/graph.py`, `agent/tools.py`, `agent/reply.py`, `agent/guard.py`, `gateway/commerce_snapshot.py` | the cart snapshot of the request, calls and results of one turn | choose tools, run them, check evidence, roll back a batch, diff the cart into actions | several writes per turn, partial failure and rollback, picks against writes, limits |
| Idempotent replay, `core/idempotency.py`, `agent/replay.py`, `routers/agent.py` | the idempotency table | find, run, save | two requests with one key, a save that fails, a retry after a timeout |
| Chat (3), `routers/chat.py`, `chat/*` | nothing between turns: the client sends the search condition ("spec") and the recent turns back | update the spec, search, make cards, answer or ask | LLM calls side by side with grace periods; merging a patch from a model into a spec |
| Chat delivery, `chat/streaming.py`, `chat/jobs.py` | the job table in memory, the piece queue of a stream | stream, submit a job, poll it, sweep | a client that leaves, a job that outlives its time, exactly one last event |
| Gate, `gate/rules.py`, `gate/judge.py`, `gate/shopping.py` | none | route a message to chat or agent | order of rules, fall back to the rule's default |
| LLM gateway, `gateway/llm.py` | none (models cached) | call a model, fall back to the next one | time limits per model and in all |
| Embedding gateway, `gateway/embedding.py` | the loaded model, the time of the last failure | load once, retry after a cooldown | threads racing for the load |
| Search (1), `search/*` | signed cursors in the client's hands | keyword and vector search, fusion, filters, sorting | pages from two rankings; common words; vectors that fail |
| Extraction (5), `extraction/*` | none | rules and an LLM call for taste memories | what counts twice, what is kept at the limit, a failure that looks like nothing found |
| Jobs, `jobs/embed_books.py`, `jobs/load_book_classes.py` | vectors and content hashes; the class table | embed in batches, replace the class table | restart after a crash, an interrupted replacement |
| Interests and lists, `profile/interests.py`, `feed/interest_list.py`, `feed/interest_picks.py`, `feed/interest_scoring.py` | none | scores, seats, assembly | sources that disagree, rounding of shares, seats nobody can fill, one time budget |
| Shell, `main.py`, `core/*`, `routers/*` | pool, settings | start, stop, auth, body limits, health, logs | pool exhaustion, order of shutdown |

## 2. Plan

In the order of what would hurt most if it went wrong:

1. `HomeFeed` (done): profile requests, the worker and the nightly rebuild around
   one row per user; `FeedPromise`, what they promise together; `HomeFeedProofs`.
2. `TurnCart` and `AgentTurn` (done): one turn of the shopping agent, its batches of tool
   calls, evidence, limits, rollback, and the actions the cart difference turns into;
   `AgentTurnProofs`.
3. `Replay` (done): requests with an idempotency key around agent turns: retries, the gate
   of the chat, attempts that vanish, several servers; `ReplayProofs`.
4. `ChatSpec` and `ChatTurn` (done): the conditions a conversation carries, and the turns
   that change them with up to three model calls side by side; `ChatTurnProofs`.
5. `Orders`, `Catalogue`, `FeedPages`, `SearchPages` (done): the pages of the feed and of the
   search; `PagesProofs`.
6. `GateRules`, `ChatDelivery`, `Extraction`, `Gateway`, `BookJobs` (done): the services
   around the turns; `ServicesProofs` with `SequenceFacts`.
7. `Interests`, `InterestList` (done): how a home list is made; `ListsProofs`.

| modules | build on | run by |
|---|---|---|
| `HomeFeed` (refines `FeedPromise`) | | `MCHomeFeed`: `feed`, `live`, `late_reply` |
| `AgentTurn` | `TurnCart` | `MCAgentTurn`: `turn`, `said` |
| `Replay` | | `MCReplay`: `replay`, `gate` |
| `ChatTurn` | `ChatSpec` | `MCChatTurn`: `chat` |
| `FeedPages`, `SearchPages` | `Catalogue` (on `Orders`) | `MCPages`: `pages`, `second` |
| `ChatDelivery` (on `GateRules`), `Gateway` (on `Extraction`), `BookJobs` | | `MCServices`: `services` |
| `InterestList` | `Interests`, `Catalogue` | `MCLists`: `lists` |

Runs ahead: none; a new property replaces a weaker one.

Proofs ahead: none. Section 10 says what stays with TLC, and why.

## 3. HomeFeed

### State and actions against the code

| model | code |
|---|---|
| `row[u]` | the committed row of `taste_profile`: `pver` is `profile_version`, `feed`/`prev`/`ver` are `feed`/`feed_prev`/`feed_version`, `pending` and `retried` are the keys `pending` and `retried_on` inside `feed`; `feed # None` says that `feed` has `books` |
| `req[r]` | a running `rebuild_locked_on`: `waiting` for the user lock, `locked`, `written` (profile and token written, not committed), `building` and `built` (list made inside the transaction), `committed` (COMMIT done, `submit` not yet called), `done`, `failed` |
| `jobs[s]`, `ready[s]`, `worker[s]` | `Queue._jobs`, `Queue._ready`, the worker task |
| `call[n]` | a running `refresh`: `loop`, `claimed`, `locked`, `building`, `built`, `done` |
| `Lock`, `Write`, `Commit`, `Submit` | `rebuild_locked_on` and `_rebuild_on` with `profile_feed_async` |
| `StartInline`, `FinishInline`, `CommitInline` | the same without it: the list is built and saved in the transaction |
| `Wake`, `Take`, `Rest`, `StartJob`, `FinishJob`, `SaveBuilt`, `JobFails` | `Queue._work`, `build_and_save`, `save` |
| `RefreshBegin`, `Claim`, `RefreshLock`, `RefreshBuild`, `RefreshBuilt`, `RefreshSave`, `RefreshEnd`, `RefreshFails` | `refresh`, `_refresh_one` |
| `Stop`, `Crash`, `Start` | `lifespan` of `main.py`, `Queue.stop`, `Queue.start`, a killed process |

A transaction is visible at its COMMIT. The user lock, the row lock of an UPDATE and
`_BUILDING` are not variables: `LockFree`, `RowFree` and `BuildFree` read them off the
states of those who hold them. A list is the request whose materials it was made from and
the set of interests that were substituted because the time ran out, which is all that the
code decides by; which interests run out is a free choice. `uuid4` tokens are fresh, so a
request is its own token. `asked`, `published` and `lost` are history variables: no action
reads them.

A request may end at any await (`RequestFails`). After the COMMIT too: a COMMIT that is
applied while its reply is lost or late raises in `profile/service.py`, and the job is never
queued. `lost` remembers these requests, as it remembers those of a server that dies between
the two; no list is promised to them until the next profile request.

`InOrderReplies` says whether the replies to COMMIT of one user's requests reach a server
in the order of the commits. They come in on different connections, so nothing guarantees
it; the run `late_reply` shows what happens without it, and the other runs assume it.

### Runs

| run | instance | question |
|---|---|---|
| `feed` | 1 user, 3 requests, 1 nightly call, 2 servers (one builds in the background, one inside the request), 2 interests, 1 fault | every safety property and the refinement of `FeedPromise`, with one failure, stop or crash anywhere, also across a deployment, when the token in the row is all that keeps a stale job of the other server out |
| `live` | 1 user, 2 requests, 2 calls, 2 nights, no faults | the newest request gets its list; no circle of locks, everybody is answered |
| `late_reply` | 1 server, 1 interest, no faults, replies in any order | finds a violation of `LatestRequestKept` |

Three requests of one user are enough for "old, newer, newest"; the third repeats the
profile of the first, so that a version can also stay. One user is enough for safety,
because nothing but the queue, the worker and the build lock is shared between users, and
those do not look at whose job they carry. Two
interests let one rebuild improve on a list, differ from it and be worse; nothing tells
them apart, nor the first request from the third (one profile, one user), so `feed` takes
both pairs as symmetric. `MaxFaults`
bounds failures, stops and crashes in one behaviour, `MaxNight` the nights. Deadlock is
not checked because the system really stops once all requests are done; that nobody stops
too early is `EveryoneAnswered`.

Fairness: a task that can run does. The event loop is fair, PostgreSQL's lock queue and
`asyncio.Lock` are first come first served, and a server that is down is started again.
The run `live` has one server, which builds in the background; that requests which build
inside their transaction get done is therefore explored for safety only, in `feed`.
The end of a nightly call is strongly fair, because it looks at a deadline of 20 s: two
calls on either side of the noon boundary of `night_of` claim the same list in turn, each
undoing the other's mark, and only that deadline ends them. Arrivals, failures, stops and
the next night are not promised.

### What TLC found

* `late_reply`: the job of a request is queued after its COMMIT in a step of its own. When
  the reply to an earlier COMMIT of the same user comes in later than that of the newer
  one (two connections, so a delayed packet is enough), the older job replaces the newer
  one in the queue and is thrown away at its save. The list of the newest request is not
  built until the next profile request. `build_queue.py:6` promises the list of the newest
  request, and `build_queue.py:145` says the replaced job is the old one.

A list saved between the claim and the lock of a nightly rebuild carries no mark of the
night, so it may be tried twice in one night, against what `refresh.py:5` says. It costs one
more rebuild, and no property states it.

## 4. AgentTurn

One turn of the shopping agent: `run_agent` on a copy of the cart that came with the
request. `TurnCart` is the copy with its rules, `diff_cart`, and the backend that applies
the resulting actions (external: the copy says that it follows the backend's rules).
`AgentTurn` is the loop of `graph.py` around it.

### State and actions against the code

| model | code |
|---|---|
| `turn` | the checked `AgentActRequest`: cart lines, offers, cards under their numbers, the book in view, login, allowed tools, whether the message states an action and a quantity |
| `lines`, `point` | `SnapshotCommerce._lines` and its checkpoint |
| `snapshot`, `pending`, `picked`, `changed` | the fields of `TurnContext` |
| `batch`, `history` | the records of this batch of calls, and of the batches before as the LLM got them back |
| `BeginBatch`, `EndBatch` (`UndoBatch`, `KeepBatch`) | `route` and `act`, `_roll_back`, `_rolled_back`, `commit_cart_view` |
| `CartAdd`, `CartUpdate`, `CartRemove`, `CartView`, `SelectionPick`, `NoChange` | `execute` with the handlers of `tools.py`, `reference.resolve` and `guard.check` |
| `Answer`, `NothingLeft`, `Fail` | `finish`, its 422, and the timeouts and errors of `shop_turn` |
| `Actions`, `Outcomes`, `TotalTold` | `diff_cart` as `run_agent` calls it, `_outcomes` and `_facts` of `reply.py` |

The backend's own stock is what the copy was told: a book is on sale or it is not. How many
there are only the backend knows, and it refuses more than that (`commerce_snapshot.py:8-9`
says so); a refusal for that reason is therefore not in `ActionsApply`, which says that
nothing else can make the backend refuse.

What the LLM chooses is free. Whether the user's words name the book of a call is free
too: a write either gets to the cart or is a `NoChange`, which stands for every reason a
call may end without a change. A pick takes any set of candidates, because the best
combination within a budget may be any. A checkpoint is always taken; the code takes one
for two writes and more, and a batch with one write is never undone.

### Runs

| run | instance | question |
|---|---|---|
| `turn` | 7 requests on carts of up to 2 lines, 3 books, up to 3 batches of up to 3 calls, 4 calls in all | do cart, records, numbers, picks and totals agree after every order of writes, views, picks and rollbacks; is a batch all or nothing; can the backend apply the actions, once and twice |
| `said` | one add that succeeds, one that changes nothing | finds a violation of `DoneIsSaid` |

Two lines are the smallest cart that can be full, reordered and partly removed; three books
leave one to add. A hazard needs a batch that is kept, one that is undone and one that
looks back, hence three. `MaxTurnCalls` bounds the calls of the whole turn, since the
records are part of the state. The requests cover: full and open cart, a line off sale, a
card out of stock, two cards under one number, a book in view, not logged in, tools not
allowed, no word of an action. A turn has no promise of liveness beyond its own bounds
(`MAX_TOOL_STEPS` and the turn's timeout), so none is stated, and deadlock is not checked
because a turn ends.

### What TLC found

* `said`: an add that succeeded followed by an add of the same book that changed nothing:
  the answer says the book was there already, and its actions add it.

Two more sentences of the code are not stated as properties, because what the model does
after the code does not agree with them. A book that is removed and added again is on top of
the cart here, while the actions set its quantity in place or leave it out
(`commerce_snapshot.py:124` says the order comes out the same). After a rollback a call of the
undone batch still reports `ALREADY_IN_CART` for a book that only that batch had put there.

## 5. Replay

`shop_turn` around an agent turn: `replay.find`, the turn, `replay.save`, on any number of
servers that share the table `idempotency_records`.

| model | code |
|---|---|
| `record[k]` | the row of a key: whose body and whose answer |
| `pc[a]`, `answer[a]` | where an attempt is, what the backend got for it |
| `Arrive`, `Gate` | the routes; `_respond` of the chat up to `shop_turn`, with the model that judges unclear messages. A malformed body is refused (400): at once on `/agent/act`, over the chat only when the message goes to the shop, in both before the key is looked up |
| `Find`, `Run`, `Save`, `Look` | `replay.find`, the turn, `remember`, the second lookup of `replay.save` |
| `Vanish` | the attempt ends at an await: a stream whose reader leaves, a swept job, a killed server |
| `earlier[a]` | history: the turns with changes answered before the attempt came in |

The turn itself is one step that ends in a write, a read, an error or, over the chat, in
"no shopping": `AgentTurn` has its inside. An INSERT that fails or is cut off may have been
written. `MaxFaults` bounds failures of the table. No liveness is claimed: an attempt
may end anywhere, and then there is no answer.

| run | instance | question |
|---|---|---|
| `replay` | 1 key, 6 attempts (3 of one message by both routes, 1 of another, 2 malformed by both routes), 1 fault | is what a key stands for true, does a key stand for one turn, does a retry get the first answer, under every overlap |
| `gate` | 2 attempts of a message the rules are not sure of, no faults | finds a violation of `RetryGetsFirst` |

Keys share nothing, so one is enough. Three attempts let two race and one come later; the
fourth is the other body, the last two reuse the key for a body that is refused.

`gate`: the model that judges an unclear message is asked before the key is looked up, and
again for a retry, so a retry of a turn that changed the cart can be answered with
recommendations. `agent/replay.py:1` and the specification promise the first answer.
`SureRetryGetsFirst` is what holds: the same for `/agent/act`, and for messages whose lane
the rules are sure of.

## 6. Chat turn

One conversation of the recommendation chat. `ChatSpec` is what happens to the conditions
(`Spec` of `chat/schemas.py`) as plain functions; `ChatTurn` is `update_spec` and
`_recommend` around them, with the backend that carries the conditions and the last lines
from turn to turn, because the server keeps nothing.

### State and actions against the code

| model | code |
|---|---|
| `client` | what the backend sends along: `spec`, whether the user has spoken, the kind of the bot's last line, the words of the user's lines |
| `turn` | the locals of `_recommend` and `update_spec`; `pc` is the await the task stands at |
| `relation`, `scope` | the tasks of `judge_relation` (is this a new request?) and of the broad judge (`CHAT_NARROWING`) |
| `since`, `merged`, `asks` | history: which turn gave a title, an author, a publisher; the last turn whose patch was used; questions that arrived |
| `Send` | the routes up to the first model call: unclear messages and books nobody showed are answered at once, card questions need no conditions, the others start `update_spec` with its judges |
| `SpecCall` | the patch call: a question, a patch, or a failure |
| `RelationInTime`, `RelationLate`, `RestartCall` | the wait of `RELATION_GRACE_SECONDS`, and the second patch call on `fresh_spec` |
| `Fold`, `Degrade`, `Fail` | `_merge_spec_patch` and `Spec.model_validate` with the three ways out: new conditions, `degraded`, an exception that nothing catches |
| `ScopeInTime`, `ScopeLate` | the wait of `SCOPE_GRACE_SECONDS` and the question back |
| `Search`, `SearchFails`, `Cards`, `CardsFail`, `Answer` | `_without_invented_mood`, `_settle_category`, `_recover_topic`, the search, the cards, the answers without cards |
| `Leave` | the turn's task is cancelled at its await: the reader of a stream left, or a polled job was swept |
| `RelationEnds`, `ScopeEnds` | a judge answers, also after nobody waits for it |

A text is the set of its words: the code looks for words that name a topic, words of a mood
and equality, never at their order. One list of words stands for the three lists of words
that name no topic. Numbers are any integers, compared and bounded to 32 bits as in the
schema; every value that Python would compare but pydantic refuses (a fraction, say) is
one that is out of bounds, and every value it would not compare is `Odd`. The category
stands beside the other filters because it is a text. `recent_turns` is cut at 20 lines by
the backend's contract, which three turns do not reach.

### Runs

| run | instance | question |
|---|---|---|
| `chat` | 3 turns, 4 kinds of message, 16 patches, 3 books of which two are editions of one | does nothing of one turn spoil a later one: conditions valid, no judge left, no old author beside a new title, the question asked once, rejected books gone; does every turn end although judges may never answer |

The hazards take a turn that leaves something, one that changes it and one that trips over
it, hence three. The 16 patches are those that the merge tells apart: each end of a price
range alone, both, and one of a wrong type; titles, authors and publishers alone and
together; topic, no topic, mood, category with and without books; a rejected book, a bad
id; nothing; a question. Deadlock is not checked because the conversation stops after
`MaxTurns`.

Fairness: every call the turn itself waits for has a time limit, so it ends, and the
event loop goes on with what can go on. The judges get none: that the turn ends without
them is what the grace periods are for. Nothing is promised about what the user sends.

### Two sentences of the code that do not hold

A model that writes the upper price as a text, after a turn that left a lower one, ends the
turn in a `TypeError` (`chat.py:287`), while `chat.py:487` promises that a wrong shape
degrades. A broad first request that is asked about goes out before the category is settled,
so a category without books reaches the backend, against `chat.py:740`. The model does both;
no property states them.

## 7. Pages of the feed and of the search

`Orders` is ORDER BY, LIMIT and Python's `sorted`. `Catalogue` holds what both read of a book and of a user's history: price and stock of one
product, filters, category tables, weights, editions, the match score in whole numbers.
`FeedPages` is `GET /recommendations/feed`, `SearchPages` is `POST /search`. Nothing is kept
between two pages but the signed cursor the client holds, so every page makes its list again
from what is there by then; both modules therefore keep one client with its cursor and let
everything else change around it.

### State and actions against the code

| model | code |
|---|---|
| `past`, `rows` | the history as the backend has it, and the rows of it, with their status, that have been replicated |
| `profile`, `saved`, `index` | the row of `taste_profile`, its saved list with the version before, what a vector query would find |
| `scroll`, `quest` | the request at hand, the cursor the client holds, and, as history, what it has been shown and the whole list of the first page |
| `Open`, `Search` | `parse_query` / `parse_request`, `cursor.read`, the books sent along; in the search also the query by words |
| `Answer`, `Show` | the rest of `feed` / `search`: which list, which window, which cursor |
| `Made` | the choice among the saved list, the taste, the rules and the popular list (`service.feed`) with what each query returns |
| `Issue`, `PageOf`, `Expired`, `Serves`, `ModeKept`, `CursorGone` | `feed/cursor.py`, `core/cursor.py`, `_read_offset` |
| `KeywordIds`, `Fuse`, `ExactTitleFirst`, `SortIds` | `keyword.py`, `rrf.py`, `_exact_title_first`, `sorting.py` |
| `AddToHistory`, `ChangeStatus` | the user buys, keeps or reviews a book; an order is paid or cancelled, a review or a library entry deleted: the row keeps its time |
| `Replicate` | a row, or its new status, comes to the replica: in any order, at any later time, also with a time before the first page |
| `NewProfile`, `NewList`, `NewIndex`, `Unlist`, `ChangeVectors` | what others do between two pages, or between two statements of one |
| `Fail`, `SearchFails` | a query that fails or takes too long: 500, and the client asks again |

How well words fit a title, how near two vectors are, and which books an index comes to first
are given by constants. The feed's clock is finer than the cursor's seconds (`TicksASecond`),
because that is where a page and a purchase meet. A page of the feed reads the saved list
when it opens and everything else when it answers; a page of the search sees the books in
three statements.

The history is late. The data specification allows five minutes and says that a book just
bought shows up again meanwhile (`9-data-erd/spec.md:57,81`; `core/history.py:70-72`), and the
status of a row changes long after its time (`core/history.py:39-48`). The model bounds the
delay by nothing. What follows from it for the properties:

* A page leaves out what the replica has when it is made, up to the time of the first page:
  `ShownFits` is about these rows. A book just bought is shown until its row comes. Only where
  the backend sends the books along is nothing shown that it had when the page was asked for.
* A row that comes, or changes its status, between two pages and whose time is before the
  first page changes the list the later pages are cut from, so it ends `quiet`. A row of
  something done during the scroll does not, whenever it comes: that is what the time
  in the cursor is for. Where the books are sent along, rows matter only to the tag weights
  of the two lists by taste, and `quiet` ends when the backend sends others.
* No mode depends on the history, so no late row may cut a scroll off: `FeedNotCutOff`.

The books themselves (stock, price, sales, and whether they are listed) stay as they are for
the length of one scroll of the feed: they are replicated too, and a page made while they
change is cut from another list. The search, whose list may lose books between its own
statements, has `Unlist`.

### Runs

| run | instance | question |
|---|---|---|
| `pages` | 4 books in two classes (a best seller, one without a vector, one without year and price), 4 feed requests and 7 searches, pages of 1 and 2, lists of at most 3, at most one row not replicated at first, one change or failure in a scroll and two in a search, rows that come at any time, cursors that expire | do the pages join into one list, is a cursor refused only for a reason, does a page show only what it may, is a book found by its very title |
| `second` | the same | finds a violation of `JoinedInAnySecond` |

The limits (3 for a list, 2 for a lookup, 3 candidates) are below the number of books, so
that each of them cuts something off. A scroll of 4 books takes up to four pages, one more
than is needed for a gap or a repetition after a page that was fine. An undisturbed scroll is
one whose list was not rebuilt twice, whose profile and vectors stayed where its list is made
of them, to which the backend sent no new books, and whose history up to the first page stayed
as it was in the replica: `quiet` says so, and it is what the
specification promises paging for. `steady` asks for less, namely only for what the modes of the
scroll need: that there is a taste vector or none, that the vectors answer or do not. A user
whose taste moves, a list that is built twice and a late row leave a scroll `steady`, though
not `quiet`: its pages may not join, but it must not be cut off. Three ticks of the clock
with two to a second and a cursor that lives for two put a page and a row on either side of a
second and of the end of a cursor; there are about 1.08 million states. A run starts with no saved list or with one of three
books; the list of two only comes by a rebuild during the scroll. Deadlock is not checked
because a scroll ends.

`second`: the cursor carries whole seconds. What was bought in the second of the first page,
but before it, is left out of that page and back in the list of the next one, which shifts.

## 8. Services around the turns

`ChatDelivery` carries a turn: as one answer, as a stream (`streaming.py`) or as a job that
is polled (`jobs.py`), after `GateRules` has sent it one way or the other. `Gateway` is the
way to the models, with `Extraction` as the one request that needs a language model and then
vectors. `BookJobs` are the two batch jobs. They share no state, so `MCServices` lets one part
move in a behaviour and keeps the others as they began.

| model | code |
|---|---|
| `work[r]`, `queue`, `events`, `client` | the task of a request, the `asyncio.Queue` of its pieces, what was sent, whether somebody reads |
| `jobs`, `polls` | `_jobs`; history: every answer of `GET` |
| `Gate`, `Judge`, `Shop`, `AnswerAboutCard`, `Recommend`, `Written`, `Preview` | `_respond` and what it calls; the early text of `ReplyPreview` |
| `Send`, `HangUp`, `Cancelled` | the generator of `stream_response` and its `finally` |
| `HandIn`, `Poll`, `Restart` | `submit`, `get` with `_sweep`, a new process |
| `Rules`, `Decide`, `Lane`, `Judged` | `decide`, in its order, over the signs the expressions see; `judge.parse` |
| `call[c]`, `llmOk` | a request with its calls to models; `_llm_ok` |
| `CallFails`, `TimeIsUp`, `CallBreaks`, `CallAnswers`, `Piece` | `_llm_call`, `invoke_chain_with_fallback`, `stream_json` |
| `Screen` and what it uses | `rules.screen`: what is dropped, merged, cut |
| `loaded`, `failedAt`, `lock`, `Load`, `Enter`, `Build`, `Encode` | `load_model` and `embed`, each caller in a thread of its own |
| `text`, `vector`, `hash`, `run` | `v_books`, `book_embeddings`, `book_embedding_docs`, a run of `embed_books` |
| `Scan`, `Compare`, `Batch`, `Drop`, `Check`, `RunDies`, `Edit` | the statements of the run, each of its own transaction; its death; the catalogue changing meanwhile |
| `table`, `load`, `CopyLine`, `Commit`, `LoadDies` | `book_classes` as committed, and `replace` |

| run | instance | question |
|---|---|---|
| `services` | one stream for 291 messages (all pairs of signs, with and without cards, five kinds of last question) and two jobs; callers in three kinds of request that meet, and one alone with every answer of up to 3 of 9 items; 3 books embedded in batches of 1, 2 runs, 2 edits, 2 models; files of up to 3 lines | does a stream end once and rightly, do the answers about a job agree, does a new search have a reason, do the time limits hold, is the model loaded once, is what is taken of a conversation what was said, does a killed job leave nothing behind |

A second job sweeps the first, and three polls of one are what "pending, done, gone" takes.
Two embedding requests and one extraction make the three threads that race for the load,
fail and retry. Three books in scans of two make a second scan, and batches of one let a run
die between any two of them; a second run is the one that must pick up. The vectors part starts with no vector, one, or
all of them, from before hashes were kept, and with a last book that has a description;
edits make the rest. A model of its own is only set where one extraction is alone, to
keep small the part where callers meet: they meet over the vectors, after the model.

Fairness: the event loop runs each task that can go on, and each generator whose client still
reads. Nothing is promised of clients. `StreamsEnd` is the only liveness here: the calls in
`Gateway` end by their timers, which `OneTimeLimit` states as safety, since the clock cannot
pass a deadline.

Two things seen while modelling: when the limit of the whole ends
`invoke_chain_with_fallback`, the call under way is cancelled and `_llm_ok` keeps its mark,
unlike for a stream (`TimeIsUp`); and when `embed_doc_hash` is switched off and on again
between runs, an old hash may stand beside a newer vector (`embed_books.py:153`), which is
why the setting is a constant of a behaviour here.

## 9. Interests and the home list

`Interests` is what a profile request makes of remembered lines, picks and books: interests
with scores, the conditions, the weights, the taste. `InterestList` takes it from there to the
saved list: seats, the queries within a time budget, the books kept, turns and authors, place
scores. What `HomeFeed` leaves as a free choice is made here.

| model | code |
|---|---|
| `told`, `history`, `onboarding` | the lines of memory in the order received, the replicated history, the request's picks |
| `vectors` | what `labels.py` has: nothing, the labels, or the names as well |
| `build` | the locals of `_rebuild_on`, `fetch` and `_build` |
| `Say`, `Happens` | what comes before the request |
| `Start` | `_rebuild_on`, `_feed_job` and `jobs`: `MemoryScores`, `BookScores`, `OnboardingScores`, `Combined`, `Allocate` |
| `FetchInTime`, `FetchOthers` | one interest of `fetch`: its query in time, or books in its place |
| `Finish` | `assemble` with `interleave`, `cap_authors` and the scores |

Points are exact fractions over a common denominator; the code uses floats, in which sums
that are equal here may differ by a rounding error, so that a tie between remainders may go
the other way. Ties between interests follow the order of a Python dict, ties between books
of one query the number of the book where the database may return either. A day on which a
book was first seen is taken from the history. A vector is a place on a line of hundredths.

| run | instance | question |
|---|---|---|
| `lists` | 8 books (two editions of one, one without a vector, one of no known class, one without a title), 8 lines of which 3 are said in any order, 3 onboardings, a history of one row, lists of 5 for 3 interests, authors 2 in a block of 3, every query in time or late | is nothing on the list that the last word of the user, the history or an edition of a bought book forbids, are the seats shared out, do authors spread, does the time go to the largest interests |

Three lines are a like, a dislike of the same and another like that could bring it back, in
any order, or one line for each of three interests; the lines that are said differ from each
other, because a line said twice adds nothing new. Five places for three interests leave a
remainder to be given away, and most interests have fewer books than seats. A block of three
with two an author puts books off. Without the vectors of the names one state of the index is
enough, since no query of a name is made; nothing was picked exactly when there are no
vectors at all; and the narrow index, which finds less than it estimates, is only met by
a user who picked something. Deadlock is not checked because a list is done.

`labels.py:64-66` says that the vectors of the names, when they failed at the start, are not
made again because nobody uses them yet; the list does, and goes on without them until the
server is started again (`vectors = "labels"`).

## 10. Proofs

`HomeFeedProofs` proves for every number of users, requests, servers, calls, interests,
nights and faults, from `HomeFeedAssumption` alone (both values of `InOrderReplies`):

* `TypeCorrect`: `Spec => []TypeOK`;
* `CursorsContinue`: `Spec => []CursorContinues`.

Neither is inductive alone. A nightly call stores the list of the user it claimed, which
is a list only because a list is never taken away from a row; and what a cursor of the
last version reads is right only if the row holds the last two lists of the history in
place. The inductive invariant `FeedInv` therefore adds `ClaimedHasList` and `Pages`
(version, list and previous list of a row are exactly the length and the last two elements
of `published`). Its preservation is split by actor into `RequestStepType`,
`WorkerStepType`, `RefreshStepType` and `ServerStepType` for the shape of the state and
`NextPages` for the lists, over lemmas about what each SQL statement does to one row.

Two more theorems say what the queue, the locks and the tokens are for:

* `NewestIsKept`: `InOrderReplies => (Spec => []LatestRequestKept)`. The hypothesis is the
  one `late_reply` shows to be needed: with replies in another order TLC finds the newest
  request without its list. The invariant `KeptInv` adds that a server waits for one reply of
  a user at a time (`OneReply`), holds jobs only for requests that are answered
  (`HeldDone`), and that whoever still waits for a reply committed after every job of that
  user the server holds (`RepliesLater`), so that taking the place of one loses nothing.
* `ImplementsFeedPromise`: `Spec => ImplementsPromise`. Every step of `HomeFeed` is one step
  of `FeedPromise` or a stutter. `PromiseInv` gives what the mapping needs: one holder of the
  user lock at a time, a base read under the lock that is still the list of the row, and a
  token that is the one of the newest request.

Liveness under fairness is out of the prover's reach and checked by TLC only, in `live`.

`AgentTurnProofs` proves from `AgentTurnAssumption` and `TurnCartAssumption`, for every
request and all bounds:

* `TypeCorrect`, in which the work is `CartOK`: no book in two lines, never too many lines,
  through every write and rollback;
* `PicksAndWritesApart` and `BatchesWhole` (`PickedOrChanged`, `AllOrNothing`). They follow
  from `PickInv`: `changed` is true exactly if a write stands in the batches before or in
  this one, and no pick stands beside it. The flag alone would not be inductive across a
  rollback, which recomputes it from the records;
* `RecordsMakeCart` (`RecordsMakeTheCart`): the cart is what its records make of the first
  one, at every moment of a batch. The invariant says the same of the cart at the start of
  the batch, to which a rollback returns, and the fold over the records is taken one record
  further by a lemma;
* `ShownStaysTrue` (`ShownIsTrue`): the view that numbers and totals refer to is the last one
  that stands, also while the views of a batch may still be undone.

* `ActionsCanBeApplied` (`ActionsApply`): what an answer sends as actions can be applied one
  after the other by a backend that checks each, and makes its cart that of the answer.
  `WrittenInv` says where a line can come from: from the request as it was, or from a write
  that found the book sellable in that quantity (`OffersFit`). That is what the backend asks
  of a setting, so none is refused (how many of a book the backend has, it alone knows: section
  4). `DiffApplies` follows the backend through the actions:
  the removals, in the order of the old cart, leave exactly the books that stay, and the
  settings, in the order of the new one, give each its quantity (`AllRemoved`, `AllSet`);
  `DiffAgain` sends the same actions a second time, `NothingApplied` is the empty answer.

`ReplayProofs` proves from `ReplayAssumption` alone, for all sets of attempts, keys and
bodies: `TypeCorrect`, `FirstOneStays`, `TurnsAreOwn`, `ConflictsAreReal`, both of the last
as `RecordsAreTrue`, `OneTurnForKey` and `RetriesGetFirst`. Every step is first shown to have one shape, `StepOK`: it moves one
attempt and writes its row only when that was empty. The count in `OneTurnPerKey` is the
one real obstacle: the
invariant names a set of turns, one for each failure, that with the row explains every
answer given (`Explains`), and a cardinality argument (`Counted`) closes it. `OnTrack` says
where an attempt that came late can be: it will find the row and never runs.

`ChatTurnProofs` proves from `ChatTurnAssumption` and `ChatSpecAssumption`, for every set of
messages, patches, words and books and any number of turns: `TypeCorrect`, `SpecsStayValid`,
`GoodAnswersCount`, `NoJudgeStays`, `AskedAtMostOnce`, `RejectedStayAway`, `OldRequestsGo`,
`AuthorsFollowTitles` and `TitlesOfLastPatch`, both as `ExactWordsBelong`. The work is in
the lemmas on `ChatSpec`: `GoodStaysGood` (a patch that is fine on empty conditions is fine
on all valid ones: whatever pair of ends it meets, `ClearInvertedRange` leaves it in order,
`PairSettled`) and `RepairsKeepValid` (the three repairs that pydantic never sees). The
invariant `TurnInv` adds where a judge may run (`JudgesHeld`), that a turn excludes at
least what the backend excludes (`Rejections`), and that the broad judge is only asked
before the user has talked (`AskPlace`), without which `AskedOnce` is not inductive. A
second invariant, `AgeInv`, speaks of ages: what the backend holds is in date by the
history, what a turn holds is in date by the history as it will be once the turn is
answered (`Dates`), and a turn whose patch was not used has the fields of the backend. So
all safety properties of the run are proved; `TurnEnds` is checked by TLC only.

`ServicesProofs` proves from the named assumptions of `ChatDelivery`, `Gateway` and `BookJobs`:

* `TableIsOneFile` (`ClassesWhole`), for every set of files and any deaths of the job. The
  invariant `ClassInv` says what the copy has come to after the n-th line (`RowsOf`), and the
  last line makes that the whole file;
* `WaitsOneLimit` (`OneTimeLimit`) from `TimeInv`: a request carries the time that it began
  at, its results so far and, for each open call, a deadline that is the end of the one
  limit, so that the clock cannot pass it, and a 504 comes exactly with a timeout;
* `LoadsOnce` (`NoLoadStorm`) from `LoadInv` beside `TimeInv`: the lock has one holder, the
  marks for "there" and "failed at" are those of the last build, and whoever is about to
  build looked at them under the lock;
* `DeliveryFits`, the invariant `DeliveryInv` of tasks, streams and jobs, and from it
  `OneEnd`, `AnswersStay` and `SearchForAReason` (`StreamEndsOnce`, `JobAnswersStay`,
  `SearchHasReason`). For a stream, what is in the queue and what is sent make up early text
  and end (`Carried`); for a job, every answer given still stands (`PollStands`), which is
  why the next one cannot contradict it, and a job that is not known has had its time
  (`JobOK`). A task that searches came there by the rules, the judge or the agent (`WayOK`),
  and `SearchRules` goes through the rules in their order.

`TimeInv` and `LoadInv` together, `DeliveryInv`, `EmbedInv` and `FoundInv` were checked by TLC
on the instance of `services` before they were proved. The liveness of the module stays with TLC.

* `NobodyLeftBehind` (`EmbedResumes`), for every catalogue, both sizes and any number of
  runs that died. A run passes the books in the order of their ids, a scan, a comparison and
  several batches at a time, while titles change. `EmbedInv` says of every book up to where
  the run has come (`Reach`) that nobody touched: it is settled, or its row still waits in
  the work of the run (`NoneLeft`); a row that waits is as the book is by now, unless that
  was touched (`PendingFits`); and a hash is that of the text of the vector beside it
  (`DocsFit`), whichever runs died before.
* `PreferencesWereSaid` (`ExtractionsFit`), from `ExtractionAssumption` and `WordsAssumption`
  too (strengths are whole numbers, talks and answers are lists, and a condition is written
  with a bound that the patterns know). `FoundInv` says what a request holds while it waits,
  loads and fails: nothing before an answer, then exactly what the answer heard comes to. The
  rest is one lemma about the pure part, `ScreenHolds`: whatever a model says, merging keeps
  every key once with its first words and its greatest strength (`MergedIs`), and the order
  by strength cut at the limit leaves out only what is no stronger (`OrderOfStrength`).

`SequenceFacts` holds what these proofs need of numbers and sequences: least numbers, facts
for all numbers from a step (`EveryNumber`), sequences put behind each other, what the
operators of `Orders` return (a part of a sequence in its order, a list by key). Induction is
done there on sets of numbers: the least number without a fact has one before it that has
the fact, and no operator has to be passed to a theorem.

`PagesProofs` proves from `FeedPagesAssumption` (the catalogue, the products of a book and the
history at first are finite, limits are positive), `BooksAssumption` (an id is one book; years,
sales, prices and likenesses are whole numbers), `AsksAssumption`, `SavedListsAssumption`,
`ProfilesAssumption` (weights are whole numbers) and `NoneAssumption`,
for every catalogue, every request and page size, and any number of pages, changes and
failures:

* `FeedFits`, the inductive invariant `FeedInv`;
* `PagesJoin` (`FeedPagesJoin`): the pages join to the whole list of the first one;
* `NotCutOff` (`FeedNotCutOff`): a cursor is refused only for a reason;
* `NothingUnfit` (`ShownFits`): no page shows what its request filters out, or what the replica
  had, when the page was made, as bought, kept or disliked before the first page.

The history is late in these proofs as it is in the model: for every order and delay of
replication, and any changes of status.

No page knows the one before, so the invariant has to say why the list made now is the one
of the first page. `Stands` says it for each of the four modes: the promised list is what
this mode makes of the history up to the first page and of the saved list, profile and
vectors as they are, and the reason for that mode still holds (for the list by rules: there
are no vectors that answer, or none at all). Every change either keeps `Stands` or makes
the scroll not `quiet`. Of a row that is replicated, or changes its status, that is a matter of the
rows read so far: the later pages read those up to the second of the first page, and either these are
the same as before (`DisturbsRows`), or the scroll is not `quiet`, or its list is not made of rows at
all. Where the books are sent along, what a quiet scroll was sent is what it would be sent now
(`OwnedStand`). That the history is cut at a
whole second is harmless exactly if no row fell into the part cut off when the first page was made,
which is the hypothesis `~split` that `second` shows to be needed. The cursor stands where
what was shown ends (`Halfway`), and one more window continues it (`GoesOn`, `Shows`).

`NotCutOff` does not go through `Stands`, since the list of a page may be another one as long as its
mode is not. The invariant says instead that the mode of the cursor is to be had while the scroll is
`steady` (`ToBeHad`, `ModeStands`): there is a taste vector or none, and the vectors answer or do
not. The choice of `service.feed` then falls on that mode again whatever the list has become
(`ModeMade`, `ModeKeeps`). For the vectors this rests on `TasteServes`: the page is taken from them
exactly if they are up and of some book, because a page that shows nothing is taken from them
too once there is a vector at all, and without one there is nothing to show.

The proof corrected the model once: the history variable `quiet` asked whether a rebuild
ended the version of the saved list that the last reply named; a reply that failed names
none. It now asks for the version that the cursor holds.

`ShownFits` rests on one fact about each of the four lists (`SavedAllFits`, `TasteFits`,
`RuleFits`, `ColdFits`): all in it pass the filter and the lower bound, and are not excluded
(`AllFit`). Three of the lists filter in their query. The saved list filters in its own way, and
at home not at all, so there the proof needs that a valid home request has no filter
(`HomePasses`). That scores, prices and weights are whole numbers is what makes every order a
list of the books it was made of. `ShownInv` adds only that times are numbers and that a request that
is read is a valid one. `ShownFits` is about one step, the one that sends a page, and so about
the replica of that step: a row that counts by then, with a time up to the second of the first
page, is among those the page reads, whichever page it is (`FitIsShown`, `AnswerShows`). Of rows that
come later nothing can be said of this page, and nothing is.

The search is proved in the same module, from `SearchAssumption` (limits, sizes and the
four orders), `ShelfAssumption` (a finite shelf on which an id is one book), `FitAssumption`
(fit and closeness are whole numbers) and `NothingAssumption`:

* `SearchHolds`, the inductive invariant `SearchInv`;
* `SearchesJoin` (`SearchPagesJoin`).

A ranking depends on vectors that may fail at any moment, and on words that were found some
statements before. The invariant therefore says of the words found that they are those found
in the books there now, and of the whole list that it is `IdsOf` the mode the cursor
carries: no other argument of the ranking can differ while the client sends the same request.
`RankingIs` shows the ranking of a page to be `IdsOf` its own mode, so the next page reads
the same list exactly if `ModeKept` lets it through. The rest is that no step of
the ranking loses or invents a book: words, vectors, fusion and orders give lists
of books that are there (a product over a finite set is a whole number, `ProductIsInt`, and
a finite set sorts into a list of its members, `SortedList`), so `Fetch` drops nothing.

`ListsProofs` proves from `StockAssumption` (finitely many books, each with its own id, their
numbers whole), `RequestsAssumption` (what the backend sends of a line and of an onboarding; a
keyword that stands for a line has a vector), `TablesAssumption` and `NoEmptyName` (the tables of
`interests.py` agree with each other, and no class is called nothing) and
`InterestListAssumption`, for every catalogue, memory, onboarding and history, and however long
each query takes:

* `LateHolds`, the inductive invariant `LateInv`;
* `LatecomersAreSmall` (`LatecomersSmall`);
* `ListHolds`, the inductive invariant `ListInv`;
* `AuthorsAreSpread` (`AuthorsSpread`);
* `HearingHolds`, the inductive invariant `HeardInv`;
* `NothingIsUnwanted` (`NothingUnwanted`);
* `SeatsAreGiven`, the invariant `GivenInv`;
* `SeatsAreShared` (`SeatsShared`).

`LateInv` has two halves. What waits has no more seats than what was begun (`Waiting`,
`Begun`), because the jobs are sorted by seats and taken from the front; and who ran out of time
came after everyone who was answered in time (`Missing`), because the one budget does not come
back. That the jobs are in order is the longer half: it needs every score to be a whole
number, through sums over books and lines, shares of a strength, weights and remainders
(`MemoryPoints`, `BookPoints`, `CombinedScored`), and every interest to have one entry in the list
of scores and one in the list of seats (`AllocateIs`), or `Count` would not say whose seats it
counts. A sort that puts larger seats later, or an interest with two entries, breaks it.

`ListInv` says what a finished list is made of: there are the sorted lists of what was kept, the
turns taken from them and the blocks of authors filled from the turns (`Assembled`), and an entry of
the list is a book kept for its interest. It holds because every query answers with books in stock
(`StockInv`): nothing is looked up of what is not there. The lemmas under it are about the operators:
`TurnsAre` (no book takes two turns, and each is taken from the list of its interest), a lemma for each
of `PlaceOrPutOff`, `Block` and `NextBlock`, and `AssembleIs`. Blocks lose no book and add none; a first
block shorter than its size put off nothing but authors who were full, which is `AuthorsSpread`.

`HeardInv` says what a request has heard of the user once it began: what the user has, the likes that
still count, and that an interest whose last word is a dislike is among the negatives and has no
seat. The way from the last word to "no seat" is the length of the memory. The last word in what was
told is still the last one in the order `memory_scores` reads (`InOrderMoves`, `LastStays`: the sort
is stable and leaves out nothing that counts); points of a run that ends in a dislike are below zero,
and what is shared out over several interests stays so (`LastRunIsNegative`, `ShareIsNegative`,
`MemoryAvoids`); neither books nor onboarding make up for it (`CombinedAvoids`); and `allocate` seats
only what has points above zero (`NoSeatIsGiven`). From there `NothingIsUnwanted` goes through
`_keeper`: a book is not kept if its author, its class or the parent of its class is among the
negatives. For a book of no class this is where `NoEmptyName` is needed.

`GivenInv` is about `allocate`. Rounding a share down gives `whole * floor + remainder = Total *
points` for each interest, so the seats left over, times `whole`, are the sum of the remainders: there
are at least none and fewer than interests (`RemaindersGive`), and the order by remainder gives
exactly that many interests one seat more (`FirstAreCounted`, `DivideIs`, `GivenOut`). Dropping who has
no seat takes nothing from the sum. `SeatsAreShared` then follows the turns: while anyone has more
places than seats, nobody who still has a book has fewer (`SharedOut`), and a turn keeps it that way
because the next to come is one with seats open, if there is one (`TurnIsFair`, `TurnShares`). The
turns end when the list is full or nobody has a book left. If an interest with a book left were short
of its seats at the end, nobody else would be above theirs, and the places would add up to less than
the seats, which is `Total`: the list would not be full. That an interest has as many books in the
finished list as it had turns is `SameMany`: blocks lose no book and editions change no interest.

By TLC only: `SameTitleFound` and all liveness. `SameTitleFound` does
not follow from the assumptions: it needs that the very title scores more than every other book, which
`word_similarity` gives and no line of the code says.

## 11. Not modelled

SQL query plans, HTTP, formats, prompts and the wording of answers. `taste_profile` is
written by nothing else than `HomeFeed` has. The flag `interest_feed` is taken as on: with
it off no list is saved, and the feed is `FeedPages` without `saved`. Pool exhaustion is not
modelled: every actor here holds exactly one connection from before its first lock to its
end, so a wait for a connection is a wait before `Begin`. Of the agent: comparing books and
the choice of the best combination. Of the chat: the candidates of a search are any books
there, and what makes a card worth showing is a free choice. What the backend has in stock
is in or out, without a count, so a refusal for too many is not among its answers. The books do
not change during one scroll of the feed (section 7). Which words are a sign for the
gate, a quote for the extraction or a fit for the search is a constant or a free choice: the
regular expressions and `pg_trgm` are not translated. Offline evaluations (`evals/`), scripts
and document tools do not belong to the running program.

`TypeOK` of `Replay` and of `ChatTurn` and `GoodAnswerCounts` are proved, and in no run's list.
