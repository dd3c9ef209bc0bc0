------------------------------ MODULE Gateway ------------------------------
(***************************************************************************)
(* The way to the models (app/gateway): calls of a language model under    *)
(* one limit of time (llm.py), the embedding model that is loaded once     *)
(* (embedding.py), and the requests that need both (app/extraction,        *)
(* routers/extractions.py, routers/embeddings.py). The models and the      *)
(* client library are external: they answer, fail or let their time pass.  *)
(***************************************************************************)
EXTENDS Extraction

CONSTANTS
  Callers,           \* requests; each makes one call
  Does,              \* [Callers -> set of kinds]: invoke, stream, extract, embed
  Talks, Answers,    \* of each: its conversations, and what a model may say of one
  Limit, OwnLimit,   \* LLM_TIMEOUT_SECONDS, EXTRACTION_SELF_HOSTED_TIMEOUT_SECONDS
  Cooldown,          \* _LOAD_RETRY_COOLDOWN_SECONDS
  MaxClock           \* bound of the clock

ASSUME GatewayAssumption ==
  /\ Limit \in Nat \ {0} /\ OwnLimit \in Nat \ {0} /\ Cooldown \in Nat /\ MaxClock \in Nat
  /\ \A c \in Callers : Does[c] \subseteq {"invoke", "stream", "extract", "embed"}

IsList(s) == s \in Seq(ToSet(s))

\* What is a number or a list is one, and the patterns for conditions know the bounds that
\* _BOUND and _SINCE know (extraction/rules.py:47-57).
ItemReads(item) ==
  /\ item.strength \in Int /\ IsList(item.names)
  /\ item.type = "condition" =>
       /\ DOMAIN item.keyword = {"unit", "n", "bound"}
       /\ item.keyword.unit \in {"pages", "man", "won"} => item.keyword.bound \in DOMAIN Bounds
       /\ item.keyword.unit = "year" => item.keyword.bound \in DOMAIN Sinces

ASSUME WordsAssumption ==
  \A c \in Callers :
    /\ \A talk \in Talks[c] : IsList(talk)
    /\ \A items \in Answers[c] : IsList(items) /\ \A i \in DOMAIN items : ItemReads(items[i])

VARIABLES
  clock,
  ownServer, \* the self-hosted model is set up
  llmOk,     \* _llm_ok
  loaded,    \* _model is there
  failedAt,  \* _load_failed_at; -1: None
  lock,      \* the callers that hold _load_lock
  call,      \* each caller's request
  builds     \* history: [from, to, good] of every attempt to load

gatewayVars == <<clock, ownServer, llmOk, loaded, failedAt, lock, call, builds>>

\* A request: where it is, since when, since when its present call lasts, what it took from
\* the model, what its calls came to, its end and how long it took (times only while they count).
NoCall == [at |-> "idle", kind |-> "none", since |-> 0, from |-> 0, talk |-> <<>>, heard |-> <<>>,
           tries |-> <<>>, found |-> <<>>, code |-> 0, took |-> 0]

GatewayInit ==
  /\ clock = 0 /\ ownServer \in BOOLEAN /\ llmOk = TRUE
  /\ loaded = FALSE /\ failedAt = -1 /\ lock = {} /\ builds = <<>>
  /\ call = [c \in Callers |-> NoCall]

Finish(r, code) ==
  [r EXCEPT !.at = "done", !.code = code, !.took = clock - r.since, !.since = 0, !.from = 0]
Becomes(c, r) == call' = [call EXCEPT ![c] = r]

-----------------------------------------------------------------------------
\* invoke_chain, stream_json, extract_preferences (nothing to take without consent or
\* words), embeddings.
Start(c, kind, talk, consented) ==
  /\ call[c].at = "idle" /\ kind \in Does[c]
  /\ LET new == [NoCall EXCEPT !.kind = kind, !.since = clock, !.from = clock, !.talk = talk] IN
       Becomes(c, IF kind = "embed" THEN [new EXCEPT !.at = "load"]
                  ELSE IF kind = "stream" THEN [new EXCEPT !.at = "stream"]
                  ELSE IF kind = "invoke" THEN [new EXCEPT !.at = "api"]
                  ELSE IF ~consented \/ talk = <<>> THEN Finish(new, 200)
                  ELSE [new EXCEPT !.at = IF ownServer THEN "own" ELSE "api"])
  /\ UNCHANGED <<clock, ownServer, llmOk, loaded, failedAt, lock, builds>>

\* Mutant: each call has its own limit only.
WholeStream(c) == call[c].kind = "stream"

\* asyncio.timeout: around both calls of invoke_chain_with_fallback, around a stream.
Whole(c) == call[c].kind = "stream" \/ (call[c].kind = "extract" /\ ownServer)

\* get_chat_model: the limit of one call, without a retry.
CallEnds(c) == call[c].from + (IF call[c].at = "own" THEN OwnLimit ELSE Limit)
Deadline(c) ==
  IF Whole(c) /\ call[c].since + Limit < CallEnds(c) THEN call[c].since + Limit ELSE CallEnds(c)

Asking(c) == call[c].at \in {"own", "api", "stream"}

\* A call of _llm_call fails: the error of the provider, a shape that cannot be read (no
\* text, no JSON, no list of extractions), or its time; the API is asked after its own model.
CallFails(c) ==
  /\ Asking(c)
  /\ \E why \in {"failed", "timeout"} :
       /\ why = "timeout" => clock = CallEnds(c)
       /\ LET tried == [call[c] EXCEPT !.tries = Append(@, why)] IN
          Becomes(c, IF call[c].at = "own" THEN [tried EXCEPT !.at = "api", !.from = clock]
                     ELSE Finish(tried, IF why = "timeout" THEN 504 ELSE 503))
  /\ llmOk' = FALSE
  /\ UNCHANGED <<clock, ownServer, loaded, failedAt, lock, builds>>

\* The limit of the whole: a call that is given up leaves no mark on _llm_ok, a stream does.
TimeIsUp(c) ==
  /\ Asking(c) /\ Whole(c) /\ clock = call[c].since + Limit
  /\ Becomes(c, Finish([call[c] EXCEPT !.tries = Append(@, "timeout")], 504))
  /\ llmOk' = (llmOk /\ call[c].at # "stream")
  /\ UNCHANGED <<clock, ownServer, loaded, failedAt, lock, builds>>

\* An error that is none of the model's is not tried again.
CallBreaks(c) ==
  /\ Asking(c)
  /\ Becomes(c, Finish([call[c] EXCEPT !.tries = Append(@, "broken")], 500))
  /\ UNCHANGED <<clock, ownServer, llmOk, loaded, failedAt, lock, builds>>

\* A piece of a stream: the wait for the next one starts anew.
Piece(c) ==
  /\ call[c].at = "stream" /\ call[c].from # clock
  /\ Becomes(c, [call[c] EXCEPT !.from = clock])
  /\ UNCHANGED <<clock, ownServer, llmOk, loaded, failedAt, lock, builds>>

\* The answer: to_extractions screens it, and asks for vectors only if something is left.
CallAnswers(c) ==
  /\ Asking(c)
  /\ \E items \in IF call[c].kind = "extract" THEN Answers[c] ELSE {<<>>} :
       LET found == Screen(items, Said(call[c].talk))
           told == [call[c] EXCEPT !.tries = Append(@, "good"), !.heard = items] IN
       Becomes(c, IF found = <<>> THEN Finish(told, 200)
                  ELSE [told EXCEPT !.at = "load", !.found = found, !.from = 0])
  /\ llmOk' = TRUE
  /\ UNCHANGED <<clock, ownServer, loaded, failedAt, lock, builds>>

-----------------------------------------------------------------------------
(* load_model, in a thread of its own, and embed.                          *)

NoVectors(c) == [Finish(call[c], 503) EXCEPT !.found = <<>>]

\* The look without the lock.
Load(c) ==
  /\ call[c].at = "load"
  /\ Becomes(c, [call[c] EXCEPT !.at = IF loaded THEN "encode" ELSE "wait", !.from = 0])
  /\ UNCHANGED <<clock, ownServer, llmOk, loaded, failedAt, lock, builds>>

CoolingDown == failedAt # -1 /\ clock - failedAt < Cooldown

\* Mutant: the model is not looked for again under the lock.
BuildsAnyway(c) == IF CoolingDown THEN "cold" ELSE "build"

\* What the holder of the lock finds.
Sees(c) == IF loaded THEN "encode" ELSE IF CoolingDown THEN "cold" ELSE "build"

Enter(c) ==
  /\ call[c].at = "wait" /\ lock = {}
  /\ Becomes(c, IF Sees(c) = "cold" THEN NoVectors(c)
                ELSE [call[c] EXCEPT !.at = Sees(c), !.from = IF Sees(c) = "build" THEN clock ELSE 0])
  /\ lock' = IF Sees(c) = "build" THEN {c} ELSE {}
  /\ UNCHANGED <<clock, ownServer, llmOk, loaded, failedAt, builds>>

\* _build_model: no file, no memory or another dimension.
Build(c) ==
  /\ call[c].at = "build" /\ lock' = {}
  /\ \E good \in BOOLEAN :
       /\ loaded' = (loaded \/ good) /\ failedAt' = IF good THEN -1 ELSE clock
       /\ Becomes(c, IF good THEN [call[c] EXCEPT !.at = "encode", !.from = 0] ELSE NoVectors(c))
       /\ builds' = Append(builds, [from |-> call[c].from, to |-> clock, good |-> good])
  /\ UNCHANGED <<clock, ownServer, llmOk>>

Encode(c) ==
  /\ call[c].at = "encode"
  /\ Becomes(c, Finish(call[c], 200)) \/ Becomes(c, NoVectors(c))
  /\ UNCHANGED <<clock, ownServer, llmOk, loaded, failedAt, lock, builds>>

-----------------------------------------------------------------------------
\* Timers run when they are due.
Tick ==
  /\ clock < MaxClock /\ clock' = clock + 1
  /\ \E c \in Callers : call[c].at # "done"
  /\ \A c \in Callers : Asking(c) => clock < Deadline(c)
  /\ UNCHANGED <<ownServer, llmOk, loaded, failedAt, lock, call, builds>>

GatewayNext ==
  \/ Tick
  \/ \E c \in Callers :
       \/ CallFails(c) \/ TimeIsUp(c) \/ CallBreaks(c) \/ Piece(c) \/ CallAnswers(c)
       \/ Load(c) \/ Enter(c) \/ Build(c) \/ Encode(c)
       \/ \E kind \in Does[c] :
            \E talk \in IF kind = "extract" THEN Talks[c] ELSE {<<>>} : \E consented \in BOOLEAN :
              (kind # "extract" => consented) /\ Start(c, kind, talk, consented)

GatewaySpec == GatewayInit /\ [][GatewayNext]_gatewayVars

-----------------------------------------------------------------------------
(* Properties.                                                             *)

\* A request waits for models no longer than the one limit, the second model is asked only
\* after the first one failed and never after an answer, and what is said of the failure is
\* right: 504 where the time ran out, 503 else (llm.py:210-216; extractions.py:52-58).
OneTimeLimit ==
  \A c \in Callers :
    LET r == call[c]  n == Len(r.tries) IN
    /\ Asking(c) => clock <= r.since + Limit
    /\ n <= 2 /\ \A i \in 1 .. n - 1 : r.tries[i] \in {"failed", "timeout"} /\ r.kind = "extract" /\ ownServer
    /\ r.at = "done" => (r.code = 504) = (n > 0 /\ r.tries[n] = "timeout")
    /\ r.code = 504 => r.took = Limit

\* The big model is read by one thread at a time, at most once with success, and after a
\* failure not before the pause is over, however many requests come (embedding.py:23-31).
NoLoadStorm ==
  /\ Cardinality({c \in Callers : call[c].at = "build"}) <= 1
  /\ \A i \in DOMAIN builds : \A j \in DOMAIN builds :
       i < j => ~builds[i].good /\ builds[j].from - builds[i].to >= Cooldown
  /\ \A c \in Callers : call[c].at = "build" /\ builds # <<>> =>
       ~builds[Len(builds)].good /\ call[c].from - builds[Len(builds)].to >= Cooldown

\* The preferences of an answer are those that were said, and an answer without any says so
\* only of a model's own words: a failure is never passed off as nothing found
\* (extraction/service.py:87-90).
ExtractionsFit ==
  \A c \in Callers :
    LET r == call[c] IN
    r.kind = "extract" /\ r.at = "done" =>
      /\ r.code # 200 => r.found = <<>>
      /\ r.code = 200 /\ r.tries # <<>> =>
           r.tries[Len(r.tries)] = "good" /\ ScreenFits(r.found, r.heard, r.talk)
=============================================================================
