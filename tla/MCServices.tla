----------------------------- MODULE MCServices -----------------------------
(***************************************************************************)
(* The services beside the turns, for TLC: the carrying of answers, the    *)
(* way to the models and the jobs share no state, so that one part moves   *)
(* in a behaviour and the others stay as they began.                       *)
(***************************************************************************)
EXTENDS ChatDelivery, Gateway, BookJobs, TLC

VARIABLE part

Parts == {"streams", "polls", "models", "words", "vectors", "classes"}

\* Chat: one stream for which every message is tried, two polled jobs for which one is.
Bot(question) == [role |-> "assistant", question |-> question]
User == [role |-> "user", question |-> "none"]
MCTurns == {<<>>, <<Bot("action"), User>>} \cup {<<User, Bot(q)>> : q \in Questions \ {"none"}}
MCOff == {[signs |-> {}, shown |-> FALSE, turns |-> <<>>, shopping |-> FALSE]}
MCSays == [s1 |-> MCOff \cup [signs : {s \in SUBSET Signs : Cardinality(s) <= 2},
                              shown : BOOLEAN, turns : MCTurns, shopping : {TRUE}],
           j1 |-> MCOff, j2 |-> MCOff]
MCPolls == [j1 |-> 3, j2 |-> 0]

\* Models: c1 to c3 meet each other; c0 alone, with every answer.
Meet == {"c1", "c2", "c3"}
MCDoes == [c0 |-> {"extract", "invoke", "stream"}, c1 |-> {"extract"}, c2 |-> {"embed"}, c3 |-> {"embed"}]

Turn(role, words, once) == [role |-> role, words |-> words, once |-> once]
MCTalk == <<Turn("user", {"sf", "love"}, FALSE)>>
MCTalks == {<<>>,
  <<Turn("user", {"sf", "love"}, FALSE), Turn("assistant", {"poem"}, FALSE), Turn("user", {"pages", "love"}, TRUE)>>,
  <<Turn("user", {"pages", "poem"}, FALSE), Turn("user", {"sf", "love"}, FALSE), Turn("user", {"sf"}, FALSE)>>}

Key(unit, n, bound) == [unit |-> unit, n |-> n, bound |-> bound]
Sf == [type |-> "topic", value |-> "likes", strength |-> 2, basis |-> "stated", owner |-> "user",
       evidence |-> {"sf", "love"}, strong |-> FALSE, keyword |-> Key("words", 1, "a"),
       names |-> <<"SF", "No", "SF">>]
Price == [Sf EXCEPT !.type = "condition", !.value = "plain", !.evidence = {"pages"},
                    !.keyword = Key("won", 15000, "atMost"), !.names = <<>>]
MCItems ==
  {Sf, Price,
   [Sf EXCEPT !.keyword.bound = "b", !.strong = TRUE, !.names = <<>>],
   [Sf EXCEPT !.basis = "requested", !.value = "plain", !.strength = 3, !.keyword.n = 2],
   [Sf EXCEPT !.owner = "other"],
   [Sf EXCEPT !.strength = -1, !.basis = "requested", !.value = "plain"],
   [Sf EXCEPT !.type = "mood", !.strength = -2, !.evidence = {"poem"}, !.keyword = Key("title", 1, "a")],
   [Price EXCEPT !.strength = 1, !.strong = TRUE, !.keyword = Key("man", 15, "below")],
   [Price EXCEPT !.basis = "requested", !.keyword = Key("pages", 300, "above")]}
MCAnswers == [c \in DOMAIN MCDoes |->
  IF c = "c0" THEN UNION {[1 .. n -> MCItems] : n \in 0 .. 3} ELSE {<<>>, <<Sf>>}]
MCConversations == [c \in DOMAIN MCDoes |-> IF c = "c0" THEN MCTalks ELSE {MCTalk}]

\* Jobs.
Lines == [isbn : {1, 2}, class : {"a", "b"}, good : {TRUE}] \cup [isbn : {1}, class : {"a"}, good : {FALSE}]
MCFiles == [header : {TRUE}, lines : UNION {[1 .. n -> Lines] : n \in 0 .. 3}]
           \cup {[header |-> FALSE, lines |-> <<>>]}

Init ==
  /\ part \in Parts
  /\ DeliveryInit /\ GatewayInit /\ EmbedInit /\ ClassInit
  /\ part # "words" => ~ownServer
  /\ part # "vectors" => vector = Empty /\ ~hashed /\ text = [b \in Books |-> 0]
  /\ part = "vectors" => text[LastBook] = 1 /\ DOMAIN vector \in {{}, {1}, Books}

Next ==
  /\ part' = part
  /\ \/ /\ part \in {"streams", "polls"} /\ DeliveryNext
        /\ \A r \in IF part = "streams" THEN Polled ELSE Streams : work'[r] = NoWork
        /\ UNCHANGED <<gatewayVars, jobsVars>>
     \/ /\ part \in {"models", "words"} /\ GatewayNext
        /\ \A c \in IF part = "models" THEN Callers \ Meet ELSE Meet : call'[c] = NoCall
        /\ UNCHANGED <<deliveryVars, jobsVars>>
     \/ part = "vectors" /\ EmbedNext /\ UNCHANGED <<deliveryVars, gatewayVars>>
     \/ part = "classes" /\ ClassNext /\ UNCHANGED <<deliveryVars, gatewayVars>>

Spec == Init /\ [][Next]_<<part, deliveryVars, gatewayVars, jobsVars>> /\ DeliveryFairness
=============================================================================
