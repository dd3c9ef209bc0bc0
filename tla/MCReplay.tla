------------------------------ MODULE MCReplay ------------------------------
(* Instances of Replay for TLC.                                            *)
EXTENDS Replay

CONSTANTS a1, a2, a3, a4, a5, a6, k1, sure, unsure, bad

Sent(k, b, v) == [key |-> k, body |-> b, via |-> v]

\* One key used six times: three times for one message, by both ways, once for
\* another one, and by both ways for what is no request at all.
OneKey == [a \in Attempts |->
  CASE a = a1 -> Sent(k1, sure, "act")
    [] a = a2 -> Sent(k1, sure, "chat")
    [] a = a3 -> Sent(k1, sure, "act")
    [] a = a4 -> Sent(k1, unsure, "chat")
    [] a = a5 -> Sent(k1, bad, "chat")
    [] a = a6 -> Sent(k1, bad, "act")]

\* One message the gate is not sure of, sent twice over the chat.
Twice == [a \in Attempts |-> Sent(k1, unsure, "chat")]
=============================================================================
