---------------------------- MODULE FeedPromise ----------------------------
(***************************************************************************)
(* What the saved home feed promises, apart from locks, queues, workers    *)
(* and servers: the lists of a user are a history that only grows, each    *)
(* list made from the newest request or an improvement of the last one,    *)
(* and a request owes its user one list until it is saved or superseded.   *)
(* HomeFeed implements it.                                                 *)
(***************************************************************************)
EXTENDS Naturals, Sequences

CONSTANTS Users, Requests, Interests, UserOf

VARIABLES
  asked,  \* the requests of a user in the order they took effect
  owed,   \* is the list of the newest request still owed?
  lists   \* the lists of a user in the order they were saved

pvars == <<asked, owed, lists>>

Latest(u) == asked[u][Len(asked[u])]

PInit ==
  /\ asked = [u \in Users |-> <<>>]
  /\ owed = [u \in Users |-> FALSE]
  /\ lists = [u \in Users |-> <<>>]

New(u, r) == UserOf[r] = u /\ \A i \in DOMAIN asked[u] : asked[u][i] # r

Save(u, r, S) == lists' = [lists EXCEPT ![u] = Append(@, [from |-> r, subs |-> S])]

\* A request takes effect; an earlier one that is still owed a list is superseded.
Ask(u, r) ==
  /\ New(u, r)
  /\ asked' = [asked EXCEPT ![u] = Append(@, r)]
  /\ owed' = [owed EXCEPT ![u] = TRUE]
  /\ UNCHANGED lists

\* The list of the newest request, saved once.
Deliver(u, S) ==
  /\ owed[u]
  /\ Save(u, Latest(u), S)
  /\ owed' = [owed EXCEPT ![u] = FALSE]
  /\ UNCHANGED asked

\* A request that takes effect together with its list.
Answer(u, r, S) ==
  /\ New(u, r)
  /\ asked' = [asked EXCEPT ![u] = Append(@, r)]
  /\ Save(u, r, S)
  /\ owed' = [owed EXCEPT ![u] = FALSE]

\* The last list again, from the same materials and with fewer substitutes. A list
\* that is owed stays owed.
Improve(u, S) ==
  /\ lists[u] # <<>>
  /\ LET last == lists[u][Len(lists[u])]
     IN  S \subseteq last.subs /\ S # last.subs /\ Save(u, last.from, S)
  /\ UNCHANGED <<asked, owed>>

PNext ==
  \E u \in Users :
    \/ \E r \in Requests : Ask(u, r)
    \/ \E S \in SUBSET Interests : Deliver(u, S) \/ Improve(u, S)
    \/ \E r \in Requests, S \in SUBSET Interests : Answer(u, r, S)

PSpec == PInit /\ [][PNext]_pvars
=============================================================================
