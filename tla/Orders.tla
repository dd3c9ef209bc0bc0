------------------------------- MODULE Orders -------------------------------
(***************************************************************************)
(* Sorting and filtering: ORDER BY and LIMIT of the queries, and the lists *)
(* sorted or filtered in Python. A key is a tuple of integers, compared    *)
(* from the left.                                                          *)
(***************************************************************************)
EXTENDS Integers, Sequences, FiniteSets, SequencesExt, FiniteSetsExt

Before(a, b) ==
  \E i \in DOMAIN a : a[i] < b[i] /\ \A j \in 1 .. i - 1 : a[j] = b[j]

\* One that no other sorts before.
Least(S, Key(_)) == CHOOSE x \in S : \A y \in S : ~Before(Key(y), Key(x))

\* What a set of <<key, member>> holds, least key first; the keys differ.
ByKey(keyed) ==
  LET placed == {<<Cardinality({y \in keyed : Before(y[1], x[1])}), x[2]>> : x \in keyed}
  IN [i \in 1 .. Cardinality(placed) |-> (CHOOSE p \in placed : p[1] = i - 1)[2]]

Ordered(S, Key(_)) == ByKey({<<Key(x), x>> : x \in S})

\* The members of a sequence that are in S, in their order.
Only(s, S) ==
  LET kept[n \in 0 .. Len(s)] ==
        IF n = 0 THEN <<>>
        ELSE IF s[n] \in S THEN Append(kept[n - 1], s[n]) ELSE kept[n - 1]
  IN kept[Len(s)]

\* Python's sorted: what compares equal stays in its place.
StableSort(s, Key(_)) ==
  LET place == Ordered(DOMAIN s, LAMBDA i : Append(Key(s[i]), i))
  IN [k \in 1 .. Len(s) |-> s[place[k]]]

Take(s, n) == SubSeq(s, 1, Min({n, Len(s)}))
=============================================================================
