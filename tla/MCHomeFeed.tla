---------------------------- MODULE MCHomeFeed ----------------------------
(* Instances of HomeFeed for TLC.                                          *)
EXTENDS HomeFeed, TLC

CONSTANTS u1, u2, r1, r2, r3, t1, t2

\* Three requests of one user; the first and the third ask for the same profile.
OneUser == [r \in Requests |-> u1]
Tastes2 == [r \in Requests |-> IF r = r2 THEN t2 ELSE t1]

\* Nothing tells one interest from another, nor the two requests for the same profile.
Alike == Permutations(Interests) \cup Permutations({r1, r3})
=============================================================================
