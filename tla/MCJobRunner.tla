------------------------------ MODULE MCJobRunner ------------------------------
(***************************************************************************)
(* Instances of JobRunner for TLC: two jobs, one chat session, one run-now *)
(* request and one CLI process at a time.                                  *)
(***************************************************************************)
EXTENDS JobRunner, TLC

CONSTANTS j1, j2, i1, i2, t1, t2, now1, cli1, c1, w1, w2

MCSession == {SCHEDULER} \cup Chat
\* With Chunk = 1 the order within a chunk, a CHOOSE, tells no items apart.
FeedSymmetry == Permutations(Lane) \cup Permutations(Item)
MCKey == Job \cup Chat
===============================================================================
