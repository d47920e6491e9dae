---------------------------- MODULE MCReviewEngine ----------------------------
(***************************************************************************)
(* Instances of ReviewEngine for TLC: two chats that ask for the same pull *)
(* request.                                                                *)
(***************************************************************************)
EXTENDS ReviewEngine

CONSTANTS c1, c2, m1, m2, p1

MCPrOf == [m \in Message |-> p1]
MCStream == [c \in Chat |-> IF c = c1 THEN <<m1>> ELSE <<m2>>]
===============================================================================
