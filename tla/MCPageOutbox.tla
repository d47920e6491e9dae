------------------------------ MODULE MCPageOutbox ------------------------------
(***************************************************************************)
(* Instances of PageOutbox for TLC: two messages of one session, beside    *)
(* another session, or of two sessions that share the socket.              *)
(***************************************************************************)
EXTENDS PageOutbox, TLC

CONSTANTS m1, m2, s1, s2

MCOneSession == [m \in Message |-> s1]

MCTwoSessions == (m1 :> s1) @@ (m2 :> s2)
===============================================================================
