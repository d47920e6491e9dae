------------------------------- MODULE MCChatRecv -------------------------------
(***************************************************************************)
(* An instance of ChatRecv for TLC: two receivers of s2, which has a human *)
(* message and an inbox that s1 writes to.                                 *)
(***************************************************************************)
EXTENDS ChatRecv

CONSTANTS u1, a1, s1, s2, alpha, beta, c1, c2

MCSessionOf == [m \in Msg |-> IF m \in AgentMsg THEN s1 ELSE s2]
MCRecipient == [m \in AgentMsg |-> beta]
MCAgentIdentity == [s \in Session |-> IF s = s1 THEN alpha ELSE beta]
MCClientSession == [c \in Client |-> s2]
===============================================================================
