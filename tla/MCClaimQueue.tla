----------------------------- MODULE MCClaimQueue -----------------------------
(***************************************************************************)
(* Instances of ClaimQueue for TLC.  Three sessions: s1 has an identity of *)
(* its own, s2 and s3 share one, so they compete for its agent messages,   *)
(* and s2 also sends to that shared identity.                              *)
(***************************************************************************)
EXTENDS ClaimQueue

CONSTANTS u1, u2, r1, r2, a1, a2, s1, s2, s3, alpha, beta

MCSessionOf ==
    [m \in Msg |-> IF m = a2 THEN s2 ELSE s1]

\* Both agent messages go to the identity s2 and s3 share; a2 is s2's own.
MCRecipient == [m \in AgentMsg |-> beta]

MCAgentIdentity == [s \in Session |-> IF s = s1 THEN alpha ELSE beta]

\* The human queue of s2 instead: s2 can meet a human and an agent message.
MCSessionOfMixed ==
    [m \in Msg |-> IF m \in AgentMsg THEN s1 ELSE s2]
===============================================================================
