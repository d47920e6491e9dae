----------------------------- MODULE AtLeastOnce -----------------------------
(***************************************************************************)
(* What the daemon's queues promise, whatever claims, leases and restarts  *)
(* they use inside: a message is accepted once; until its fate is sealed   *)
(* it may be handed out, any number of times; it is settled only after it  *)
(* was handed out; and a message settled or withdrawn is never handed out  *)
(* again, nor does either fate turn into the other.                        *)
(***************************************************************************)
CONSTANTS
    Msg,
    Call        \* names of receives

VARIABLES
    accepted,   \* messages the queue took responsibility for
    handed,     \* which receive was given which message
    settled,    \* messages a receiver confirmed
    withdrawn   \* messages given up: unreadable, expired, or of a dropped session

vars == <<accepted, handed, settled, withdrawn>>

Pending == accepted \ (settled \cup withdrawn)

Init ==
    /\ accepted = {}
    /\ handed = {}
    /\ settled = {}
    /\ withdrawn = {}

Accept(m) ==
    /\ m \in Msg \ accepted
    /\ accepted' = accepted \cup {m}
    /\ UNCHANGED <<handed, settled, withdrawn>>

\* One receive, k: it gives up the unreadable heads it meets and hands out at
\* most one other pending message.
Serve(k, lost, given) ==
    /\ \A h \in handed : h.call # k
    /\ lost \subseteq Pending
    /\ given \subseteq Pending \ lost
    /\ \A m, n \in given : m = n
    /\ handed' = handed \cup [call : {k}, msg : given]
    /\ withdrawn' = withdrawn \cup lost
    /\ UNCHANGED <<accepted, settled>>

Settle(m) ==
    /\ m \in Pending
    /\ \E h \in handed : h.msg = m
    /\ settled' = settled \cup {m}
    /\ UNCHANGED <<accepted, handed, withdrawn>>

Withdraw(lost) ==
    /\ lost \subseteq Pending
    /\ withdrawn' = withdrawn \cup lost
    /\ UNCHANGED <<accepted, handed, settled>>

Next ==
    \/ \E m \in Msg : Accept(m)
    \/ \E k \in Call : \E lost \in SUBSET Pending : \E given \in SUBSET (Pending \ lost) :
          Serve(k, lost, given)
    \/ \E m \in Msg : Settle(m)
    \/ \E lost \in SUBSET Pending : Withdraw(lost)

Spec == Init /\ [][Next]_vars
===============================================================================
