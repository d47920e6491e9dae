------------------------------ MODULE ClaimQueue ------------------------------
(***************************************************************************)
(* The two message queues of daemon.db, as store/index.ts keeps them and   *)
(* frame-handlers.ts uses them.                                            *)
(*                                                                         *)
(* `messages` holds what a human typed for a session (role user) and what  *)
(* the session's agent answered (role agent); `agent_messages` holds what  *)
(* one agent sent to the identity of another.  A receive claims the oldest *)
(* claimable row under a fresh claim id and a lease; an acknowledgement    *)
(* naming that claim id settles the row.  Every operation below is one     *)
(* synchronous call, so it is one step; what interleaves is the order in   *)
(* which sessions receive, acknowledge, close, and the daemon boots.       *)
(***************************************************************************)
EXTENDS Naturals, FiniteSets

CONSTANTS
    UserMsg,        \* ids of rows of `messages` with role user
    ReplyMsg,       \* ids of rows of `messages` with role agent
    AgentMsg,       \* ids of rows of `agent_messages`
    Session,        \* session ids
    Identity,       \* agent identities
    SessionOf,      \* session_id of a message, sender_session_id of an agent message
    Recipient,      \* recipient_identity of an agent message
    AgentIdentity,  \* agentIdentity of a session's registry record
    Corrupt,        \* rows whose body the current key cannot decrypt
    RowLimit,       \* MESSAGE_RETENTION_ROW_LIMIT
    MaxCalls        \* bound: claiming calls in one behaviour

Msg == UserMsg \cup ReplyMsg \cup AgentMsg

ASSUME MsgAssumption ==
    /\ UserMsg \cap ReplyMsg = {}
    /\ UserMsg \cap AgentMsg = {}
    /\ ReplyMsg \cap AgentMsg = {}
    /\ Corrupt \subseteq Msg

ASSUME SessionAssumption ==
    /\ SessionOf \in [Msg -> Session]
    /\ Recipient \in [AgentMsg -> Identity]
    /\ AgentIdentity \in [Session -> Identity]

ASSUME BoundAssumption ==
    /\ RowLimit \in Nat \ {0}
    /\ MaxCalls \in Nat

VARIABLES
    seq,        \* seq[m]: the row's AUTOINCREMENT key, 0 before its insert
    nextSeq,    \* the key the next insert gets
    stored,     \* rows present in their table
    delivered,  \* rows whose delivered_at is set (kept after a row is deleted)
    claim,      \* claim[m]: claim_id of the row, 0 for NULL
    calls,      \* number of the last call that claimed; stands for its random UUIDs
    leased,     \* calls whose claimed_at is still inside the lease
    aged,       \* agent messages older than AGENT_MESSAGE_RETENTION_DAYS
    closed,     \* sessions that were closed and archived
    issued,     \* history: what each call handed to its caller
    acked       \* history: the acknowledgements that settled a row

store == <<seq, nextSeq, stored, delivered, claim, aged>>
vars == <<seq, nextSeq, stored, delivered, claim, calls, leased, aged, closed, issued, acked>>

Handout == [call : Nat \ {0}, msg : Msg, sess : Session]

Init ==
    /\ seq = [m \in Msg |-> 0]
    /\ nextSeq = 1
    /\ stored = {}
    /\ delivered = {}
    /\ claim = [m \in Msg |-> 0]
    /\ calls = 0
    /\ leased = {}
    /\ aged = {}
    /\ closed = {}
    /\ issued = {}
    /\ acked = {}

-------------------------------------------------------------------------------
(***************************************************************************)
(* Inserts.  The id column is UNIQUE, so an id is inserted once; only a    *)
(* frame of an open session reaches the handler.                           *)
(***************************************************************************)
InsertRow(m) ==
    /\ seq[m] = 0
    /\ SessionOf[m] \notin closed
    /\ seq' = [seq EXCEPT ![m] = nextSeq]
    /\ nextSeq' = nextSeq + 1
    /\ stored' = stored \cup {m}
    /\ UNCHANGED <<delivered, claim, calls, leased, aged, closed, issued, acked>>

\* A page's user-message, or an agent's cli-send without a recipient.
InsertMessage(m) == m \in UserMsg \cup ReplyMsg /\ InsertRow(m)

\* An agent's cli-send --to an identity.
InsertAgentMessage(m) == m \in AgentMsg /\ InsertRow(m)

-------------------------------------------------------------------------------
(***************************************************************************)
(* Claims.                                                                 *)
(***************************************************************************)
\* Rows MESSAGE_CLAIM_SQL filters for session s.
UserQueue(s) == {m \in UserMsg \cap stored : SessionOf[m] = s}

\* Rows AGENT_MESSAGE_CLAIM_SQL filters for session s: its identity's inbox
\* without what the session itself sent.
AgentQueue(s) ==
    {m \in AgentMsg \cap stored : Recipient[m] = AgentIdentity[s] /\ SessionOf[m] # s}

\* Mutants of Claimable: the claim query without one of its conditions.
ClaimableUnderLease(rows) == {m \in rows : m \notin delivered}
ClaimableOnceDelivered(rows) == {m \in rows : claim[m] \notin leased}
ClaimableOnlyOnce(rows) == {m \in rows : m \notin delivered /\ claim[m] = 0}

\* Undelivered, and never claimed or claimed before the lease cutoff.
Claimable(rows) == {m \in rows : m \notin delivered /\ claim[m] \notin leased}

\* Mutant of Oldest: ORDER BY seq DESC.
Newest(rows) == {m \in rows : \A n \in rows : seq[m] >= seq[n]}

\* ORDER BY seq ASC LIMIT 1: the singleton of the oldest row, or {}.
Oldest(rows) == {m \in rows : \A n \in rows : seq[m] <= seq[n]}

\* The row each claim call takes, as a singleton, or {}.
ClaimNext(s) == Oldest(Claimable(UserQueue(s)))
ClaimNextAgentMessage(s) == Oldest(Claimable(AgentQueue(s)))

(***************************************************************************)
(* claimForSession: the human queue first and, when that yields nothing,   *)
(* the agent queue.  A row that does not decrypt is claimed, marked        *)
(* delivered and yields nothing, so a call can drop the head of one queue  *)
(* and hand out, or drop, the head of the other.  One number stands for    *)
(* the two UUIDs such a call draws: an ack naming it can reach only the    *)
(* row that is still undelivered.                                          *)
(***************************************************************************)
Taken(s) ==
    IF ClaimNext(s) \subseteq Corrupt
    THEN ClaimNext(s) \cup ClaimNextAgentMessage(s)
    ELSE ClaimNext(s)

ClaimForSession(s) ==
    /\ s \notin closed
    /\ calls < MaxCalls
    /\ Taken(s) # {}
    /\ calls' = calls + 1
    /\ claim' = [m \in Msg |-> IF m \in Taken(s) THEN calls' ELSE claim[m]]
    /\ leased' = leased \cup {calls'}
    /\ delivered' = delivered \cup (Taken(s) \cap Corrupt)
    /\ issued' = issued \cup
         [call : {calls'}, msg : Taken(s) \ Corrupt, sess : {s}]
    /\ UNCHANGED <<seq, nextSeq, stored, aged, closed, acked>>

\* Date.now() passes claimed_at + claimLeaseMs.
LeaseLapses(k) ==
    /\ k \in leased
    /\ leased' = leased \ {k}
    /\ UNCHANGED <<store, calls, closed, issued, acked>>

\* Mutant of AckedAgentMessages: acknowledging whatever claim the row now carries.
AckedInboxUnderAnyClaim(s, k) ==
    {m \in AgentMsg \cap stored :
        Recipient[m] = AgentIdentity[s] /\ claim[m] # 0 /\ m \notin delivered}

(***************************************************************************)
(* cli-ack: the session's own rows first, then its identity's inbox.  The  *)
(* claim id is one a receive of that session was given; the frame may come *)
(* late, twice, or after somebody else claimed the row.                    *)
(***************************************************************************)
AckedMessages(s, k) ==
    {m \in (UserMsg \cup ReplyMsg) \cap stored :
        SessionOf[m] = s /\ claim[m] = k /\ m \notin delivered}

AckedAgentMessages(s, k) ==
    {m \in AgentMsg \cap stored :
        Recipient[m] = AgentIdentity[s] /\ claim[m] = k /\ m \notin delivered}

AckedRows(s, k) ==
    IF AckedMessages(s, k) # {} THEN AckedMessages(s, k) ELSE AckedAgentMessages(s, k)

Ack(s, k) ==
    /\ s \notin closed
    /\ delivered' = delivered \cup AckedRows(s, k)
    /\ acked' = acked \cup [call : {k}, msg : AckedRows(s, k), sess : {s}]
    /\ UNCHANGED <<seq, nextSeq, stored, claim, calls, leased, aged, closed, issued>>

AckHandout(i) == i \in issued /\ Ack(i.sess, i.call)

-------------------------------------------------------------------------------
(***************************************************************************)
(* Boot, closing, housekeeping.                                            *)
(***************************************************************************)
\* cmdServe clears every claim of an undelivered row before it serves.  That
\* boot is the daemon's own restart, or a rival that then finds the port taken.
RecoverStaleClaims ==
    /\ claim' = [m \in Msg |-> IF m \in stored \ delivered THEN 0 ELSE claim[m]]
    /\ leased' = {}
    /\ UNCHANGED <<seq, nextSeq, stored, delivered, calls, aged, closed, issued, acked>>

\* registry.close for any reason but daemon-shutdown: the row is archived, its
\* token erased, and no socket can act for the session again.
CloseSession(s) ==
    /\ s \notin closed
    /\ closed' = closed \cup {s}
    /\ UNCHANGED <<store, calls, leased, issued, acked>>

\* created_at orders like seq, so agent messages pass the retention age in order.
AgentMessageAges(m) ==
    /\ m \in (AgentMsg \cap stored) \ aged
    /\ \A n \in (AgentMsg \cap stored) \ aged : seq[m] <= seq[n]
    /\ aged' = aged \cup {m}
    /\ UNCHANGED <<seq, nextSeq, stored, delivered, claim, calls, leased, closed, issued, acked>>

\* Rows of the same session's transcript that are newer than m.
Newer(m) ==
    {n \in (UserMsg \cup ReplyMsg) \cap stored :
        SessionOf[n] = SessionOf[m] /\ seq[n] > seq[m]}

\* Mutant of Overflow: waiting human messages are cut too.
OverflowWithWaiting ==
    {m \in (UserMsg \cup ReplyMsg) \cap stored : Cardinality(Newer(m)) >= RowLimit}

\* What pruneMessages deletes: rows older than the RowLimit-th newest of their
\* session, unless an undelivered human message.
Overflow ==
    {m \in (UserMsg \cup ReplyMsg) \cap stored :
        /\ Cardinality(Newer(m)) >= RowLimit
        /\ m \in ReplyMsg \/ m \in delivered}

\* What pruneArchive deletes for the archived sessions S it drops.
ArchivedRows(S) == {m \in stored : SessionOf[m] \in S}

(***************************************************************************)
(* One housekeeping tick: the archive prune drops sessions past its age or *)
(* row cap (which ones is SessionLifecycle's subject, so any closed        *)
(* sessions here), the agent-message prune drops every aged row, and once  *)
(* an hour the transcripts are cut to RowLimit.                            *)
(***************************************************************************)
Housekeeping(S, hourly) ==
    /\ S \subseteq closed
    /\ stored' = stored \ (ArchivedRows(S) \cup aged \cup
                           (IF hourly THEN Overflow ELSE {}))
    /\ stored' # stored
    /\ UNCHANGED <<seq, nextSeq, delivered, claim, calls, leased, aged, closed, issued, acked>>

Next ==
    \/ \E m \in Msg : InsertMessage(m)
    \/ \E m \in Msg : InsertAgentMessage(m)
    \/ \E s \in Session : ClaimForSession(s)
    \/ \E k \in leased : LeaseLapses(k)
    \/ \E i \in issued : AckHandout(i)
    \/ RecoverStaleClaims
    \/ \E s \in Session : CloseSession(s)
    \/ \E m \in AgentMsg : AgentMessageAges(m)
    \/ \E S \in SUBSET closed, hourly \in BOOLEAN : Housekeeping(S, hourly)

Spec == Init /\ [][Next]_vars

-------------------------------------------------------------------------------
(***************************************************************************)
(* Properties.                                                             *)
(***************************************************************************)
\* Every variable keeps its type, no call number runs ahead of `calls`.
TypeOK ==
    /\ seq \in [Msg -> Nat]
    /\ nextSeq \in Nat \ {0}
    /\ stored \subseteq Msg
    /\ delivered \subseteq Msg
    /\ claim \in [Msg -> Nat]
    /\ calls \in Nat
    /\ leased \subseteq 1..calls
    /\ aged \subseteq AgentMsg
    /\ closed \subseteq Session
    /\ issued \subseteq Handout
    /\ acked \subseteq Handout

\* A session may be given a message of its own human queue, or one that
\* another session sent to its identity (DEVELOPER.md: a sender's own session
\* can never claim its own outbound message back).
Entitled(m, s) ==
    \/ m \in UserMsg /\ SessionOf[m] = s
    \/ m \in AgentMsg /\ Recipient[m] = AgentIdentity[s] /\ SessionOf[m] # s

\* Two receives never hold the same message under leases that are both
\* running: while a claim's lease runs and the daemon has not rebooted, no
\* other call, of whatever session or identity, is given the row.
ExclusiveLease ==
    \A i, j \in issued :
        (i.msg = j.msg /\ i.call \in leased /\ j.call \in leased) => i = j

\* An acknowledgement settles only what was handed to that very session under
\* that very claim, and a readable message is marked delivered only by an
\* acknowledgement of its last claim from a session entitled to it: late acks
\* of a superseded claim, and acks after a reboot, settle nothing.
DeliveredByHolder ==
    /\ acked \subseteq issued
    /\ \A m \in delivered \ Corrupt :
          \E i \in acked : i.msg = m /\ i.call = claim[m] /\ Entitled(m, i.sess)

\* A message leaves its table undelivered only for a stated reason: its
\* session was closed and dropped from the archive, or (agent messages) it is
\* past the retention age.  A prune never takes a waiting human message.
NoSilentLoss ==
    \A m \in Msg \ ReplyMsg :
        (seq[m] # 0 /\ m \notin stored /\ m \notin delivered) =>
            SessionOf[m] \in closed \/ m \in aged

\* First handouts follow insertion order: a message that was never handed out
\* is overtaken in its queue only by a receive that may not have it, which is
\* its own sender's.
NoOvertaking ==
    \A m \in stored \ delivered : \A i \in issued :
        (/\ Entitled(m, i.sess)
         /\ {m, i.msg} \subseteq UserMsg \/ {m, i.msg} \subseteq AgentMsg
         /\ seq[m] < seq[i.msg])
        => \E j \in issued : j.msg = m

\* A delivered message is never claimed, handed out or undelivered again.
SettledForGood ==
    [][\A m \in delivered :
          /\ m \in delivered'
          /\ claim'[m] = claim[m]
          /\ \A i \in issued' \ issued : i.msg # m]_vars

-------------------------------------------------------------------------------
(***************************************************************************)
(* The queues implement the abstract at-least-once queue.                  *)
(***************************************************************************)
Accepted == {m \in Msg : seq[m] # 0}
Handed == {[call |-> i.call, msg |-> i.msg] : i \in issued}
Settled == delivered \ Corrupt
Withdrawn == (delivered \cap Corrupt) \cup (Accepted \ (stored \cup delivered))

Abstract == INSTANCE AtLeastOnce WITH
    Call <- 1..MaxCalls,
    accepted <- Accepted, handed <- Handed, settled <- Settled, withdrawn <- Withdrawn

\* Every behaviour of the claim and lease machinery, crashes, rival boots and
\* prunes included, is one of the at-least-once queue.
ImplementsAtLeastOnce == Abstract!Spec
===============================================================================
