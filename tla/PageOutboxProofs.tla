---------------------------- MODULE PageOutboxProofs ----------------------------
(***************************************************************************)
(* What holds of the outbox for any number of messages, sessions, sockets  *)
(* and faults: no message is lost, and those of a session are stored in    *)
(* order.                                                                  *)
(***************************************************************************)
EXTENDS PageOutbox, TLAPS

\* No handshake of s is on its way on socket k, nor was one accepted.
Unknown(k, s) == s \notin hello[k] /\ s \notin granted[k]

\* The outbox holds composed messages of sessions the client holds, and an ack is for
\* a stored message.
Outboxed ==
    /\ outbox \subseteq Composed
    /\ \A m \in outbox : SessionOf[m] \in held
    /\ \A k \in Socket : sent[k] \subseteq Composed /\ acks[k] \subseteq stored
    /\ stored \subseteq Composed

\* A free socket is empty.
FreeIsEmpty ==
    \A k \in Socket : sock[k] \in {"free", "opening", "cut"}
        => sent[k] = {} /\ hello[k] = {} /\ granted[k] = {}

\* The client has not closed the socket it listens to.
CurrentListens == current # NoSocket => sock[current] # "shutting"

\* What is queued while frames can be written has been written.
QueuedIsSent ==
    CanSend => \A m \in outbox : \/ m \in sent[current] \cup stored
                                 \/ Unknown(current, SessionOf[m])

\* A message on its way has its predecessors with it, unless they are done with.
SentInOrder ==
    \A k \in Socket, m, n \in Message :
        Before(m, n) /\ SessionOf[m] = SessionOf[n] /\ n \in sent[k]
            => m \in sent[k] \cup stored \cup dropped \/ Unknown(k, SessionOf[m])

IInv ==
    /\ TypeOK /\ Outboxed /\ FreeIsEmpty /\ CurrentListens /\ QueuedIsSent /\ SentInOrder
    /\ NothingLost /\ StoredInOrder

----------------------------------------------------------------------------

\* Composing adds a last element: nothing comes after it.
LEMMA ComposeAppends ==
    ASSUME composed \in Seq(Message), NEW x \in Message, x \notin Composed,
           composed' = Append(composed, x)
    PROVE  /\ Composed' = Composed \cup {x}
           /\ \A m, n : Before(m, n)' <=> Before(m, n) \/ (n = x /\ m \in Composed)
<1> DEFINE L == Len(composed)
<1>1. /\ L \in Nat /\ DOMAIN composed = 1..L /\ DOMAIN composed' = 1..(L + 1)
      /\ \A i \in 1..L : composed'[i] = composed[i]
      /\ composed'[L + 1] = x
  OBVIOUS
<1>2. Composed' = Composed \cup {x}
  BY <1>1 DEF Composed
<1>3. ASSUME NEW m, NEW n, Before(m, n)'
      PROVE  Before(m, n) \/ (n = x /\ m \in Composed)
  <2>1. PICK i \in 1..(L + 1), j \in 1..(L + 1) :
          i < j /\ composed'[i] = m /\ composed'[j] = n
    BY <1>1, <1>3 DEF Before
  <2>2. i \in 1..L /\ composed[i] = m
    BY <1>1, <2>1
  <2>3. CASE j = L + 1
    BY <1>1, <2>1, <2>2, <2>3 DEF Composed
  <2>4. CASE j # L + 1
    BY <1>1, <2>1, <2>2, <2>4 DEF Before
  <2> QED BY <2>3, <2>4
<1>4. ASSUME NEW m, NEW n, Before(m, n)
      PROVE  Before(m, n)'
  BY <1>1, <1>4 DEF Before
<1>5. ASSUME NEW m, m \in Composed
      PROVE  Before(m, x)'
  BY <1>1, <1>5 DEF Before, Composed
<1> QED BY <1>2, <1>3, <1>4, <1>5

\* A message and one before it are both composed.
LEMMA BeforeComposed ==
    ASSUME NEW m, NEW n, Before(m, n)
    PROVE  m \in Composed /\ n \in Composed
BY DEF Before, Composed

LEMMA InvInit == Init => IInv
<1> SUFFICES ASSUME Init PROVE IInv
  OBVIOUS
<1> USE OutboxAssumption DEF Init
<1>1. TypeOK
  <2>1. composed \in Seq(Message) /\ faults \in 0..MaxFaults
    OBVIOUS
  <2> QED BY <2>1 DEF TypeOK
<1>2. Composed = {} /\ \A m, n : ~ Before(m, n)
  BY DEF Composed, Before
<1> QED BY <1>1, <1>2 DEF IInv, Outboxed, FreeIsEmpty, CurrentListens, QueuedIsSent,
          CanSend, SentInOrder, NothingLost, StoredInOrder

LEMMA ComposeInv ==
    ASSUME IInv, NEW m \in Message, Compose(m)
    PROVE  IInv'
<1> USE OutboxAssumption DEF IInv, Compose, client, wires, daemon
<1>0. /\ Composed' = Composed \cup {m}
      /\ \A a, b : Before(a, b)' <=> Before(a, b) \/ (b = m /\ a \in Composed)
  BY ComposeAppends DEF TypeOK
<1>1. TypeOK'
  <2>1. composed' \in Seq(Message)
    BY DEF TypeOK
  <2>2. sent' \in [Socket -> SUBSET Message]
    BY DEF TypeOK
  <2> QED BY <2>1, <2>2 DEF TypeOK
<1>2. Outboxed'
  BY <1>0 DEF Outboxed
<1>3. FreeIsEmpty'
  BY DEF FreeIsEmpty, CanSend
<1>4. CurrentListens'
  BY DEF CurrentListens
<1>5. QueuedIsSent'
  BY DEF QueuedIsSent, TypeOK, CanSend, Unknown
<1>6. SentInOrder'
  <2> SUFFICES ASSUME NEW k \in Socket, NEW a \in Message, NEW b \in Message,
                      Before(a, b)', SessionOf[a] = SessionOf[b], b \in sent'[k]
               PROVE  a \in sent'[k] \cup stored \cup dropped \/ Unknown(k, SessionOf[a])
    BY DEF SentInOrder, Unknown
  <2>1. CASE b = m
    <3>1. a \in Composed /\ m \notin sent[k]
      BY <1>0, <2>1, BeforeComposed DEF Outboxed
    <3>2. CanSend /\ k = current
      BY <2>1, <3>1 DEF TypeOK
    <3> QED BY <3>1, <3>2 DEF NothingLost, QueuedIsSent
  <2>2. CASE b # m
    <3>1. Before(a, b) /\ b \in sent[k] /\ sent[k] \subseteq sent'[k]
      BY <1>0, <2>2 DEF TypeOK
    <3> QED BY <3>1 DEF SentInOrder
  <2> QED BY <2>1, <2>2
<1>7. NothingLost'
  BY <1>0 DEF NothingLost
<1>8. StoredInOrder'
  BY <1>0 DEF StoredInOrder, Outboxed
<1> QED BY <1>1, <1>2, <1>3, <1>4, <1>5, <1>6, <1>7, <1>8

LEMMA ConnectInv ==
    ASSUME IInv, NEW s \in Session, Connect(s)
    PROVE  IInv'
<1> USE OutboxAssumption DEF IInv, Connect, client, wires, daemon
<1>1. TypeOK'
  BY DEF TypeOK
<1>2. Outboxed'
  BY DEF Outboxed, Composed
<1>3. FreeIsEmpty'
  BY DEF FreeIsEmpty, TypeOK, CanSend, Free
<1>4. CurrentListens'
  BY DEF CurrentListens, TypeOK, Free
<1>5. QueuedIsSent'
  BY DEF QueuedIsSent, TypeOK, CanSend, Unknown, Outboxed
<1>6. SentInOrder'
  <2> SUFFICES ASSUME NEW k \in Socket, NEW m \in Message, NEW n \in Message,
                      Before(m, n), SessionOf[m] = SessionOf[n], n \in sent[k],
                      m \notin sent[k] \cup stored \cup dropped
               PROVE  Unknown(k, SessionOf[m])'
    BY DEF SentInOrder, Before
  <2>1. SessionOf[m] \in held
    BY BeforeComposed DEF NothingLost, Outboxed
  <2>2. Unknown(k, SessionOf[m])
    BY DEF SentInOrder
  <2> QED BY <2>1, <2>2 DEF Unknown, TypeOK
<1>7. NothingLost'
  BY DEF NothingLost, Composed, TypeOK
<1>8. StoredInOrder'
  BY DEF StoredInOrder, Before
<1> QED BY <1>1, <1>2, <1>3, <1>4, <1>5, <1>6, <1>7, <1>8

LEMMA RetryNowInv ==
    ASSUME IInv, NEW k \in Socket, RetryNow(k)
    PROVE  IInv'
<1> USE OutboxAssumption DEF IInv, RetryNow, client, wires, daemon
<1>1. TypeOK'
  <2>1. sock' \in [Socket -> {"free", "opening", "open", "shutting", "cut"}]
    BY DEF TypeOK
  <2>2. acks' \in [Socket -> SUBSET Message] /\ ended' \in [Socket -> SUBSET Session]
    BY DEF TypeOK
  <2>3. faults' \in 0..MaxFaults
    BY DEF TypeOK
  <2> QED BY <2>1, <2>2, <2>3 DEF TypeOK
<1>2. Outboxed'
  BY DEF Outboxed, Composed
<1>3. FreeIsEmpty'
  BY DEF FreeIsEmpty, TypeOK, CurrentListens, Free
<1>4. CurrentListens'
  BY DEF CurrentListens, TypeOK, Free
<1>5. QueuedIsSent'
  BY DEF QueuedIsSent, CanSend
<1>6. SentInOrder'
  BY DEF SentInOrder, Before, Unknown
<1>7. NothingLost'
  BY DEF NothingLost, Composed
<1>8. StoredInOrder'
  BY DEF StoredInOrder, Before
<1> QED BY <1>1, <1>2, <1>3, <1>4, <1>5, <1>6, <1>7, <1>8

LEMMA RetryNothingInv ==
    ASSUME IInv, RetryNothing
    PROVE  IInv'
<1> USE OutboxAssumption DEF IInv, RetryNothing, client, wires, daemon
<1>1. TypeOK'
  BY DEF TypeOK
<1>2. Outboxed'
  BY DEF Outboxed, Composed
<1>3. FreeIsEmpty'
  BY DEF FreeIsEmpty
<1>4. CurrentListens'
  BY DEF CurrentListens
<1>5. QueuedIsSent'
  BY DEF QueuedIsSent, Outboxed
<1>6. SentInOrder'
  BY DEF SentInOrder, Before, Unknown, Outboxed
<1>7. NothingLost'
  BY DEF NothingLost, Composed
<1>8. StoredInOrder'
  BY DEF StoredInOrder, Before
<1> QED BY <1>1, <1>2, <1>3, <1>4, <1>5, <1>6, <1>7, <1>8

LEMMA OpensInv ==
    ASSUME IInv, NEW k \in Socket, Opens(k)
    PROVE  IInv'
<1> USE OutboxAssumption DEF IInv, Opens, client, wires, daemon
<1>1. TypeOK'
  BY DEF TypeOK
<1>2. Outboxed'
  BY DEF Outboxed, Composed
<1>3. FreeIsEmpty'
  BY DEF FreeIsEmpty, TypeOK
<1>4. CurrentListens'
  BY DEF CurrentListens, TypeOK
<1>5. QueuedIsSent'
  BY DEF QueuedIsSent, TypeOK
<1>6. SentInOrder'
  <2> SUFFICES ASSUME NEW i \in Socket, NEW m \in Message, NEW n \in Message,
                      Before(m, n), SessionOf[m] = SessionOf[n], n \in sent'[i]
               PROVE  m \in sent'[i] \cup stored \cup dropped \/ Unknown(i, SessionOf[m])'
    BY DEF SentInOrder, Before
  <2>1. CASE i = k
    BY <2>1, BeforeComposed DEF NothingLost, TypeOK
  <2>2. CASE i # k
    BY <2>2 DEF SentInOrder, Unknown, TypeOK
  <2> QED BY <2>1, <2>2
<1>7. NothingLost'
  BY DEF NothingLost, Composed
<1>8. StoredInOrder'
  BY DEF StoredInOrder, Before
<1> QED BY <1>1, <1>2, <1>3, <1>4, <1>5, <1>6, <1>7, <1>8

LEMMA RefusedInv ==
    ASSUME IInv, NEW k \in Socket, Refused(k)
    PROVE  IInv'
<1> USE OutboxAssumption DEF IInv, Refused, client, wires, daemon
<1>1. TypeOK'
  BY DEF TypeOK
<1>2. Outboxed'
  BY DEF Outboxed, TypeOK, Composed, Told, NextOf, Free
<1>3. FreeIsEmpty'
  BY DEF FreeIsEmpty
<1>4. CurrentListens'
  BY DEF CurrentListens
<1>5. QueuedIsSent'
  BY DEF QueuedIsSent, CanSend
<1>6. SentInOrder'
  BY DEF SentInOrder, Before, Unknown
<1>7. NothingLost'
  BY DEF NothingLost, Composed
<1>8. StoredInOrder'
  BY DEF StoredInOrder, Before
<1> QED BY <1>1, <1>2, <1>3, <1>4, <1>5, <1>6, <1>7, <1>8

LEMMA SeesCloseInv ==
    ASSUME IInv, NEW k \in Socket, SeesClose(k)
    PROVE  IInv'
<1> USE OutboxAssumption DEF IInv, SeesClose, client, wires, daemon
<1>1. TypeOK'
  BY DEF TypeOK
<1>2. Outboxed'
  BY DEF Outboxed, Composed
<1>3. FreeIsEmpty'
  BY DEF FreeIsEmpty
<1>4. CurrentListens'
  BY DEF CurrentListens
<1>5. QueuedIsSent'
  BY DEF QueuedIsSent, CanSend
<1>6. SentInOrder'
  BY DEF SentInOrder, Before, Unknown
<1>7. NothingLost'
  BY DEF NothingLost, Composed
<1>8. StoredInOrder'
  BY DEF StoredInOrder, Before
<1> QED BY <1>1, <1>2, <1>3, <1>4, <1>5, <1>6, <1>7, <1>8

LEMMA RetryFiresInv ==
    ASSUME IInv, NEW k \in Socket, RetryFires(k)
    PROVE  IInv'
<1> USE OutboxAssumption DEF IInv, RetryFires, client, wires, daemon
<1>1. TypeOK'
  BY DEF TypeOK
<1>2. Outboxed'
  BY DEF Outboxed, Composed
<1>3. FreeIsEmpty'
  BY DEF FreeIsEmpty, Free
<1>4. CurrentListens'
  BY DEF CurrentListens, Free
<1>5. QueuedIsSent'
  BY DEF QueuedIsSent, TypeOK, CanSend
<1>6. SentInOrder'
  BY DEF SentInOrder, TypeOK, Before, Unknown
<1>7. NothingLost'
  BY DEF NothingLost, Composed
<1>8. StoredInOrder'
  BY DEF StoredInOrder, Before
<1> QED BY <1>1, <1>2, <1>3, <1>4, <1>5, <1>6, <1>7, <1>8

LEMMA ReadsAckInv ==
    ASSUME IInv, NEW k \in Socket, NEW m \in Message, ReadsAck(k, m)
    PROVE  IInv'
<1> USE OutboxAssumption DEF IInv, ReadsAck, client, wires, daemon
<1>1. TypeOK'
  BY DEF TypeOK
<1>2. Outboxed'
  BY DEF Outboxed, Composed
<1>3. FreeIsEmpty'
  BY DEF FreeIsEmpty
<1>4. CurrentListens'
  BY DEF CurrentListens
<1>5. QueuedIsSent'
  BY DEF QueuedIsSent, CanSend, Unknown
<1>6. SentInOrder'
  BY DEF SentInOrder, Before, Unknown
<1>7. NothingLost'
  BY DEF NothingLost, Composed, TypeOK, Outboxed
<1>8. StoredInOrder'
  BY DEF StoredInOrder, Before, TypeOK, SentInOrder, NextOf, Unknown
<1> QED BY <1>1, <1>2, <1>3, <1>4, <1>5, <1>6, <1>7, <1>8

LEMMA ReadsEndedInv ==
    ASSUME IInv, NEW k \in Socket, NEW s \in Session, NEW forgets \in BOOLEAN, ReadsEnded(k, s, forgets)
    PROVE  IInv'
<1> USE OutboxAssumption DEF IInv, ReadsEnded, client, wires, daemon
<1>1. TypeOK'
  <2>1. CASE forgets /\ held' = {}
    BY <2>1 DEF TypeOK, OfSession
  <2>2. CASE ~ (forgets /\ held' = {})
    BY <2>2 DEF TypeOK, OfSession
  <2> QED BY <2>1, <2>2
<1>2. Outboxed'
  <2>1. \A i \in Socket : acks'[i] \subseteq acks[i]
    BY DEF TypeOK
  <2> QED BY <2>1 DEF Outboxed, TypeOK, OfSession, Composed
<1>3. FreeIsEmpty'
  BY DEF FreeIsEmpty, TypeOK, CurrentListens
<1>4. CurrentListens'
  BY DEF CurrentListens, TypeOK
<1>5. QueuedIsSent'
  BY DEF QueuedIsSent, CanSend, Unknown
<1>6. SentInOrder'
  BY DEF SentInOrder, Before, Unknown
<1>7. NothingLost'
  BY DEF NothingLost, Composed
<1>8. StoredInOrder'
  BY DEF StoredInOrder, Before
<1> QED BY <1>1, <1>2, <1>3, <1>4, <1>5, <1>6, <1>7, <1>8

LEMMA RetryAbandonedInv ==
    ASSUME IInv, RetryAbandoned
    PROVE  IInv'
<1> USE OutboxAssumption DEF IInv, RetryAbandoned, client, wires, daemon
<1>1. TypeOK'
  BY DEF TypeOK
<1>2. Outboxed'
  BY DEF Outboxed, Composed
<1>3. FreeIsEmpty'
  BY DEF FreeIsEmpty
<1>4. CurrentListens'
  BY DEF CurrentListens
<1>5. QueuedIsSent'
  BY DEF QueuedIsSent, Outboxed
<1>6. SentInOrder'
  BY DEF SentInOrder, Before, Unknown, Outboxed
<1>7. NothingLost'
  BY DEF NothingLost, Composed
<1>8. StoredInOrder'
  BY DEF StoredInOrder, Before
<1> QED BY <1>1, <1>2, <1>3, <1>4, <1>5, <1>6, <1>7, <1>8

LEMMA ReadsHelloInv ==
    ASSUME IInv, NEW k \in Socket, NEW s \in Session, ReadsHello(k, s)
    PROVE  IInv'
<1> USE OutboxAssumption DEF IInv, ReadsHello, client, wires, daemon
<1>1. TypeOK'
  BY DEF TypeOK, Told
<1>2. Outboxed'
  BY DEF Outboxed, TypeOK, Composed, Told
<1>3. FreeIsEmpty'
  BY DEF FreeIsEmpty, TypeOK
<1>4. CurrentListens'
  BY DEF CurrentListens, TypeOK
<1>5. QueuedIsSent'
  BY DEF QueuedIsSent, TypeOK, CanSend, Unknown
<1>6. SentInOrder'
  BY DEF SentInOrder, TypeOK, Before, Unknown
<1>7. NothingLost'
  BY DEF NothingLost, Composed, TypeOK
<1>8. StoredInOrder'
  BY DEF StoredInOrder, Before
<1> QED BY <1>1, <1>2, <1>3, <1>4, <1>5, <1>6, <1>7, <1>8

LEMMA ReadsUnauthorizedInv ==
    ASSUME IInv, NEW k \in Socket, NEW m \in Message, ReadsUnauthorized(k, m)
    PROVE  IInv'
<1> USE OutboxAssumption DEF IInv, ReadsUnauthorized, client, wires, daemon
<1>1. TypeOK'
  BY DEF TypeOK
<1>2. Outboxed'
  BY DEF Outboxed, Composed
<1>3. FreeIsEmpty'
  BY DEF FreeIsEmpty
<1>4. CurrentListens'
  BY DEF CurrentListens
<1>5. QueuedIsSent'
  BY DEF QueuedIsSent, CanSend, Unknown, NextOf
<1>6. SentInOrder'
  BY DEF SentInOrder, Before, Unknown, NextOf
<1>7. NothingLost'
  BY DEF NothingLost, Composed
<1>8. StoredInOrder'
  BY DEF StoredInOrder, Before
<1> QED BY <1>1, <1>2, <1>3, <1>4, <1>5, <1>6, <1>7, <1>8

LEMMA InsertsInv ==
    ASSUME IInv, NEW k \in Socket, NEW m \in Message, Inserts(k, m)
    PROVE  IInv'
<1> USE OutboxAssumption DEF IInv, Inserts, client, wires, daemon
<1>1. TypeOK'
  BY DEF TypeOK, Told
<1>2. Outboxed'
  BY DEF Outboxed, TypeOK, Composed, Told, NextOf
<1>3. FreeIsEmpty'
  BY DEF FreeIsEmpty, NextOf
<1>4. CurrentListens'
  BY DEF CurrentListens
<1>5. QueuedIsSent'
  BY DEF QueuedIsSent, CanSend, Unknown
<1>6. SentInOrder'
  BY DEF SentInOrder, Before, Unknown
<1>7. NothingLost'
  BY DEF NothingLost, Composed
<1>8. StoredInOrder'
  BY DEF StoredInOrder, Before, SentInOrder, NextOf, Unknown
<1> QED BY <1>1, <1>2, <1>3, <1>4, <1>5, <1>6, <1>7, <1>8

LEMMA RejectsInv ==
    ASSUME IInv, NEW k \in Socket, NEW m \in Message, Rejects(k, m)
    PROVE  IInv'
<1> USE OutboxAssumption DEF IInv, Rejects, client, wires, daemon
<1>1. TypeOK'
  BY DEF TypeOK
<1>2. Outboxed'
  BY DEF Outboxed, Composed
<1>3. FreeIsEmpty'
  BY DEF FreeIsEmpty, TypeOK
<1>4. CurrentListens'
  BY DEF CurrentListens, TypeOK
<1>5. QueuedIsSent'
  BY DEF QueuedIsSent, TypeOK, CanSend, Unknown
<1>6. SentInOrder'
  BY DEF SentInOrder, TypeOK, Before, Unknown
<1>7. NothingLost'
  BY DEF NothingLost, Composed
<1>8. StoredInOrder'
  BY DEF StoredInOrder, Before
<1> QED BY <1>1, <1>2, <1>3, <1>4, <1>5, <1>6, <1>7, <1>8

LEMMA ShutsInv ==
    ASSUME IInv, NEW k \in Socket, Shuts(k)
    PROVE  IInv'
<1> USE OutboxAssumption DEF IInv, Shuts, client, wires, daemon
<1>1. TypeOK'
  BY DEF TypeOK
<1>2. Outboxed'
  BY DEF Outboxed, Composed
<1>3. FreeIsEmpty'
  BY DEF FreeIsEmpty, TypeOK
<1>4. CurrentListens'
  BY DEF CurrentListens, TypeOK
<1>5. QueuedIsSent'
  BY DEF QueuedIsSent, CanSend, Unknown
<1>6. SentInOrder'
  BY DEF SentInOrder, Before, Unknown
<1>7. NothingLost'
  BY DEF NothingLost, Composed
<1>8. StoredInOrder'
  BY DEF StoredInOrder, Before
<1> QED BY <1>1, <1>2, <1>3, <1>4, <1>5, <1>6, <1>7, <1>8

LEMMA SessionEndsInv ==
    ASSUME IInv, NEW s \in Session, SessionEnds(s)
    PROVE  IInv'
<1> USE OutboxAssumption DEF IInv, SessionEnds, client, wires, daemon
<1>1. TypeOK'
  BY DEF TypeOK
<1>2. Outboxed'
  BY DEF Outboxed, Composed
<1>3. FreeIsEmpty'
  BY DEF FreeIsEmpty
<1>4. CurrentListens'
  BY DEF CurrentListens
<1>5. QueuedIsSent'
  BY DEF QueuedIsSent, TypeOK, CanSend, Unknown
<1>6. SentInOrder'
  BY DEF SentInOrder, TypeOK, Before, Unknown
<1>7. NothingLost'
  BY DEF NothingLost, Composed
<1>8. StoredInOrder'
  BY DEF StoredInOrder, Before
<1> QED BY <1>1, <1>2, <1>3, <1>4, <1>5, <1>6, <1>7, <1>8

LEMMA CrashInv ==
    ASSUME IInv, Crash
    PROVE  IInv'
<1> USE OutboxAssumption DEF IInv, Crash, client, wires, daemon
<1>1. TypeOK'
  BY DEF TypeOK
<1>2. Outboxed'
  BY DEF Outboxed, Composed
<1>3. FreeIsEmpty'
  BY DEF FreeIsEmpty
<1>4. CurrentListens'
  BY DEF CurrentListens, TypeOK
<1>5. QueuedIsSent'
  BY DEF QueuedIsSent, TypeOK, CanSend
<1>6. SentInOrder'
  BY DEF SentInOrder, TypeOK
<1>7. NothingLost'
  BY DEF NothingLost, Composed
<1>8. StoredInOrder'
  BY DEF StoredInOrder, Before
<1> QED BY <1>1, <1>2, <1>3, <1>4, <1>5, <1>6, <1>7, <1>8

LEMMA InvNext == IInv /\ [Next]_vars => IInv'
<1> SUFFICES ASSUME IInv, [Next]_vars PROVE IInv'
  OBVIOUS
<1>1. CASE ClientStep
  BY <1>1, OpensInv, RefusedInv, SeesCloseInv, RetryFiresInv, ReadsAckInv, ReadsEndedInv,
     RetryAbandonedInv DEF ClientStep
<1>2. CASE DaemonStep
  BY <1>2, ReadsHelloInv, ReadsUnauthorizedInv, InsertsInv, RejectsInv, ShutsInv,
     SessionEndsInv, CrashInv DEF DaemonStep
<1>3. CASE UserStep
  BY <1>3, ComposeInv, ConnectInv, RetryNowInv, RetryNothingInv DEF UserStep
<1>4. CASE UNCHANGED vars
  BY <1>4 DEF vars, client, wires, daemon, IInv, TypeOK, Outboxed, FreeIsEmpty,
     CurrentListens, QueuedIsSent, CanSend, SentInOrder, Unknown, NothingLost,
     StoredInOrder, Composed, Before
<1> QED BY <1>1, <1>2, <1>3, <1>4 DEF Next

LEMMA InvAlways == Spec => []IInv
BY InvInit, InvNext, PTL DEF Spec

\* A composed message is in the outbox or in the table, or left with its session.
THEOREM NothingIsLost == Spec => []NothingLost
<1>1. IInv => NothingLost
  BY DEF IInv
<1> QED BY <1>1, InvAlways, PTL

\* The table has the messages of a session in the order they were composed in.
THEOREM OrderIsKept == Spec => []StoredInOrder
<1>1. IInv => StoredInOrder
  BY DEF IInv
<1> QED BY <1>1, InvAlways, PTL

\* Every state is type correct: frames and acks are of messages that exist.
THEOREM OutboxTypes == Spec => []TypeOK
<1>1. IInv => TypeOK
  BY DEF IInv
<1> QED BY <1>1, InvAlways, PTL

=============================================================================
