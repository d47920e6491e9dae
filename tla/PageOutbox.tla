------------------------------- MODULE PageOutbox -------------------------------
(***************************************************************************)
(* The way of a human's message from a page, or the extension, into the    *)
(* `messages` table: the chat client and its outbox                        *)
(* (pkg/pages/src/chat/chat-client.ts) and the `/ws` side of the daemon    *)
(* (server/frame-handlers.ts).                                             *)
(*                                                                         *)
(* One client keeps one current socket for all sessions it holds.  A       *)
(* message stays in the outbox until its ack is read on the current        *)
(* socket, and everything in the outbox is sent again whenever a socket    *)
(* opens.  The daemon inserts a message under the id the client chose,     *)
(* which is unique in the table.                                           *)
(*                                                                         *)
(* Messages are sent, queued and repeated in the order they were composed  *)
(* in, so the frames of a socket are the set of those not read yet, read   *)
(* in that order.  Acks of one socket and notices that a session has ended *)
(* commute.  enqueueSend runs its sends in microtasks, before any other    *)
(* event: sending is part of the step that asks for it.                    *)
(***************************************************************************)
EXTENDS Naturals, Sequences

CONSTANTS
    Message,
    Session,
    SessionOf,   \* the session of each message
    Socket,      \* sockets that exist at a time; a socket's name is used again
    NoSocket,
    Ending,      \* sessions that may end
    MaxFaults    \* bound: crashes, refused connections and retries by hand

ASSUME OutboxAssumption ==
    /\ SessionOf \in [Message -> Session]
    /\ NoSocket \notin Socket
    /\ Ending \subseteq Session
    /\ MaxFaults \in Nat

VARIABLES
    \* the client
    held,       \* capabilities: the sessions it may send for
    composed,   \* history: the messages of the user, in order
    outbox,     \* those not acknowledged
    state,      \* connectionState
    current,    \* the socket the client listens to
    attempt,    \* hasAttemptInFlight
    retrying,   \* the retry timer runs
    \* the sockets
    sock,       \* where each stands
    hello,      \* connect handshakes on their way to the daemon
    sent,       \* messages on their way to the daemon
    acks,       \* acks on their way to the client
    ended,      \* sessions it is being told have ended
    \* the daemon
    granted,    \* sessions whose capability each socket has
    active,     \* sessions that are not closed
    stored,     \* messages in the table
    \* history and bounds
    dropped,    \* messages that left the outbox with their session
    faults

client == <<held, composed, outbox, state, current, attempt, retrying>>
wires  == <<sock, hello, sent, acks, ended>>
daemon == <<granted, active, stored>>
vars   == <<client, wires, daemon, dropped, faults>>

OfSession(s) == {m \in Message : SessionOf[m] = s}

Composed == {composed[i] : i \in DOMAIN composed}

\* m was composed before n.
Before(m, n) ==
    \E i, j \in DOMAIN composed :
        i < j /\ composed[i] = m /\ composed[j] = n

Free(k) == sock[k] = "free"

\* The daemon reads from a socket until it is closed on its own side.
Readable(k) == sock[k] \in {"open", "shutting"}

Init ==
    /\ held = {} /\ composed = <<>> /\ outbox = {}
    /\ state = "daemon-not-running" /\ current = NoSocket
    /\ attempt = FALSE /\ retrying = FALSE
    /\ sock = [k \in Socket |-> "free"]
    /\ hello = [k \in Socket |-> {}]
    /\ sent = [k \in Socket |-> {}]
    /\ acks = [k \in Socket |-> {}]
    /\ ended = [k \in Socket |-> {}]
    /\ granted = [k \in Socket |-> {}]
    /\ active = Session
    /\ stored = {}
    /\ dropped = {}
    /\ faults = 0

----------------------------------------------------------------------------
(* Helpers of the client.                                                  *)

\* A frame can be written: the client believes it is connected, and its socket is
\* open.  One that is still connecting throws, which is logged.
CanSend == state = "connected" /\ current # NoSocket /\ sock[current] = "open"

----------------------------------------------------------------------------
(* The user.                                                               *)

\* Mutant of Compose: a message that can be written is not queued.
ComposeUnqueued(m) ==
    /\ m \notin Composed
    /\ SessionOf[m] \in held
    /\ composed' = Append(composed, m)
    /\ outbox' = IF CanSend THEN outbox ELSE outbox \cup {m}
    /\ sent' = IF CanSend THEN [sent EXCEPT ![current] = @ \cup {m}] ELSE sent
    /\ UNCHANGED <<held, state, current, attempt, retrying, sock, hello, acks, ended,
                   daemon, dropped, faults>>

\* sendUserMessage: queued, and sent at once if that is possible.
Compose(m) ==
    /\ m \notin Composed
    /\ SessionOf[m] \in held
    /\ composed' = Append(composed, m)
    /\ outbox' = outbox \cup {m}
    /\ sent' = IF CanSend THEN [sent EXCEPT ![current] = @ \cup {m}] ELSE sent
    /\ UNCHANGED <<held, state, current, attempt, retrying, sock, hello, acks, ended,
                   daemon, dropped, faults>>

\* connect: the first socket is opened here.  While an attempt is in flight it is
\* left to that attempt, whatever has become of it.
Connect(s) ==
    /\ s \in active \ held
    /\ held' = held \cup {s}
    /\ attempt' = TRUE
    /\ \/ /\ attempt
          /\ hello' = IF CanSend THEN [hello EXCEPT ![current] = @ \cup {s}] ELSE hello
          /\ UNCHANGED <<current, sock>>
       \/ /\ ~ attempt
          /\ \E k \in Socket :
               /\ Free(k)
               /\ current' = k
               /\ sock' = [sock EXCEPT ![k] = "opening"]
          /\ UNCHANGED hello
    /\ UNCHANGED <<composed, outbox, state, retrying, sent, acks, ended, daemon, dropped,
                   faults>>

\* retryNow: the previous socket is closed, the frames sent on it still arrive;
\* its answers are no longer listened to.  connectionState stays as it is.
RetryNow(k) ==
    /\ held # {} /\ Free(k)
    /\ faults < MaxFaults /\ faults' = faults + 1
    /\ current' = k
    /\ sock' = [i \in Socket |->
                  CASE i = k -> "opening"
                    [] i = current /\ i # k -> IF sock[i] = "open" THEN "shutting" ELSE "free"
                    [] OTHER -> sock[i]]
    /\ acks' = [i \in Socket |-> IF i = current THEN {} ELSE acks[i]]
    /\ ended' = [i \in Socket |-> IF i = current THEN {} ELSE ended[i]]
    /\ attempt' = TRUE /\ retrying' = FALSE
    /\ UNCHANGED <<held, composed, outbox, state, hello, sent, daemon, dropped>>

\* retryNow of a client that holds no session.
RetryNothing ==
    /\ held = {} /\ state # "daemon-not-running"
    /\ state' = "daemon-not-running"
    /\ UNCHANGED <<held, composed, outbox, current, attempt, retrying, wires, daemon,
                   dropped, faults>>

----------------------------------------------------------------------------
(* The client's socket events.                                             *)

\* Mutant of Opens: the outbox is not flushed.
OpensUnflushed(k) ==
    /\ current = k /\ sock[k] = "opening"
    /\ sock' = [sock EXCEPT ![k] = "open"]
    /\ state' = "connected"
    /\ hello' = [hello EXCEPT ![k] = held]
    /\ UNCHANGED <<held, composed, outbox, current, attempt, retrying, sent, acks, ended,
                   daemon, dropped, faults>>

\* handleOpen, with flushOutbox: the handshakes, then everything queued.
Opens(k) ==
    /\ current = k /\ sock[k] = "opening"
    /\ sock' = [sock EXCEPT ![k] = "open"]
    /\ state' = "connected"
    /\ hello' = [hello EXCEPT ![k] = held]
    /\ sent' = [sent EXCEPT ![k] = outbox]
    /\ UNCHANGED <<held, composed, outbox, current, attempt, retrying, acks, ended,
                   daemon, dropped, faults>>

\* The connection is refused, as while the daemon is down.
Refused(k) ==
    /\ current = k /\ sock[k] = "opening"
    /\ faults < MaxFaults /\ faults' = faults + 1
    /\ sock' = [sock EXCEPT ![k] = "cut"]
    /\ UNCHANGED <<client, hello, sent, acks, ended, daemon, dropped>>

\* handleMessage of an ack.
ReadsAck(k, m) ==
    /\ current = k /\ m \in acks[k]
    /\ acks' = [acks EXCEPT ![k] = @ \ {m}]
    /\ outbox' = outbox \ {m}
    /\ UNCHANGED <<held, composed, state, current, attempt, retrying, sock, hello, sent,
                   ended, daemon, dropped, faults>>

\* handleMessage of session-closed, or of an invalid-session error.  forgetSession,
\* which the page calls for both and the extension for the error only, gives up the
\* socket with the last session.
ReadsEnded(k, s, forgets) ==
    /\ current = k /\ s \in ended[k]
    /\ held' = held \ {s}
    /\ outbox' = outbox \ OfSession(s)
    /\ dropped' = dropped \cup (outbox \cap OfSession(s))
    /\ IF forgets /\ held' = {}
         THEN /\ current' = NoSocket /\ attempt' = FALSE /\ retrying' = FALSE
              /\ state' = "daemon-not-running"
              /\ sock' = [sock EXCEPT ![k] = IF @ = "open" THEN "shutting" ELSE "free"]
              /\ acks' = [acks EXCEPT ![k] = {}]
              /\ ended' = [ended EXCEPT ![k] = {}]
         ELSE /\ ended' = [ended EXCEPT ![k] = @ \ {s}]
              /\ UNCHANGED <<current, attempt, retrying, state, sock, acks>>
    /\ UNCHANGED <<composed, hello, sent, daemon, faults>>

\* scheduleReconnect, on the close event, which comes after every frame.
SeesClose(k) ==
    /\ current = k /\ sock[k] = "cut"
    /\ acks[k] = {} /\ ended[k] = {}
    /\ sock' = [sock EXCEPT ![k] = "free"]
    /\ current' = NoSocket
    /\ state' = "reconnecting"
    /\ retrying' = TRUE
    /\ UNCHANGED <<held, composed, outbox, attempt, hello, sent, acks, ended, daemon,
                   dropped, faults>>

\* The retry timer of scheduleRetry, with the search for the daemon's port.
RetryFires(k) ==
    /\ retrying /\ Free(k)
    /\ retrying' = FALSE
    /\ current' = k
    /\ sock' = [sock EXCEPT ![k] = "opening"]
    /\ UNCHANGED <<held, composed, outbox, state, attempt, hello, sent, acks, ended,
                   daemon, dropped, faults>>

\* The port was found, but the client holds no session any more: the attempt ends
\* here, and hasAttemptInFlight stays set.
RetryAbandoned ==
    /\ retrying /\ held = {}
    /\ retrying' = FALSE
    /\ UNCHANGED <<held, composed, outbox, state, current, attempt, wires, daemon,
                   dropped, faults>>

----------------------------------------------------------------------------
(* The daemon.                                                             *)

\* What the daemon tells the client of a socket; nobody listens to one that the
\* client has left.
Told(inbox, k, it) ==
    IF k = current THEN [inbox EXCEPT ![k] = @ \cup {it}] ELSE inbox

\* handleConnectHandshake.
ReadsHello(k, s) ==
    /\ Readable(k) /\ s \in hello[k]
    /\ hello' = [hello EXCEPT ![k] = @ \ {s}]
    /\ IF s \in active
         THEN granted' = [granted EXCEPT ![k] = @ \cup {s}] /\ UNCHANGED ended
         ELSE ended' = Told(ended, k, s) /\ UNCHANGED granted
    /\ UNCHANGED <<client, sock, sent, acks, active, stored, dropped, faults>>

\* Mutant of NextOf: the outbox is flushed from its end.
NextOfReversed(k, m) ==
    /\ Readable(k) /\ m \in sent[k]
    /\ SessionOf[m] \notin hello[k]
    /\ \A n \in sent[k] : ~ Before(m, n)

\* The next message of a socket: the handshake of its session was sent before it.
NextOf(k, m) ==
    /\ Readable(k) /\ m \in sent[k]
    /\ SessionOf[m] \notin hello[k]
    /\ \A n \in sent[k] : ~ Before(n, m)

\* authorizeFrame fails: an error, which the client does not act on.
ReadsUnauthorized(k, m) ==
    /\ NextOf(k, m)
    /\ SessionOf[m] \notin granted[k]
    /\ sent' = [sent EXCEPT ![k] = @ \ {m}]
    /\ UNCHANGED <<client, sock, hello, acks, ended, daemon, dropped, faults>>

\* handleUserMessage: insertMessage, then the ack.
Inserts(k, m) ==
    /\ NextOf(k, m)
    /\ SessionOf[m] \in granted[k] /\ m \notin stored
    /\ stored' = stored \cup {m}
    /\ sent' = [sent EXCEPT ![k] = @ \ {m}]
    /\ acks' = Told(acks, k, m)
    /\ UNCHANGED <<client, sock, hello, ended, granted, active, dropped, faults>>

\* handleUserMessage of an id the table has: the insert breaks UNIQUE, the handler
\* rejects and the socket is closed, in microtasks, before the next frame.
Rejects(k, m) ==
    /\ NextOf(k, m)
    /\ SessionOf[m] \in granted[k] /\ m \in stored
    /\ sock' = [sock EXCEPT ![k] = IF @ = "open" THEN "cut" ELSE "free"]
    /\ hello' = [hello EXCEPT ![k] = {}]
    /\ sent' = [sent EXCEPT ![k] = {}]
    /\ granted' = [granted EXCEPT ![k] = {}]
    /\ UNCHANGED <<client, acks, ended, active, stored, dropped, faults>>

\* A socket the client closed is gone when its frames are read.
Shuts(k) ==
    /\ sock[k] = "shutting" /\ hello[k] = {} /\ sent[k] = {}
    /\ sock' = [sock EXCEPT ![k] = "free"]
    /\ granted' = [granted EXCEPT ![k] = {}]
    /\ UNCHANGED <<client, hello, sent, acks, ended, active, stored, dropped, faults>>

\* A session is closed or reaped: every capable socket is told and loses it.
SessionEnds(s) ==
    /\ s \in active \cap Ending
    /\ active' = active \ {s}
    /\ granted' = [k \in Socket |-> granted[k] \ {s}]
    /\ ended' = [k \in Socket |->
                   IF k = current /\ s \in granted[k] THEN ended[k] \cup {s} ELSE ended[k]]
    /\ UNCHANGED <<client, sock, hello, sent, acks, stored, dropped, faults>>

\* The daemon dies, and is booted again with the same tables: what was on its way
\* to it is lost, and what was on its way to the client may be.
Crash ==
    /\ faults < MaxFaults /\ faults' = faults + 1
    /\ sock' = [k \in Socket |->
                  CASE sock[k] \in {"open", "opening"} -> "cut"
                    [] sock[k] = "shutting" -> "free"
                    [] OTHER -> sock[k]]
    /\ hello' = [k \in Socket |-> {}]
    /\ sent' = [k \in Socket |-> {}]
    /\ granted' = [k \in Socket |-> {}]
    /\ acks' \in [Socket -> SUBSET Message]
    /\ \A k \in Socket : acks'[k] \subseteq acks[k]
    /\ ended' \in [Socket -> SUBSET Session]
    /\ \A k \in Socket : ended'[k] \subseteq ended[k]
    /\ UNCHANGED <<client, active, stored, dropped>>

----------------------------------------------------------------------------

ClientStep ==
    \/ \E k \in Socket :
         Opens(k) \/ Refused(k) \/ SeesClose(k) \/ RetryFires(k)
    \/ \E k \in Socket, m \in Message : ReadsAck(k, m)
    \/ \E k \in Socket, s \in Session, forgets \in BOOLEAN : ReadsEnded(k, s, forgets)
    \/ RetryAbandoned

DaemonStep ==
    \/ \E k \in Socket, s \in Session : ReadsHello(k, s)
    \/ \E k \in Socket, m \in Message :
         ReadsUnauthorized(k, m) \/ Inserts(k, m) \/ Rejects(k, m)
    \/ \E k \in Socket : Shuts(k)
    \/ \E s \in Session : SessionEnds(s)
    \/ Crash

UserStep ==
    \/ \E m \in Message : Compose(m)
    \/ \E s \in Session : Connect(s)
    \/ \E k \in Socket : RetryNow(k)
    \/ RetryNothing

Next == ClientStep \/ DaemonStep \/ UserStep

Spec == Init /\ [][Next]_vars

\* Both event loops run, and a connection that is not refused opens.
Fairness ==
    /\ \A k \in Socket :
         /\ WF_vars(Opens(k)) /\ WF_vars(SeesClose(k)) /\ WF_vars(RetryFires(k))
         /\ WF_vars(Shuts(k))
    /\ \A k \in Socket, m \in Message :
         /\ WF_vars(ReadsAck(k, m))
         /\ WF_vars(ReadsUnauthorized(k, m) \/ Inserts(k, m) \/ Rejects(k, m))
    /\ \A k \in Socket, s \in Session :
         /\ WF_vars(\E forgets \in BOOLEAN : ReadsEnded(k, s, forgets))
         /\ WF_vars(ReadsHello(k, s))

FairSpec == Spec /\ Fairness

----------------------------------------------------------------------------
(* Properties.                                                             *)

TypeOK ==
    /\ held \subseteq Session /\ active \subseteq Session
    /\ composed \in Seq(Message)
    /\ outbox \subseteq Message /\ stored \subseteq Message /\ dropped \subseteq Message
    /\ state \in {"daemon-not-running", "connected", "reconnecting"}
    /\ current \in Socket \cup {NoSocket}
    /\ attempt \in BOOLEAN /\ retrying \in BOOLEAN
    /\ sock \in [Socket -> {"free", "opening", "open", "shutting", "cut"}]
    /\ sent \in [Socket -> SUBSET Message] /\ acks \in [Socket -> SUBSET Message]
    /\ hello \in [Socket -> SUBSET Session] /\ ended \in [Socket -> SUBSET Session]
    /\ granted \in [Socket -> SUBSET Session]
    /\ faults \in 0..MaxFaults

\* A message the user composed is in the outbox until it is in the table, unless its
\* session ended first: no ack, late, repeated or of another socket, removes one that
\* was not stored (chat-client.ts:386).
NothingLost == Composed \subseteq outbox \cup stored \cup dropped

\* The messages of a session are stored in the order they were composed in, across
\* sockets that overlap, refused handshakes and repeated sends (chat-client.ts:251).
StoredInOrder ==
    \A m, n \in Message :
        Before(m, n) /\ SessionOf[m] = SessionOf[n] /\ n \in stored
            => m \in stored \cup dropped

\* .agents/spec/001_chat_harness/plan.md:498: a message typed while disconnected is
\* delivered exactly once when the connection returns.
EveryMessageDelivered ==
    \A m \in Message : m \in outbox ~> m \in stored \cup dropped

\* A stored message whose ack cannot come any more: each resend of it ends the socket
\* before the daemon reads what is queued behind it (store/index.ts:778).
Poisoned == \E m \in outbox \cap stored : current = NoSocket \/ m \notin acks[current]

\* An attempt is said to be in flight, and none is; connect relies on it
\* (chat-client.ts:436).
Deaf ==
    /\ attempt /\ ~ retrying
    /\ \/ current = NoSocket
       \/ sock[current] = "open" /\ state # "connected"

\* These two are the only ways for a queued message to get stuck: through any order of
\* lost frames, refused connections, retries and sessions that end, it is stored, or
\* leaves with its session (chat-client.ts:251).
DeliveredUnlessStuck ==
    \A m \in Message : m \in outbox ~> m \in stored \cup dropped \/ Poisoned \/ Deaf

=============================================================================
