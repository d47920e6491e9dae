------------------------------- MODULE ChatRecv -------------------------------
(***************************************************************************)
(* Receiving over sockets: `dg-agent recv` processes ask the daemon for a  *)
(* message, print it, acknowledge it and close; the daemon's handleCliRecv *)
(* answers at once or parks the receive until a store event, its backstop  *)
(* poll, its timeout, the end of the session or of the socket.  The rows   *)
(* and their claims are ClaimQueue's; here are the processes around them.  *)
(*                                                                         *)
(* The daemon is one thread.  An insert runs every parked receive's        *)
(* listener before anything else happens: `ringing` holds those still to   *)
(* run, and nothing else of the daemon moves while it is not empty.        *)
(***************************************************************************)
EXTENDS ClaimQueue

CONSTANTS
    Client,         \* recv processes; a process that ended may be started again
    ClientSession,  \* the session a process receives for
    MaxFailures,    \* bound: killed or impatient clients, daemon crashes, rival boots
    MaxSlow         \* bound: leases that lapse while their receiver still works

ASSUME ClientAssumption ==
    /\ ClientSession \in [Client -> Session]
    /\ MaxFailures \in Nat
    /\ MaxSlow \in Nat

VARIABLES
    up,         \* the daemon runs
    side,       \* the client process: off, asking, told its result, printed it
    conn,       \* the daemon's end of its socket
    answer,     \* the cli-recv-result sent to the client
    listeners,  \* parked receives, which listen to the store
    ahead,      \* ahead[c]: the listeners that were added before that of c
    ringing,    \* listeners of the current store event that have still to run
    acks,       \* cli-ack frames on the wire
    printed,    \* history: claims whose message reached stdout
    failures, slow

queue == vars
processes == <<up, side, conn, answer, listeners, ahead, ringing, acks, printed, failures, slow>>
recvVars == <<queue, processes>>

Outcome == {"none", "delivered", "empty", "timeout", "closed", "refused"}
NoAnswer == [outcome |-> "none", call |-> 0]
Silent(o) == [outcome |-> o, call |-> 0]

RecvInit ==
    /\ Init
    /\ up = TRUE
    /\ side = [c \in Client |-> "off"]
    /\ conn = [c \in Client |-> "none"]
    /\ answer = [c \in Client |-> NoAnswer]
    /\ listeners = {}
    /\ ahead = [c \in Client |-> {}]
    /\ ringing = {}
    /\ acks = {}
    /\ printed = {}
    /\ failures = 0
    /\ slow = 0

\* The daemon is between two callbacks.
Turn == up /\ ringing = {}

\* The listeners of D are taken off the store's list.
Drop(D) ==
    /\ listeners' = listeners \ D
    /\ ahead' = [c \in Client |-> IF c \in D THEN {} ELSE ahead[c] \ D]

-------------------------------------------------------------------------------
(***************************************************************************)
(* The daemon: one receive.                                                *)
(***************************************************************************)
\* Mutant of Finish: the store listener stays behind.
FinishKeepsListener(c, result) ==
    /\ conn' = [conn EXCEPT ![c] = "served"]
    /\ answer' = [answer EXCEPT ![c] = result]
    /\ UNCHANGED <<listeners, ahead>>

\* finish: the handler answers, and takes its listener and timers away.
Finish(c, result) ==
    /\ conn' = [conn EXCEPT ![c] = "served"]
    /\ answer' = [answer EXCEPT ![c] = result]
    /\ Drop({c})

\* Mutant of Park: the store listener is not added.
ParkUnheard(c) ==
    /\ conn' = [conn EXCEPT ![c] = "parked"]
    /\ UNCHANGED <<answer, listeners, ahead>>

\* A blocking receive that found nothing adds its listeners.
Park(c) ==
    /\ conn' = [conn EXCEPT ![c] = "parked"]
    /\ listeners' = listeners \cup {c}
    /\ ahead' = [ahead EXCEPT ![c] = listeners]
    /\ UNCHANGED answer

\* claimForSession, with what follows a message and what follows none.
TryClaim(c, hit, miss) ==
    LET s == ClientSession[c]
    IN  \/ /\ Taken(s) = {}
           /\ UNCHANGED queue
           /\ miss
        \/ /\ ClaimForSession(s)
           /\ IF Taken(s) \subseteq Corrupt THEN miss ELSE hit

Delivered(c) == Finish(c, [outcome |-> "delivered", call |-> calls'])

\* handleCliRecv up to its first await.
HandleRecv(c) ==
    /\ Turn
    /\ conn[c] \in {"asked", "askedToBlock"}
    /\ ClientSession[c] \notin closed
    /\ TryClaim(c, Delivered(c),
                IF conn[c] = "askedToBlock" THEN Park(c) ELSE Finish(c, Silent("empty")))
    /\ UNCHANGED <<up, side, ringing, acks, printed, failures, slow>>

\* A frame of a session that was closed meanwhile has no capability: it is
\* answered by an error frame, which the waiting client does not accept.
RefuseRecv(c) ==
    /\ Turn
    /\ conn[c] \in {"asked", "askedToBlock"}
    /\ ClientSession[c] \in closed
    /\ Finish(c, Silent("refused"))
    /\ UNCHANGED <<queue, up, side, ringing, acks, printed, failures, slow>>

\* tryClaim of a listener or timer: the claim is made first, and answered only
\* if the receive is not settled.
WakeUp(c) ==
    LET nothing == UNCHANGED <<conn, answer, listeners, ahead>>
    IN  TryClaim(c, IF conn[c] = "parked" THEN Delivered(c) ELSE nothing, nothing)

\* The next listener of the store event.
Ring ==
    /\ up
    /\ \E c \in ringing :
         /\ ahead[c] \cap ringing = {}
         /\ ringing' = ringing \ {c}
         /\ WakeUp(c)
    /\ UNCHANGED <<up, side, acks, printed, failures, slow>>

\* The interval of CLI_RECV_BACKSTOP_POLL_MS.
Poll(c) ==
    /\ Turn
    /\ conn[c] = "parked"
    /\ Taken(ClientSession[c]) # {}
    /\ WakeUp(c)
    /\ UNCHANGED <<up, side, ringing, acks, printed, failures, slow>>

\* The receive's own timeout.
Timeout(c) ==
    /\ Turn
    /\ conn[c] = "parked"
    /\ Finish(c, Silent("timeout"))
    /\ UNCHANGED <<queue, up, side, ringing, acks, printed, failures, slow>>

\* cli-ack; after the session was closed it has no capability either.
HandleAck(a) ==
    /\ Turn
    /\ a \in acks
    /\ acks' = acks \ {a}
    /\ \/ Ack(ClientSession[a.client], a.call)
       \/ ClientSession[a.client] \in closed /\ UNCHANGED queue
    /\ UNCHANGED <<up, side, conn, answer, listeners, ahead, ringing, printed, failures, slow>>

\* The socket's close event, after every frame the client had sent.
SocketCloses(c) ==
    /\ Turn
    /\ side[c] = "off"
    /\ conn[c] \notin {"none", "asked", "askedToBlock"}
    /\ \A a \in acks : a.client # c
    /\ conn' = [conn EXCEPT ![c] = "none"]
    /\ answer' = [answer EXCEPT ![c] = NoAnswer]
    /\ Drop({c})
    /\ UNCHANGED <<queue, up, side, ringing, acks, printed, failures, slow>>

-------------------------------------------------------------------------------
(***************************************************************************)
(* The daemon: messages, closing, leases, crash and boot.                  *)
(***************************************************************************)
\* An insert, and the emit that wakes every parked receive.
Insert(m) ==
    /\ Turn
    /\ InsertMessage(m) \/ InsertAgentMessage(m)
    /\ ringing' = listeners
    /\ UNCHANGED <<up, side, conn, answer, listeners, ahead, acks, printed, failures, slow>>

\* registry.close: the parked receives of the session are answered "closed".
SessionCloses(s) ==
    LET parked == {c \in Client : conn[c] = "parked" /\ ClientSession[c] = s}
    IN  /\ Turn
        /\ CloseSession(s)
        /\ conn' = [c \in Client |-> IF c \in parked THEN "served" ELSE conn[c]]
        /\ answer' = [c \in Client |-> IF c \in parked THEN Silent("closed") ELSE answer[c]]
        /\ Drop(parked)
        /\ UNCHANGED <<up, side, ringing, acks, printed, failures, slow>>

\* Somebody may still acknowledge claim k.
Held(k) ==
    \/ \E c \in Client : side[c] # "off" /\ answer[c].call = k
    \/ \E a \in acks : a.call = k

Lapse(k) ==
    /\ LeaseLapses(k)
    /\ slow' = IF Held(k) THEN slow + 1 ELSE slow
    /\ slow' <= MaxSlow
    /\ UNCHANGED <<up, side, conn, answer, listeners, ahead, ringing, acks, printed, failures>>

Fail == failures < MaxFailures /\ failures' = failures + 1

\* The sockets go, with what is on the wire; answers a client has read stay.
Crash ==
    /\ up
    /\ Fail
    /\ up' = FALSE
    /\ conn' = [c \in Client |-> "none"]
    /\ answer' = [c \in Client |->
                    IF side[c] \in {"told", "printed"} THEN answer[c] ELSE NoAnswer]
    /\ listeners' = {} /\ ringing' = {}
    /\ ahead' = [c \in Client |-> {}]
    /\ acks' = {}
    /\ UNCHANGED <<queue, side, printed, slow>>

Boot ==
    /\ ~up
    /\ up' = TRUE
    /\ RecoverStaleClaims
    /\ UNCHANGED <<side, conn, answer, listeners, ahead, ringing, acks, printed, failures, slow>>

\* A second daemon recovers the claims before it finds the port taken.
RivalBoot ==
    /\ Turn
    /\ Fail
    /\ RecoverStaleClaims
    /\ UNCHANGED <<up, side, conn, answer, listeners, ahead, ringing, acks, printed, slow>>

-------------------------------------------------------------------------------
(***************************************************************************)
(* The client process.                                                     *)
(***************************************************************************)
\* connect, and the cli-recv frame.
Ask(c, block) ==
    /\ up
    /\ ClientSession[c] \notin closed
    /\ side[c] = "off" /\ conn[c] = "none"
    /\ side' = [side EXCEPT ![c] = "asking"]
    /\ conn' = [conn EXCEPT ![c] = IF block THEN "askedToBlock" ELSE "asked"]
    /\ UNCHANGED <<queue, up, answer, listeners, ahead, ringing, acks, printed, failures, slow>>

\* Any outcome but a delivery ends the process.
Read(c) ==
    /\ side[c] = "asking"
    /\ answer[c].outcome \notin {"none", "refused"}
    /\ side' = [side EXCEPT ![c] =
                  IF answer[c].outcome = "delivered" THEN "told" ELSE "off"]
    /\ UNCHANGED <<queue, up, conn, answer, listeners, ahead, ringing, acks, printed, failures, slow>>

WriteOut(c) ==
    /\ side[c] = "told"
    /\ side' = [side EXCEPT ![c] = "printed"]
    /\ printed' = printed \cup {answer[c].call}
    /\ UNCHANGED <<queue, up, conn, answer, listeners, ahead, ringing, acks, failures, slow>>

\* Mutant of MaySendAck: before the write.
MaySendAckEarly(c) == side[c] \in {"told", "printed"}

\* The ack is sent when the message is written.
MaySendAck(c) == side[c] = "printed"

\* The ack and the close; over a lost socket the ack goes nowhere.
SendAck(c) ==
    /\ MaySendAck(c)
    /\ side' = [side EXCEPT ![c] = "off"]
    /\ acks' = IF conn[c] = "none" THEN acks
               ELSE acks \cup {[client |-> c, call |-> answer[c].call]}
    /\ answer' = IF conn[c] = "none" THEN [answer EXCEPT ![c] = NoAnswer] ELSE answer
    /\ UNCHANGED <<queue, up, conn, listeners, ahead, ringing, printed, failures, slow>>

\* The process is killed, or its request timer runs out before the answer.
Die(c) ==
    /\ side[c] # "off"
    /\ Fail
    /\ side' = [side EXCEPT ![c] = "off"]
    /\ answer' = IF conn[c] = "none" THEN [answer EXCEPT ![c] = NoAnswer] ELSE answer
    /\ UNCHANGED <<queue, up, conn, listeners, ahead, ringing, acks, printed, slow>>

\* The request fails for good: the socket is lost, or the receive was refused.
GiveUp(c) ==
    /\ side[c] = "asking"
    /\ conn[c] = "none" \/ answer[c].outcome = "refused"
    /\ side' = [side EXCEPT ![c] = "off"]
    /\ UNCHANGED <<queue, up, conn, answer, listeners, ahead, ringing, acks, printed, failures, slow>>

-------------------------------------------------------------------------------
RecvNext ==
    \/ \E c \in Client : HandleRecv(c)
    \/ \E c \in Client : RefuseRecv(c)
    \/ Ring
    \/ \E c \in Client : Poll(c)
    \/ \E c \in Client : Timeout(c)
    \/ \E a \in acks : HandleAck(a)
    \/ \E c \in Client : SocketCloses(c)
    \/ \E m \in Msg : Insert(m)
    \/ \E s \in Session : SessionCloses(s)
    \/ \E k \in leased : Lapse(k)
    \/ Crash
    \/ Boot
    \/ RivalBoot
    \/ \E c \in Client, block \in BOOLEAN : Ask(c, block)
    \/ \E c \in Client : Read(c)
    \/ \E c \in Client : WriteOut(c)
    \/ \E c \in Client : SendAck(c)
    \/ \E c \in Client : Die(c)
    \/ \E c \in Client : GiveUp(c)

RecvSpec == RecvInit /\ [][RecvNext]_recvVars

(***************************************************************************)
(* The daemon handles the frames it got and its interval fires; a client   *)
(* process runs on; a lease nobody holds runs out; a dead daemon is booted *)
(* by the next command; and the agent keeps calling recv.                  *)
(***************************************************************************)
RecvFairness ==
    /\ WF_recvVars(Ring) /\ WF_recvVars(Boot)
    /\ WF_recvVars(\E a \in acks : HandleAck(a))
    /\ \A k \in 1..MaxCalls : WF_recvVars(k \in leased /\ ~Held(k) /\ Lapse(k))
    /\ \A c \in Client :
         /\ WF_recvVars(HandleRecv(c)) /\ WF_recvVars(RefuseRecv(c))
         /\ WF_recvVars(Poll(c)) /\ WF_recvVars(SocketCloses(c))
         /\ WF_recvVars(Read(c)) /\ WF_recvVars(WriteOut(c))
         /\ WF_recvVars(SendAck(c)) /\ WF_recvVars(GiveUp(c))
         /\ WF_recvVars(\E block \in BOOLEAN : Ask(c, block))

RecvFairSpec == RecvSpec /\ RecvFairness

-------------------------------------------------------------------------------
(***************************************************************************)
(* Properties.                                                             *)
(***************************************************************************)
RecvTypeOK ==
    /\ up \in BOOLEAN
    /\ side \in [Client -> {"off", "asking", "told", "printed"}]
    /\ conn \in [Client -> {"none", "asked", "askedToBlock", "parked", "served"}]
    /\ answer \in [Client -> [outcome : Outcome, call : 0..calls]]
    /\ listeners = {c \in Client : conn[c] = "parked"}
    /\ ahead \in [Client -> SUBSET Client]
    /\ ringing \subseteq listeners
    /\ acks \subseteq [client : Client, call : 1..calls]
    /\ printed \subseteq 1..calls
    /\ failures \in 0..MaxFailures
    /\ slow \in 0..MaxSlow

\* Whatever the receive of c could claim was handed out before, or stands behind an
\* undecryptable row that was dropped.
Heard(c) ==
    LET s == ClientSession[c] IN
    \A m \in Claimable(UserQueue(s) \cup AgentQueue(s)) :
        \/ \E i \in issued : i.msg = m
        \/ \E n \in Corrupt \cap delivered : seq[n] < seq[m]

\* No wake-up is missed: while a receive is parked, every message it could
\* claim was handed out before (its lease lapsed or a boot voided it: the
\* poll's business), unless an undecryptable row ahead of it was dropped.
NoMissedWakeup == Turn => \A c \in Client : conn[c] = "parked" => Heard(c)

\* At least once, end to end: a message is marked delivered only after the
\* process that claimed it wrote it to stdout.
DeliveredWasPrinted ==
    \A m \in delivered \ Corrupt : claim[m] \in printed

\* A receive never takes a message it does not pass on: without failures, an
\* undelivered message under a running lease is with a client or its ack is on
\* the wire, so nobody waits out a lease for nothing.
NoClaimOrphaned ==
    failures = 0 =>
      \A i \in issued :
        i.call \in leased /\ i.msg \notin delivered /\ i.sess \notin closed => Held(i.call)

\* Every message that a session with a running agent may claim is delivered in
\* the end, or those sessions are closed: whatever is killed, crashes, lapses
\* or boots meanwhile.
EventuallyDelivered ==
    \A m \in UserMsg \cup AgentMsg :
        m \in stored ~>
          \/ m \in delivered
          \/ \A c \in Client : Entitled(m, ClientSession[c]) => ClientSession[c] \in closed
===============================================================================
