----------------------------- MODULE PwRelayProofs -----------------------------
(***************************************************************************)
(* What holds of the browser relay for any number of requests, sockets,    *)
(* faults and places: a pending request is owed to both its ends, and a    *)
(* staged copy does not outlive its request.                               *)
(***************************************************************************)
EXTENDS PwRelay, TLAPS

Frame == {"request", "cancel", "close"}

\* Only granted sockets that are read from; the extension listens to one it has not
\* left.
SocketInv ==
    /\ \A k \in granted : Readable(k)
    /\ current # NoSocket => sock[current] \in {"open", "cut"}

\* What a command has sent: its request comes first and once, and other frames come
\* from a process that is over.
Sent(r) ==
    /\ \A i \in DOMAIN wire[r] : wire[r][i] = "request" => i = 1
    /\ cli[r] # "over" => \A i \in DOMAIN wire[r] : wire[r][i] = "request"

\* A request is on its way while its command is connected, not answered and not
\* pending.
RequestInv ==
    \A r \in Req :
        /\ Sent(r)
        /\ cli[r] \in {"new", "posting"} => ~ Asked(r) /\ r \notin Pending /\ r \notin answered
        /\ cli[r] = "posting" => r \in attached
        /\ Asked(r) => r \in attached /\ r \notin answered /\ r \notin Pending

\* Only a command that stages a copy posts one, and only before it asks.  What is
\* staged once the session has closed is stranded.
CopyInv ==
    /\ \A r \in Req :
         /\ post[r] # "none" => r \in Upload
         /\ post[r] \in {"sent", "receiving"} => cli[r] \in {"posting", "over"}
    /\ ~ active => copies \subseteq stranded

IInv ==
    /\ TypeOK /\ SocketInv /\ RequestInv /\ CopyInv
    /\ PendingIsOwed /\ StagedCopyAccounted

----------------------------------------------------------------------------
(* Frames of a command.                                                    *)

\* Short sequences.
LEMMA ShortSequences ==
    ASSUME NEW S
    PROVE  <<>> \in Seq(S) /\ \A e \in S : <<e>> \in Seq(S)
<1>1. <<>> \in Seq(S)
  OBVIOUS
<1>2. ASSUME NEW e \in S
      PROVE  <<e>> \in Seq(S)
  OBVIOUS
<1> QED BY <1>1, <1>2

\* What is appended holds no request, so the requests stay where they are.
LEMMA AppendAsksNothing ==
    ASSUME NEW w \in Seq(Frame), NEW t \in Seq({"cancel", "close"})
    PROVE  /\ w \o t \in Seq(Frame)
           /\ \A i : (i \in DOMAIN (w \o t) /\ (w \o t)[i] = "request")
                       <=> (i \in DOMAIN w /\ w[i] = "request")
<1>1. t \in Seq(Frame)
  BY DEF Frame
<1>2. /\ w \o t \in Seq(Frame) /\ Len(w \o t) = Len(w) + Len(t)
      /\ \A i \in 1..Len(w) : (w \o t)[i] = w[i]
      /\ \A i \in 1..Len(t) : (w \o t)[Len(w) + i] = t[i]
  BY <1>1
<1>3. \A i \in 1..Len(t) : t[i] # "request"
  OBVIOUS
<1>4. ASSUME NEW i \in 1..Len(w \o t), (w \o t)[i] = "request"
      PROVE  i \in 1..Len(w)
  <2>1. SUFFICES ASSUME i > Len(w) PROVE FALSE
    BY <1>2
  <2>2. i - Len(w) \in 1..Len(t) /\ Len(w) + (i - Len(w)) = i
    BY <1>2, <2>1
  <2> QED BY <1>2, <1>3, <1>4, <2>2
<1>5. DOMAIN w = 1..Len(w) /\ DOMAIN (w \o t) = 1..Len(w \o t) /\ 1..Len(w) \subseteq 1..Len(w \o t)
  BY <1>2
<1> QED BY <1>2, <1>4, <1>5

\* Behind the first frame there is no request.
LEMMA NothingAskedBehind ==
    ASSUME NEW w \in Seq(Frame), w # <<>>,
           \A i \in DOMAIN w : w[i] = "request" => i = 1
    PROVE  /\ Tail(w) \in Seq(Frame)
           /\ \A i \in DOMAIN Tail(w) : Tail(w)[i] # "request"
           /\ Head(w) # "request" => \A i \in DOMAIN w : w[i] # "request"
           /\ \A i \in DOMAIN Tail(w) : \E j \in DOMAIN w : Tail(w)[i] = w[j]
<1>1. /\ Tail(w) \in Seq(Frame) /\ Len(Tail(w)) = Len(w) - 1
      /\ \A i \in 1..Len(Tail(w)) : Tail(w)[i] = w[i + 1]
  OBVIOUS
<1>2. \A i \in 1..Len(Tail(w)) : i + 1 \in DOMAIN w /\ i + 1 # 1
  BY <1>1
<1>3. DOMAIN Tail(w) = 1..Len(Tail(w))
  BY <1>1
<1> QED BY <1>1, <1>2, <1>3

\* A process that ends asks nothing any more.
LEMMA ExitKeepsFrames ==
    ASSUME TypeOK, RequestInv, NEW r \in Req, NEW last \in {<<>>, <<"cancel">>},
           Exits(r, last)
    PROVE  /\ cli' = [cli EXCEPT ![r] = "over"] /\ post' = post
           /\ wire' \in [Req -> Seq(Frame)]
           /\ \A q \in Req : (Asked(q)' <=> Asked(q)) /\ Sent(q)'
<1> DEFINE w == wire[r]
           v == w \o last \o <<"close">>
<1>1. w \in Seq(Frame) /\ wire \in [Req -> Seq(Frame)]
  BY DEF TypeOK, Frame
<1>2. last \in Seq({"cancel", "close"}) /\ <<"close">> \in Seq({"cancel", "close"})
  BY ShortSequences, Zenon
<1>3. w \o last \in Seq(Frame)
  BY <1>1, <1>2, AppendAsksNothing
<1>4. /\ v \in Seq(Frame)
      /\ \A i : (i \in DOMAIN v /\ v[i] = "request") <=> (i \in DOMAIN w /\ w[i] = "request")
  BY <1>1, <1>2, <1>3, AppendAsksNothing
<1>5. wire' = [wire EXCEPT ![r] = v]
  BY DEF Exits
<1> HIDE DEF v
<1>6. wire' \in [Req -> Seq(Frame)] /\ wire'[r] = v
      /\ \A q \in Req \ {r} : wire'[q] = wire[q]
  BY <1>1, <1>4, <1>5
<1>7. \A q \in Req : \A i : (i \in DOMAIN wire'[q] /\ wire'[q][i] = "request")
                               <=> (i \in DOMAIN wire[q] /\ wire[q][i] = "request")
  BY <1>4, <1>6
<1>8. \A q \in Req : Asked(q)' <=> Asked(q)
  BY <1>7 DEF Asked
<1>9. cli'[r] = "over" /\ \A q \in Req \ {r} : cli'[q] = cli[q]
  BY DEF Exits, TypeOK
<1>10. \A q \in Req : Sent(q)'
  BY <1>6, <1>7, <1>9 DEF RequestInv, Sent
<1> QED BY <1>6, <1>8, <1>10 DEF Exits

\* A command whose copy is stored goes on to ask.
LEMMA PostedAsks ==
    ASSUME NEW r, ReadsPosted(r), post[r] = "stored"
    PROVE  /\ wire' = [wire EXCEPT ![r] = <<"request">>]
           /\ cli' = [cli EXCEPT ![r] = "waiting"] /\ post' = post
  BY Zenon DEF ReadsPosted

----------------------------------------------------------------------------
(* Types.                                                                  *)

\* Steps of the command and the daemon keep the types.
LEMMA RequestStepTypes ==
    ASSUME RelayAssumption, TypeOK, RequestInv, CopyInv, NEW r \in Req,
           CliStep(r) \/ RequestStep(r) \/ RunStep(r)
    PROVE  TypeOK'
<1> USE DEF TypeOK, ext, wires, clis, relay
<1>0. ASSUME wire' = [wire EXCEPT ![r] = <<"request">>]
      PROVE  wire' \in [Req -> Seq({"request", "cancel", "close"})]
  <2>1. <<"request">> \in Seq({"request", "cancel", "close"})
    BY ShortSequences, Zenon
  <2>2. ASSUME NEW T, NEW e \in T, wire \in [Req -> T]
        PROVE  [wire EXCEPT ![r] = e] \in [Req -> T]
    BY <2>2
  <2> QED BY <1>0, <2>1, <2>2, Zenon
<1>1. CASE Connects(r)
  <2>1. wire' \in [Req -> Seq({"request", "cancel", "close"})]
    BY <1>0, <1>1, Zenon DEF Connects
  <2>2. cli' \in [Req -> {"new", "posting", "waiting", "over"}]
        /\ post' \in [Req -> {"none", "sent", "receiving", "stored", "refused"}]
    BY <1>1 DEF Connects
  <2> QED BY <1>1, <2>1, <2>2 DEF Connects
<1>2. CASE ReadsPosted(r)
  <2>1. CASE post[r] = "stored"
    <3>1. wire' \in [Req -> Seq({"request", "cancel", "close"})]
      BY <1>0, <1>2, <2>1, PostedAsks
    <3>2. cli' \in [Req -> {"new", "posting", "waiting", "over"}]
      BY <1>2, <2>1, PostedAsks
    <3> QED BY <1>2, <2>1, <3>1, <3>2 DEF ReadsPosted
  <2>2. CASE post[r] # "stored"
    BY <1>2, <2>2, ExitKeepsFrames DEF ReadsPosted, Frame
  <2> QED BY <2>1, <2>2
<1>3. CASE ReadsAnswer(r)
  <2>1. cli' = [cli EXCEPT ![r] = "over"] /\ post' = post /\ wire' \in [Req -> Seq(Frame)]
    BY <1>3, ExitKeepsFrames DEF ReadsAnswer
  <2> QED BY <1>3, <2>1 DEF ReadsAnswer, Frame
<1>4. ASSUME NEW last \in {<<>>, <<"cancel">>}, Stops(r, last)
      PROVE  TypeOK'
  <2>1. stranded' \subseteq Upload
    BY <1>4 DEF Stops
  <2>2. cli' = [cli EXCEPT ![r] = "over"] /\ post' = post /\ wire' \in [Req -> Seq(Frame)]
    BY <1>4, ExitKeepsFrames DEF Stops
  <2> QED BY <1>4, <2>1, <2>2 DEF Stops, Frame
<1>5. CASE Receives(r)
  BY <1>5 DEF Receives
<1>6. CASE Stores(r)
  BY <1>6 DEF Stores, CopyInv
<1>7. CASE ReadsRequest(r)
  <2>1. wire' \in [Req -> Seq(Frame)]
    BY <1>7 DEF ReadsRequest, Takes, Frame
  <2>2. pending' \in [Req -> Socket \cup {NoSocket}] /\ answered' \subseteq Req
        /\ copies' \subseteq Upload /\ unheard' \subseteq Req
    BY <1>7 DEF ReadsRequest, Finish
  <2> QED BY <1>7, <2>1, <2>2 DEF ReadsRequest, Frame
<1>8. ASSUME NEW told \in SUBSET {r}, Withdraw(r, told)
      PROVE  /\ pending' \in [Req -> Socket \cup {NoSocket}]
             /\ answered' \subseteq Req /\ copies' \subseteq Upload
  BY <1>8 DEF Withdraw, Finish
<1>9. CASE ReadsCancel(r)
  <2>1. wire' \in [Req -> Seq(Frame)]
    BY <1>9 DEF ReadsCancel, Takes, Frame
  <2>2. /\ pending' \in [Req -> Socket \cup {NoSocket}]
        /\ answered' \subseteq Req /\ copies' \subseteq Upload
    BY <1>8, <1>9 DEF ReadsCancel
  <2> QED BY <1>9, <2>1, <2>2 DEF ReadsCancel, Frame
<1>10. CASE SeesCliClose(r)
  <2>1. wire' \in [Req -> Seq(Frame)]
    BY <1>10 DEF SeesCliClose, Takes, Frame
  <2> QED BY <1>8, <1>10, <2>1 DEF SeesCliClose, Frame
<1>11. CASE TimesOut(r)
  BY <1>8, <1>11 DEF TimesOut
<1>12. CASE RunStep(r)
  <2>1. CASE Watches(r) \/ Expires(r)
    BY <2>1 DEF Watches, Expires
  <2>2. ASSUME NEW to \in Stage, Reaches(r, to), UNCHANGED active,
               copies' \subseteq Upload,
               UNCHANGED <<attached, pending, answered, granted>>
        PROVE  TypeOK'
    BY <2>2 DEF Reaches
  <2>3. CASE Begins(r)
    BY <2>2, <2>3 DEF Begins, Stage
  <2>4. CASE Fetches(r)
    BY <2>2, <2>4 DEF Fetches, Stage
  <2>5. CASE Deletes(r)
    BY <2>2, <2>5 DEF Deletes, Ends, Stage
  <2>6. CASE Uploads(r)
    BY <2>2, <2>6 DEF Uploads, Stage
  <2>7. CASE Concludes(r)
    BY <2>2, <2>7 DEF Concludes, Ends, Stage
  <2> QED BY <1>12, <2>1, <2>3, <2>4, <2>5, <2>6, <2>7 DEF RunStep
<1> QED BY <1>1, <1>2, <1>3, <1>4, <1>5, <1>6, <1>7, <1>9, <1>10, <1>11, <1>12
        DEF CliStep, RequestStep

\* So do those of sockets.
LEMMA SocketStepTypes ==
    ASSUME RelayAssumption, TypeOK, NEW k \in Socket, SocketStep(k)
    PROVE  TypeOK'
<1> USE DEF TypeOK, ext, wires, clis, relay
<1>1. CASE ReadsHello(k) \/ ReadsBye(k)
  BY <1>1 DEF ReadsHello, ReadsBye
<1>2. CASE Shuts(k)
  BY <1>2 DEF Shuts, Finish
<1>3. CASE Opens(k)
  BY <1>3 DEF Opens
<1>4. CASE SeesClose(k)
  BY <1>4 DEF SeesClose, NoneLive, Running
<1>5. CASE Retries(k)
  BY <1>5 DEF Retries, NoneLive, Fault, RelayAssumption
<1>6. CASE HearsGranted(k) \/ HearsClosed(k)
  BY <1>6 DEF HearsGranted, HearsClosed, Unpaired, NoneLive, Running
<1>7. ASSUME NEW f, HearsForgotten(k, f)
      PROVE  TypeOK'
  BY <1>7 DEF HearsForgotten, Leave, Unpaired, NoneLive, Running
<1>8. ASSUME NEW f, HearsNothing(k, f)
      PROVE  TypeOK'
  BY <1>8 DEF HearsNothing
<1>9. ASSUME NEW r \in Req, ReadsResult(k, r)
      PROVE  TypeOK'
  BY <1>9 DEF ReadsResult, Finish
<1>10. ASSUME NEW r \in Req, HearsRun(k, r) \/ HearsCancel(k, r)
       PROVE  TypeOK'
  BY <1>10 DEF HearsRun, HearsCancel, Stage
<1> QED BY <1>1, <1>2, <1>3, <1>4, <1>5, <1>6, <1>7, <1>8, <1>9, <1>10 DEF SocketStep

\* And all others.
LEMMA StepTypes ==
    ASSUME RelayAssumption, TypeOK, RequestInv, CopyInv, [Next]_vars
    PROVE  TypeOK'
<1> USE DEF TypeOK, ext, wires, clis, relay
<1>0. ASSUME NEW removed \in BOOLEAN, CleansUp(removed)
      PROVE  copies' \subseteq Upload /\ stranded' \subseteq Upload
  BY <1>0 DEF CleansUp
<1>1. ASSUME NEW removed \in BOOLEAN, SessionCloses(removed)
      PROVE  TypeOK'
  BY <1>0, <1>1 DEF SessionCloses, Pending
<1>2. ASSUME NEW swept \in BOOLEAN, Crash(swept)
      PROVE  TypeOK'
  BY <1>0, <1>2 DEF Crash, Fault, RelayAssumption
<1>3. CASE Pairs \/ Disconnects
  <2>1. faults' \in 0..MaxFaults
    BY <1>3 DEF Pairs, Disconnects, Fault, RelayAssumption
  <2>2. live' \in [Req -> BOOLEAN] /\ paired' \in BOOLEAN
    BY <1>3, Zenon DEF Pairs, Disconnects, NoneLive
  <2> QED BY <1>3, <2>1, <2>2 DEF Pairs, Disconnects
<1>4. CASE Restarts
  <2>1. faults' \in 0..MaxFaults
    BY <1>4 DEF Restarts, Fault, RelayAssumption
  <2>2. live' \in [Req -> BOOLEAN] /\ eligible' \in BOOLEAN
    BY <1>4, Zenon DEF Restarts, NoneLive
  <2>3. sock' \in [Socket -> {"free", "open", "shutting", "cut"}]
    BY <1>4 DEF Restarts, Leave
  <2>4. stage' \in [Req -> Stage]
    BY <1>4 DEF Restarts, Stage
  <2> QED BY <1>4, <2>1, <2>2, <2>3, <2>4 DEF Restarts
<1>5. CASE UNCHANGED vars
  BY <1>5 DEF vars
<1> QED BY <1>1, <1>2, <1>3, <1>4, <1>5, RequestStepTypes, SocketStepTypes DEF Next

----------------------------------------------------------------------------
(* The invariant.                                                          *)

\* A step that leaves the relay, the commands and the sockets as they are.
LEMMA StepAside ==
    ASSUME IInv, UNCHANGED <<clis, relay, sock, current, stranded>>
    PROVE  (SocketInv /\ RequestInv /\ CopyInv /\ PendingIsOwed /\ StagedCopyAccounted)'
  BY DEF IInv, clis, relay, SocketInv, RequestInv, Sent, CopyInv, PendingIsOwed,
     StagedCopyAccounted, Wanted, Asked, Pending, Readable

\* Requests that end keep the rest of the invariant, also when the frame of a command
\* is read that ends them, or its socket closes.
LEMMA FinishKeeps ==
    ASSUME IInv, NEW R \in SUBSET Req, NEW told \in SUBSET R, told \subseteq Pending,
           Finish(R, told), UNCHANGED <<cli, post, active, stranded>>,
           \A q \in Req : (Asked(q)' <=> Asked(q)) /\ Sent(q)',
           attached' \subseteq attached,
           \A q \in attached \ attached' : cli[q] = "over" /\ ~ Asked(q)
    PROVE  /\ (RequestInv /\ CopyInv /\ StagedCopyAccounted)'
           /\ Pending' = Pending \ R
           /\ \A q \in Pending' : pending'[q] = pending[q] /\ q \notin answered'
<1> USE DEF IInv, Finish
<1>1. Pending' = Pending \ R /\ \A q \in Pending' : pending'[q] = pending[q]
  BY DEF Pending, TypeOK
<1>2. \A q \in Pending' : q \notin answered'
  BY <1>1 DEF PendingIsOwed
<1>3. RequestInv'
  BY <1>1 DEF RequestInv
<1>4. CopyInv'
  BY DEF CopyInv
<1>5. StagedCopyAccounted'
  BY <1>1, RelayAssumption DEF StagedCopyAccounted, Wanted, RelayAssumption
<1> QED BY <1>1, <1>2, <1>3, <1>4, <1>5

\* Steps of the command and the daemon keep the invariant.
LEMMA RequestStepKeeps ==
    ASSUME IInv, NEW r \in Req, CliStep(r) \/ RequestStep(r) \/ RunStep(r)
    PROVE  (SocketInv /\ RequestInv /\ CopyInv /\ PendingIsOwed /\ StagedCopyAccounted)'
<1> DEFINE Goal == (SocketInv /\ RequestInv /\ CopyInv /\ PendingIsOwed /\ StagedCopyAccounted)'
<1> Upload \subseteq Req
  BY RelayAssumption DEF RelayAssumption
\* The last frame of a command is read; if it was no request, none is left.
<1>0. ASSUME NEW f \in Frame, Takes(r, f)
      PROVE  /\ wire' \in [Req -> Seq(Frame)]
             /\ ~ Asked(r)' /\ (f # "request" => ~ Asked(r))
             /\ f = "request" => Asked(r)
             /\ f # "request" => cli[r] = "over"
             /\ \A q \in Req : q # r => wire'[q] = wire[q]
             /\ UNCHANGED cli => \A q \in Req : Sent(q)'
  <2>1. wire \in [Req -> Seq(Frame)] /\ wire[r] # <<>>
        /\ \A i \in DOMAIN wire[r] : wire[r][i] = "request" => i = 1
    BY <1>0 DEF IInv, TypeOK, RequestInv, Sent, Takes, Frame
  <2>2. /\ Tail(wire[r]) \in Seq(Frame)
        /\ \A i \in DOMAIN Tail(wire[r]) : Tail(wire[r])[i] # "request"
        /\ Head(wire[r]) # "request" => \A i \in DOMAIN wire[r] : wire[r][i] # "request"
        /\ \A i \in DOMAIN Tail(wire[r]) : \E j \in DOMAIN wire[r] : Tail(wire[r])[i] = wire[r][j]
    BY <2>1, NothingAskedBehind
  <2>3. 1 \in DOMAIN wire[r] /\ Head(wire[r]) = wire[r][1]
    BY <2>1
  <2>4. wire' = [wire EXCEPT ![r] = Tail(wire[r])] /\ Head(wire[r]) = f
    BY <1>0 DEF Takes
  <2>5. f # "request" => cli[r] = "over"
    BY <2>3, <2>4 DEF IInv, RequestInv, Sent
  <2>6. wire'[r] = Tail(wire[r]) /\ \A q \in Req : q # r => wire'[q] = wire[q]
    BY <2>1, <2>4
  <2>7. ASSUME UNCHANGED cli, NEW q \in Req
        PROVE  Sent(q)'
    <3>1. Sent(q)
      BY DEF IInv, RequestInv
    <3> QED BY <2>2, <2>6, <2>7, <3>1 DEF Sent
  <2> QED BY <2>1, <2>2, <2>3, <2>4, <2>5, <2>6, <2>7 DEF Asked
\* The command asks.
<1>a. ASSUME wire' = [wire EXCEPT ![r] = <<"request">>],
             \A q \in Req \ {r} : cli'[q] = cli[q]
      PROVE  \A q \in Req : (Asked(q)' <=> q = r \/ Asked(q)) /\ Sent(q)'
  <2>1. wire \in [Req -> Seq(Frame)]
    BY DEF IInv, TypeOK, Frame
  <2>2. ASSUME NEW w, w = <<"request">>
        PROVE  DOMAIN w = {1} /\ w[1] = "request"
    BY <2>2
  <2>3. DOMAIN wire'[r] = {1} /\ wire'[r][1] = "request"
        /\ \A q \in Req \ {r} : wire'[q] = wire[q]
    <3>1. wire'[r] = <<"request">> /\ \A q \in Req \ {r} : wire'[q] = wire[q]
      BY <1>a, <2>1, Zenon
    <3> QED BY <2>2, <3>1, Zenon
  <2> QED BY <1>a, <2>3 DEF Asked, Sent, IInv, RequestInv
\* The process ends.
<1>b. ASSUME NEW last \in {<<>>, <<"cancel">>}, Exits(r, last),
             UNCHANGED <<relay, sock, current>>, stranded \subseteq stranded',
             cli[r] = "posting" /\ post[r] = "stored" => copies \cap {r} \subseteq stranded'
      PROVE  Goal
  <2>1. /\ cli' = [cli EXCEPT ![r] = "over"] /\ post' = post
        /\ \A q \in Req : (Asked(q)' <=> Asked(q)) /\ Sent(q)'
    BY <1>b, ExitKeepsFrames DEF IInv
  <2>2. \A q \in Req : cli'[q] = IF q = r THEN "over" ELSE cli[q]
    BY <2>1 DEF IInv, TypeOK
  <2>3. SocketInv' /\ PendingIsOwed' /\ Pending' = Pending
    BY <1>b DEF relay, IInv, SocketInv, PendingIsOwed, Pending, Readable
  <2>4. RequestInv'
    BY <1>b, <2>1, <2>2, <2>3 DEF relay, IInv, RequestInv
  <2>5. CopyInv'
    BY <1>b, <2>1, <2>2 DEF relay, IInv, CopyInv
  <2>6. StagedCopyAccounted'
    BY <1>b, <2>1, <2>2, <2>3 DEF relay, IInv, StagedCopyAccounted, Wanted
  <2> QED BY <2>3, <2>4, <2>5, <2>6
<1>1. CASE Connects(r)
  <2>1. ~ Asked(r) /\ r \notin Pending /\ r \notin answered
    BY <1>1 DEF Connects, IInv, RequestInv
  <2>2. CASE r \in Upload
    <3>1. /\ cli' = [cli EXCEPT ![r] = "posting"] /\ post' = [post EXCEPT ![r] = "sent"]
          /\ wire' = wire /\ attached' = attached \cup {r}
      BY <1>1, <2>2, Zenon DEF Connects
    <3>3. \A q \in Req : cli'[q] = (IF q = r THEN "posting" ELSE cli[q])
                           /\ post'[q] = (IF q = r THEN "sent" ELSE post[q])
      BY <3>1 DEF IInv, TypeOK
    <3>a. cli[r] = "new"
      BY <1>1 DEF Connects
    <3>2. \A q \in Req : (Asked(q)' <=> Asked(q)) /\ Sent(q)'
      BY <3>1, <3>3, <3>a DEF Asked, Sent, IInv, RequestInv
    <3>4. SocketInv' /\ PendingIsOwed' /\ Pending' = Pending
      BY <1>1, <3>1 DEF Connects, wires, ext, IInv, SocketInv, PendingIsOwed, Pending, Readable
    <3>5. RequestInv'
      BY <1>1, <2>1, <3>1, <3>2, <3>3, <3>4 DEF Connects, IInv, RequestInv
    <3>6. CopyInv'
      BY <1>1, <2>2, <3>3 DEF Connects, IInv, CopyInv
    <3>7. StagedCopyAccounted'
      BY <1>1, <3>2, <3>3, <3>4 DEF Connects, IInv, StagedCopyAccounted, Wanted
    <3> QED BY <3>4, <3>5, <3>6, <3>7
  <2>3. CASE r \notin Upload
    <3>1. wire' = [wire EXCEPT ![r] = <<"request">>]
      BY <1>1, <2>3, Zenon DEF Connects
    <3>2. cli' = [cli EXCEPT ![r] = "waiting"] /\ post' = post /\ attached' = attached \cup {r}
      BY <1>1, <2>3, Zenon DEF Connects
    <3> QED BY <1>1, <1>a, <2>1, <2>3, <3>1, <3>2
            DEF Connects, IInv, TypeOK, wires, ext, SocketInv, RequestInv, CopyInv, PendingIsOwed,
       StagedCopyAccounted, Wanted, Pending, Readable
  <2> QED BY <2>2, <2>3
<1>2. CASE ReadsPosted(r)
  <2>1. ~ Asked(r) /\ r \notin Pending /\ r \notin answered /\ r \in attached
    BY <1>2 DEF ReadsPosted, IInv, RequestInv
  <2>2. CASE post[r] = "stored"
    BY <1>2, <1>a, <2>1, <2>2, PostedAsks
       DEF ReadsPosted, IInv, TypeOK, relay, wires, ext, SocketInv, RequestInv, CopyInv, PendingIsOwed,
       StagedCopyAccounted, Wanted, Pending, Readable
  <2>3. CASE post[r] # "stored"
    <3>1. Exits(r, <<>>)
      BY <1>2, <2>3 DEF ReadsPosted
    <3> QED BY <1>2, <1>b, <2>3, <3>1 DEF ReadsPosted, relay, wires, ext
  <2> QED BY <2>2, <2>3
<1>3. CASE ReadsAnswer(r)
  <2>1. Exits(r, <<>>) /\ cli[r] = "waiting"
    BY <1>3 DEF ReadsAnswer
  <2> QED BY <1>3, <1>b, <2>1 DEF ReadsAnswer, relay, wires, ext
<1>4. ASSUME NEW last \in {<<>>, <<"cancel">>}, Stops(r, last)
      PROVE  Goal
  <2>1. cli[r] = "posting" /\ post[r] = "stored" => copies \cap {r} \subseteq stranded'
    BY <1>4 DEF Stops
  <2>2. stranded \subseteq stranded'
    BY <1>4 DEF Stops
  <2> QED BY <1>4, <1>b, <2>1, <2>2 DEF Stops, wires, ext
<1>5. CASE Receives(r)
  BY <1>5 DEF Receives, IInv, TypeOK, relay, wires, ext, SocketInv, RequestInv, Sent, CopyInv,
     PendingIsOwed, StagedCopyAccounted, Wanted, Asked, Pending, Readable
<1>6. CASE Stores(r)
  BY <1>6 DEF Stores, IInv, TypeOK, wires, ext, SocketInv, RequestInv, Sent, CopyInv,
     PendingIsOwed, StagedCopyAccounted, Wanted, Asked, Pending, Readable
<1>7. CASE ReadsRequest(r)
  <2>1. /\ Asked(r) /\ ~ Asked(r)' /\ \A q \in Req : Sent(q)'
        /\ \A q \in Req : q # r => wire'[q] = wire[q]
    BY <1>0, <1>7 DEF ReadsRequest, Frame
  <2>2. r \in attached /\ r \notin answered /\ r \notin Pending
    BY <2>1 DEF IInv, RequestInv
  <2>3. \A q \in Req : Asked(q)' <=> q # r /\ Asked(q)
    BY <2>1 DEF Asked
  <2>4. ASSUME NEW k \in Socket, active, granted = {k}, pending' = [pending EXCEPT ![r] = k],
               UNCHANGED <<answered, copies>>
        PROVE  Goal
    <3>0. UNCHANGED <<cli, post, active, attached, granted, sock, current, stranded>>
      BY <1>7 DEF ReadsRequest, ext
    <3>1. pending'[r] = k /\ \A q \in Req \ {r} : pending'[q] = pending[q]
      BY <2>4 DEF IInv, TypeOK
    <3>2. Pending' = Pending \cup {r}
      BY <3>1, RelayAssumption DEF Pending, RelayAssumption
    <3>3. SocketInv' /\ CopyInv'
      BY <2>4, <3>0 DEF IInv, SocketInv, CopyInv, Readable
    <3>4. RequestInv'
      BY <2>1, <2>2, <2>3, <2>4, <3>0, <3>2 DEF IInv, RequestInv
    <3>5. PendingIsOwed'
      BY <2>2, <2>4, <3>0, <3>1, <3>2 DEF IInv, PendingIsOwed, SocketInv, Readable
    <3>6. StagedCopyAccounted'
      BY <2>3, <2>4, <3>0, <3>2 DEF IInv, StagedCopyAccounted, Wanted
    <3> QED BY <3>3, <3>4, <3>5, <3>6
  <2>5. CASE Finish({r}, {r})
    <3>0. UNCHANGED <<cli, post, active, attached, granted, sock, current, stranded>>
      BY <1>7 DEF ReadsRequest, ext
    <3>1. \A q \in Req : pending'[q] = pending[q]
      BY <2>2, <2>5 DEF Finish, IInv, TypeOK, Pending
    <3>2. Pending' = Pending
      BY <3>1 DEF Pending
    <3>3. SocketInv' /\ CopyInv'
      BY <2>5, <3>0 DEF Finish, IInv, SocketInv, CopyInv, Readable
    <3>4. RequestInv'
      BY <2>1, <2>3, <2>5, <3>0, <3>2, <2>2 DEF Finish, IInv, RequestInv
    <3>5. PendingIsOwed'
      <4>1. \A q \in Pending' : q \notin answered'
        BY <2>2, <2>5, <3>2 DEF Finish, IInv, PendingIsOwed
      <4>2. \A q \in Pending : q \in Req
        BY DEF Pending
      <4> QED BY <3>0, <3>1, <3>2, <4>1, <4>2 DEF IInv, PendingIsOwed, Readable
    <3>6. StagedCopyAccounted'
      BY <2>3, <2>5, <3>0, <3>2 DEF Finish, IInv, StagedCopyAccounted, Wanted
    <3> QED BY <3>3, <3>4, <3>5, <3>6
  <2>6. CASE ~ active /\ UNCHANGED <<pending, answered, copies>>
    BY <1>7, <2>1, <2>2, <2>3, <2>6
       DEF ReadsRequest, IInv, TypeOK, ext, Asked, SocketInv, RequestInv, CopyInv, PendingIsOwed,
       StagedCopyAccounted, Wanted, Pending, Readable
  <2> QED BY <1>7, <2>4, <2>5, <2>6 DEF ReadsRequest
<1>8. ASSUME NEW told \in SUBSET {r}, Withdraw(r, told),
             UNCHANGED <<cli, post, active, stranded, granted, sock, current>>,
             \A q \in Req : (Asked(q)' <=> Asked(q)) /\ Sent(q)',
             attached' \subseteq attached, attached \ attached' \subseteq {r},
             r \notin attached' => cli[r] = "over" /\ ~ Asked(r)
      PROVE  Goal
  <2>1. CASE r \notin Pending
    BY <1>8, <2>1 DEF Withdraw, IInv, SocketInv, RequestInv, CopyInv, PendingIsOwed,
       StagedCopyAccounted, Wanted, Pending, Readable
  <2>2. CASE r \in Pending
    <3>1. Finish({r}, told) /\ told \subseteq Pending
      BY <1>8, <2>2 DEF Withdraw, Pending
    <3>2. /\ (RequestInv /\ CopyInv /\ StagedCopyAccounted)'
          /\ Pending' = Pending \ {r}
          /\ \A q \in Pending' : pending'[q] = pending[q] /\ q \notin answered'
      BY <1>8, <3>1, FinishKeeps
    <3> QED BY <1>8, <3>2 DEF IInv, SocketInv, PendingIsOwed, Readable
  <2> QED BY <2>1, <2>2
<1>9. CASE ReadsCancel(r)
  <2>1. /\ \A q \in Req : (Asked(q)' <=> Asked(q)) /\ Sent(q)'
        /\ UNCHANGED <<cli, post, active, stranded, granted, sock, current, attached>>
        /\ cli[r] = "over" /\ ~ Asked(r)
    BY <1>0, <1>9 DEF ReadsCancel, Frame, ext, Asked
  <2>2. CASE active
    <3>1. Withdraw(r, {})
      BY <1>9, <2>2 DEF ReadsCancel
    <3> QED BY <1>8, <2>1, <3>1
  <2>3. CASE ~ active
    BY <1>9, <2>1, <2>3 DEF ReadsCancel, IInv, SocketInv, RequestInv, CopyInv,
       PendingIsOwed, StagedCopyAccounted, Wanted, Pending, Readable
  <2> QED BY <2>2, <2>3
<1>10. CASE SeesCliClose(r)
  <2>1. /\ \A q \in Req : (Asked(q)' <=> Asked(q)) /\ Sent(q)'
        /\ cli[r] = "over" /\ ~ Asked(r)
    BY <1>0, <1>10 DEF SeesCliClose, Frame, Asked
  <2> QED BY <1>8, <1>10, <2>1 DEF SeesCliClose, ext
<1>11. CASE TimesOut(r)
  <2>1. \A q \in Req : (Asked(q)' <=> Asked(q)) /\ Sent(q)'
    <3>1. UNCHANGED <<cli, wire>>
      BY <1>11 DEF TimesOut, clis
    <3> QED BY <3>1 DEF Asked, Sent, IInv, RequestInv
  <2>2. Withdraw(r, {r}) /\ UNCHANGED <<cli, post, active, stranded, granted, sock, current, attached>>
    BY <1>11 DEF TimesOut, clis, ext
  <2>3. r \in attached
    BY <1>11 DEF TimesOut, IInv, PendingIsOwed
  <2> QED BY <1>8, <2>1, <2>2, <2>3
<1>12. CASE RunStep(r)
  <2>1. CASE Deletes(r)
    <3>1. copies' \subseteq copies
          /\ UNCHANGED <<clis, active, attached, pending, answered, granted, sock, current, stranded>>
      BY <1>12, <2>1 DEF Deletes, Ends, Reaches
    <3> QED BY <3>1 DEF IInv, clis, SocketInv, RequestInv, Sent, CopyInv, PendingIsOwed,
            StagedCopyAccounted, Wanted, Asked, Pending, Readable
  <2>2. CASE ~ Deletes(r)
    <3>1. UNCHANGED <<clis, relay, sock, current, stranded>>
      BY <1>12, <2>2 DEF RunStep, Watches, Expires, Begins, Fetches, Uploads, Concludes,
         Ends, Reaches, wires
    <3> QED BY <3>1, StepAside
  <2> QED BY <2>1, <2>2
<1> QED BY <1>1, <1>2, <1>3, <1>4, <1>5, <1>6, <1>7, <1>9, <1>10, <1>11, <1>12
        DEF CliStep, RequestStep

\* Sockets that change while none of them is asked, granted or current.
LEMMA SocketMovesKeep ==
    ASSUME IInv, UNCHANGED <<clis, relay, stranded>>, SocketInv',
           \A j \in Socket : j \notin granted /\ Readable(j) => Readable(j)'
    PROVE  (SocketInv /\ RequestInv /\ CopyInv /\ PendingIsOwed /\ StagedCopyAccounted)'
<1>1. (RequestInv /\ CopyInv /\ StagedCopyAccounted)' /\ Pending' = Pending
  BY DEF IInv, clis, relay, RequestInv, Sent, CopyInv, StagedCopyAccounted, Wanted, Asked, Pending
<1>2. ASSUME NEW q \in Pending
      PROVE  Readable(pending[q])'
  <2>1. pending[q] \in Socket /\ Readable(pending[q])
    BY RelayAssumption DEF IInv, TypeOK, Pending, PendingIsOwed, RelayAssumption
  <2>2. pending' = pending /\ granted' = granted
    BY DEF relay
  <2>3. CASE pending[q] \in granted
    BY <2>2, <2>3 DEF SocketInv, Readable
  <2>4. CASE pending[q] \notin granted
    BY <2>1, <2>2, <2>4 DEF Readable
  <2> QED BY <2>3, <2>4
<1>3. PendingIsOwed'
  <2>1. UNCHANGED <<active, attached, answered, pending>>
    BY DEF relay
  <2> QED BY <1>1, <1>2, <2>1 DEF IInv, PendingIsOwed, Readable
<1> QED BY <1>1, <1>3

\* So does giving up the current socket: it is read to its end, or was cut.
LEMMA LeaveKeeps ==
    ASSUME IInv, Leave, UNCHANGED <<clis, relay, stranded>>, current' = NoSocket
    PROVE  (SocketInv /\ RequestInv /\ CopyInv /\ PendingIsOwed /\ StagedCopyAccounted)'
<1>1. ASSUME NEW j \in Socket, Readable(j)
      PROVE  Readable(j)'
  <2>1. CASE j = current
    <3>1. sock[j] = "open" /\ current # NoSocket
      BY <1>1, <2>1, RelayAssumption DEF IInv, SocketInv, Readable, RelayAssumption
    <3>2. sock'[j] = "shutting"
      BY <2>1, <3>1 DEF Leave, IInv, TypeOK
    <3> QED BY <3>2 DEF Readable
  <2>2. CASE j # current
    <3>1. sock'[j] = sock[j]
      BY <2>2 DEF Leave, IInv, TypeOK
    <3> QED BY <1>1, <3>1 DEF Readable
  <2> QED BY <2>1, <2>2
<1>2. SocketInv'
  BY <1>1 DEF relay, IInv, TypeOK, SocketInv
<1> QED BY <1>1, <1>2, SocketMovesKeep

\* Steps of sockets keep the invariant.
LEMMA SocketStepKeeps ==
    ASSUME IInv, NEW k \in Socket, SocketStep(k)
    PROVE  (SocketInv /\ RequestInv /\ CopyInv /\ PendingIsOwed /\ StagedCopyAccounted)'
<1> DEFINE Goal == (SocketInv /\ RequestInv /\ CopyInv /\ PendingIsOwed /\ StagedCopyAccounted)'
\* The requests of R end, in the daemon alone.
<1>0. ASSUME NEW R \in SUBSET Req, NEW told \in SUBSET R, told \subseteq Pending,
             Finish(R, told), UNCHANGED <<clis, active, attached, stranded>>
      PROVE  /\ (RequestInv /\ CopyInv /\ StagedCopyAccounted)'
             /\ Pending' = Pending \ R
             /\ \A q \in Pending' : pending'[q] = pending[q] /\ q \notin answered'
  <2>1. UNCHANGED <<cli, post, wire>>
    BY <1>0 DEF clis
  <2>2. \A q \in Req : (Asked(q)' <=> Asked(q)) /\ Sent(q)'
    BY <2>1 DEF Asked, Sent, IInv, RequestInv
  <2> QED BY <1>0, <2>1, <2>2, FinishKeeps
<1>1. CASE ReadsHello(k) \/ ReadsBye(k)
  <2>1. /\ UNCHANGED <<clis, active, attached, pending, answered, copies, sock, current, stranded>>
        /\ granted' \subseteq granted \cup {k} /\ Readable(k)
    BY <1>1 DEF ReadsHello, ReadsBye, Reads, ext
  <2>2. UNCHANGED <<cli, post, wire>>
    BY <2>1 DEF clis
  <2> QED BY <2>1, <2>2 DEF IInv, SocketInv, RequestInv, Sent, CopyInv, PendingIsOwed,
          StagedCopyAccounted, Wanted, Asked, Pending, Readable
<1>2. CASE Shuts(k)
  <2> DEFINE R == {r \in Req : pending[r] = k}
  <2>1. /\ Finish(R, R) /\ UNCHANGED <<clis, active, attached, current, stranded>>
        /\ sock[k] = "shutting" /\ sock' = [sock EXCEPT ![k] = "free"]
        /\ granted' = granted \ {k}
    BY <1>2 DEF Shuts, ext
  <2>2. R \subseteq Pending
    BY RelayAssumption DEF Pending, RelayAssumption
  <2>3. /\ (RequestInv /\ CopyInv /\ StagedCopyAccounted)'
        /\ Pending' = Pending \ R
        /\ \A q \in Pending' : pending'[q] = pending[q] /\ q \notin answered'
    BY <1>0, <2>1, <2>2
  <2>4. \A j \in Socket : j # k => sock'[j] = sock[j]
    BY <2>1 DEF IInv, TypeOK
  <2>5. SocketInv'
    BY <2>1, <2>4 DEF IInv, TypeOK, SocketInv, Readable
  <2>6. PendingIsOwed'
    <3>1. ASSUME NEW q \in Pending'
          PROVE  q \in Pending /\ pending[q] # k /\ pending[q] \in Socket /\ pending'[q] = pending[q]
                 /\ q \notin answered'
      BY <2>3, <3>1 DEF IInv, TypeOK, Pending
    <3>2. \A q \in Pending' : active /\ q \in attached /\ Readable(pending[q])
      BY <3>1 DEF IInv, PendingIsOwed
    <3> QED BY <2>1, <2>4, <3>1, <3>2 DEF PendingIsOwed, Readable
  <2> QED BY <2>3, <2>5, <2>6
<1>3. CASE Opens(k)
  <2>1. /\ UNCHANGED <<clis, relay, stranded>>
        /\ sock[k] = "free" /\ sock' = [sock EXCEPT ![k] = "open"] /\ current' = k
    BY <1>3 DEF Opens
  <2>2. sock'[k] = "open" /\ \A j \in Socket : j # k => sock'[j] = sock[j]
    BY <2>1 DEF IInv, TypeOK
  <2>3. SocketInv'
    BY <2>1, <2>2 DEF IInv, TypeOK, relay, SocketInv, Readable
  <2> QED BY <2>1, <2>2, <2>3, SocketMovesKeep DEF Readable
<1>4. CASE SeesClose(k)
  <2>1. /\ UNCHANGED <<clis, relay, stranded>>
        /\ sock[k] = "cut" /\ sock' = [sock EXCEPT ![k] = "free"] /\ current' = NoSocket
    BY <1>4 DEF SeesClose
  <2>2. \A j \in Socket : j # k => sock'[j] = sock[j]
    BY <2>1 DEF IInv, TypeOK
  <2>3. SocketInv'
    BY <2>1, <2>2 DEF IInv, TypeOK, relay, SocketInv, Readable
  <2> QED BY <2>1, <2>2, <2>3, SocketMovesKeep DEF Readable
<1>5. CASE Retries(k)
  <2>1. /\ UNCHANGED <<clis, relay, stranded>>
        /\ sock[k] = "free" /\ current' = k /\ current # NoSocket
        /\ sock' = [j \in Socket |->
                      CASE j = k -> "open"
                        [] j = current -> IF sock[j] = "open" THEN "shutting" ELSE "free"
                        [] OTHER -> sock[j]]
    BY <1>5 DEF Retries
  <2>2. current \in Socket /\ sock[current] \in {"open", "cut"} /\ current # k
    BY <2>1 DEF IInv, TypeOK, SocketInv
  <2>3. /\ sock'[k] = "open"
        /\ \A j \in Socket : j # k =>
             /\ j # current => sock'[j] = sock[j]
             /\ j = current /\ sock[j] = "open" => sock'[j] = "shutting"
    <3>1. sock'[k] = "open"
      BY <2>1, <2>2
    <3>2. ASSUME NEW j \in Socket, j # k, j # current
          PROVE  sock'[j] = sock[j]
      BY <2>1, <3>2
    <3>3. ASSUME NEW j \in Socket, j # k, j = current, sock[j] = "open"
          PROVE  sock'[j] = "shutting"
      BY <2>1, <3>3
    <3> QED BY <3>1, <3>2, <3>3
  <2>4. \A j \in Socket : Readable(j) => Readable(j)'
    BY <2>2, <2>3 DEF Readable
  <2>5. SocketInv'
    BY <2>1, <2>3, <2>4 DEF IInv, TypeOK, relay, SocketInv
  <2> QED BY <2>1, <2>4, <2>5, SocketMovesKeep
<1>6. CASE HearsGranted(k) \/ HearsClosed(k)
  BY <1>6, StepAside DEF HearsGranted, HearsClosed
<1>7. ASSUME NEW f, HearsForgotten(k, f)
      PROVE  Goal
  <2>1. UNCHANGED <<clis, relay, stranded>> /\ Leave /\ current' = NoSocket
    BY <1>7 DEF HearsForgotten
  <2> QED BY <2>1, LeaveKeeps
<1>8. ASSUME NEW f, HearsNothing(k, f)
      PROVE  Goal
  BY <1>8, StepAside DEF HearsNothing, ext
<1>9. ASSUME NEW r \in Req, ReadsResult(k, r)
      PROVE  Goal
  <2>1. UNCHANGED <<clis, active, attached, granted, sock, current, stranded>>
    BY <1>9 DEF ReadsResult, ext
  <2>2. CASE k \in granted /\ pending[r] = k
    <3>1. Finish({r}, {r}) /\ r \in Pending
      BY <1>9, <2>2, RelayAssumption DEF ReadsResult, Pending, RelayAssumption
    <3>2. /\ (RequestInv /\ CopyInv /\ StagedCopyAccounted)'
          /\ Pending' = Pending \ {r}
          /\ \A q \in Pending' : pending'[q] = pending[q] /\ q \notin answered'
      BY <1>0, <2>1, <3>1
    <3> QED BY <2>1, <3>2 DEF IInv, SocketInv, PendingIsOwed, Readable
  <2>3. CASE ~ (k \in granted /\ pending[r] = k)
    <3>1. UNCHANGED <<pending, answered, copies>>
      BY <1>9, <2>3 DEF ReadsResult
    <3> QED BY <2>1, <3>1, StepAside DEF relay
  <2> QED BY <2>2, <2>3
<1>10. ASSUME NEW r \in Req, HearsRun(k, r) \/ HearsCancel(k, r)
       PROVE  Goal
  BY <1>10, StepAside DEF HearsRun, HearsCancel
<1> QED BY <1>1, <1>2, <1>3, <1>4, <1>5, <1>6, <1>7, <1>8, <1>9, <1>10 DEF SocketStep

\* And so do all others.
LEMMA StepKeeps ==
    ASSUME IInv, [Next]_vars
    PROVE  IInv'
<1> DEFINE Goal == (SocketInv /\ RequestInv /\ CopyInv /\ PendingIsOwed /\ StagedCopyAccounted)'
<1> SUFFICES Goal
  BY StepTypes, RelayAssumption DEF IInv
<1>0. ASSUME NEW removed \in BOOLEAN, CleansUp(removed)
      PROVE  copies' \subseteq stranded'
  BY <1>0 DEF CleansUp
<1>1. ASSUME NEW removed \in BOOLEAN, SessionCloses(removed)
      PROVE  Goal
  <2>1. /\ UNCHANGED <<cli, post, wire, attached, sock, current>>
        /\ pending' = [r \in Req |-> NoSocket] /\ answered' = answered \cup Pending
        /\ copies' \subseteq stranded' /\ granted' = {}
    BY <1>0, <1>1 DEF SessionCloses, clis, ext
  <2>2. Pending' = {}
    BY <2>1 DEF Pending
  <2>3. \A q \in Req : (Asked(q)' <=> Asked(q)) /\ Sent(q)'
    BY <2>1 DEF Asked, Sent, IInv, RequestInv
  <2>4. RequestInv'
    BY <2>1, <2>2, <2>3 DEF IInv, RequestInv
  <2>5. (SocketInv /\ CopyInv /\ PendingIsOwed /\ StagedCopyAccounted)'
    BY <2>1, <2>2 DEF IInv, SocketInv, CopyInv, PendingIsOwed, StagedCopyAccounted
  <2> QED BY <2>4, <2>5
<1>2. ASSUME NEW swept \in BOOLEAN, Crash(swept)
      PROVE  Goal
  <2>1. /\ UNCHANGED <<answered, active, current>>
        /\ cli' = [r \in Req |-> IF cli[r] = "new" THEN "new" ELSE "over"]
        /\ post' = [r \in Req |-> IF post[r] = "none" THEN "none" ELSE "refused"]
        /\ wire' = [r \in Req |-> <<>>]
        /\ pending' = [r \in Req |-> NoSocket]
        /\ copies' \subseteq stranded' /\ granted' = {}
        /\ sock' = [j \in Socket |-> IF j = current THEN "cut" ELSE "free"]
    BY <1>0, <1>2 DEF Crash, ext
  <2>2. Pending' = {}
    BY <2>1 DEF Pending
  <2>3. \A q \in Req : ~ Asked(q)' /\ Sent(q)'
    <3>1. \A q \in Req : DOMAIN wire'[q] = {}
      BY <2>1
    <3> QED BY <3>1 DEF Asked, Sent
  <2>4. RequestInv'
    <3>1. \A q \in Req : cli'[q] # "posting" /\ (cli'[q] = "new" => cli[q] = "new")
      BY <2>1
    <3>2. \A q \in Req : cli'[q] = "new" => q \notin answered'
      BY <2>1, <3>1 DEF IInv, RequestInv
    <3> QED BY <2>2, <2>3, <3>1, <3>2 DEF RequestInv
  <2>5. SocketInv'
    BY <2>1 DEF IInv, TypeOK, SocketInv
  <2>6. CopyInv'
    BY <2>1 DEF IInv, CopyInv
  <2>7. (PendingIsOwed /\ StagedCopyAccounted)'
    BY <2>1, <2>2 DEF PendingIsOwed, StagedCopyAccounted
  <2> QED BY <2>4, <2>5, <2>6, <2>7
<1>3. CASE Pairs \/ Disconnects
  BY <1>3, StepAside DEF Pairs, Disconnects, ext
<1>4. CASE Restarts
  BY <1>4, LeaveKeeps DEF Restarts
<1>5. CASE UNCHANGED vars
  BY <1>5, StepAside DEF vars, wires, ext
<1> QED BY <1>1, <1>2, <1>3, <1>4, <1>5, RequestStepKeeps, SocketStepKeeps DEF Next

\* It holds before anything is asked.
LEMMA InitHolds == Init => IInv
<1> SUFFICES ASSUME Init PROVE IInv
  OBVIOUS
<1>1. TypeOK
  <2>1. wire \in [Req -> Seq({"request", "cancel", "close"})]
    BY ShortSequences DEF Init
  <2>2. live \in [Req -> BOOLEAN]
    BY Zenon DEF Init
  <2>3. faults \in 0..MaxFaults
    BY RelayAssumption DEF Init, RelayAssumption
  <2> QED BY <2>1, <2>2, <2>3 DEF Init, TypeOK, Stage
<1>2. Pending = {} /\ \A r \in Req : ~ Asked(r) /\ Sent(r)
  BY DEF Init, Pending, Asked, Sent
<1>3. SocketInv /\ CopyInv /\ RequestInv
  BY <1>2 DEF Init, SocketInv, CopyInv, RequestInv
<1>4. PendingIsOwed /\ StagedCopyAccounted
  BY <1>2 DEF Init, PendingIsOwed, StagedCopyAccounted
<1> QED BY <1>1, <1>3, <1>4 DEF IInv

----------------------------------------------------------------------------
(* Theorems.                                                               *)

\* The two properties hold together with what they rest on.
THEOREM RelayInvariant == Spec => []IInv
<1>1. IInv /\ [Next]_vars => IInv'
  BY StepKeeps
<1> QED BY InitHolds, <1>1, PTL DEF Spec

\* Every variable of the relay keeps its type.
THEOREM RelayTypes == Spec => []TypeOK
<1>1. IInv => TypeOK
  BY DEF IInv
<1> QED BY RelayInvariant, <1>1, PTL

\* No pending entry outlives its CLI, its answer, its extension socket or the session,
\* so none is left to hold one of MAX_PENDING places (pw-ext.ts:49).
THEOREM PendingAlwaysOwed == Spec => []PendingIsOwed
<1>1. IInv => PendingIsOwed
  BY DEF IInv
<1> QED BY RelayInvariant, <1>1, PTL

\* Whatever ends a request drops its staged copy with it (pw-ext.ts:107), but for the
\* three ways that stranded records: stopped before it asked, stored after the session
\* had closed, missed by a cleanup that did not run or failed (assets/cleanup.ts:65).
THEOREM NoCopyIsForgotten == Spec => []StagedCopyAccounted
<1>1. IInv => StagedCopyAccounted
  BY DEF IInv
<1> QED BY RelayInvariant, <1>1, PTL

=============================================================================
