-------------------------------- MODULE PwRelay --------------------------------
(***************************************************************************)
(* `dg-skills pw --ext`: a command of the agent acts on the active tab of  *)
(* the user's browser.  The CLI (skills-cli/src/pw/ext.ts) asks the daemon *)
(* over its own socket, the daemon (server/pw-ext.ts) relays the request   *)
(* to the one extension paired with the session, and the extension         *)
(* (extension/lib/background/chat.ts and pw-ext.ts) runs it and answers.   *)
(* An upload first stages a copy of the file with the daemon, by HTTP.     *)
(*                                                                         *)
(* One session, one browser, one CLI process per request.  What goes over  *)
(* one socket in one direction arrives in order.  The tab, the page and    *)
(* the contents of answers are left out: a run ends with an answer, good   *)
(* or bad.                                                                 *)
(***************************************************************************)
EXTENDS Naturals, Sequences, FiniteSets

CONSTANTS
    Req,          \* requests: one CLI process each
    Upload,       \* those that stage a file
    Socket,       \* sockets of the extension; a socket's name is used again
    NoSocket,
    MaxPending,   \* MAX_PENDING
    MaxFaults     \* bound: crashes, retries, unpairings, pairings again, restarts

ASSUME RelayAssumption ==
    /\ Upload \subseteq Req
    /\ NoSocket \notin Socket
    /\ MaxPending \in Nat /\ MaxFaults \in Nat

VARIABLES
    \* the CLI processes
    cli,       \* how far each is
    post,      \* what has become of its POST /assets
    wire,      \* its frames on their way to the daemon
    \* the daemon
    active,    \* the session is not closed
    attached,  \* requests whose CLI socket is open at the daemon
    pending,   \* the extension socket of each pending request
    answered,  \* requests that were sent a result
    copies,    \* staged copies
    granted,   \* extension sockets with the session's capability
    \* the extension's sockets
    sock,      \* where each stands
    up,        \* frames on their way to the daemon, in order
    down,      \* frames on their way to the extension, in order
    \* the extension
    current,   \* currentSocket
    paired,    \* it holds a bootstrap of the session
    eligible,  \* keepaliveEligible has the session
    stage,     \* how far the run of each request is
    live,      \* what live() returns for it
    aborted,   \* the signal of its run is aborted
    \* history and bounds
    unheard,   \* requests that were read after the session had closed
    stranded,  \* copies that were left without a request, or missed by a cleanup
    faults

clis  == <<cli, post, wire>>
relay == <<active, attached, pending, answered, copies, granted>>
wires == <<sock, up, down>>
ext   == <<current, paired, eligible, stage, live, aborted>>
vars  == <<clis, relay, wires, ext, unheard, stranded, faults>>

Init ==
    /\ cli = [r \in Req |-> "new"]
    /\ post = [r \in Req |-> "none"]
    /\ wire = [r \in Req |-> <<>>]
    /\ active = TRUE /\ attached = {}
    /\ pending = [r \in Req |-> NoSocket]
    /\ answered = {} /\ copies = {} /\ granted = {}
    /\ sock = [k \in Socket |-> "free"]
    /\ up = [k \in Socket |-> <<>>]
    /\ down = [k \in Socket |-> <<>>]
    /\ current = NoSocket
    /\ paired = TRUE /\ eligible = FALSE
    /\ stage = [r \in Req |-> "none"]
    /\ live = [r \in Req |-> FALSE]
    /\ aborted = {}
    /\ unheard = {} /\ stranded = {} /\ faults = 0

Fault == faults < MaxFaults /\ faults' = faults + 1

Pending == {r \in Req : pending[r] # NoSocket}

Running == {r \in Req : stage[r] \notin {"none", "done"}}

\* The request is on its way to the daemon.
Asked(r) == \E i \in DOMAIN wire[r] : wire[r][i] = "request"

----------------------------------------------------------------------------
(* The CLI.                                                                *)

\* CliClient.connect, and then the request, or the copy it needs first.
Connects(r) ==
    /\ cli[r] = "new" /\ active
    /\ attached' = attached \cup {r}
    /\ IF r \in Upload
         THEN /\ cli' = [cli EXCEPT ![r] = "posting"]
              /\ post' = [post EXCEPT ![r] = "sent"]
              /\ UNCHANGED wire
         ELSE /\ cli' = [cli EXCEPT ![r] = "waiting"]
              /\ wire' = [wire EXCEPT ![r] = <<"request">>]
              /\ UNCHANGED post
    /\ UNCHANGED <<active, pending, answered, copies, granted, wires, ext, unheard,
                   stranded, faults>>

\* The process is over and its socket closes behind what it sent.
Exits(r, last) ==
    /\ cli' = [cli EXCEPT ![r] = "over"]
    /\ wire' = [wire EXCEPT ![r] = @ \o last \o <<"close">>]
    /\ UNCHANGED post

\* postAsset returns: the request follows, or the command has failed.
ReadsPosted(r) ==
    /\ cli[r] = "posting" /\ post[r] \in {"stored", "refused"}
    /\ IF post[r] = "stored"
         THEN /\ cli' = [cli EXCEPT ![r] = "waiting"]
              /\ wire' = [wire EXCEPT ![r] = <<"request">>]
              /\ UNCHANGED post
         ELSE Exits(r, <<>>)
    /\ UNCHANGED <<relay, wires, ext, unheard, stranded, faults>>

\* The result is read and printed.
ReadsAnswer(r) ==
    /\ cli[r] = "waiting" /\ r \in answered
    /\ Exits(r, <<>>)
    /\ UNCHANGED <<relay, wires, ext, unheard, stranded, faults>>

\* Ctrl-C sends a cancel first; a killed process, or one that has waited for too
\* long, sends nothing.
Stops(r, last) ==
    /\ cli[r] \in {"posting", "waiting"}
    /\ Exits(r, last)
    /\ stranded' = IF post[r] = "stored" /\ cli[r] = "posting"
                     THEN stranded \cup (copies \cap {r}) ELSE stranded
    /\ UNCHANGED <<relay, wires, ext, unheard, faults>>

----------------------------------------------------------------------------
(* The daemon, to the CLI.                                                 *)

\* handleAssetPost checks the capability and awaits the body.
Receives(r) ==
    /\ post[r] = "sent"
    /\ post' = [post EXCEPT ![r] = IF active THEN "receiving" ELSE "refused"]
    /\ UNCHANGED <<cli, wire, relay, wires, ext, unheard, stranded, faults>>

\* The body has come and is registered.  The session may have closed meanwhile.
Stores(r) ==
    /\ post[r] = "receiving"
    /\ post' = [post EXCEPT ![r] = "stored"]
    /\ copies' = copies \cup {r}
    /\ stranded' = IF cli[r] = "over" \/ ~ active THEN stranded \cup {r} ELSE stranded
    /\ UNCHANGED <<cli, wire, active, attached, pending, answered, granted, wires, ext,
                   unheard, faults>>

\* A frame for the extension; it listens to its current socket only.
Push(queue, k, f) ==
    IF k = current /\ sock[k] = "open" THEN [queue EXCEPT ![k] = Append(@, f)] ELSE queue

\* Mutant of Finish: the staged copy is not dropped.
FinishUndropped(R, told) ==
    /\ pending' = [r \in Req |-> IF r \in R THEN NoSocket ELSE pending[r]]
    /\ answered' = answered \cup told
    /\ copies' = copies

\* finish, and fail before a request is pending: the copy is dropped, the entry
\* removed, and the CLI told unless it has left.
Finish(R, told) ==
    /\ pending' = [r \in Req |-> IF r \in R THEN NoSocket ELSE pending[r]]
    /\ answered' = answered \cup told
    /\ copies' = copies \ R

\* The daemon takes frame f from the socket of the CLI.
Takes(r, f) == wire[r] # <<>> /\ Head(wire[r]) = f /\ wire' = [wire EXCEPT ![r] = Tail(@)]

\* handlePwExtCli.
ReadsRequest(r) ==
    /\ Takes(r, "request")
    /\ \/ /\ active /\ Cardinality(Pending) < MaxPending
          /\ \E k \in Socket :
               /\ granted = {k}
               /\ pending' = [pending EXCEPT ![r] = k]
               /\ down' = Push(down, k, <<"run", r>>)
          /\ UNCHANGED <<answered, copies, unheard>>
       \/ /\ active
          /\ Cardinality(granted) # 1 \/ Cardinality(Pending) >= MaxPending
          /\ Finish({r}, {r})
          /\ UNCHANGED <<down, unheard>>
       \/ /\ ~ active
          /\ unheard' = unheard \cup {r}
          /\ UNCHANGED <<pending, answered, copies, down>>
    /\ UNCHANGED <<cli, post, active, attached, granted, sock, up, ext,
                   stranded, faults>>

\* cancelInExtension, and the entry ends.
Withdraw(r, told) ==
    IF pending[r] = NoSocket
      THEN UNCHANGED <<pending, answered, copies, down>>
      ELSE /\ down' = Push(down, pending[r], <<"cancel", r>>)
           /\ Finish({r}, told)

\* handlePwExtCliCancel.
ReadsCancel(r) ==
    /\ Takes(r, "cancel")
    /\ IF active THEN Withdraw(r, {}) ELSE UNCHANGED <<pending, answered, copies, down>>
    /\ UNCHANGED <<cli, post, active, attached, granted, sock, up, ext,
                   unheard, stranded, faults>>

\* Mutant of SeesCliClose: nobody waits for the requester's socket.
SeesCliCloseOnly(r) ==
    /\ Takes(r, "close")
    /\ attached' = attached \ {r}
    /\ UNCHANGED <<cli, post, active, pending, answered, copies, granted, wires, ext,
                   unheard, stranded, faults>>

\* The CLI's socket is closed: the wait registered with onSocketClose.
SeesCliClose(r) ==
    /\ Takes(r, "close")
    /\ attached' = attached \ {r}
    /\ Withdraw(r, {})
    /\ UNCHANGED <<cli, post, active, granted, sock, up, ext, unheard,
                   stranded, faults>>

\* Mutant of TimesOut: the extension is told, the CLI is not.
TimesOutUntold(r) ==
    /\ r \in Pending
    /\ Withdraw(r, {})
    /\ UNCHANGED <<clis, active, attached, granted, sock, up, ext, unheard,
                   stranded, faults>>

\* The timer of a pending request.
TimesOut(r) ==
    /\ r \in Pending
    /\ Withdraw(r, {r})
    /\ UNCHANGED <<clis, active, attached, granted, sock, up, ext, unheard,
                   stranded, faults>>

----------------------------------------------------------------------------
(* The daemon, to the extension.                                           *)

\* The daemon reads from a socket until it is closed on its own side.
Readable(k) == sock[k] \in {"open", "shutting"}

Reads(k, f) ==
    /\ Readable(k) /\ up[k] # <<>> /\ Head(up[k]) = f
    /\ up' = [up EXCEPT ![k] = Tail(@)]

\* handleConnectHandshake.
ReadsHello(k) ==
    /\ Reads(k, <<"hello">>)
    /\ granted' = IF active THEN granted \cup {k} ELSE granted
    /\ down' = Push(down, k, IF active THEN <<"granted">> ELSE <<"refused">>)
    /\ UNCHANGED <<clis, active, attached, pending, answered, copies, sock, ext, unheard,
                   stranded, faults>>

\* session-disconnect: the capability goes, pending requests stay.
ReadsBye(k) ==
    /\ Reads(k, <<"bye">>)
    /\ granted' = granted \ {k}
    /\ down' = IF k \in granted THEN Push(down, k, <<"disconnected">>) ELSE down
    /\ UNCHANGED <<clis, active, attached, pending, answered, copies, sock, ext, unheard,
                   stranded, faults>>

\* handlePwExtBrowserResult, and settleRejectedPwExtResult of an unreadable one: only
\* of the socket that was asked, and with the capability.
ReadsResult(k, r) ==
    /\ Reads(k, <<"result", r>>)
    /\ IF k \in granted /\ pending[r] = k
         THEN Finish({r}, {r})
         ELSE UNCHANGED <<pending, answered, copies>>
    /\ UNCHANGED <<clis, active, attached, granted, sock, down, ext, unheard, stranded,
                   faults>>

\* A socket the extension has left closes when its frames are read.
Shuts(k) ==
    /\ sock[k] = "shutting" /\ up[k] = <<>>
    /\ sock' = [sock EXCEPT ![k] = "free"]
    /\ granted' = granted \ {k}
    /\ LET R == {r \in Req : pending[r] = k} IN Finish(R, R)
    /\ UNCHANGED <<clis, active, attached, up, down, ext, unheard, stranded, faults>>

\* The session's directory is removed, of copies whose requests are over by then.
\* A removal that is skipped or fails is logged, and leaves them.
CleansUp(removed) ==
    /\ copies' = IF removed THEN {} ELSE copies
    /\ stranded' = IF removed THEN stranded ELSE stranded \cup copies

\* registry.close: the copies go, capable sockets are told, pending requests fail.
SessionCloses(removed) ==
    /\ active
    /\ active' = FALSE
    /\ granted' = {}
    /\ down' = [k \in Socket |->
                  IF k \in granted THEN Push(down, k, <<"closed">>)[k] ELSE down[k]]
    /\ pending' = [r \in Req |-> NoSocket]
    /\ answered' = answered \cup Pending
    /\ CleansUp(removed)
    /\ UNCHANGED <<clis, attached, sock, up, ext, unheard, faults>>

\* The daemon dies and is booted again; what was on its way is lost (read before, it
\* changes nothing that the crash does).  The boot removes all staged copies, but not
\* when it had to bind another port than the one in the pid file the crash left.
Crash(swept) ==
    /\ Fault
    /\ cli' = [r \in Req |-> IF cli[r] = "new" THEN "new" ELSE "over"]
    /\ post' = [r \in Req |-> IF post[r] = "none" THEN "none" ELSE "refused"]
    /\ wire' = [r \in Req |-> <<>>]
    /\ attached' = {}
    /\ pending' = [r \in Req |-> NoSocket]
    /\ CleansUp(swept)
    /\ granted' = {}
    /\ sock' = [k \in Socket |-> IF k = current THEN "cut" ELSE "free"]
    /\ up' = [k \in Socket |-> <<>>]
    /\ down' = [k \in Socket |-> <<>>]
    /\ UNCHANGED <<active, answered, ext, unheard>>

----------------------------------------------------------------------------
(* The extension and its socket.                                           *)

\* What becomes of a socket the extension closes, and of what it no longer hears.
Leave ==
    /\ sock' = IF current = NoSocket THEN sock
               ELSE [sock EXCEPT ![current] = IF @ = "open" THEN "shutting" ELSE "free"]
    /\ down' = IF current = NoSocket THEN down ELSE [down EXCEPT ![current] = <<>>]

\* The extension says f on its current socket, if that is open.
Says(f) ==
    IF current # NoSocket /\ sock[current] = "open"
      THEN [up EXCEPT ![current] = Append(@, f)] ELSE up

NoneLive == live' = [r \in Req |-> FALSE]

\* The chat client connects, at first and after a close, and says connect.
Opens(k) ==
    /\ current = NoSocket /\ paired /\ sock[k] = "free"
    /\ sock' = [sock EXCEPT ![k] = "open"]
    /\ current' = k
    /\ up' = [up EXCEPT ![k] = <<<<"hello">>>>]
    /\ UNCHANGED <<clis, relay, down, paired, eligible, stage, live, aborted,
                   unheard, stranded, faults>>

\* cleanup, on the close event of the current socket.
SeesClose(k) ==
    /\ current = k /\ sock[k] = "cut"
    /\ sock' = [sock EXCEPT ![k] = "free"]
    /\ current' = NoSocket /\ eligible' = FALSE
    /\ aborted' = aborted \cup Running
    /\ NoneLive
    /\ UNCHANGED <<clis, relay, up, down, paired, stage, unheard, stranded, faults>>

\* The user asks to reconnect: a new bootstrap, and retryNow.  cleanup of the socket
\* that is left finds another one current and does nothing.
Retries(k) ==
    /\ Fault
    /\ paired /\ current # NoSocket /\ sock[k] = "free"
    /\ sock' = [j \in Socket |->
                  CASE j = k -> "open"
                    [] j = current -> IF sock[j] = "open" THEN "shutting" ELSE "free"
                    [] OTHER -> sock[j]]
    /\ down' = [down EXCEPT ![current] = <<>>]
    /\ current' = k
    /\ up' = [Says(<<"hello">>) EXCEPT ![k] = <<<<"hello">>>>]
    /\ NoneLive
    /\ UNCHANGED <<clis, relay, paired, eligible, stage, aborted, unheard, stranded>>

\* The user pairs again, or once more: holdBootstrap, and connect.
Pairs ==
    /\ Fault
    /\ active
    /\ paired' = TRUE
    /\ NoneLive
    /\ up' = Says(<<"hello">>)
    /\ UNCHANGED <<clis, relay, sock, down, current, eligible, stage, aborted, unheard,
                   stranded>>

\* The user disconnects the session: nothing changes until that is confirmed.
Disconnects ==
    /\ Fault
    /\ paired /\ current # NoSocket /\ sock[current] = "open"
    /\ up' = Says(<<"bye">>)
    /\ UNCHANGED <<clis, relay, sock, down, ext, unheard, stranded>>

\* The browser ends the service worker and starts it again: its memory is gone, the
\* bootstrap is stored.
Restarts ==
    /\ Fault
    /\ Leave
    /\ current' = NoSocket /\ eligible' = FALSE
    /\ stage' = [r \in Req |-> IF r \in Running THEN "done" ELSE stage[r]]
    /\ NoneLive
    /\ UNCHANGED <<clis, relay, up, paired, aborted, unheard, stranded>>

Hears(k, f) ==
    /\ current = k /\ down[k] # <<>> /\ Head(down[k]) = f
    /\ down' = [down EXCEPT ![k] = Tail(@)]

\* session-list.
HearsGranted(k) ==
    /\ Hears(k, <<"granted">>)
    /\ eligible' = (paired \/ eligible)
    /\ UNCHANGED <<clis, relay, sock, up, current, paired, stage, live,
                   aborted, unheard, stranded, faults>>

\* The bootstrap is dropped, and what runs for it is canceled.
Unpaired ==
    /\ paired' = FALSE /\ eligible' = FALSE
    /\ aborted' = aborted \cup Running
    /\ NoneLive

\* session-closed.  The socket stays.
HearsClosed(k) ==
    /\ Hears(k, <<"closed">>)
    /\ Unpaired
    /\ UNCHANGED <<clis, relay, sock, up, current, stage, unheard, stranded, faults>>

\* A refused handshake, and session-disconnected: the client gives up its socket with
\* its last session, unless it has dropped that already.
HearsForgotten(k, f) ==
    /\ current = k /\ down[k] # <<>> /\ Head(down[k]) = f
    /\ paired
    /\ Leave
    /\ current' = NoSocket
    /\ Unpaired
    /\ UNCHANGED <<clis, relay, up, stage, unheard, stranded, faults>>

\* The client's session is gone, or its wait for a session-disconnected is over.
HearsNothing(k, f) ==
    /\ Hears(k, f)
    /\ f = <<"disconnected">> \/ ~ paired
    /\ UNCHANGED <<clis, relay, sock, up, ext, unheard, stranded, faults>>

\* pw-ext-browser-request.
HearsRun(k, r) ==
    /\ Hears(k, <<"run", r>>)
    /\ IF paired /\ eligible /\ stage[r] = "none"
         THEN /\ stage' = [stage EXCEPT ![r] = "tab"]
              /\ live' = [live EXCEPT ![r] = TRUE]
         ELSE UNCHANGED <<stage, live>>
    /\ UNCHANGED <<clis, relay, sock, up, current, paired, eligible, aborted,
                   unheard, stranded, faults>>

\* Mutant of HearsCancel: only a run that acts already is canceled.
HearsCancelLate(k, r) ==
    /\ Hears(k, <<"cancel", r>>)
    /\ aborted' = IF paired /\ stage[r] = "acting" THEN aborted \cup {r} ELSE aborted
    /\ UNCHANGED <<clis, relay, sock, up, current, paired, eligible, stage,
                   live, unheard, stranded, faults>>

\* pw-ext-browser-cancel.
HearsCancel(k, r) ==
    /\ Hears(k, <<"cancel", r>>)
    /\ aborted' = IF paired /\ r \in Running THEN aborted \cup {r} ELSE aborted
    /\ UNCHANGED <<clis, relay, sock, up, current, paired, eligible, stage,
                   live, unheard, stranded, faults>>

\* The interval that looks at live().
Watches(r) ==
    /\ r \in Running \ aborted /\ ~ live[r]
    /\ aborted' = aborted \cup {r}
    /\ UNCHANGED <<clis, relay, wires, current, paired, eligible, stage, live, unheard,
                   stranded, faults>>

\* The extension's own deadline.
Expires(r) ==
    /\ r \in Running \ aborted /\ live[r]
    /\ aborted' = aborted \cup {r}
    /\ UNCHANGED <<clis, relay, wires, current, paired, eligible, stage, live, unheard,
                   stranded, faults>>

----------------------------------------------------------------------------
(* A run: the active tab is looked up; an upload then fetches the staged   *)
(* copy and deletes it; unless it was aborted the run acts on the page.    *)

Reaches(r, to) ==
    /\ stage' = [stage EXCEPT ![r] = to]
    /\ UNCHANGED <<clis, sock, down, current, paired, eligible, live, aborted, unheard,
                   stranded, faults>>

\* The run is over; its result is sent while live().
Ends(r) ==
    /\ Reaches(r, "done")
    /\ up' = IF live[r] THEN Says(<<"result", r>>) ELSE up

\* The tab is one that may be read, and the run was not aborted.
Begins(r) ==
    /\ stage[r] = "tab" /\ r \notin aborted
    /\ Reaches(r, IF r \in Upload THEN "fetching" ELSE "acting")
    /\ UNCHANGED <<relay, up>>

\* fetchAsset.
Fetches(r) ==
    /\ stage[r] = "fetching"
    /\ Reaches(r, IF r \in copies /\ active THEN "fetched" ELSE "missing")
    /\ UNCHANGED <<relay, up>>

\* deleteAsset, whether the fetch succeeded or not.
Deletes(r) ==
    /\ stage[r] \in {"fetched", "missing"}
    /\ copies' = IF active THEN copies \ {r} ELSE copies
    /\ IF stage[r] = "fetched" THEN Reaches(r, "loaded") /\ UNCHANGED up ELSE Ends(r)
    /\ UNCHANGED <<active, attached, pending, answered, granted>>

\* The file is handed to the page.
Uploads(r) ==
    /\ stage[r] = "loaded" /\ r \notin aborted
    /\ Reaches(r, "acting")
    /\ UNCHANGED <<relay, up>>

\* The run was aborted, or the tab or the file is refused, or the action is done.
Concludes(r) ==
    /\ stage[r] \in {"tab", "loaded", "acting"}
    /\ Ends(r)
    /\ UNCHANGED relay

----------------------------------------------------------------------------

CliStep(r) ==
    \/ Connects(r) \/ ReadsPosted(r) \/ ReadsAnswer(r)
    \/ \E last \in {<<>>, <<"cancel">>} : Stops(r, last)

RequestStep(r) ==
    \/ Receives(r) \/ Stores(r)
    \/ ReadsRequest(r) \/ ReadsCancel(r) \/ SeesCliClose(r)
    \/ TimesOut(r)

SocketStep(k) ==
    \/ ReadsHello(k) \/ ReadsBye(k) \/ Shuts(k)
    \/ Opens(k) \/ SeesClose(k) \/ Retries(k)
    \/ HearsGranted(k) \/ HearsClosed(k)
    \/ \E f \in {<<"refused">>, <<"disconnected">>} :
         HearsForgotten(k, f) \/ HearsNothing(k, f)
    \/ \E r \in Req : ReadsResult(k, r) \/ HearsRun(k, r) \/ HearsCancel(k, r)

RunStep(r) ==
    \/ Watches(r) \/ Expires(r)
    \/ Begins(r) \/ Fetches(r) \/ Deletes(r) \/ Uploads(r) \/ Concludes(r)

Next ==
    \/ \E r \in Req : CliStep(r) \/ RequestStep(r) \/ RunStep(r)
    \/ \E k \in Socket : SocketStep(k)
    \/ \E removed \in BOOLEAN : SessionCloses(removed) \/ Crash(removed)
    \/ Pairs \/ Disconnects \/ Restarts

Spec == Init /\ [][Next]_vars

(***************************************************************************)
(* The daemon reads what it is sent and its timers fire; the extension     *)
(* hears what it is sent, and its interval fires.  Nothing is assumed of   *)
(* the tab and the page, of the extension's own deadline, of the CLI's own *)
(* timer, or of users.                                                     *)
(***************************************************************************)
Fairness ==
    /\ \A r \in Req :
         /\ WF_vars(ReadsRequest(r)) /\ WF_vars(ReadsCancel(r))
         /\ WF_vars(SeesCliClose(r)) /\ WF_vars(TimesOut(r))
         /\ WF_vars(ReadsAnswer(r)) /\ WF_vars(Watches(r))
    /\ \A k \in Socket :
         /\ WF_vars(ReadsHello(k) \/ ReadsBye(k) \/ \E r \in Req : ReadsResult(k, r))
         /\ WF_vars(SeesClose(k))
         /\ WF_vars(HearsGranted(k)) /\ WF_vars(HearsClosed(k))
         /\ \A f \in {<<"refused">>, <<"disconnected">>} :
              WF_vars(HearsForgotten(k, f) \/ HearsNothing(k, f))
         /\ WF_vars(\E r \in Req : HearsRun(k, r)) /\ WF_vars(\E r \in Req : HearsCancel(k, r))

FairSpec == Spec /\ Fairness

----------------------------------------------------------------------------
(* Properties.                                                             *)

Stage == {"none", "tab", "fetching", "fetched", "missing", "loaded", "acting", "done"}

TypeOK ==
    /\ cli \in [Req -> {"new", "posting", "waiting", "over"}]
    /\ post \in [Req -> {"none", "sent", "receiving", "stored", "refused"}]
    /\ wire \in [Req -> Seq({"request", "cancel", "close"})]
    /\ active \in BOOLEAN /\ paired \in BOOLEAN /\ eligible \in BOOLEAN
    /\ attached \subseteq Req /\ answered \subseteq Req /\ aborted \subseteq Req
    /\ copies \subseteq Upload /\ stranded \subseteq Upload /\ unheard \subseteq Req
    /\ pending \in [Req -> Socket \cup {NoSocket}]
    /\ granted \subseteq Socket
    /\ sock \in [Socket -> {"free", "open", "shutting", "cut"}]
    /\ current \in Socket \cup {NoSocket}
    /\ stage \in [Req -> Stage] /\ live \in [Req -> BOOLEAN]
    /\ faults \in 0..MaxFaults

\* A pending entry is owed to both ends: its CLI is still connected and has not been
\* answered, the extension's socket it was relayed to is still open, the session is
\* not closed.  Whichever of them goes first takes the entry along, so none is left
\* to hold one of MAX_PENDING places (pw-ext.ts:49).
PendingIsOwed ==
    \A r \in Pending :
        /\ active /\ r \in attached /\ r \notin answered
        /\ Readable(pending[r])

\* The request of the copy is still to be made, on its way, or pending.
Wanted(r) ==
    \/ cli[r] = "posting" /\ post[r] = "stored"
    \/ Asked(r)
    \/ r \in Pending

\* A staged copy of the user's file does not outlive its request, however that ends
\* (pw-ext.ts:107, docs/pw.md:75).  Three ways are excepted: the command was stopped
\* before it asked; the session closed while the daemon awaited the bytes; and the
\* cleanup that a crash or a close leaves its copies to was skipped or failed.
StagedCopyAccounted == copies \subseteq {r \in Upload : Wanted(r)} \cup stranded

\* The run of r has not touched the page yet.
Preparing(r) == stage[r] \in {"tab", "fetching", "fetched", "missing", "loaded"}

\* The extension takes itself for paired on an open socket that has no capability,
\* asks for none, and is told no more than that its keepalives are refused: it had
\* stopped waiting (5 s) when the daemon confirmed a disconnect.
Estranged ==
    /\ paired /\ current # NoSocket
    /\ sock[current] = "open" /\ current \notin granted
    /\ up[current] = <<>> /\ down[current] = <<>>

\* "the request is canceled and nothing more runs" (docs/pw.md:61): once the daemon
\* has given a request up, for whatever reason and on whatever socket, the run in the
\* browser is aborted before it acts, or is acting already.  It does not take the
\* extension's own deadline of two minutes (chat.ts:711), unless it is estranged.
WithdrawnIsAborted ==
    \A r \in Req :
        (Preparing(r) /\ r \notin Pending) ~> (r \in aborted \/ ~ Preparing(r) \/ Estranged)

\* A CLI that waits is answered by the daemon, whether or not the extension heard the
\* request, lost its pairing, or answers (pw-ext.ts:182).  A request that is read
\* after its session closed is not: its error names no request.
EveryRequestAnswered ==
    \A r \in Req : cli[r] = "waiting" ~> cli[r] = "over" \/ r \in unheard

=============================================================================
