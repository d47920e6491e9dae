----------------------------- MODULE ReviewEngine -----------------------------
(***************************************************************************)
(* The review service of channel-review: engine.ts, its state store        *)
(* (state.ts), the event pumps and life of the process (daemon/serve.ts),  *)
(* and the two flows that put repository jobs on the same workers          *)
(* (automation/fix-flow.ts, deps-flow.ts, repo-job.ts, sinks/poller.ts).   *)
(*                                                                         *)
(* Each chat's stream hands its messages to `handle' one at a time; a      *)
(* request for a pull request takes that request's key in `inFlight', a    *)
(* worker runs an agent process for it, and the answer is posted.  Steps   *)
(* end where the code awaits: what stands between two awaits is one turn.  *)
(* A save writes the whole state, so disk and memory differ in the event   *)
(* cursors only, whose saving is delayed by a timer.                       *)
(*                                                                         *)
(* An agent process is detached: a crash leaves it running.  Recovery      *)
(* kills the ones it finds recorded.  One whose pid was not saved yet, or  *)
(* that is older than every time limit (a pid that may have been reused),  *)
(* is left alone by the code and forgotten by the model.                   *)
(***************************************************************************)
EXTENDS Naturals, Sequences, FiniteSets

CONSTANTS
    Chat,           \* watched chats
    Message,        \* messages addressed to the bot
    Fix,            \* issues of the error sinks, each with a fix job
    Deps,           \* repositories with scheduled upgrades
    Pr,             \* keys of pull requests
    NoPr,           \* the key of a message that asks for no job: help, $emoji, an error
    PrOf,           \* PrOf[m]: prKey of the request in message m
    Stream,         \* Stream[c]: the messages of chat c, in the order of the relay
    Nobody,         \* stands for no message
    Workers,        \* runner.concurrency
    MaxQueued,      \* MAX_QUEUED
    MaxRuns,        \* agent runs of one message: the fallback, the PRs of a stack
    MaxAsks,        \* bound: hand-offs of one issue, windows of one repository
    MaxDays,        \* bound: days that pass
    MaxStops,       \* bound: signals and failing streams
    MaxCrashes      \* bound: crashes

Repo == Fix \cup Deps
Job == Message \cup Repo
KeyOf(j) == IF j \in Message THEN PrOf[j] ELSE j
Key == Pr \cup Repo

ASSUME ReviewAssumption ==
    /\ Message \cap Repo = {}
    /\ Fix \cap Deps = {}
    /\ Pr \cap Repo = {}
    /\ NoPr \notin Key
    /\ Nobody \notin Message
    /\ PrOf \in [Message -> Pr \cup {NoPr}]
    /\ Stream \in [Chat -> Seq(Message)]
    /\ \A c, d \in Chat : \A i \in DOMAIN Stream[c], k \in DOMAIN Stream[d] :
          Stream[c][i] = Stream[d][k] => c = d /\ i = k
    /\ Workers \in Nat \ {0}
    /\ MaxQueued \in Nat \ {0}

VARIABLES
    phase,      \* where `serve' stands
    status,     \* handled[m].status, issues[f].status, deps.lastRun[d].result;
                \* "done" is any final status of an issue or an upgrade, "gone" and
                \* "lost" are entries pruned with an outcome and without one
    old,        \* messages whose handled entry is older than HANDLED_TTL_MS
    cursor,     \* lastEventIds in memory, as a position in the stream
    saved,      \* lastEventIds on disk
    handling,   \* handling[c]: the message whose `handle' chat c's pump awaits
    asking,     \* issues whose handleIssue the error-watch ticker awaits
    stage,      \* stage[j]: how far job j got in the engine
    queue,      \* the buffer of the jobs channel
    inFlight,   \* keys of jobs in the engine
    running,    \* jobs with an entry, and a pid, in state.running
    runs,       \* runs[j]: agent runs of the job so far
    orphan,     \* jobs whose agent outlived the process that spawned it
    asks, days, stops, crashes      \* counts for the bounds

memory == <<handling, asking, stage, queue, inFlight, runs>>
counts == <<asks, days, stops, crashes>>
vars == <<phase, status, old, cursor, saved, memory, running, orphan, counts>>

Phase == {"down", "recovering", "serving", "draining", "stopping"}
Stage == {"idle", "accepted", "queued", "working", "running", "answering"}
Open == {"pending", "running"}
Closed == {"done", "failed"}

ReviewTypeOK ==
    /\ phase \in Phase
    /\ status \in [Job -> Open \cup Closed \cup {"none", "gone", "lost", "seen", "deferred"}]
    /\ old \subseteq Message
    /\ cursor \in [Chat -> Nat] /\ saved \in [Chat -> Nat]
    /\ handling \in [Chat -> Message \cup {Nobody}]
    /\ asking \subseteq Fix
    /\ stage \in [Job -> Stage]
    /\ queue \in Seq(Job)
    /\ inFlight \subseteq Key
    /\ running \subseteq Job
    /\ runs \in [Job -> Nat]
    /\ orphan \subseteq Job

Init ==
    /\ phase = "down"
    /\ status = [j \in Job |-> "none"]
    /\ old = {}
    /\ cursor = [c \in Chat |-> 0] /\ saved = cursor
    /\ handling = [c \in Chat |-> Nobody]
    /\ asking = {}
    /\ stage = [j \in Job |-> "idle"]
    /\ queue = <<>>
    /\ inFlight = {}
    /\ running = {}
    /\ runs = [j \in Job |-> 0]
    /\ orphan = {}
    /\ asks = [r \in Repo |-> 0] /\ days = 0 /\ stops = 0 /\ crashes = 0

-------------------------------------------------------------------------------
(***************************************************************************)
(* State formulae.                                                         *)
(***************************************************************************)
Up == phase \in {"serving", "draining", "stopping"}
Listening == phase \in {"serving", "draining"}

\* Mutant of Handled: only unfinished entries count.
HandledOpen(m) == status[m] \in Open

\* An entry of state.handled; a pruned one is absent again.
Handled(m) == status[m] \notin {"none", "gone", "lost"}

\* Mutant of Interrupted: a request that waits for a worker is passed over.
InterruptedRunning == {j \in Job : status[j] = "running"}

\* What recover finds unfinished in the saved state.
Interrupted == {j \in Job : status[j] \in Open}

\* Mutant of Busy: jobs that wait for a worker count as well.
BusyOutstanding == {j \in Job : stage[j] \notin {"idle", "accepted"}}

\* Jobs a worker is busy with.
Busy == {j \in Job : stage[j] \in {"working", "running", "answering"}}

\* An agent of this process is alive.  Stopping kills it at once, which the
\* job only sees when the exit is reported.
Live(j) == stage[j] = "running" /\ Listening

Full == Cardinality(inFlight) >= MaxQueued

\* `save': every change of the state but a cursor writes all of it.
Save == saved' = cursor

\* A status is written with the time of writing.
SetStatus(j, s) ==
    /\ status' = [status EXCEPT ![j] = s]
    /\ old' = old \ {j}

KeepStatus == UNCHANGED <<status, old>>

SetStage(j, s) == stage' = [stage EXCEPT ![j] = s]

\* Mutant of Pruned: what has no outcome is pruned at any age.
PrunedUnfinished(s) ==
    [j \in Job |-> IF j \in Message /\ s[j] \in Open THEN "lost"
                   ELSE IF j \in old THEN "gone" ELSE s[j]]

\* pruneHandled, on a state s of the entries: age counts, the status does not.
Pruned(s) ==
    [j \in Job |-> IF j \notin old THEN s[j]
                   ELSE IF s[j] \in Open THEN "lost" ELSE "gone"]

-------------------------------------------------------------------------------
(***************************************************************************)
(* A chat's pump: `dispatch' awaits `handle', then moves the cursor.       *)
(***************************************************************************)
NextIn(c) == Stream[c][cursor[c] + 1]

MoveCursor(c) == cursor' = [cursor EXCEPT ![c] = @ + 1]

\* `handle' returns in the turn it was called in: the relay repeats a message
\* that has an entry.
Repeated(c) ==
    /\ Handled(NextIn(c))
    /\ MoveCursor(c)
    /\ KeepStatus
    /\ UNCHANGED <<saved, memory>>

\* A request for a pull request that has a job: settled without an answer.
Duplicate(c) ==
    LET m == NextIn(c)
    IN  /\ ~Handled(m)
        /\ PrOf[m] \in inFlight
        /\ SetStatus(m, "done")
        /\ Save
        /\ MoveCursor(c)
        /\ UNCHANGED memory

\* Help, an error in the message, or a full queue: the entry is final before
\* the reply is awaited.
AnswerAtOnce(c) ==
    LET m == NextIn(c)
    IN  /\ ~Handled(m)
        /\ PrOf[m] # NoPr => PrOf[m] \notin inFlight /\ Full
        /\ \E s \in (IF PrOf[m] = NoPr THEN Closed ELSE {"failed"}) : SetStatus(m, s)
        /\ Save
        /\ handling' = [handling EXCEPT ![c] = m]
        /\ UNCHANGED <<cursor, asking, stage, queue, inFlight, runs>>

\* The request takes its key and is pending before the reaction is awaited.
Accept(c) ==
    LET m == NextIn(c)
    IN  /\ ~Handled(m)
        /\ PrOf[m] \notin inFlight \cup {NoPr}
        /\ ~Full
        /\ inFlight' = inFlight \cup {PrOf[m]}
        /\ SetStatus(m, "pending")
        /\ Save
        /\ SetStage(m, "accepted")
        /\ handling' = [handling EXCEPT ![c] = m]
        /\ UNCHANGED <<cursor, asking, queue, runs>>

Receive(c) ==
    /\ phase = "serving"
    /\ handling[c] = Nobody
    /\ cursor[c] < Len(Stream[c])
    /\ Repeated(c) \/ Duplicate(c) \/ AnswerAtOnce(c) \/ Accept(c)
    /\ UNCHANGED <<phase, running, orphan, counts>>

\* The reply or reaction was sent: an accepted request is submitted, and the
\* cursor passes the message.
Dispatched(c) ==
    LET m == handling[c]
    IN  /\ Listening
        /\ m # Nobody
        /\ IF stage[m] = "accepted"
           THEN SetStage(m, "queued") /\ queue' = Append(queue, m)
           ELSE UNCHANGED <<stage, queue>>
        /\ handling' = [handling EXCEPT ![c] = Nobody]
        /\ MoveCursor(c)
        /\ UNCHANGED <<phase, status, old, saved, asking, inFlight, runs,
                       running, orphan, counts>>

\* The timer of setLastEventId, at most EVENT_SAVE_INTERVAL_MS after it was
\* set; at once when the last save is as old as that.
FlushTimer ==
    /\ Up
    /\ saved # cursor
    /\ Save
    /\ UNCHANGED <<phase, status, old, cursor, memory, running, orphan, counts>>

-------------------------------------------------------------------------------
(***************************************************************************)
(* The tickers: error watch and scheduled upgrades.                        *)
(***************************************************************************)
\* enqueueRepo.  Its answer is used for the log only: a refused job keeps the
\* status its caller has just written.
Enqueue(r) ==
    IF Full \/ r \in inFlight
    THEN UNCHANGED <<stage, queue, inFlight>>
    ELSE /\ inFlight' = inFlight \cup {r}
         /\ SetStage(r, "queued")
         /\ queue' = Append(queue, r)

\* The poller triggers a new, deferred or regressed issue and awaits
\* handleIssue: details, a notification, the open pull requests.
Ask(f) ==
    /\ Listening
    /\ asking = {}
    /\ status[f] # "pending"
    /\ asks[f] < MaxAsks
    /\ IF status[f] = "deferred"
       THEN KeepStatus /\ UNCHANGED saved
       ELSE SetStatus(f, "seen") /\ Save
    /\ asking' = {f}
    /\ asks' = [asks EXCEPT ![f] = @ + 1]
    /\ UNCHANGED <<phase, cursor, handling, stage, queue, inFlight, runs,
                   running, orphan, days, stops, crashes>>

\* handleIssue ends: no fix is wanted or possible, the hourly cap defers it,
\* or its job is handed to the engine.
HandOff(f) ==
    /\ Listening
    /\ f \in asking
    /\ asking' = {}
    /\ \/ /\ \E s \in {"done", "deferred"} : SetStatus(f, s)
          /\ UNCHANGED <<stage, queue, inFlight>>
       \/ /\ SetStatus(f, "pending")
          /\ Enqueue(f)
    /\ Save
    /\ UNCHANGED <<phase, cursor, handling, runs, running, orphan, counts>>

\* A window of repository d opens: its last pull request is still open, or
\* its job is handed to the engine, which refuses it while the last one stays.
WindowOpens(d) ==
    /\ Listening
    /\ asks[d] < MaxAsks
    /\ \/ SetStatus(d, "done") /\ UNCHANGED <<stage, queue, inFlight>>
       \/ SetStatus(d, "pending") /\ Enqueue(d)
    /\ Save
    /\ asks' = [asks EXCEPT ![d] = @ + 1]
    /\ UNCHANGED <<phase, cursor, handling, asking, runs,
                   running, orphan, days, stops, crashes>>

-------------------------------------------------------------------------------
(***************************************************************************)
(* The workers: runJob and runRepoJob.                                     *)
(***************************************************************************)
\* After `stop' the channel still hands out what it holds, and each job
\* returns at once; only a repository job gives its key back.
Drop(j) ==
    /\ phase = "stopping"
    /\ SetStage(j, "idle")
    /\ inFlight' = IF j \in Repo THEN inFlight \ {j} ELSE inFlight
    /\ KeepStatus
    /\ UNCHANGED saved

\* A message is marked running, a fix start is recorded.
Start(j) ==
    /\ Listening
    /\ SetStage(j, "working")
    /\ IF j \in Message THEN SetStatus(j, "running") ELSE KeepStatus
    /\ IF j \in Deps THEN UNCHANGED saved ELSE Save
    /\ UNCHANGED inFlight

Take ==
    /\ Up
    /\ queue # <<>>
    /\ Cardinality(Busy) < Workers
    /\ Drop(Head(queue)) \/ Start(Head(queue))
    /\ queue' = Tail(queue)
    /\ UNCHANGED <<phase, cursor, handling, asking, runs, running, orphan, counts>>

\* `execute': the entry is saved, the agent spawned and its pid saved in one
\* turn.  A crash inside it is a crash before it, with an agent nobody knows.
Spawn(j) ==
    /\ Listening
    /\ stage[j] = "working"
    /\ runs[j] < (IF j \in Message THEN MaxRuns ELSE 1)
    /\ SetStage(j, "running")
    /\ running' = running \cup {j}
    /\ runs' = [runs EXCEPT ![j] = @ + 1]
    /\ Save
    /\ UNCHANGED <<phase, status, old, cursor, handling, asking, queue, inFlight,
                   orphan, counts>>

\* The agent ended, or was killed by its time limit or by `stop'.
AgentExits(j) ==
    /\ Up
    /\ stage[j] = "running"
    /\ SetStage(j, "working")
    /\ UNCHANGED <<phase, status, old, cursor, saved, handling, asking, queue,
                   inFlight, runs, running, orphan, counts>>

\* The outcome is known (a failed preflight, clone or run, a verdict, a pull
\* request): the status is final before the answer is posted.
Settle(j) ==
    /\ Up
    /\ stage[j] = "working"
    /\ \E s \in (IF j \in Message THEN Closed ELSE {"done"}) : SetStatus(j, s)
    /\ SetStage(j, "answering")
    /\ Save
    /\ UNCHANGED <<phase, cursor, handling, asking, queue, inFlight, runs,
                   running, orphan, counts>>

\* Mutant of Finish: the end of one job clears every record, as when there was
\* one job at a time.
FinishClearsRecords(j) ==
    /\ Up
    /\ stage[j] = "answering"
    /\ running' = {}
    /\ inFlight' = inFlight \ {KeyOf(j)}
    /\ SetStage(j, "idle")
    /\ runs' = [runs EXCEPT ![j] = 0]
    /\ Save
    /\ UNCHANGED <<phase, status, old, cursor, handling, asking, queue,
                   orphan, counts>>

\* The answer was posted.
Finish(j) ==
    /\ Up
    /\ stage[j] = "answering"
    /\ running' = running \ {j}
    /\ inFlight' = inFlight \ {KeyOf(j)}
    /\ SetStage(j, "idle")
    /\ runs' = [runs EXCEPT ![j] = 0]
    /\ Save
    /\ UNCHANGED <<phase, status, old, cursor, handling, asking, queue,
                   orphan, counts>>

-------------------------------------------------------------------------------
(***************************************************************************)
(* Stopping, crashing and starting again.                                  *)
(***************************************************************************)
\* A signal, a stream that fails or a cursor that cannot be saved aborts the
\* streams of every chat; the pumps end when their `handle' returns.
StopRequested ==
    /\ phase = "serving"
    /\ stops < MaxStops
    /\ phase' = "draining"
    /\ stops' = stops + 1
    /\ UNCHANGED <<status, old, cursor, saved, memory, running, orphan,
                   asks, days, crashes>>

\* Pumps and tickers have ended: `stop' aborts every job and closes the queue.
EngineStops ==
    /\ phase = "draining"
    /\ \A c \in Chat : handling[c] = Nobody
    /\ asking = {}
    /\ phase' = "stopping"
    /\ UNCHANGED <<status, old, cursor, saved, memory, running, orphan, counts>>

\* What a process loses with its memory.
Forget ==
    /\ phase' = "down"
    /\ handling' = [c \in Chat |-> Nobody]
    /\ asking' = {}
    /\ stage' = [j \in Job |-> "idle"]
    /\ queue' = <<>>
    /\ inFlight' = {}
    /\ runs' = [j \in Job |-> 0]

\* The workers have returned, or SERVE_STOP_TIMEOUT_MS is over.
StopEnds ==
    /\ phase = "stopping"
    /\ Forget
    /\ Save
    /\ UNCHANGED <<status, old, cursor, running, orphan, counts>>

Crash ==
    /\ phase # "down"
    /\ crashes < MaxCrashes
    /\ crashes' = crashes + 1
    /\ Forget
    /\ cursor' = saved
    /\ orphan' = orphan \cup {j \in Job : Live(j)}
    /\ UNCHANGED <<status, old, saved, running, asks, days, stops>>

\* `recover' up to its first await: entries of another day are pruned, the
\* agents on record killed, and the records dropped.
Boot ==
    /\ phase = "down"
    /\ phase' = "recovering"
    /\ status' = Pruned(status)
    /\ old' = {}
    /\ orphan' = orphan \ running
    /\ running' = {}
    /\ UNCHANGED <<cursor, saved, memory, counts>>

\* ... then each unfinished job is failed and its requester told.
RecoverOne(j) ==
    /\ phase = "recovering"
    /\ j \in Interrupted
    /\ SetStatus(j, "failed")
    /\ UNCHANGED <<phase, cursor, saved, memory, running, orphan, counts>>

Recovered ==
    /\ phase = "recovering"
    /\ Interrupted = {}
    /\ phase' = "serving"
    /\ UNCHANGED <<status, old, cursor, saved, memory, running, orphan, counts>>

\* An agent left behind ends, or grows older than every time limit.
OrphanEnds(j) ==
    /\ j \in orphan
    /\ orphan' = orphan \ {j}
    /\ UNCHANGED <<phase, status, old, cursor, saved, memory, running, counts>>

\* The daily maintenance timer.
Maintain ==
    /\ Listening
    /\ old # {}
    /\ status' = Pruned(status)
    /\ old' = {}
    /\ Save
    /\ UNCHANGED <<phase, cursor, memory, running, orphan, counts>>

\* A day passes, whatever waits or works: the service is down, its jobs take
\* their time, or the machine sleeps.  An agent left behind is forgotten by then.
DayPasses ==
    /\ days < MaxDays
    /\ orphan = {}
    /\ old' = {m \in Message : Handled(m)}
    /\ days' = days + 1
    /\ UNCHANGED <<phase, status, cursor, saved, memory, running, orphan,
                   asks, stops, crashes>>

Pump == \E c \in Chat : Receive(c) \/ Dispatched(c)
Tickers == (\E f \in Fix : Ask(f) \/ HandOff(f)) \/ \E d \in Deps : WindowOpens(d)
Work == Take \/ \E j \in Job : Spawn(j) \/ AgentExits(j) \/ Settle(j) \/ Finish(j)
Life ==
    \/ StopRequested \/ EngineStops \/ StopEnds \/ Crash
    \/ Boot \/ Recovered \/ \E j \in Job : RecoverOne(j) \/ OrphanEnds(j)

Next == Pump \/ FlushTimer \/ Tickers \/ Work \/ Life \/ Maintain \/ DayPasses

Spec == Init /\ [][Next]_vars

\* Awaited calls return, agents are killed at their time limit, stopping is
\* bounded by a timer, and the supervisor starts a service that ended.  What
\* users, sinks and agents do is not assumed.
Fairness ==
    /\ \A c \in Chat : WF_vars(Dispatched(c))
    /\ WF_vars(Take)
    /\ \A j \in Job : /\ WF_vars(AgentExits(j))
                      /\ WF_vars(Settle(j))
                      /\ WF_vars(Finish(j))
                      /\ WF_vars(RecoverOne(j))
    /\ \A f \in Fix : WF_vars(HandOff(f))
    /\ WF_vars(EngineStops) /\ WF_vars(StopEnds)
    /\ WF_vars(Boot) /\ WF_vars(Recovered)

FairSpec == Spec /\ Fairness

-------------------------------------------------------------------------------
(***************************************************************************)
(* Properties.                                                             *)
(***************************************************************************)
\* The keys in flight are those of the jobs between acceptance and answer, no
\* two of which share a key.
KeysExact ==
    Listening =>
        /\ inFlight = {KeyOf(j) : j \in {i \in Job : stage[i] # "idle"}}
        /\ \A i, j \in Job :
              stage[i] # "idle" /\ stage[j] # "idle" /\ KeyOf(i) = KeyOf(j) => i = j

\* No two agents work for the same key, whether this process spawned them or
\* one that crashed.
NoTwinAgents ==
    \A j \in Job : Live(j) =>
        /\ \A i \in orphan : KeyOf(i) # KeyOf(j)
        /\ \A i \in Job \ {j} : Live(i) => KeyOf(i) # KeyOf(j)

\* One job per pull request, issue or repository at a time, across messages of
\* different chats, the tickers, restarts and crashes (inFlight, recover and
\* the saved pids).
OneJobPerKey == KeysExact /\ NoTwinAgents

\* No request is forgotten: the saved cursor passes only messages that have, or
\* had for a day, an entry; and while the service runs, the job of every
\* unfinished one is in the engine.
NoRequestForgotten ==
    /\ \A c \in Chat : \A i \in 1 .. saved[c] : status[Stream[c][i]] # "none"
    /\ Listening => \A m \in Message : status[m] \in Open => stage[m] # "idle"

\* A request that was answered is not taken up again, by a message the relay
\* repeats, by recovery or by a worker, until its entry is a day old.
AnsweredOnce ==
    [][\A m \in Message : status[m] \in Closed =>
          status'[m] = status[m] \/ (m \in old /\ status'[m] = "gone")]_vars

\* Jobs without an outcome that somebody will still see to.  A request whose
\* entry was pruned is one while its job is in the engine.
Owed ==
    {j \in Job : \/ status[j] \in Open /\ (j \in Message \/ stage[j] # "idle")
                 \/ status[j] = "lost" /\ stage[j] # "idle"}

\* An entry is pruned without an outcome only a day after it was written.
LostByAge ==
    [][\A m \in Message : status'[m] = "lost" => status[m] = "lost" \/ m \in old]_vars

\* Every request gets a final status, and a job in the engine its outcome,
\* whatever stops or crashes the service, with one exception: a request that
\* stood unfinished for a day, whose entry pruneHandled removed before recover
\* looked for interrupted ones.  Requests are bounded here, so the first part
\* says it for all jobs at once: a time comes when none is owed an outcome.
EveryJobSettles ==
    /\ Owed # {} ~> Owed = {}
    /\ LostByAge

===============================================================================
