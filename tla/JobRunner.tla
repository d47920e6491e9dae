------------------------------ MODULE JobRunner -------------------------------
(***************************************************************************)
(* The scheduled jobs of the daemon: jobs/runner.ts over the job and feed  *)
(* tables of store/index.ts, the dashboard's run-now route, the CLI that   *)
(* edits and runs jobs from a process of its own on the same database, and *)
(* the published commands (dispatch/index.ts) that share the scheduler.    *)
(*                                                                         *)
(* A slot is one execution: two workers per tick, the run-now requests,    *)
(* the CLI's `job run`, and the chat commands.  A spawned command runs     *)
(* concurrently with everything (pc "exec").  What follows its exit is one *)
(* synchronous turn of the process that spawned it (pc "insert", "record", *)
(* "catch", "notify"), which the other process and a crash can still cut   *)
(* between two database calls.                                             *)
(***************************************************************************)
EXTENDS DispatchScheduler, SequencesExt

CONSTANTS
    Job,            \* job ids; a label is unique, so a job is its own label
    Item,           \* fingerprints a command can print
    Notify,         \* jobs with a notify_identity
    SCHEDULER,      \* SCHEDULER_SESSION_ID
    NoJob,          \* stands for no job
    NoTick,         \* stands for no tick
    Tick,           \* names for the runDueJobs calls that can be alive at once
    Lane,           \* the workers of one tick
    RunNow,         \* concurrent POST /jobs/<id>/run requests
    Cli,            \* concurrent `dg-daemon job run` processes
    Chat,           \* sessions that dispatch a published command
    Interval,       \* interval_ms of every job, in ticks of the model's clock
    Chunk,          \* FEED_INSERT_CHUNK
    FeedLimit,      \* FEED_ITEM_RETENTION_ROW_LIMIT
    MaxOutside      \* bound: run-now requests, CLI runs, their deaths, and commands

Worker == Tick \X Lane
WorkersOf(t) == {t} \X Lane
JobSlot == Worker \cup RunNow \cup Cli
DaemonSlot == Worker \cup RunNow \cup Chat
Slot == JobSlot \cup Chat

TurnPc == {"insert", "record", "catch", "notify"}
Pc == {"idle", "exec", "gone"} \cup TurnPc

ASSUME JobAssumption ==
    /\ Session = {SCHEDULER} \cup Chat
    /\ SCHEDULER \notin Chat
    /\ Key = Job \cup Chat
    /\ IsFiniteSet(Worker) /\ IsFiniteSet(RunNow) /\ IsFiniteSet(Chat)
    /\ (Worker \cup RunNow) \cap (Cli \cup Chat) = {}
    /\ Worker \cap RunNow = {}
    /\ Cli \cap Chat = {}
    /\ Cardinality(Lane) = MaxPerSession
    /\ NoJob \notin Job
    /\ NoTick \notin Tick
    /\ Interval \in Nat \ {0}

\* An output is cut at maxOutputBytes, so there are finitely many fingerprints.
ASSUME FeedAssumption ==
    /\ IsFiniteSet(Item)
    /\ Chunk \in Nat \ {0}
    /\ FeedLimit \in Nat \ {0}

VARIABLES
    jobs,       \* rows of scheduled_jobs
    enabled,    \* rows with enabled = 1
    wait,       \* wait[j]: clock ticks until next_run_at
    removed,    \* job ids that were deleted: a new job has a new id
    feed,       \* feed[j]: fingerprints of j's rows of feed_items, oldest first
    running,    \* the flag of startJobRunner
    current,    \* the tick whose promise is still pending, or NoTick
    queue,      \* queue[t]: jobs of tick t's snapshot no worker has taken
    pc,         \* pc[x]: where the execution of slot x stands
    job,        \* job[x]: the job it runs
    age,        \* age[x]: clock ticks since its ranAt, capped at Interval
    left,       \* left[x]: parsed items not inserted yet
    fresh,      \* fresh[x]: counts.inserted
    told,       \* history: told[j][i], announcements of the row <<j, i>> until it is pruned
    missed,     \* history: rows whose run threw, or failed or died before it announced them
    pruned,     \* history: rows a retention prune deleted
    outside     \* how many of those so far

tables == <<jobs, enabled, wait, removed, feed>>
ticks == <<running, current, queue>>
runs == <<pc, job, age, left, fresh>>
history == <<told, missed, pruned, outside>>
vars == <<schedulerVars, tables, ticks, runs, history>>

Rows == {r \in Job \X Item : \E k \in DOMAIN feed[r[1]] : feed[r[1]][k] = r[2]}

Init ==
    /\ FreshScheduler
    /\ jobs = {}
    /\ enabled = {}
    /\ wait = [j \in Job |-> 0]
    /\ removed = {}
    /\ feed = [j \in Job |-> <<>>]
    /\ running = FALSE
    /\ current = NoTick
    /\ queue = [t \in Tick |-> {}]
    /\ pc = [x \in Slot |-> IF x \in Worker THEN "gone" ELSE "idle"]
    /\ job = [x \in Slot |-> NoJob]
    /\ age = [x \in Slot |-> 0]
    /\ left = [x \in Slot |-> {}]
    /\ fresh = [x \in Slot |-> {}]
    /\ told = [j \in Job |-> [i \in Item |-> 0]]
    /\ missed = {}
    /\ pruned = {}
    /\ outside = 0

\* The daemon's thread is inside the turn that follows a command's exit.
DaemonBusy == \E x \in DaemonSlot : pc[x] \in TurnPc

SessionOf(x) == IF x \in Chat THEN x ELSE SCHEDULER
KeyOf(x, j) == IF x \in Chat THEN x ELSE j

-------------------------------------------------------------------------------
(***************************************************************************)
(* Starting executions.                                                    *)
(***************************************************************************)
Due == {j \in jobs \cap enabled : wait[j] = 0}

\* Slot x begins to run j, its ranAt a ticks ago.
Begin(x, j, a) ==
    /\ pc' = [pc EXCEPT ![x] = "exec"]
    /\ job' = [job EXCEPT ![x] = j]
    /\ age' = [age EXCEPT ![x] = a]
    /\ UNCHANGED <<left, fresh>>

\* The workers of tick t are all done or rejected.
Quiet(t) ==
    \A w \in WorkersOf(t) : pc[w] = "gone" \/ (pc[w] = "idle" /\ queue[t] = {})

(***************************************************************************)
(* setInterval's callback: unless a tick is running, snapshot the due jobs *)
(* and start the workers on it.  A tick that finds nothing due ends within *)
(* its own turn and is left out.  Workers beyond the queue's length only   *)
(* find it empty.                                                          *)
(***************************************************************************)
TickStarts(t) ==
    /\ ~running
    /\ ~DaemonBusy
    /\ Due # {}
    /\ Quiet(t)
    /\ running' = TRUE
    /\ current' = t
    /\ queue' = [queue EXCEPT ![t] = Due]
    /\ pc' = [x \in Slot |-> IF x \in WorkersOf(t) THEN "idle" ELSE pc[x]]
    /\ age' = [x \in Slot |-> IF x \in WorkersOf(t) THEN 0 ELSE age[x]]
    /\ UNCHANGED <<schedulerVars, tables, job, left, fresh, history>>

(***************************************************************************)
(* A worker takes the next job of its snapshot: admitted it runs, refused  *)
(* it is skipped and stays due.  The row is not read again: the job may    *)
(* have been disabled or removed since.  The snapshot's order is           *)
(* abstracted: any job of it may be next.                                  *)
(***************************************************************************)
WorkerTakes(w, j) ==
    /\ ~DaemonBusy
    /\ pc[w] = "idle"
    /\ j \in queue[w[1]]
    /\ queue' = [queue EXCEPT ![w[1]] = @ \ {j}]
    /\ IF Admissible(SCHEDULER, j)
       THEN Admit(SCHEDULER, j) /\ Begin(w, j, age[w])
       ELSE UNCHANGED <<schedulerVars, runs>>
    /\ UNCHANGED <<tables, running, current, history>>

\* Mutants of TickEnds: the first worker that runs dry resets the flag, or
\* nothing does.
TickEndsEarly(t) ==
    /\ current = t /\ ~DaemonBusy /\ queue[t] = {}
    /\ running' = FALSE /\ current' = NoTick
    /\ UNCHANGED <<schedulerVars, tables, queue, runs, history>>

TickNeverEnds(t) ==
    /\ current = t /\ ~DaemonBusy /\ queue[t] = {} /\ Quiet(t)
    /\ current' = NoTick
    /\ UNCHANGED <<schedulerVars, tables, running, queue, runs, history>>

\* Promise.all resolves and .finally resets the flag.
TickEnds(t) ==
    /\ current = t
    /\ ~DaemonBusy
    /\ queue[t] = {}
    /\ Quiet(t)
    /\ running' = FALSE
    /\ current' = NoTick
    /\ pc' = [x \in Slot |-> IF x \in WorkersOf(t) THEN "gone" ELSE pc[x]]
    /\ age' = [x \in Slot |-> IF x \in WorkersOf(t) THEN 0 ELSE age[x]]
    /\ UNCHANGED <<schedulerVars, tables, queue, job, left, fresh, history>>

\* POST /jobs/<id>/run of an existing job, when admitted.
RunNowStarts(x, j) ==
    /\ ~DaemonBusy
    /\ outside < MaxOutside
    /\ pc[x] = "idle"
    /\ j \in jobs
    /\ Admissible(SCHEDULER, j)
    /\ Admit(SCHEDULER, j)
    /\ Begin(x, j, 0)
    /\ outside' = outside + 1
    /\ UNCHANGED <<tables, ticks, told, missed, pruned>>

\* `dg-daemon job run`: its own scheduler, always empty, admits it.
CliRunStarts(x, j) ==
    /\ outside < MaxOutside
    /\ pc[x] = "idle"
    /\ j \in jobs
    /\ Begin(x, j, 0)
    /\ outside' = outside + 1
    /\ UNCHANGED <<schedulerVars, tables, ticks, told, missed, pruned>>

\* dispatchCommand up to its await, and its finally.
CommandStarts(c) ==
    /\ ~DaemonBusy
    /\ outside < MaxOutside
    /\ pc[c] = "idle"
    /\ Admissible(c, c)
    /\ Admit(c, c)
    /\ pc' = [pc EXCEPT ![c] = "exec"]
    /\ outside' = outside + 1
    /\ UNCHANGED <<tables, ticks, job, age, left, fresh, told, missed, pruned>>

CommandEnds(c) ==
    /\ ~DaemonBusy
    /\ pc[c] = "exec"
    /\ Release(c)
    /\ pc' = [pc EXCEPT ![c] = "idle"]
    /\ UNCHANGED <<tables, ticks, job, age, left, fresh, history>>

-------------------------------------------------------------------------------
(***************************************************************************)
(* The turn after a job's command has exited.                              *)
(***************************************************************************)
ReadyFor(x) == x \in DaemonSlot => ~\E y \in DaemonSlot \ {x} : pc[y] \in TurnPc

\* The command exits: its parsed items, or {} for a failure of any kind.
CommandExits(x, items) ==
    /\ pc[x] = "exec"
    /\ ReadyFor(x)
    /\ pc' = [pc EXCEPT ![x] = IF items = {} THEN "record" ELSE "insert"]
    /\ left' = [left EXCEPT ![x] = items]
    /\ UNCHANGED <<schedulerVars, tables, ticks, job, age, fresh, history>>

\* Slot x is free again; a rejected worker takes no further job.
Vacate(x, next) ==
    /\ pc' = [pc EXCEPT ![x] = next]
    /\ job' = [job EXCEPT ![x] = NoJob]
    /\ age' = [age EXCEPT ![x] = IF x \in Worker /\ next = "idle" THEN @ ELSE 0]
    /\ left' = [left EXCEPT ![x] = {}]
    /\ fresh' = [fresh EXCEPT ![x] = {}]

\* The finally of admitAndRun; a CLI process takes its scheduler with it.
GiveBack(x) ==
    IF x \in DaemonSlot THEN Release(SessionOf(x)) ELSE UNCHANGED schedulerVars

(***************************************************************************)
(* The catch block's own recordJobRun throws: the job was deleted under    *)
(* the run, or the database fails again.  admitAndRun rejects after its    *)
(* finally.  The rejection of a worker settles the tick's promise, so      *)
(* `running` is reset while the other worker goes on.                      *)
(***************************************************************************)
Rejects(x) ==
    /\ pc[x] = "catch"
    /\ GiveBack(x)
    /\ Vacate(x, IF x \in Worker THEN "gone" ELSE "idle")
    /\ IF x \in Worker /\ x[1] = current
       THEN running' = FALSE /\ current' = NoTick
       ELSE UNCHANGED <<running, current>>
    /\ UNCHANGED <<tables, queue, history>>

\* Mutant of Inserted: the rows of ON CONFLICT DO NOTHING count as inserted.
InsertedWithDuplicates(j, chunk) == chunk

\* The items of one chunk that ON CONFLICT DO NOTHING RETURNING reports.
Inserted(j, chunk) == chunk \ Range(feed[j])

\* One chunk of insertFeedItems, in a transaction of its own.
InsertsChunk(x, chunk) ==
    /\ pc[x] = "insert"
    /\ job[x] \in jobs
    /\ chunk \subseteq left[x]
    /\ Cardinality(chunk) = IF Cardinality(left[x]) < Chunk THEN Cardinality(left[x]) ELSE Chunk
    /\ feed' = [feed EXCEPT ![job[x]] = @ \o SetToSeq(chunk \ Range(@))]
    /\ fresh' = [fresh EXCEPT ![x] = @ \cup Inserted(job[x], chunk)]
    /\ left' = [left EXCEPT ![x] = @ \ chunk]
    /\ pc' = [pc EXCEPT ![x] = IF left'[x] = {} THEN "record" ELSE "insert"]
    /\ UNCHANGED <<schedulerVars, jobs, enabled, wait, removed, ticks, job, age, history>>

Missed(X) == UNION {{job[x]} \X fresh[x] : x \in X}

(***************************************************************************)
(* A write of runOne throws: a chunk of the feed or recordJobRun, because  *)
(* the database stays locked or the job is gone (the foreign key, the      *)
(* check of recordJobRun).  The chunks stored before it stay, and the      *)
(* announcement is skipped.                                                *)
(***************************************************************************)
Throws(x) ==
    /\ pc[x] \in {"insert", "record"}
    /\ pc' = [pc EXCEPT ![x] = "catch"]
    /\ left' = [left EXCEPT ![x] = {}]
    /\ fresh' = [fresh EXCEPT ![x] = {}]
    /\ missed' = missed \cup Missed({x})
    /\ UNCHANGED <<schedulerVars, tables, ticks, job, age, told, pruned, outside>>

\* A run of a job with an identity to notify has something to say.
Announces(x) == job[x] \in Notify /\ fresh[x] # {}

\* recordJobRun, of the run or of its catch block: next_run_at is ranAt plus
\* the interval, whatever it was.  Without news the run is over.
Records(x) ==
    /\ pc[x] \in {"record", "catch"}
    /\ job[x] \in jobs
    /\ wait' = [wait EXCEPT ![job[x]] = Interval - age[x]]
    /\ IF Announces(x)
       THEN /\ pc' = [pc EXCEPT ![x] = "notify"]
            /\ UNCHANGED <<schedulerVars, job, age, left, fresh>>
       ELSE GiveBack(x) /\ Vacate(x, "idle")
    /\ UNCHANGED <<jobs, enabled, removed, feed, ticks, history>>

\* One agent message for the run's new items, or a caught failure; then the
\* finally.
Notifies(x, sent) ==
    /\ pc[x] = "notify"
    /\ IF sent
       THEN /\ told' = [told EXCEPT ![job[x]] = [i \in Item |->
                    IF i \in fresh[x] /\ <<job[x], i>> \notin pruned THEN @[i] + 1 ELSE @[i]]]
            /\ UNCHANGED missed
       ELSE missed' = missed \cup Missed({x}) /\ UNCHANGED told
    /\ GiveBack(x)
    /\ Vacate(x, "idle")
    /\ UNCHANGED <<tables, ticks, pruned, outside>>

-------------------------------------------------------------------------------
(***************************************************************************)
(* The CLI, the clock, housekeeping and crashes.                           *)
(***************************************************************************)
AddJob(j) ==
    /\ j \notin jobs \cup removed
    /\ jobs' = jobs \cup {j}
    /\ enabled' = enabled \cup {j}
    /\ wait' = [wait EXCEPT ![j] = 0]
    /\ UNCHANGED <<schedulerVars, removed, feed, ticks, runs, history>>

SetJobEnabled(j, on) ==
    /\ j \in jobs
    /\ enabled' = IF on THEN enabled \cup {j} ELSE enabled \ {j}
    /\ UNCHANGED <<schedulerVars, jobs, wait, removed, feed, ticks, runs, history>>

\* ON DELETE CASCADE takes the feed along.
DeleteJob(j) ==
    /\ j \in jobs
    /\ jobs' = jobs \ {j}
    /\ enabled' = enabled \ {j}
    /\ removed' = removed \cup {j}
    /\ feed' = [feed EXCEPT ![j] = <<>>]
    /\ wait' = [wait EXCEPT ![j] = 0]
    /\ UNCHANGED <<schedulerVars, ticks, runs, history>>

\* Slots whose ranAt lies in the past: an execution, or a live tick's worker.
Dated == {x \in Slot : pc[x] # "gone" /\ (x \in Worker \/ (x \in JobSlot /\ pc[x] # "idle"))}

ClockTick ==
    /\ wait' = [j \in Job |-> IF wait[j] = 0 THEN 0 ELSE wait[j] - 1]
    /\ age' = [x \in Slot |-> IF x \in Dated /\ age[x] < Interval THEN age[x] + 1 ELSE age[x]]
    /\ <<wait, age>>' # <<wait, age>>
    /\ UNCHANGED <<schedulerVars, jobs, enabled, removed, feed, ticks, pc, job, left, fresh, history>>

RateWindowSlides(k) ==
    /\ WindowSlides(k)
    /\ UNCHANGED <<tables, ticks, runs, history>>

\* pruneFeedItems, from the hourly part of the housekeeping timer.
Kept(rows) == SubSeq(rows, 1 + Len(rows) - FeedLimit, Len(rows))

PruneFeedItems ==
    /\ ~DaemonBusy
    /\ \E j \in jobs : Len(feed[j]) > FeedLimit
    /\ feed' = [j \in Job |-> IF Len(feed[j]) > FeedLimit THEN Kept(feed[j]) ELSE feed[j]]
    /\ pruned' = pruned \cup {r \in Rows : r[2] \notin Range(feed'[r[1]])}
    /\ told' = [j \in Job |-> [i \in Item |-> IF <<j, i>> \in pruned' THEN 0 ELSE told[j][i]]]
    /\ UNCHANGED <<schedulerVars, jobs, enabled, wait, removed, ticks, runs, missed, outside>>

\* The daemon dies and boots again: executions, ticks and counts are memory.
Crash ==
    /\ sessionInFlight' = [s \in Session |-> 0]
    /\ daemonInFlight' = 0
    /\ recent' = [k \in Key |-> 0]
    /\ running' = FALSE
    /\ current' = NoTick
    /\ queue' = [t \in Tick |-> {}]
    /\ pc' = [x \in Slot |-> IF x \in Worker THEN "gone" ELSE IF x \in Cli THEN pc[x] ELSE "idle"]
    /\ job' = [x \in Slot |-> IF x \in Cli THEN job[x] ELSE NoJob]
    /\ age' = [x \in Slot |-> IF x \in Cli THEN age[x] ELSE 0]
    /\ left' = [x \in Slot |-> IF x \in Cli THEN left[x] ELSE {}]
    /\ fresh' = [x \in Slot |-> IF x \in Cli THEN fresh[x] ELSE {}]
    /\ missed' = missed \cup Missed(DaemonSlot)
    /\ UNCHANGED <<tables, told, pruned, outside>>

\* A `job run` process is killed.
CliDies(x) ==
    /\ outside < MaxOutside
    /\ pc[x] # "idle"
    /\ outside' = outside + 1
    /\ Vacate(x, "idle")
    /\ missed' = missed \cup Missed({x})
    /\ UNCHANGED <<schedulerVars, tables, ticks, told, pruned>>

-------------------------------------------------------------------------------
\* What the turn of slot x does next, when no write fails that could succeed.
Turn(x) ==
    \/ \E chunk \in SUBSET left[x] : InsertsChunk(x, chunk)
    \/ Records(x)
    \/ Notifies(x, TRUE)
    \/ job[x] \notin jobs /\ (Throws(x) \/ Rejects(x))

Next ==
    \/ \E t \in Tick : TickStarts(t)
    \/ \E w \in Worker : \E j \in queue[w[1]] : WorkerTakes(w, j)
    \/ \E t \in Tick : TickEnds(t)
    \/ \E x \in RunNow, j \in Job : RunNowStarts(x, j)
    \/ \E x \in Cli, j \in Job : CliRunStarts(x, j)
    \/ \E c \in Chat : CommandStarts(c)
    \/ \E c \in Chat : CommandEnds(c)
    \/ \E x \in JobSlot, items \in SUBSET Item : CommandExits(x, items)
    \/ \E x \in JobSlot : Turn(x)
    \/ \E x \in JobSlot : Throws(x) \/ Rejects(x)
    \/ \E x \in JobSlot : Notifies(x, FALSE)
    \/ \E j \in Job : AddJob(j)
    \/ \E j \in Job, on \in BOOLEAN : SetJobEnabled(j, on)
    \/ \E j \in Job : DeleteJob(j)
    \/ ClockTick
    \/ \E k \in Key : RateWindowSlides(k)
    \/ PruneFeedItems
    \/ Crash
    \/ \E x \in Cli : CliDies(x)

Spec == Init /\ [][Next]_vars

(***************************************************************************)
(* The timer fires, commands end (they are killed after timeoutMs), a turn *)
(* runs to its end, time passes.  A command's exit is a queued event: the  *)
(* turns of other slots delay it, but it is served.  Nothing is assumed of *)
(* users, of failures or of the admission: users make MaxOutside requests. *)
(***************************************************************************)
Fairness ==
    /\ WF_vars(\E t \in Tick : TickStarts(t))
    /\ \A t \in Tick : WF_vars(\E w \in WorkersOf(t), j \in queue[t] : WorkerTakes(w, j))
    /\ WF_vars(\E t \in Tick : TickEnds(t))
    /\ \A c \in Chat : WF_vars(CommandEnds(c))
    /\ \A x \in JobSlot : SF_vars(\E items \in SUBSET Item : CommandExits(x, items))
    /\ WF_vars(\E x \in JobSlot \ Cli : Turn(x))
    /\ \A x \in Cli : WF_vars(Turn(x))
    /\ WF_vars(ClockTick)
    /\ \A k \in Key : WF_vars(RateWindowSlides(k))

FairSpec == Spec /\ Fairness

-------------------------------------------------------------------------------
(***************************************************************************)
(* Properties.                                                             *)
(***************************************************************************)
JobTypeOK ==
    /\ sessionInFlight \in [Session -> Nat]
    /\ daemonInFlight \in Nat
    /\ recent \in [Key -> 0..MaxPerMinute]
    /\ jobs \subseteq Job
    /\ enabled \subseteq jobs
    /\ wait \in [Job -> 0..Interval]
    /\ removed \subseteq Job
    /\ feed \in [Job -> Seq(Item)]
    /\ running \in BOOLEAN
    /\ current \in Tick \cup {NoTick}
    /\ queue \in [Tick -> SUBSET Job]
    /\ pc \in [Slot -> Pc]
    /\ job \in [Slot -> Job \cup {NoJob}]
    /\ age \in [Slot -> 0..Interval]
    /\ left \in [Slot -> SUBSET Item]
    /\ fresh \in [Slot -> SUBSET Item]
    /\ told \in [Job -> [Item -> Nat]]
    /\ missed \subseteq Job \X Item
    /\ pruned \subseteq Job \X Item
    /\ outside \in Nat

\* Slots of the daemon that hold an admission, and those of session s.
Active == {x \in DaemonSlot : pc[x] \notin {"idle", "gone"}}
Holding(s) == {x \in Active : SessionOf(x) = s}

\* The hand-kept counts are exact: each admission is given back once, on every
\* path (a job that ended, failed, or was deleted under its run), and no limit
\* is passed, so no capacity leaks until the daemon refuses all commands.
AdmissionExact ==
    /\ \A s \in Session :
          sessionInFlight[s] = Cardinality(Holding(s)) /\ sessionInFlight[s] <= MaxPerSession
    /\ daemonInFlight = Cardinality(Active)
    /\ daemonInFlight <= MaxDaemonWide

\* Slots that are about to announce the row r.
Carrying(r) == {x \in JobSlot : job[x] = r[1] /\ r[2] \in fresh[x]}

\* A feed row of a job that notifies is announced once: it was announced, or
\* one run still carries it, or it was missed: the run that stored it threw at
\* a later write, its announcement failed, or it died with its process.  Runs
\* of the same job that overlap (a tick, the dashboard's run-now, the CLI in
\* another process) neither both announce it nor leave it to each other.  A row
\* a prune deleted while its run was busy is exempt.
AnnouncedExactlyOnce ==
    \A r \in Rows :
        (r[1] \in Notify /\ r \notin pruned) =>
            told[r[1]][r[2]] + Cardinality(Carrying(r)) + (IF r \in missed THEN 1 ELSE 0) = 1

\* Executions of tick t.
LiveRuns(t) == {w \in WorkersOf(t) : pc[w] \notin {"idle", "gone"}}

\* Ticks overlap for one reason only: a tick runs on after its promise has
\* settled when one of its workers rejected, at a deleted job or a database that
\* failed twice in a row, and the other is busy.
TickOutlivesOnlyByRejection ==
    \A t \in Tick :
        (t # current /\ LiveRuns(t) # {}) => \E w \in WorkersOf(t) : pc[w] = "gone"

\* A run of j is about to be recorded.
Reaches(j) == \E x \in JobSlot : pc[x] \in {"record", "catch"} /\ job[x] = j

\* The last worker of a tick is about to reject and j is left in its queue.
PassedOver(j) ==
    \E w \in Worker :
        /\ j \in queue[w[1]]
        /\ pc[w] = "catch"
        /\ \A v \in WorkersOf(w[1]) : pc[v] \in {"catch", "gone"}

\* "A job past next_run_at always is [picked up]" (job dashboard plan): a job
\* that stays enabled is run again and again, whatever other jobs fail, are
\* removed mid-run, refused, or cut by a crash.  The exceptions are a daemon that
\* crashes again and again, and ticks that lose all their workers, one after the
\* other, to jobs ahead of it whose last write fails every time.
EnabledJobKeepsRunning ==
    \A j \in Job :
        <>[](j \in jobs \cap enabled) =>
            []<>(Reaches(j) \/ PassedOver(j)) \/ []<><<Crash>>_vars
===============================================================================
