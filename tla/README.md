# TLA+ models of the dg daemon

`dg-ai` lets a human talk from a browser page (the *canvas*) to coding agents
that run in terminals. One long-lived process per user, **dg-daemon**
(`src/pkg/dg-daemon`), keeps sessions and messages in an SQLite database and
relays between pages (`/ws` sockets) and the short-lived `dg-agent` commands
(`/cli` sockets). The same process runs scheduled jobs and supervises services.
Beside it, `dg-agent phone` exchanges messages with agents of other people
through relays, and `channel-review` answers requests for code reviews in team
chats. These modules model the parts of that system whose behaviour
depends on order, time and failure; TLC checks them on small instances and
TLAPS proves the most important safety properties for every instance.

All source paths below are relative to `src/pkg/dg-daemon/src` unless they say
otherwise.

## The system

| component | state it keeps | operations | hard behaviour |
|---|---|---|---|
| message queues, `store/index.ts` | tables `messages`, `agent_messages`: order, claim id, claim time, delivery time | insert, claim, ack, recover, three prunes | leases, late acks, competing receivers, retention against delivery |
| receive handler, `server/frame-handlers.ts`; recv client, `dg-agent/src/commands.ts` and `common/src/node/cli-client.ts` | parked receives with a store listener, a poll, a timeout; a socket each | `cli-recv`, `cli-ack`, `cli-send`, `user-message` | lost wake-ups, lost replies, killed clients, dropped claims |
| sessions, `session/registry.ts`, `session/liveness.ts`, `session/archive.ts` | records in memory, `sessions` and `archived_sessions` tables | create, touch, attach, quiet, detach, close, reap, clear, prune | four clocks, several sockets, crashes between them |
| daemon process, `server/bootstrap.ts`, `server/http.ts`, `server/connection.ts` | port, pid file, sockets, timers | boot, bind or defer, housekeeping tick, shutdown | a rival boot, requests served during shutdown |
| idle shutdown, `server/idle-ttl.ts`, `jobs/idle.ts` | one timer | note activity, expire | the timer is armed only at an activity |
| jobs, `jobs/runner.ts`, `commands/jobs.ts`; admission, `dispatch/scheduler.ts` | `scheduled_jobs`, `feed_items`, in-flight counters, rate windows | tick, run now, admit, release, edit | jobs changed while they run, overlapping runs, two processes on one table |
| supervisor, `services/supervisor.ts` | entries, service processes, pid files | start, stop, restart with backoff, stopAll | start racing stop and shutdown, crashes, stale pids |
| chat client of the page and the extension, `pkg/pages/src/chat/chat-client.ts` | outbox, capabilities, current socket, retry timer | compose, connect, flush, ack, retry, forget | lost acks, overlapping sockets, resends of what is stored |
| browser relays, `server/pw-ext.ts` (and `server/inbox.ts`, `server/proto.ts`, overwatch in `server/frame-handlers.ts`); `skills-cli/src/pw/ext.ts`; `pkg/extension/lib/background/chat.ts` | pending requests with a timer, staged copies, runs in the browser | request, relay, run, answer, cancel, expire | timers on three sides, replaced sockets, pairings that end meanwhile |
| phone, `dg-agent/src/phone` | message rows with attempts, the state of the hook runner, lock files | notify, sweep, retry, settle, lock | coalesced calls, backoff, restarts, broken locks |
| channel-review, `pkg/channel-review` | saved state (handled messages, cursors, issues, pids), keys in flight, a buffer, workers | receive, accept, run an agent, answer; fix an issue; upgrade a repository; stop; recover | several chats and tickers on one engine, late cursor saves, agents that outlive a crash |

Interaction: handlers call the store and the registry synchronously; the store
emits an event after each insert, which runs the listeners of every parked
receive before anything else; the registry emits `closed`, `agent-gone` and
`changed` to the process, which takes capabilities from sockets; timers call
the registry and the store. The daemon is one thread, so a handler is atomic
up to its first `await`; where one uses after an `await` what it read before (a due
job, the capability of an upload), the model has a step on each side.

What makes each component right:

- queues: a running lease is exclusive; an ack settles only its own claim; a
  settled row stays settled; order per queue; nothing waiting is deleted
  silently; the newest transcript rows stay.
- receive: a parked receive misses no insert; a claim is never made for a
  receive that cannot pass it on; output before ack; every message is delivered
  in the end.
- outbox: a composed message is queued until it is stored, stored in order, and
  never stuck behind another one.
- sessions: memory and tables agree at every instant; an attended session is
  never reaped; a closed one never returns; an abandoned one does expire.
- jobs: admissions are given back exactly once on every path; an enabled job
  keeps running; a feed row is announced once.
- browser relay: a pending request is owed to both its ends, a waiting command is
  answered, nothing runs in the browser for a request that was given up, and the
  staged copy of a file goes with its request.
- services: one process per label, through crashes of either side; shutdown
  leaves none it knew of and ends; a crashed service comes back.
- reviews: one job and one agent per pull request, issue or repository, through
  crashes; no request forgotten, none answered twice, each answered in the end.
- phone: no wake-up of the hook queue is lost, its backoff is honoured, a row the
  hook took is not given to it again, and one that failed gets its retries.

## Modules

| module | models | extends |
|---|---|---|
| `AtLeastOnce` | what the queues promise: accepted, handed out, settled or withdrawn | |
| `ClaimQueue` | both message tables and every operation on them | |
| `ClaimQueueProofs` | theorems about `ClaimQueue` and `ChatRecv` | `ChatRecv`, TLAPS |
| `ChatRecv` | recv processes, sockets, parked receives, crash, boot, rival boot | `ClaimQueue` |
| `PageOutbox` | the page's chat client, its sockets, the handlers they reach | |
| `PageOutboxProofs` | theorems about `PageOutbox` | `PageOutbox`, TLAPS |
| `PwRelay` | `pw --ext`: the command, the daemon's pending requests, the extension and its sockets | |
| `PwRelayProofs` | theorems about `PwRelay` | `PwRelay`, TLAPS |
| `SessionLifecycle` | registry, liveness clocks, archive, process life | |
| `SessionLifecycleProofs` | theorems about `SessionLifecycle` | `SessionLifecycle`, TLAPS |
| `DispatchScheduler` | the admission counts and the rate window | |
| `JobRunner` | ticks, workers, run-now, the job CLI, the feed, published commands | `DispatchScheduler` |
| `JobRunnerProofs` | theorems about `JobRunner` | `JobRunner`, TLAPS |
| `Supervisor` | entries, loops, pid files, processes and pids | |
| `DaemonLife` | boot, autostart, idle controller, shutdown, crash, around the services | `Supervisor` |
| `DaemonLifeProofs` | theorems about `DaemonLife` | `DaemonLife`, TLAPS |
| `PhoneHook` | the `--on-message` queue and the listener around it | |
| `PhoneHookProofs` | theorems about `PhoneHook` | `PhoneHook`, TLAPS |
| `FileLock` | the lock file of the phone's vault | |
| `ReviewEngine` | chats, requests, workers, agents, fixes, upgrades and recovery of `channel-review` | |
| `ReviewEngineProofs` | theorems about `ReviewEngine` | `ReviewEngine`, TLAPS |
| `MC...` | constants for TLC | the module they name |

`PROJECT.json` maps every definition to the lines it stands for. Operators
commented as a *mutant* of the next definition are deliberate bugs: with the
definition replaced by one of them, the run named in `PROJECT.json` fails.

### ClaimQueue

A row is a message id; `seq` gives its key, `stored` says whether the row is in
its table, `delivered` whether `delivered_at` is set, `claim` its claim id.
Claim ids are random in the code and consecutive call numbers here. The time
`claimed_at` is replaced by `leased`, the set of calls whose lease still runs:
`LeaseLapses` may take a call out of it at any time, which over-approximates
every clock. `Taken` is the whole of `claimForSession`: the human queue first,
and the agent queue when the first yields nothing, be it because it is empty or
because its head row did not decrypt and was dropped. Such a call claims rows
of both queues under two claim ids; one number stands for both, since the
dropped row is already delivered and no ack can reach it. `issued` and `acked`
are history variables that the properties speak about.

`RecoverStaleClaims` is a boot: the daemon's own, or that of a rival process,
which runs it (`server/bootstrap.ts:98`) before it finds the port taken
(`:141`) and defers. `Housekeeping` is the tick: the archive prune of any set of
closed sessions, the agent-message prune, and when an hour has passed the
transcript prune. Message bodies, roles other than the filters use, subagent
names and encryption are left out, but for the rows in `Corrupt`.

Not modelled: a repeated `user-message` id, and clocks that go backwards. The
messages a job sends under the pseudo session `__scheduler__` are agent messages
of a sender nobody is.

### AtLeastOnce

Three actions: a message is accepted; a receive withdraws unreadable messages
and is given at most one other, which must be accepted and neither settled nor
withdrawn; messages are settled, each because some call was given it; pending
messages are withdrawn. `ClaimQueue` implements it under the mapping at its
end; claims, leases, sessions and identities are hidden.

### ChatRecv

`conn[c]` is the daemon's end of the socket of client `c` (`asked`, `parked`,
`served`), `side[c]` the client process (`asking`, `told` its result, `printed`
it). `listeners` are those on the store's list and `ahead[c]` those that stand
before `c` on it; `ringing` are those an emit has still to run: one after another
in the order of the list, each with a claim of its own, and no other handler runs
until none is left (`Turn`). The reply, the
output, the ack and the close are separate steps, and the process may be killed
between any two of them; `Die` also stands for the client's own request timer.
`Crash` drops every socket and what was on the wire. A daemon that closes in
good order is a crash here, except that its parked receives would be told
`closed`; either way the client ends.

### PageOutbox

One client, which keeps one current socket and listens to no other. After a
retry by hand the previous socket is `shutting`: the daemon still reads what was
sent on it. Sends run in microtasks and belong to the step that asks for them, so
`socketGeneration`, which guards a send against a change of sockets before it,
never differs here. Everything goes out in the order it was composed in, so a
socket's frames are a set (`sent`) that is read in that order, after the handshake
of the message's session (`hello`); `acks` and `ended` are its answers. `Deaf` and
`Poisoned` name the two ways in which a message can stay in the outbox.

Not modelled: `disconnectSession` with its five-second wait, the limit on the size
of a body, the limit on invalid frames, a stored row that a prune deletes, the
death of the extension's service worker, which takes the outbox with it.

### PwRelay

Each request is one process of the command, with `cli`, `post` (its upload of the
copy) and `wire`, what it has sent on its socket. `pending[r]` is the extension
socket of the entry in `RelayState`; `Finish` is `finish`, and `fail` before there
is an entry: both drop the copy. Handlers are atomic but for `handleAssetPost`,
which awaits the body between its check of the capability and the registration
(`Receives`, `Stores`).

The extension has one current socket, `paired` (its `bootstrapsBySession` has the
session) and `eligible`. A socket's frames are read in order, in both directions;
one that the extension left is `shutting` until the daemon has read what was sent
on it, and one that died with the daemon is `cut` until the extension sees it. A
socket name is used again. `live[r]` is what `live()` of a run would return: the
bootstrap and the socket it captured are still the current ones. Every step that
replaces one of them makes it false for good. The run itself is `stage`: the tab is
looked up, an upload fetches its copy and deletes it, the page is acted on. Each
of these is an await, and the signal (`aborted`) is looked at where the code looks.

`HearsNothing` with `disconnected` is the client whose five-second wait is over,
which ignores the daemon's confirmation. `unheard` and `stranded` are history
variables, of requests read after their session had closed and of copies that were
left: before their request was made, or by a removal that did not happen.

The daemon removes a session's copies when the session closes and all of them when
it boots (`CleansUp`). Both are logged when they fail. The boot's is skipped when the
pid file names another port than the one bound (`assets/cleanup.ts:54`): after a crash
the old file is still there, because `createHttpServer` sweeps (`server/http.ts:441`)
before `bootstrap.ts:316` writes the new one, so a daemon that came up on a fallback
port keeps the copies. Two other removals are taken to succeed: `dropStaged`, which
swallows errors (`server/pw-ext.ts:115`), and the `DELETE` of the extension.

Not modelled: the limits per requester and of used request ids, the check of the
extension's version, the requests of `inbox`, `proto` and overwatch, a second
paired browser, several sessions on one socket, and the closing of a socket after
eleven refused frames.

### SessionLifecycle

`record` is the registry's Map, `row` and `archive` the tables. Timestamps are
ages in ticks that stop at the limit their field is compared with, so the state
is finite without a bound on time. `phase` distinguishes a daemon that is up,
one inside `shutdown` that still answers frames while `session-closed` frames
drain, and one that is down. `ReapTick` is the whole tick in the code's order:
release, reap, evict, maintain the archive. `unseen` is a history variable: how
long no CLI socket was open. `Age`, `Older` and `OlderRecord` are the clock.

Not modelled: the `agent-gone` status row and broadcast, tokens (`validate` is
"the session is active"), rows that `loadSessions` cannot decrypt, the legacy
session files.

### DispatchScheduler and JobRunner

A *slot* of `JobRunner` is one execution: the two workers of a tick, a run-now
request, a `dg-daemon job run` process, or a published command of a chat
session. `pc` says where it stands: `exec` while its command runs, which is the
only await, then `insert`, `record`, `notify`, or `catch` for the catch block of
`admitAndRun`. These are one synchronous
turn of the process that spawned the command (`ReadyFor`, `DaemonBusy`), but
each ends in a database write that the CLI's process, or a crash, can still come
between. `queue[t]` is a tick's snapshot of due jobs, which is never read again;
`running` is the flag of `startJobRunner` and `current` the tick it belongs to.
Any of the writes in `runOne` may throw (`Throws`), for a database that stays locked
or a job that was deleted: what was inserted before stays, the announcement is
skipped, and the catch block records the run as failed. When that `recordJobRun`
throws too, the `finally` gives the admission back and the worker rejects
(`Rejects`). Its tick's promise is then settled while the
other worker goes on; hence several ticks in `Tick`.

Time is counted in ticks up to `Interval`: `wait[j]` until the job is due,
`age[x]` since the `ranAt` of a slot. `recent` counts the starts inside the
sliding window. Cron schedules, which compute another `next_run_at`, and the
parsing of feed lines are left out; a command yields any set of items, `{}`
standing for every failure. `told`, `missed` and `pruned` are history variables:
announcements of a row, those that a run missed because it threw, failed to announce
or died with its process, and rows a prune deleted. A missed row is never announced:
the next run finds it among its duplicates.

### Supervisor and DaemonLife

`Supervisor` has the state and the steps of `services/supervisor.ts` and of the
operating system under it: `live` processes, `of[p]` the service of a pid,
`foreign` pids that a dead service's number was reused for, `dying` processes
that were sent SIGTERM and will be sent SIGKILL, and `unguarded` ones that were
spawned and never got a pid file, because the daemon died or the write failed in
between. `DaemonLife` composes it with the daemon: `booting` is the turn that
arms the idle controller and autostarts, `stopping` the await of `stopAll`,
`closing` the await of the session-closed frames. Requests are served in all
three phases after boot (`Listening`), since the server stops last; `late`
collects the services started meanwhile. `peers` counts active sessions and
sockets together, as every change of either notes an activity; `jobsOn` is a
flag another process writes, which notes none.

### PhoneHook

The rows are what `db.ts` keeps of a message for the hook: `stored`, `unread`,
`attempts` up to the cap, `fetching` while its image is fetched, `expired` when
pruned. `run`, `child` and `rest` are the run in flight; `passAgain`,
`stuckAgain`, `timer` and `current` are the variables of `createHookRunner`. An
async function runs to its first await before its caller goes on; the only await
of a run is the hook process, so a run that finds nothing ends, and starts its
folded-in successor, inside the call that began it. `Resume` follows that
recursion to its end: at most a pass, then a sweep. `current` is kept as one bit:
whether the promise in the variable is that of the run in flight. The listener
is `phase` and `awaited`: it awaits its first pass, then its first sweep, serves,
and on SIGTERM stops the runner and awaits `settle()`. A hook process outlives a
listener that dies (`orphans`).

Every insert and every sweep of the code begins with a prune; `Prune` is a step of
its own, since other processes prune at any time as well. Relays, who may send,
presence and the files are left out.

### FileLock

One process per `Process`, one system call per step. A dead holder is recognised
by its pid and start time; the age of a file counts only for one that was
created and not written yet, and such a file behaves as one of a live, then of a
dead, holder.

### ReviewEngine

Paths in this section are relative to `src/pkg/channel-review/src`. A job is a
message that asks for a review, an issue to fix or a repository to upgrade;
`KeyOf` is what `engine.ts` keeps in `inFlight`: the pull request of a message, or
the job itself. `stage` follows a job from `accepted` (the reaction is awaited)
over `queued`, `working` (no agent alive) and `running` (its agent is) to
`answering`: its outcome is saved and the answer is being posted. The key is held
all along. `status` is the saved entry, of a message in `handled`, of an issue in
`issues`, of a repository in `deps.lastRun`: `pending` also stands for `fixing`
and for an upgrade in progress.

`Receive` is the turn of `handle` for the message a chat's cursor stands at, with
its four outcomes; `Dispatched` is what follows the awaited reply or reaction. One
pump handles one message at a time, but the pumps of several chats interleave.
Every `save` writes the whole state, cursors included, so memory and disk differ
in cursors only (`saved`): `setLastEventId` sets a timer, any other save writes
them early, a crash returns to `saved`. Statuses and `running` survive a crash;
stages, buffer and keys do not.

`phase` is where `serve` stands. `draining` is the time between the abort of the
streams and the end of pumps and tickers, `stopping` that of `engine.stop`, in
which workers return the jobs left in the buffer untouched and killed agents are
reported. `StopEnds` may come first: the wait is bounded. `Boot` is `recover` up to
its first await on a user, one step because the process does nothing else yet;
`RecoverOne` then fails the unfinished entries one by one, and may be cut off by
another crash.

An agent is a detached process. `orphan` holds those a crash left behind. Two
liberties: an agent whose pid was not saved, because the crash came inside the
turn of `Spawn`, is not recorded, and neither is one that is older than every time
limit, which `recover` spares because its pid may have been reused; the number of
fix starts in the last hour is not counted, so that an issue may be deferred at any
time.

`old` has the messages whose entry is a day old. `DayPasses` may come at any instant,
also with jobs in the engine: a full queue of long jobs or a machine that sleeps does
that. Writing a status makes the entry new again. `Pruned` is `pruneHandled`, which
looks at the age and not at the status; the model tells an entry it removed without an
outcome (`lost`) from one with an outcome (`gone`), where the code just has none.

Not modelled: the clone directories and the sweep of them, re-review options of
blocked pull requests, the capture of a custom reaction, the watch on draft pull requests, gaps the relay reports, saves that
fail, and the pid file that keeps a second daemon out.

## What the runs check

| run | states | shows |
|---|---|---|
| `claim_queue` | 332 k | `ExclusiveLease`, `DeliveredByHolder`, `NoOvertaking`, `NoSilentLoss`, and the refinement `ImplementsAtLeastOnce`; three sessions, two identities, both queues, an undecryptable row, a row cap of one |
| `recv` | 431 k | `NoMissedWakeup`, `DeliveredWasPrinted`, `NoClaimOrphaned` and `EventuallyDelivered` for two receivers of one session that has both queues |
| `sessions` | 60 k | `CrashLosesNothing`, `ArchiveMatchesRows`, `AttendedNeverReaped`, `NoResurrection`, `QuietClockExact`, `AbandonedSessionExpires`: two sessions, one stop, one crash, upgrades that fail |
| `jobs` | 183 k | `TickOutlivesOnlyByRejection`, `EnabledJobKeepsRunning`: two jobs, two ticks of two workers, writes that fail, any number of crashes |
| `job_feed` | 966 k | `AdmissionExact` with three kinds of users of the scheduler, `AnnouncedExactlyOnce` with runs that overlap in two processes and writes that fail |
| `services` | 24 k | `OneInstance`, `ShutdownStopsServices`, `IdleWindowUnbroken`, `CrashedServiceRestarts`, `ShutdownCompletes` |
| `phone_hook` | 70 k | `NoLostWakeup`, `BackoffHonoured`, `NeverTwice`, `EveryRowHandled`, `StuckRowRetried` |
| `reviews` | 694 k | `OneJobPerKey`, `NoRequestForgotten`, `AnsweredOnce`, `EveryJobSettles`: two chats ask for one pull request, beside an issue and a repository; one stop, one crash, one day |
| `outbox` | 88 k | `NothingLost`, `StoredInOrder`, `DeliveredUnlessStuck`: two messages of one session beside another session, two faults |
| `pw_relay` | 205 k | `PendingIsOwed`, `StagedCopyAccounted`, `WithdrawnIsAborted`, `EveryRequestAnswered`: an upload through a browser whose socket is replaced, two faults |
| `doc_file_lock` | | a lock that two processes can hold |
| `doc_resend` | | a resend that keeps other messages from being delivered |

The two `doc_` runs end in a counterexample; they are explained below. Deadlock is not
checked: every model may stop when its bounded inputs are used up.

### Bounds

- `MaxCalls` limits the receives that claim something. In `claim_queue` it is 2:
  enough for a claim, its lapse, a second claim by another session and a late
  ack of the first. In `recv` it is 8 and never binds: the number of claims is
  limited by `MaxFailures` and `MaxSlow`.
- `MaxFailures` counts killed or impatient clients, crashes and rival boots
  together: one of them, at any instant. `MaxSlow` counts leases that lapse
  while their receiver is still at work.
- `MaxSockets`, `MaxStops`, `MaxCrashes` limit `SessionLifecycle`: two sockets of
  a session at once, one stop, one crash. The limits of the code (a day, a
  minute, ten minutes) are 1 to 3 ticks, pairwise different where the order
  matters; only the comparisons count.
- `MaxOutside` limits what comes to `JobRunner` from outside: run-now requests,
  CLI runs, their deaths and chat commands. `job_feed` has two of
  them beside the timer; `jobs`, which is about the timer and the job CLI, none, and
  no items either, since what a command prints plays no part in it. Crashes of the
  daemon and writes that fail are not bounded. The limits of the scheduler are 2, 2 and 1
  (2, 8 and 60 in the code), and
  `Interval`, `Chunk` and `FeedLimit` are 1, so that every boundary is met. The
  daemon-wide limit of `job_feed` equals the session limit, and a chat command
  takes part of it.
- `MaxFaults` counts crashes of the daemon, failed spawns and failed pid-file
  writes: two, so that one may happen during the recovery from the other.
  `PidsLeft` keeps a pid free for each service whatever foreign or forgotten
  processes run; with three pids and one label there are at most one of
  those. `MaxPeers` is 1.
- `MaxCrashes` of `PhoneHook` is 2: a crash of the listener, and one of its
  successor while the first one's hook process still runs. The cap of attempts
  is 2 for 5. The two rows differ in all the ways the code distinguishes.
- `MaxFaults` of `PageOutbox` counts crashes, refused connections and retries by
  hand: two in `outbox`, so that one meets the consequences of the other, and one in
  `doc_resend`. Two sockets exist at a time: the current one and one that is
  shutting. In `outbox` the messages share a session, for the order; in
  `doc_resend` they share only the socket.
- `MaxFaults` of `PwRelay` counts crashes, retries by hand, pairings, disconnects and
  restarts of the service worker: two in `pw_relay`. One request is enough: requests
  share nothing but the place in `pending`, and the refusal for a full table takes
  the same branch as that for the wrong number of paired sockets, which does occur.
  Two socket names suffice for the current one and the one that is shutting.
- `MaxTries` and `MaxDeaths` of `FileLock` are 1: the counterexample needs no more.
- `reviews` has two workers and room for two keys, so that a full engine refuses a
  third job. `MaxRuns` is 2: the fallback after a usage limit, or the second pull
  request of a stack. `MaxAsks`, `MaxStops`, `MaxCrashes` and `MaxDays` are 1: every
  kind of event once, in any order, at any instant; a stop and a crash together
  give a recovery that is cut off. One message per chat is enough for the
  races between chats; a chat's own messages are handled one after another.
- Symmetry is used for the workers and items of `job_feed` and the processes of
  `doc_file_lock`, which are interchangeable, and in no liveness run.

### Fairness

`RecvFairness`: the event loop runs queued frames and listeners and its interval
(`Ring`, `HandleRecv`, `HandleAck`, `Poll`, `SocketCloses`), client processes
run on, an unattended lease runs out because time passes, a dead daemon is booted
by the next `dg` command, and the agent calls `recv` again and again. The last
one is an assumption about the agent, without which a message may wait for
ever. Inserts, closes, timeouts, failures and slow leases are not fair.

`Fairness` of `SessionLifecycle`: the reap interval fires, time passes, the wait
in `shutdown` ends (a socket that does not drain is closed by `idleTimeout`,
`server/http.ts:287`), and a daemon that is down is booted again. Nothing is
assumed of pages and CLIs.

`AbandonedSessionExpires` excepts a session that is `Unclocked`: marked attached,
with no socket and no quiet clock. That state is described below; only a crash or a failed
upgrade leads to it. `QuietClockExact` says so: no other step makes a session
unclocked.

`Fairness` of `JobRunner`: the interval fires, workers and turns go on, commands
end because they are killed after `timeoutMs`, time passes. The exit of a command is
strongly fair: it is an event in a queue, which the turns of other runs delay but do
not remove. Nothing is assumed of
users, of the success of a command or a write, or that an admission is granted: that
the timer's own job is admitted again and again is part of what
`EnabledJobKeepsRunning` shows. A user who kept the scheduler full for ever could
starve a job; the run has no such user. The property names two exceptions: a daemon
that crashes for ever, and ticks that lose every worker to other jobs before they come
to this one (`PassedOver`). The second is real: `dueJobs` orders by `next_run_at`
(`store/index.ts:1700`), a run whose last write fails keeps its date, and so two jobs
that fail in this way at every tick stay ahead of all others.

`Fairness` of `DaemonLife`: the loops of the supervisor and the steps of boot and
shutdown run on, the idle timer fires, a process that was sent SIGTERM ends (by
SIGKILL after the grace), a stalled socket is closed by the ping timeout. A
script need not end, a daemon need not be stopped or booted.

`FairSpec` of `PhoneHook`: timers fire, a hook process ends (it has a timeout),
and the listener goes on from what it awaited. The exit code, the relays, the
human and the machine are free; `StuckRowRetried` and `EveryRowHandled` speak of a
listener that keeps serving.

`Fairness` of `PageOutbox`: both event loops run on, the retry timer fires, and a
connection that is not refused opens. Users, crashes and refusals are free.

`Fairness` of `PwRelay`: the daemon reads what it is sent and its timers fire, the
extension hears what it is sent and its interval fires, and a command reads its
answer. The tab, the page, the download of the copy, the extension's own deadline,
the command's own timer and all users are free, so that neither property can rest
on them.

`Fairness` of `ReviewEngine`: awaited replies and commands return, agents are killed
at their time limit, a free worker takes the next job, the stop is bounded by a
timer, recovery goes on, and the supervisor starts a service that ended
(`Supervisor`, `CrashedServiceRestarts`). Messages, issues, windows, signals,
crashes and the timer that saves cursors are not fair.

### Where code and text disagree

1. `doc_file_lock`: `withFileLock` promises that "only one process runs it at a
   time" (`dg-agent/src/phone/file-lock.ts:102`). `breakStaleLock` renames what
   the lock file is by then. With a dead holder, one process breaks the lock and
   takes it, a second one, which judged the old file, moves the fresh lock aside,
   and before it has put it back a third one takes the lock.
2. `doc_resend`: `.agents/spec/001_chat_harness/plan.md:498` says that a message
   typed while disconnected "is delivered exactly once" when the connection
   returns. The page flushes its outbox in order, and a message whose ack was lost
   comes first: its id is in the table, the insert breaks `UNIQUE`, the daemon
   closes the socket with 1011, and the page, whose backoff starts anew with every
   socket that opens, connects and flushes again. What is queued behind it, also
   for other sessions, is not read before the socket is closed. A retry by hand
   while an ack is under way has the same effect, without any failure.

More, which no run of their own shows:

- `session/registry.ts:36` says `cliQuietSince` is "set when the last CLI socket
  closed while the claim is still held". After a crash with a CLI attached no socket
  is open and the clock is not set, and neither `shouldReleaseClaim` nor
  `shouldReapSession` will ever name the session. Only a CLI that attaches again, or
  an explicit close, ends it. `Unclocked` is that state; `sessions` shows that only a
  crash or a failed upgrade leads to it.
- `.agents/spec/002_job_dashboard/plan.md:155` says the idle controller "does fire
  once the last job is disabled". `arm` returns without a timer when the daemon is
  busy, and disabling a job is no activity: a daemon that booted with an enabled job
  stays after the job is gone, until a session or a socket comes and goes. The same
  holds of the last service that stops. The existing test disables the job before it
  makes the controller.
- `connect` (`pages/src/chat/chat-client.ts:439`) leaves a new session to the attempt
  in flight, but `hasAttemptInFlight` stays set when a retry is abandoned for want of
  a session (`:288`) and when `retryNow` finds none (`:595`). A session captured
  after that is not connected until the user retries. `Deaf` is that state.
- The comment on `current` (`dg-agent/src/phone/hook.ts:87`) says that a settled
  stand-in must never overwrite it, "or `settle()` would resolve while the pass
  that is really running is still in flight". An empty run does that: it ends, and
  starts the coalesced sweep, before `current = run()` is assigned. `PhoneHook`
  models it (`current`, `awaited`): a listener stopped in that state exits without
  waiting for its hook process, and the next listener delivers the row again,
  against `docs/phone.md:230` ("never delivered twice on success").
- `pkg/channel-review/README.md:243` says "One job runs at a time, so a sweep never
  touches a live job's files." The default is two workers
  (`channel-review/src/config.ts:258`), and the sweep at the end of an upgrade
  (`automation/deps-flow.ts:113`) names no active job: it removes the clone a fix
  may be working in.
- `docs/pw.md:60` says "If the dg session closes, or the CLI stops (Ctrl-C, SIGTERM or
  a closed socket), the request is canceled and nothing more runs." An extension whose wait for a
  `session-disconnected` was over when it came (`pages/src/chat/chat-client.ts:364`) holds a pairing
  whose socket has no capability any more, so it is neither told of a cancel nor of
  the session's end; what it runs goes on until its own deadline of two minutes.
  `Estranged` is that state, and `WithdrawnIsAborted` shows that there is no other.
- `docs/pw.md:75` says "The staged copy is deleted as soon as the extension fetches it,
  and also when the request is canceled, times out or fails." A command that is stopped after the copy is staged and before it asks
  leaves it until the session closes or the daemon boots; one whose bytes arrive
  while the session closes leaves it until the next boot; and a removal at a close or
  a boot that is skipped or fails leaves what it should have removed. `stranded` has
  these copies, and `StagedCopyAccounted` shows that there are no others, so far as
  the deletion by the request itself succeeds.
- `pkg/channel-review/README.md:30` says "Pending/running requests become failed with
  CR-205 during normal restart recovery". `recover` prunes first (`src/engine.ts:893`),
  by age and whatever the status (`src/state.ts:450`): a request that was unfinished when
  the service went down, and is a day old when it comes back, is deleted before the
  unfinished ones are collected (`src/engine.ts:927`), and nobody is told. The same
  happens to one that waited in the queue for a day, was pruned by the daily
  maintenance, and was then cut off by a stop or a crash. `EveryJobSettles` excepts
  these requests (`lost`), and its part `LostByAge` shows that no younger one is.
- A `pw --ext` request that the daemon reads after its session closed is answered by
  an error that names no request (`server/frame-handlers.ts:536`), so the command
  waits for its own timer. `unheard` has these requests, and `EveryRequestAnswered`
  shows that there are no others.
- `plugins/dg/skills/channel-review/references/setup.md:226` says "When one chat
  stream fails, the daemon logs the chat ID and keeps the other chats running".
  `serve` aborts the streams of every chat (`daemon/serve.ts:436`), as
  `StopRequested` has it.
- `docs/DEVELOPER.md:318` says the housekeeping tick "never prunes `messages`";
  `pruneMessages` (`store/index.ts:1124`) cuts transcripts to 20 000 rows and
  `pruneArchive` (`store/index.ts:2313`) removes those of dropped sessions.
  `claim_queue` shows the weaker promise the code keeps, `NoSilentLoss`.
- `docs/jobs-and-services.md:21` says "a second run of the same query adds
  nothing"; after `pruneFeedItems` (`store/index.ts:1905`) dropped an item past the
  cap, the next run inserts and announces it again.

## What is proved

In `ClaimQueueProofs`, `TypeCorrect`, `LeaseIsExclusive`,
`DeliveryNeedsHolder`, `LossIsAccounted`, `QueueIsFifo`, `DeliveryIsFinal` and
`QueuesImplementAtLeastOnce` hold for every set of sessions, identities and
messages, every routing, every set of corrupt rows and every `MaxCalls`, from
the three named assumptions of `ClaimQueue` (the id sets are disjoint, the
routing functions have their types, the limits are naturals).

None of the properties but `TypeOK` is inductive. `IInv` strengthens them with
three parts, and each step of the proof takes the actions of `Next` one by one:

- `KeyInv`: keys are distinct, below `nextSeq`, and every row that is stored,
  delivered or aged has one. It gives `TakenFacts`: a receive takes only rows
  that are stored, undelivered, under no running lease and fit for its session,
  and at most one of them is readable.
- `HandoutInv`: a call number names one handout, of a readable message to a
  session entitled to it, and none is above `calls`; so a new call is fresh.
- `ClaimInv`: the claim of an undelivered row is the call of a handout of that
  row, or 0; and a handout whose lease runs is still the claim of its row.

`ExclusiveLease` is a consequence of the last part: two running handouts of one
row carry the same call number. `DeliveredByHolder` is kept because an ack that
finds its claim in an undelivered row finds the handout that made it.
`SettledForGood`, which no run lists, as the refinement shows its visible part,
holds because a call takes no delivered row and a boot clears
the claims of undelivered rows only. `NoOvertaking` follows from `Oldest`: a
message handed out ahead of an older one found the older one outside the
claimable rows, hence claimed before. `NoSilentLoss` needs only what the prunes
delete. The refinement maps the initial states, and each action, to an initial
state, and to a step or a stutter, of `AtLeastOnce`.

The same module proves of `ChatRecv`, for any clients, messages, sessions and
failures, `RecvTypeCorrect`, `WakeUpsReachTheParked`, `DeliveryFollowsPrint` and
`ClaimsAreHeld`, from `ClientAssumption` besides. `ReceiversUseQueues` comes
first: every step of the receivers is a step of the queues or leaves them alone,
so all that is proved above holds of the daemon with its clients
(`ReceiversKeepThePromise` is the part of it that matters most). `RecvIInv`
joins to `IInv`:

- `AnswerInv`: a receive under way has no answer, and an answer that names a call
  goes to a client of the session the call was given to.
- `AckInv`: an ack on the wire, and a handout that was acknowledged, are of a call
  that was printed. `DeliveredWasPrinted` follows with `DeliveredByHolder`.
- `ListenInv`: a listener that is not still to be run for the last insert has heard
  of everything it could claim (`Heard`). An insert rings every listener, so no new
  row is missed; a claim takes the oldest row, or drops an undecryptable one before
  it, so a listener that has run is in the same position whichever of its
  predecessors took the row. `NoMissedWakeup` is the case of an idle daemon.
- `CalmInv`: without failures the daemon is up and a process keeps its socket until
  it ends, so a claim that was answered is read, printed and acknowledged.
- `KeptInv`: what was handed out is still stored, since `ChatRecv` has no prune.

The oldest of a set of rows (`LeastKey`) and the first of a set of numbers exist by
well-foundedness of the naturals (`WFMin`), which needs no induction rule.

`SessionLifecycleProofs` proves `LifecycleTypes`, `CrashSafe`, `TablesAgree`,
`NeverResurrected`, `AttendedStays` and `QuietClockIsExact` for every finite set of sessions, every limit and any number
of sockets, stops and crashes, from `LimitAssumption` (limits are positive
naturals, `Unset` is none) and `LifecycleAssumption`. `LInv` joins the type and
the two agreements with `SocketInv`: a socket that still holds a capability
belongs to a live session. Without it the invariant is not inductive, because
the close handler of a socket saves whatever record it finds and would write a
closed one over an archived row; `Dismiss` is what rules that out. The archive
prune is harmless because it drops only sessions with an archive entry
(`PruneDropsArchived`), and none of those has a live row. `NeverResurrected` is
an action property: what is closed or archived is `Gone`, in memory and in the
table, `Create` cannot be given its id, and every other action asks for a live
record or row.

The last two are about time. `ClockInv` relates the clocks of a row to `unseen`,
the time since its last CLI socket: an open socket holds the claim and stops every
clock; a quiet clock, once it runs, is behind `unseen`; and a claim that was
released for being quiet was so for the whole grace before its detached clock
began, so the two clocks that the sweep reads one after the other add up. It is an
invariant of the rows, not of the records, and holds through crashes because
`CrashSafe` makes the two agree. The sweep then needs `ReapedWasUnattended`: what it
closes had run out one clock after the other.

`JobRunnerProofs` proves `AdmissionAlwaysExact`, `TicksOverlapOnlyByRejection`,
`JobTypeCorrect` and `FeedIsAnnouncedOnce` for any jobs, items, ticks, workers,
requests and limits, from `LimitAssumption`, `JobAssumption` (the kinds of slots
are finite and disjoint) and, for the last two, `FeedAssumption` (an output has
finitely many fingerprints, the chunk and the feed's limit are positive). The counts are
compared with the cardinality of the set of slots that hold an admission;
`AdmitExact` and `ReleaseExact` add or take one element of that set, and every
action is one of them or leaves the set alone (`SameHolders`). A tick's workers
hold nothing when the next use of its name begins (`QuietTickHoldsNothing`). The
second theorem strengthens the property to `TickInv`: a queued or running job is
one that exists or was removed, and the workers of a tick that is not current are
all gone, or one of them rejected. The types need that only a run in its turn after
the command, and not in its catch block, carries news (`NewsInTurn`).

`AnnouncedExactlyOnce` is a ledger with one entry for each item of each job
(`EntryOK`): a stored row is `Accounted` in one of three ways, told once, carried by
one run, or missed by a run that threw, failed or died; an item that is not stored has no
entry yet, unless it was pruned or its job deleted. The second half is what
makes it inductive: the insert skips what is stored, so a new row starts with an
empty entry and the run that inserted it is its only carrier (`InsertsChunkLedger`).
`RowsOfJobs` is needed for deletions: a job's rows go with it, and its id is not
used again.

`DaemonLifeProofs` proves `OneInstanceAlways`, `LifeTypeCorrect`,
`ShutdownLeavesNoService` and `IdleWindowHolds` for any labels and pids and any
number of faults, from `PidAssumption` and `LifeAssumption`. `InstanceInv` says
that a live process that got its pid file is the one its label's file names
(`FileNamesInstance`), that a running entry's file names its process and one in
backoff has none (`FileFollowsLoop`), and that no foreign process runs under a
pid the supervisor has not reaped (`PidsOwned`). A start then finds either no
guarded process of its label or a file that refuses it (`NobodyRuns`). The last
part is what makes the user's deletion of a pid file harmless, so long as the
file names no service. `AwaitedInv` says that a service which runs during a shutdown
is one whose loop `stopAll` awaits or one requested since (`late`): a loop that
`stopAll` no longer awaits has ended and is not started again by anything but a
request (`RoundRuns`). `QuietInv` says that a daemon that does not serve yet has no
peers, so the timer is armed without any.

`PhoneHookProofs` proves `NoWakeupIsLost`, `BackoffIsHonoured`,
`NeverDeliveredTwice` and `HookTypeCorrect` for any rows, images, cap and number of crashes, from
`HookAssumption`. `QueueInv` adds to the first two what makes them inductive
(`SweepRemembers`): a sweep in flight with something deliverable, and no backoff,
has a pass to start when it ends. `OnceInv` says that a row that was given to a
hook, or is about to be, is stored or pruned for good, has no image to come, and,
once the hook took it and the listener lived to say so, is not unread nor in any
snapshot. Its delicate case is the sweep, which walks a snapshot of distinct rows
(`FirstIsMember` is by well-founded induction on the row numbers).

`PageOutboxProofs` proves `NothingIsLost`, `OrderIsKept` and `OutboxTypes` for any messages,
sessions, sockets and faults, from `OutboxAssumption`. `NothingLost` needs that an
ack is for a stored message (`Outboxed`). `StoredInOrder` needs `SentInOrder`: with
a message on its way, its predecessors are on their way on the same socket, or done
with, or else the socket has no capability for their session and none is coming
(`Unknown`), so that the message itself will be refused. That is kept when a message
is sent because all that is queued was written to the current socket
(`QueuedIsSent`), and when a session is captured anew because its old messages left
with it.

`ReviewEngineProofs` proves `OneJobPerKeyAlways`, `RequestsRemembered`,
`AnswersStand` and `OnlyAgeLoses` for any chats, streams, issues, repositories, workers, runs and
faults, from `ReviewAssumption` (the kinds of jobs and keys are disjoint, a message
comes once in one stream). `KeyInv` joins to the exactness of the keys that a
process which is down or recovering has nothing in the engine (`QuietInv`), that
the buffer holds each queued job once (`QueueInv`: otherwise `Take` could start a
job twice), and that live agents are on record (`AgentInv`: so all that a crash
leaves behind are killed before the service listens). `EntryInv` ties the saved
entry of a message to its stage: a job without an outcome has an unfinished entry or
one that was pruned as such, under its worker. An entry that is gone could be made
anew, by a message that comes again; `AheadInv` says that of the messages a chat has
yet to hand over none has a job in the engine, so the job and the new entry cannot
meet. Every step of pumps, tickers and workers then is one of
the six kinds of `EntryStep`. `CursorInv` follows the cursors: the saved one is
behind the one in memory, which is behind the message being handled, and what
it passed has, or had, an entry.

`PwRelayProofs` proves `RelayTypes`, `PendingAlwaysOwed` and `NoCopyIsForgotten`
for any requests, sockets, places and faults, from `RelayAssumption`. The two
invariants are proved together, in `IInv`, with what they rest on. `RequestInv`
says where a request is: it is the first frame of its command and comes once
(`Sent`), and as long as it is on its way its command is connected, unanswered and
not pending; so an entry that becomes pending is owed an answer, and a close that
the daemon reads ends an entry it has read before. `SocketInv` says that only
sockets that are read have the capability, which is why a relayed request is on
such a socket. `CopyInv` says that a copy is posted before its command asks, and
that those staged after the close, or kept by a removal that did not happen, are the
stranded ones. Five steps end requests;
what they have in common is the lemma `FinishKeeps`.

With these, every invariant and every action property of a passing run is a
theorem (`LostByAge`, the action property in `EveryJobSettles`, among them), and so
is every module's type invariant. `FileLock` has no theorem: its run shows the disagreement. What TLC alone checks is liveness: it needs
fairness and `ENABLED`, which are beyond the prover. These are
`EventuallyDelivered`, `AbandonedSessionExpires`, `EnabledJobKeepsRunning`,
`CrashedServiceRestarts`, `ShutdownCompletes`, `EveryRowHandled`,
`StuckRowRetried`, `EveryJobSettles`, `DeliveredUnlessStuck`, `WithdrawnIsAborted`
and `EveryRequestAnswered`. No run lists a type invariant: a theorem says more.

## Not modelled, and the plan

Left out for good: encryption, keychains, pairing pages, the connectors of
`inbox`, `ssms` and `skills-cli`, and what the browser code does to pages; they are
I/O and formatting around third-party services.

Left out of the modelled parts, and why: cron expressions and feed parsing are
pure; log rotation, status routes and asset routes keep no state that matters
here; the relays, presence and file transfer of the phone need a model of the
relay network, whose behaviour is not in this repository.

Planned, in this order:

1. The other browser relays: overwatch open, whose timer races the answers of several
   sockets, inbox and proto. Properties: exactly one outcome, no entry survives its
   request.
2. The rest of `channel-review`: re-review of blocked pull requests, the pull
   request watch, saves that fail, two daemons and the pid file.
3. The bind, defer and pid-file protocol of `cmdServe`, on top of `DaemonLife`.
4. The phone's image fetches and its outbox, on top of `PhoneHook`.

Theorems planned: those of the modules above, once they are written.
