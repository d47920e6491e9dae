------------------------------ MODULE DaemonLife -------------------------------
(***************************************************************************)
(* The daemon process around its services: boot and autostart, the idle    *)
(* controller (server/idle-ttl.ts, jobs/idle.ts), the shutdown sequence of *)
(* server/bootstrap.ts, and a crash, which leaves the services running.    *)
(*                                                                         *)
(* `peers` counts active sessions and open sockets together: every change  *)
(* of either notes an activity.  Enabled jobs are a flag the job CLI sets  *)
(* from its own process.                                                   *)
(***************************************************************************)
EXTENDS Supervisor

CONSTANTS
    Autostart,      \* labels declared with autostart
    MaxPeers,       \* bound: sessions and sockets at a time
    MaxFaults       \* bound: crashes, failed spawns and failed pid file writes

ASSUME LifeAssumption ==
    /\ Autostart \subseteq Label
    /\ MaxPeers \in Nat
    /\ MaxFaults \in Nat

VARIABLES
    phase,      \* "down", "booting", "serving", "stopping" (stopAll), "closing"
    toStart,    \* labels autostart has not reached yet
    waitFor,    \* entries whose loop stopAll awaits
    late,       \* labels started since the shutdown began
    peers,      \* active sessions and open sockets
    unsent,     \* pendingCloseSends
    jobsOn,     \* some job is enabled
    timer,      \* the idle timer is armed
    faults

lifeVars == <<phase, toStart, waitFor, late, peers, unsent, jobsOn, timer, faults>>
vars == <<supervisorVars, lifeVars>>

Init ==
    /\ SupervisorInit
    /\ phase = "down"
    /\ toStart = {}
    /\ waitFor = {}
    /\ late = {}
    /\ peers = 0
    /\ unsent = 0
    /\ jobsOn = FALSE
    /\ timer = FALSE
    /\ faults = 0

\* isDaemonIdle.
IsIdle(n, jobs, L) == n = 0 /\ ~jobs /\ L = {}

\* The HTTP server answers until the very end of the shutdown.
Listening == phase \in {"serving", "stopping", "closing"}

Fault == faults < MaxFaults /\ faults' = faults + 1

-------------------------------------------------------------------------------
(***************************************************************************)
(* Boot.                                                                   *)
(***************************************************************************)
\* The idle controller is made, and armed, before autostart.
Boot ==
    /\ phase = "down"
    /\ phase' = "booting"
    /\ toStart' = Autostart
    /\ timer' = IsIdle(0, jobsOn, {})
    /\ UNCHANGED <<supervisorVars, waitFor, late, peers, unsent, jobsOn, faults>>

\* A launch and what can come of it.
Launch(l) ==
    \/ \E p \in Pid : Launches(l, p) /\ UNCHANGED faults
    \/ \E p \in Pid : LosesProcess(l, p) /\ Fault
    \/ FailsToSpawn(l) /\ Fault

\* autostart, in the turn that boots: a refusal is only logged.
Autostarts(l) ==
    /\ phase = "booting"
    /\ l \in toStart
    /\ toStart' = toStart \ {l}
    /\ IF CanStart(l)
       THEN FreshEntry(l) /\ Launch(l)
       ELSE UNCHANGED <<supervisorVars, faults>>
    /\ UNCHANGED <<phase, waitFor, late, peers, unsent, jobsOn, timer>>

Serve ==
    /\ phase = "booting"
    /\ toStart = {}
    /\ phase' = "serving"
    /\ UNCHANGED <<supervisorVars, toStart, waitFor, late, peers, unsent, jobsOn, timer, faults>>

-------------------------------------------------------------------------------
(***************************************************************************)
(* Requests.  None of them notes an activity.                              *)
(***************************************************************************)
\* POST /services/<label>/start.
StartRequest(l) ==
    /\ Listening
    /\ CanStart(l)
    /\ FreshEntry(l)
    /\ Launch(l)
    /\ late' = IF phase = "serving" THEN late ELSE late \cup {l}
    /\ UNCHANGED <<phase, toStart, waitFor, peers, unsent, jobsOn, timer>>

\* POST /services/<label>/stop.
StopRequest(l) ==
    /\ Listening
    /\ state[l] # "none"
    /\ Stopping({l})
    /\ UNCHANGED lifeVars

\* `dg-daemon job enable`, `disable`, `add` or `rm`: a write to the database.
JobsChange ==
    /\ jobsOn' = ~jobsOn
    /\ UNCHANGED <<supervisorVars, phase, toStart, waitFor, late, peers, unsent, timer, faults>>

-------------------------------------------------------------------------------
(***************************************************************************)
(* The loops.                                                              *)
(***************************************************************************)
Alive == phase \notin {"down", "booting"}

\* stopAll's await of the entry's loop resolves when the loop ends.
Ended(l) == waitFor' = IF state'[l] = "stopped" THEN waitFor \ {l} ELSE waitFor

Reap(l) ==
    /\ Alive
    /\ LoopReaps(l)
    /\ Ended(l)
    /\ UNCHANGED <<phase, toStart, late, peers, unsent, jobsOn, timer, faults>>

Restart(l) ==
    /\ Alive
    /\ BackoffEnds(l)
    /\ Launch(l)
    /\ Ended(l)
    /\ UNCHANGED <<phase, toStart, late, peers, unsent, jobsOn, timer>>

GiveUp(l) ==
    /\ Alive
    /\ BackoffAborts(l)
    /\ Ended(l)
    /\ UNCHANGED <<phase, toStart, late, peers, unsent, jobsOn, timer, faults>>

-------------------------------------------------------------------------------
(***************************************************************************)
(* Idleness and shutdown.                                                  *)
(***************************************************************************)
\* Mutant of Activity: an armed timer runs on.
ActivityNeverClears(n) == timer' = (timer \/ IsIdle(n, jobsOn, Running))

\* noteActivity: arm the timer afresh if idle at this instant.
Activity(n) == timer' = IsIdle(n, jobsOn, Running)

\* Mutant of DrainWaiters: a closed socket does not resolve its waiters.
DrainWaitersForgotten(n) == {unsent}

\* What waits for a drain once n peers are left: a closed socket waits no more.
DrainWaiters(n) == {unsent, unsent - 1} \cap (0..n)

PeersChange(n) ==
    /\ Listening
    /\ n \in {peers - 1, peers + 1} \cap (0..MaxPeers)
    /\ peers' = n
    /\ Activity(n)
    /\ unsent' \in IF n < peers THEN DrainWaiters(n) ELSE {unsent}
    /\ UNCHANGED <<supervisorVars, phase, toStart, waitFor, late, jobsOn, faults>>

\* Mutant of StoppedByShutdown: stopAll forgets the services in backoff.
StoppedWhileRunning == {l \in Label : state[l] = "running"}

\* stopAll stops every entry there is.
StoppedByShutdown == Entries

\* shutdown up to its first await.
BeginShutdown ==
    /\ phase' = "stopping"
    /\ timer' = FALSE
    /\ Stopping(StoppedByShutdown)
    /\ waitFor' = Running \cap StoppedByShutdown
    /\ late' = {}

\* The idle timer fires: shut down if still idle, once; else arm, which does
\* nothing in a busy daemon.
IdleExpires ==
    /\ Listening
    /\ timer
    /\ IF phase = "serving" /\ IsIdle(peers, jobsOn, Running)
       THEN BeginShutdown
       ELSE timer' = FALSE /\ UNCHANGED <<supervisorVars, phase, waitFor, late>>
    /\ UNCHANGED <<toStart, peers, unsent, jobsOn, faults>>

\* SIGTERM or SIGINT; a second one finds shuttingDown set.
Signalled ==
    /\ phase = "serving"
    /\ BeginShutdown
    /\ UNCHANGED <<toStart, peers, unsent, jobsOn, faults>>

\* Every awaited loop has ended: registry.closeAll sends each page and CLI its
\* session-closed frame, and any of them may be under backpressure.
CloseSessions ==
    /\ phase = "stopping"
    /\ waitFor = {}
    /\ phase' = "closing"
    /\ unsent' \in 0..peers
    /\ UNCHANGED <<supervisorVars, toStart, waitFor, late, peers, jobsOn, timer, faults>>

\* A drain, or the ping timeout's close, releases a send that waited.
SendSettles ==
    /\ unsent > 0
    /\ unsent' = unsent - 1
    /\ UNCHANGED <<supervisorVars, phase, toStart, waitFor, late, peers, jobsOn, timer, faults>>

\* What ends with the daemon, whichever way it ends.
Gone ==
    /\ phase' = "down"
    /\ state' = [l \in Label |-> "none"]
    /\ pid' = [l \in Label |-> NoPid]
    /\ clean' = [l \in Label |-> FALSE]
    /\ aborted' = {}
    /\ toStart' = {}
    /\ waitFor' = {}
    /\ late' = {}
    /\ peers' = 0
    /\ unsent' = 0
    /\ timer' = FALSE

Exit ==
    /\ phase = "closing"
    /\ unsent = 0
    /\ Gone
    /\ UNCHANGED <<processes, pidFile, jobsOn, faults>>

\* The daemon is killed: its services are processes of their own.
Crash ==
    /\ phase # "down"
    /\ Fault
    /\ Gone
    /\ UNCHANGED <<processes, pidFile, jobsOn>>

\* It is killed between a spawn and the write of the pid file.
CrashWhileLaunching(l, p) ==
    /\ \/ Alive /\ (CanStart(l) \/ (state[l] = "backoff" /\ l \notin aborted))
       \/ phase = "booting" /\ l \in toStart /\ CanStart(l)
    /\ Fault
    /\ PidsLeft
    /\ Spawned(l, p)
    /\ unguarded' = unguarded \cup {p}
    /\ pidFile' = [pidFile EXCEPT ![l] = NoPid]
    /\ Gone
    /\ UNCHANGED <<foreign, dying, jobsOn>>

\* A script exits.  One that was sent SIGTERM is killed after the grace.
ScriptExits(p, ok) == ProcessExits(p, ok) /\ UNCHANGED lifeVars

Next ==
    \/ Boot
    \/ \E l \in Label : Autostarts(l)
    \/ Serve
    \/ \E l \in Label : StartRequest(l)
    \/ \E l \in Label : StopRequest(l)
    \/ JobsChange
    \/ \E l \in Label : Reap(l)
    \/ \E l \in Label : Restart(l)
    \/ \E l \in Label : GiveUp(l)
    \/ \E n \in 0..MaxPeers : PeersChange(n)
    \/ IdleExpires
    \/ Signalled
    \/ CloseSessions
    \/ SendSettles
    \/ Exit
    \/ Crash
    \/ \E l \in Label, p \in Pid : CrashWhileLaunching(l, p)
    \/ \E p \in live, ok \in BOOLEAN : ScriptExits(p, ok)
    \/ \E p \in Pid : PidReused(p) /\ UNCHANGED lifeVars
    \/ \E p \in foreign : ForeignExits(p) /\ UNCHANGED lifeVars
    \/ \E l \in Label : PidFileDeleted(l) /\ UNCHANGED lifeVars

Spec == Init /\ [][Next]_vars

(***************************************************************************)
(* The event loop runs its continuations and timers; a signalled process   *)
(* dies at the latest by SIGKILL; a stalled socket is closed by the ping   *)
(* timeout.  Nothing is assumed of users, scripts or the machine.          *)
(***************************************************************************)
Fairness ==
    /\ \A l \in Label : WF_vars(Autostarts(l)) /\ WF_vars(Reap(l))
    /\ \A l \in Label : WF_vars(Restart(l)) /\ WF_vars(GiveUp(l))
    /\ WF_vars(Serve) /\ WF_vars(CloseSessions) /\ WF_vars(SendSettles) /\ WF_vars(Exit)
    /\ WF_vars(IdleExpires)
    /\ \A p \in Pid : WF_vars(p \in dying /\ \E ok \in BOOLEAN : ScriptExits(p, ok))

FairSpec == Spec /\ Fairness

-------------------------------------------------------------------------------
(***************************************************************************)
(* Properties.                                                             *)
(***************************************************************************)
LifeTypeOK ==
    /\ live \subseteq Pid /\ foreign \subseteq Pid \ live
    /\ dying \subseteq live /\ unguarded \subseteq live
    /\ of \in [Pid -> Label]
    /\ pidFile \in [Label -> Pid \cup {NoPid}]
    /\ state \in [Label -> {"none", "running", "backoff", "stopped"}]
    /\ pid \in [Label -> Pid \cup {NoPid}]
    /\ clean \in [Label -> BOOLEAN]
    /\ aborted \subseteq Entries
    /\ phase \in {"down", "booting", "serving", "stopping", "closing"}
    /\ toStart \subseteq Autostart
    /\ waitFor \subseteq Label
    /\ late \subseteq Label
    /\ peers \in 0..MaxPeers /\ unsent \in 0..peers
    /\ jobsOn \in BOOLEAN /\ timer \in BOOLEAN
    /\ faults \in Nat

\* docs/jobs-and-services.md: "One instance runs per label, guarded by" the pid
\* file: through crashes, reboots, reused pids and requests at any moment, two
\* processes of one service run only if one of them was spawned and never got
\* its pid file.
OneInstance ==
    \A p, q \in live \ unguarded : of[p] = of[q] => p = q

\* A graceful shutdown does not go on to close sessions, and then to exit,
\* while a service that existed when it began is running or waiting to be
\* restarted: only one started by a request during the shutdown is.
ShutdownStopsServices ==
    phase = "closing" => Running \subseteq late

\* The idle timer runs only through time without sessions and sockets: any
\* that came and went restarted it ("for the whole window", chat harness plan).
IdleWindowUnbroken == timer => peers = 0

\* A service that crashed is run again, unless it is stopped or the daemon
\* ends; a failure to spawn does not end the loop.
CrashedServiceRestarts ==
    \A l \in Label :
        state[l] = "backoff" ~> (state[l] = "running" \/ l \in aborted \/ phase = "down"
                                  \/ (state[l] = "stopped" /\ unguarded # {}))

\* A shutdown ends, whatever requests, crashes of scripts and stalled sockets
\* come meanwhile.
ShutdownCompletes == phase = "stopping" ~> phase = "down"
===============================================================================
