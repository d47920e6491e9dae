------------------------------ MODULE Supervisor -------------------------------
(***************************************************************************)
(* services/supervisor.ts: the long-running scripts the daemon keeps       *)
(* alive.  Each start makes an entry and a loop that spawns the script,    *)
(* awaits its exit, and spawns it again after a backoff unless it exited   *)
(* cleanly or was stopped.  A pid file per label outlives the daemon and   *)
(* is what a later daemon has to recognise an instance by.                 *)
(*                                                                         *)
(* The processes are the operating system's: they die on their own or by   *)
(* a signal, they survive the daemon, and a dead one's pid may be reused.  *)
(* The module holds the state and the steps; DaemonLife composes them with *)
(* the life of the daemon.                                                 *)
(***************************************************************************)
EXTENDS Naturals, FiniteSets

CONSTANTS
    Label,      \* declared services
    Pid,        \* process ids
    NoPid

ASSUME PidAssumption == NoPid \notin Pid

VARIABLES
    live,       \* pids of running service processes
    foreign,    \* pids of running processes that are no service
    of,         \* of[p]: the service p runs or last ran
    dying,      \* processes sent SIGTERM, with the SIGKILL to come
    unguarded,  \* processes left running without a pid file
    pidFile,    \* pidFile[l]: content of services/<l>.pid, or NoPid
    state,      \* state[l]: the entry's state, "none" without one
    pid,        \* pid[l]: entry.pid, or NoPid
    clean,      \* clean[l]: the process of the entry exited with code 0
    aborted     \* labels whose entry's signal is aborted

processes == <<live, foreign, of, dying, unguarded>>
supervisorVars == <<processes, pidFile, state, pid, clean, aborted>>

NoEntries ==
    /\ state = [l \in Label |-> "none"]
    /\ pid = [l \in Label |-> NoPid]
    /\ clean = [l \in Label |-> FALSE]
    /\ aborted = {}

SupervisorInit ==
    /\ live = {}
    /\ foreign = {}
    /\ of \in [Pid -> Label]
    /\ dying = {}
    /\ unguarded = {}
    /\ pidFile = [l \in Label |-> NoPid]
    /\ NoEntries

\* process.kill(pid, 0): whatever runs under the pid.
IsAlive(p) == p \in live \cup foreign

Entries == {l \in Label : state[l] # "none"}

\* Bound: foreign and forgotten processes leave each service a pid.
PidsLeft == Cardinality(foreign \cup unguarded) + Cardinality(Label) < Cardinality(Pid)

\* runningCount.
Running == {l \in Label : state[l] \in {"running", "backoff"}}

-------------------------------------------------------------------------------
(***************************************************************************)
(* One round of the loop.                                                  *)
(***************************************************************************)
\* A pid is free again once the parent of its dead process has reaped it.
FreePid(p) == ~IsAlive(p) /\ \A l \in Label : pid[l] # p

Spawned(l, p) ==
    /\ FreePid(p)
    /\ live' = live \cup {p}
    /\ of' = [of EXCEPT ![p] = l]

\* Spawned, pid file written, entry running.
Launches(l, p) ==
    /\ Spawned(l, p)
    /\ pidFile' = [pidFile EXCEPT ![l] = p]
    /\ state' = [state EXCEPT ![l] = "running"]
    /\ pid' = [pid EXCEPT ![l] = p]
    /\ unguarded' = unguarded \ {p}
    /\ UNCHANGED <<foreign, dying>>

\* Spawned, but the pid file cannot be written: supervise rejects, the entry
\* is stopped and nobody remembers the process.
LosesProcess(l, p) ==
    /\ PidsLeft
    /\ Spawned(l, p)
    /\ unguarded' = unguarded \cup {p}
    /\ state' = [state EXCEPT ![l] = "stopped"]
    /\ pid' = [pid EXCEPT ![l] = NoPid]
    /\ pidFile' = [pidFile EXCEPT ![l] = NoPid]
    /\ UNCHANGED <<foreign, dying>>

\* Mutant of FailsToSpawn: the failure is taken for an exit that was asked for.
FailsForGood(l) ==
    /\ state' = [state EXCEPT ![l] = "stopped"]
    /\ pid' = [pid EXCEPT ![l] = NoPid]
    /\ pidFile' = [pidFile EXCEPT ![l] = NoPid]
    /\ UNCHANGED processes

\* Bun.spawn or the log file fails: a failure like any other, back off.
FailsToSpawn(l) ==
    /\ state' = [state EXCEPT ![l] = "backoff"]
    /\ pid' = [pid EXCEPT ![l] = NoPid]
    /\ pidFile' = [pidFile EXCEPT ![l] = NoPid]
    /\ UNCHANGED processes

\* Mutant of StaleInstance: the pid file is not read.
NoStaleInstance(l) == FALSE

\* staleInstance: the pid file names a live process, of whatever program.
StaleInstance(l) == pidFile[l] # NoPid /\ IsAlive(pidFile[l])

\* start's conflicts, passed.  A dead pid file is removed on the way; the
\* launch overwrites it or leaves none.
CanStart(l) == state[l] \in {"none", "stopped"} /\ ~StaleInstance(l)

\* start: a new entry, whose loop runs up to its first await.
FreshEntry(l) ==
    /\ clean' = [clean EXCEPT ![l] = FALSE]
    /\ aborted' = aborted \ {l}

\* The script ends by itself, or by a signal it was sent.
ProcessExits(p, ok) ==
    /\ p \in live
    /\ live' = live \ {p}
    /\ dying' = dying \ {p}
    /\ unguarded' = unguarded \ {p}
    /\ clean' = [l \in Label |-> IF pid[l] = p THEN ok ELSE clean[l]]
    /\ UNCHANGED <<foreign, of, pidFile, state, pid, aborted>>

\* The loop learns of the exit: the pid file goes, and the loop ends if it was
\* stopped or the exit was clean, else it backs off.
LoopReaps(l) ==
    /\ state[l] = "running"
    /\ pid[l] \notin live
    /\ pidFile' = [pidFile EXCEPT ![l] = NoPid]
    /\ pid' = [pid EXCEPT ![l] = NoPid]
    /\ state' = [state EXCEPT ![l] =
                   IF l \in aborted \/ clean[l] THEN "stopped" ELSE "backoff"]
    /\ UNCHANGED <<processes, clean, aborted>>

\* The backoff ends: by its timer, when the loop goes round...
BackoffEnds(l) ==
    /\ state[l] = "backoff"
    /\ l \notin aborted
    /\ UNCHANGED <<clean, aborted>>

\* ...or by the abort, when it ends.
BackoffAborts(l) ==
    /\ state[l] = "backoff"
    /\ l \in aborted
    /\ state' = [state EXCEPT ![l] = "stopped"]
    /\ UNCHANGED <<processes, pidFile, pid, clean, aborted>>

\* Mutant of Stopping: a stop that signals the process and not the loop.
StoppingProcessOnly(L) ==
    /\ dying' = dying \cup ({pid[l] : l \in L} \cap live)
    /\ UNCHANGED <<live, foreign, of, unguarded, pidFile, state, pid, clean, aborted>>

\* stop of the entries L, up to its await.
Stopping(L) ==
    /\ aborted' = aborted \cup L
    /\ dying' = dying \cup ({pid[l] : l \in L} \cap live)
    /\ UNCHANGED <<live, foreign, of, unguarded, pidFile, state, pid, clean>>

-------------------------------------------------------------------------------
(***************************************************************************)
(* The operating system.                                                   *)
(***************************************************************************)
\* Some other program gets the pid of a dead process, and ends later.
PidReused(p) ==
    /\ PidsLeft
    /\ FreePid(p)
    /\ foreign' = foreign \cup {p}
    /\ UNCHANGED <<live, of, dying, unguarded, pidFile, state, pid, clean, aborted>>

ForeignExits(p) ==
    /\ p \in foreign
    /\ foreign' = foreign \ {p}
    /\ UNCHANGED <<live, of, dying, unguarded, pidFile, state, pid, clean, aborted>>

\* The user follows the refusal's advice: "delete the file if that pid is not
\* the service".
PidFileDeleted(l) ==
    /\ pidFile[l] \in foreign
    /\ pidFile' = [pidFile EXCEPT ![l] = NoPid]
    /\ UNCHANGED <<processes, state, pid, clean, aborted>>
===============================================================================
