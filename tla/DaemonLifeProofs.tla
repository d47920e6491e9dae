--------------------------- MODULE DaemonLifeProofs ----------------------------
(***************************************************************************)
(* For every set of labels and pids and any number of faults: one instance *)
(* per label, a shutdown that leaves no service it knew of running, and an *)
(* idle timer that runs only through time without peers.                   *)
(*                                                                         *)
(* OneInstance is not inductive: the argument is that a process with a pid *)
(* file is the one its label's file names, which survives a restart of the *)
(* daemon, and that the running loop's own pid is that name.               *)
(***************************************************************************)
EXTENDS DaemonLife, TLAPS

SupervisorTypeOK ==
    /\ live \subseteq Pid
    /\ foreign \subseteq Pid
    /\ of \in [Pid -> Label]
    /\ pidFile \in [Label -> Pid \cup {NoPid}]
    /\ state \in [Label -> {"none", "running", "backoff", "stopped"}]
    /\ pid \in [Label -> Pid \cup {NoPid}]

\* A live process that got its pid file is the one the file names.
FileNamesInstance == \A p \in live \ unguarded : pidFile[of[p]] = p

\* A running entry's pid is in the file, and one in backoff has no file.
FileFollowsLoop ==
    \A l \in Label :
        /\ state[l] = "running" => pidFile[l] = pid[l]
        /\ state[l] = "backoff" => pidFile[l] = NoPid

\* Nobody else runs under the pid of a service, or under one not yet reaped.
PidsOwned ==
    /\ live \cap foreign = {}
    /\ \A l \in Label : pid[l] \notin foreign

InstanceInv ==
    /\ SupervisorTypeOK
    /\ FileNamesInstance
    /\ FileFollowsLoop
    /\ PidsOwned

\* What the invariant reads.
instanceVars == <<live, foreign, of, unguarded, pidFile, state, pid>>

-------------------------------------------------------------------------------
\* The invariant gives the property: two guarded processes of a label are both
\* the one its file names.
LEMMA InvImpliesOneInstance == InstanceInv => OneInstance
  BY DEF InstanceInv, OneInstance, FileNamesInstance

LEMMA InitInstanceInv == Init => InstanceInv
  BY DEF Init, SupervisorInit, NoEntries, InstanceInv, SupervisorTypeOK,
         FileNamesInstance, FileFollowsLoop, PidsOwned

\* A label that may start, or whose loop is in backoff, has no guarded process.
LEMMA NobodyRuns ==
  ASSUME InstanceInv, NEW l \in Label, CanStart(l) \/ state[l] = "backoff"
  PROVE  \A q \in live \ unguarded : of[q] # l
  BY PidAssumption DEF InstanceInv, SupervisorTypeOK, FileNamesInstance,
     FileFollowsLoop, CanStart, StaleInstance, IsAlive

\* A spawn that is given its pid file.
LEMMA LaunchesKeeps ==
  ASSUME InstanceInv, NEW l \in Label, CanStart(l) \/ state[l] = "backoff",
         NEW p \in Pid, Launches(l, p)
  PROVE  InstanceInv'
<1>1. SupervisorTypeOK'
  BY DEF InstanceInv, SupervisorTypeOK, Launches, Spawned
<1>2. FileNamesInstance'
  BY NobodyRuns DEF InstanceInv, SupervisorTypeOK, FileNamesInstance, Launches, Spawned,
     FreePid, IsAlive
<1>3. FileFollowsLoop'
  BY DEF InstanceInv, SupervisorTypeOK, FileFollowsLoop, Launches, Spawned
<1>4. PidsOwned'
  BY DEF InstanceInv, SupervisorTypeOK, PidsOwned, Launches, Spawned, FreePid, IsAlive
<1>5. QED  BY <1>1, <1>2, <1>3, <1>4 DEF InstanceInv

\* A spawn whose pid file is lost.
LEMMA LosesProcessKeeps ==
  ASSUME InstanceInv, NEW l \in Label, CanStart(l) \/ state[l] = "backoff",
         NEW p \in Pid, LosesProcess(l, p)
  PROVE  InstanceInv'
<1>1. SupervisorTypeOK'
  BY DEF InstanceInv, SupervisorTypeOK, LosesProcess, Spawned
<1>2. FileNamesInstance'
  BY NobodyRuns DEF InstanceInv, SupervisorTypeOK, FileNamesInstance, LosesProcess, Spawned,
     FreePid, IsAlive
<1>3. FileFollowsLoop'
  BY DEF InstanceInv, SupervisorTypeOK, FileFollowsLoop, LosesProcess, Spawned
<1>4. PidsOwned'
  BY PidAssumption DEF InstanceInv, SupervisorTypeOK, PidsOwned, LosesProcess, Spawned,
     FreePid, IsAlive
<1>5. QED  BY <1>1, <1>2, <1>3, <1>4 DEF InstanceInv

\* A launch, whatever comes of it.
LEMMA LaunchKeeps ==
  ASSUME InstanceInv, NEW l \in Label, CanStart(l) \/ state[l] = "backoff", Launch(l)
  PROVE  InstanceInv'
<1>1. CASE \E p \in Pid : Launches(l, p)
  BY <1>1, LaunchesKeeps
<1>2. CASE \E p \in Pid : LosesProcess(l, p)
  BY <1>2, LosesProcessKeeps
<1>3. CASE FailsToSpawn(l)
  BY <1>3, NobodyRuns, PidAssumption DEF InstanceInv, SupervisorTypeOK, FileNamesInstance,
     FileFollowsLoop, PidsOwned, FailsToSpawn, processes
<1>4. QED  BY <1>1, <1>2, <1>3 DEF Launch

\* The end of the daemon, with or without a spawn cut short.
LEMMA GoneKeeps ==
  ASSUME InstanceInv, Gone, UNCHANGED <<processes, pidFile>>
  PROVE  InstanceInv'
  BY PidAssumption DEF InstanceInv, SupervisorTypeOK, FileNamesInstance, FileFollowsLoop,
     PidsOwned, Gone, processes

LEMMA CrashWhileLaunchingKeeps ==
  ASSUME InstanceInv, NEW l \in Label, NEW p \in Pid, CrashWhileLaunching(l, p)
  PROVE  InstanceInv'
<1>1. CanStart(l) \/ state[l] = "backoff"
  BY DEF CrashWhileLaunching
<1>2. SupervisorTypeOK'
  BY DEF InstanceInv, SupervisorTypeOK, CrashWhileLaunching, Spawned, Gone
<1>3. FileNamesInstance'
  BY <1>1, NobodyRuns DEF InstanceInv, SupervisorTypeOK, FileNamesInstance,
     CrashWhileLaunching, Spawned, FreePid, IsAlive
<1>4. FileFollowsLoop'
  BY DEF FileFollowsLoop, CrashWhileLaunching, Gone
<1>5. PidsOwned'
  BY PidAssumption DEF InstanceInv, SupervisorTypeOK, PidsOwned, CrashWhileLaunching,
     Spawned, FreePid, IsAlive, Gone
<1>6. QED  BY <1>2, <1>3, <1>4, <1>5 DEF InstanceInv

\* The loop finds its process gone.
LEMMA LoopReapsKeeps ==
  ASSUME InstanceInv, NEW l \in Label, LoopReaps(l)
  PROVE  InstanceInv'
<1>1. \A q \in live \ unguarded : of[q] # l
  BY DEF InstanceInv, FileNamesInstance, FileFollowsLoop, LoopReaps
<1>2. SupervisorTypeOK'
  BY DEF InstanceInv, SupervisorTypeOK, LoopReaps, processes
<1>3. FileNamesInstance'
  BY <1>1 DEF InstanceInv, SupervisorTypeOK, FileNamesInstance, LoopReaps, processes
<1>4. FileFollowsLoop'
  BY DEF InstanceInv, SupervisorTypeOK, FileFollowsLoop, LoopReaps, processes
<1>5. PidsOwned'
  BY PidAssumption DEF InstanceInv, SupervisorTypeOK, PidsOwned, LoopReaps, processes
<1>6. QED  BY <1>2, <1>3, <1>4, <1>5 DEF InstanceInv

\* A deleted file named no service.
LEMMA PidFileDeletedKeeps ==
  ASSUME InstanceInv, NEW l \in Label, PidFileDeleted(l)
  PROVE  InstanceInv'
<1>1. \A q \in live \ unguarded : of[q] # l
  BY DEF InstanceInv, FileNamesInstance, PidsOwned, PidFileDeleted
<1>2. state[l] # "running"
  BY DEF InstanceInv, FileFollowsLoop, PidsOwned, PidFileDeleted
<1>3. SupervisorTypeOK'
  BY DEF InstanceInv, SupervisorTypeOK, PidFileDeleted, processes
<1>4. FileNamesInstance'
  BY <1>1 DEF InstanceInv, SupervisorTypeOK, FileNamesInstance, PidFileDeleted, processes
<1>5. FileFollowsLoop'
  BY <1>2 DEF InstanceInv, SupervisorTypeOK, FileFollowsLoop, PidFileDeleted, processes
<1>6. PidsOwned'
  BY DEF InstanceInv, PidsOwned, PidFileDeleted, processes
<1>7. QED  BY <1>3, <1>4, <1>5, <1>6 DEF InstanceInv

\* The steps of the operating system.
LEMMA SystemStepKeeps ==
  ASSUME InstanceInv,
         \/ \E p \in live, ok \in BOOLEAN : ProcessExits(p, ok)
         \/ \E p \in Pid : PidReused(p)
         \/ \E p \in foreign : ForeignExits(p)
  PROVE  InstanceInv'
<1>1. CASE \E p \in live, ok \in BOOLEAN : ProcessExits(p, ok)
  BY <1>1 DEF InstanceInv, SupervisorTypeOK, FileNamesInstance, FileFollowsLoop, PidsOwned,
     ProcessExits
<1>2. CASE \E p \in Pid : PidReused(p)
  BY <1>2 DEF InstanceInv, SupervisorTypeOK, FileNamesInstance, FileFollowsLoop, PidsOwned,
     PidReused, FreePid, IsAlive
<1>3. CASE \E p \in foreign : ForeignExits(p)
  BY <1>3 DEF InstanceInv, SupervisorTypeOK, FileNamesInstance, FileFollowsLoop, PidsOwned,
     ForeignExits
<1>4. QED  BY <1>1, <1>2, <1>3

\* Steps that touch none of it.
LEMMA StutterKeeps == ASSUME InstanceInv, UNCHANGED instanceVars PROVE InstanceInv'
  BY DEF InstanceInv, SupervisorTypeOK, FileNamesInstance, FileFollowsLoop, PidsOwned,
     instanceVars

LEMMA NextInstanceInv == ASSUME InstanceInv, [Next]_vars PROVE InstanceInv'
<1> USE DEF supervisorVars, processes, instanceVars
<1>1. CASE \E l \in Label : Autostarts(l)
  <2>1. PICK l \in Label : Autostarts(l)
    BY <1>1
  <2>2. CASE CanStart(l)
    BY <2>1, <2>2, LaunchKeeps DEF Autostarts
  <2>3. CASE ~CanStart(l)
    BY <2>1, <2>3, StutterKeeps DEF Autostarts
  <2>4. QED  BY <2>2, <2>3
<1>2. CASE \E l \in Label : StartRequest(l)
  BY <1>2, LaunchKeeps DEF StartRequest
<1>3. CASE \E l \in Label : Restart(l)
  BY <1>3, LaunchKeeps DEF Restart, BackoffEnds
<1>4. CASE \E l \in Label : Reap(l)
  BY <1>4, LoopReapsKeeps DEF Reap
<1>5. CASE \E l \in Label : GiveUp(l)
  BY <1>5 DEF GiveUp, BackoffAborts, InstanceInv, SupervisorTypeOK, FileNamesInstance,
     FileFollowsLoop, PidsOwned
<1>6. CASE Exit \/ Crash
  BY <1>6, GoneKeeps DEF Exit, Crash
<1>7. CASE \E l \in Label, p \in Pid : CrashWhileLaunching(l, p)
  BY <1>7, CrashWhileLaunchingKeeps
<1>8. CASE \/ \E p \in live, ok \in BOOLEAN : ScriptExits(p, ok)
           \/ \E p \in Pid : PidReused(p) /\ UNCHANGED lifeVars
           \/ \E p \in foreign : ForeignExits(p) /\ UNCHANGED lifeVars
  BY <1>8, SystemStepKeeps DEF ScriptExits
<1>9. CASE \E l \in Label : PidFileDeleted(l) /\ UNCHANGED lifeVars
  BY <1>9, PidFileDeletedKeeps
<1>10. CASE Boot \/ Serve \/ JobsChange \/ CloseSessions \/ SendSettles \/ UNCHANGED vars
            \/ \E n \in 0..MaxPeers : PeersChange(n)
  BY <1>10, StutterKeeps DEF Boot, Serve, JobsChange, CloseSessions, SendSettles,
     PeersChange, vars
<1>11. CASE Signalled \/ IdleExpires \/ \E l \in Label : StopRequest(l)
  BY <1>11, StutterKeeps DEF Signalled, IdleExpires, BeginShutdown, StopRequest, Stopping
<1>12. QED
  BY <1>1, <1>2, <1>3, <1>4, <1>5, <1>6, <1>7, <1>8, <1>9, <1>10, <1>11 DEF Next

(***************************************************************************)
(* Through crashes, reboots, reused pids and requests at any moment, two   *)
(* processes of one service run only if one was spawned and never got its  *)
(* pid file (docs/jobs-and-services.md: "One instance runs per label").    *)
(***************************************************************************)
THEOREM OneInstanceAlways == Spec => []OneInstance
<1>1. Init => InstanceInv
  BY InitInstanceInv
<1>2. InstanceInv /\ [Next]_vars => InstanceInv'
  BY NextInstanceInv
<1>3. InstanceInv => OneInstance
  BY InvImpliesOneInstance
<1>4. QED  BY <1>1, <1>2, <1>3, PTL DEF Spec
-------------------------------------------------------------------------------
(***************************************************************************)
(* Type correctness of the daemon's life.                                  *)
(***************************************************************************)
State == {"none", "running", "backoff", "stopped"}

\* A launch keeps the types of what it changes; the rest is given.
LEMMA LaunchTypes ==
  ASSUME LifeTypeOK, NEW l \in Label, Launch(l),
         aborted' \subseteq aborted, clean' \in [Label -> BOOLEAN]
  PROVE  /\ live' \subseteq Pid /\ foreign' \subseteq Pid \ live'
         /\ dying' \subseteq live' /\ unguarded' \subseteq live'
         /\ of' \in [Pid -> Label]
         /\ pidFile' \in [Label -> Pid \cup {NoPid}]
         /\ state' \in [Label -> State]
         /\ pid' \in [Label -> Pid \cup {NoPid}]
         /\ clean' \in [Label -> BOOLEAN]
         /\ aborted' \subseteq {m \in Label : state'[m] # "none"}
         /\ faults' \in Nat
<1> USE DEF LifeTypeOK, State, Entries
<1>1. \E s \in State \ {"none"} : state' = [state EXCEPT ![l] = s]
  BY DEF Launch, Launches, LosesProcess, FailsToSpawn
<1>2. state' \in [Label -> State] /\ \A m \in aborted' : m \in Label /\ state'[m] # "none"
  BY <1>1
<1>3. faults' \in Nat
  BY DEF Launch, Fault
<1>4. CASE \E p \in Pid : Launches(l, p) \/ LosesProcess(l, p)
  BY <1>2, <1>3, <1>4 DEF Launches, LosesProcess, Spawned, FreePid, IsAlive
<1>5. CASE FailsToSpawn(l)
  BY <1>2, <1>3, <1>5 DEF FailsToSpawn, processes
<1>. QED BY <1>4, <1>5 DEF Launch

LEMMA GoneTypes ==
  ASSUME LifeTypeOK, Gone, jobsOn' = jobsOn, faults' \in Nat,
         live' \subseteq Pid, foreign' \subseteq Pid \ live', dying' \subseteq live',
         unguarded' \subseteq live', of' \in [Pid -> Label],
         pidFile' \in [Label -> Pid \cup {NoPid}]
  PROVE  LifeTypeOK'
<1>1. /\ state' \in [Label -> State] /\ pid' \in [Label -> Pid \cup {NoPid}]
      /\ clean' \in [Label -> BOOLEAN] /\ aborted' = {}
  BY DEF Gone, State
<1>2. peers' \in 0..MaxPeers /\ unsent' \in 0..peers'
  BY LifeAssumption DEF Gone
<1>. QED BY <1>1, <1>2 DEF Gone, LifeTypeOK, State, Entries

LEMMA LifeTypeInit == Init => LifeTypeOK
<1> SUFFICES ASSUME Init PROVE LifeTypeOK
  OBVIOUS
<1>1. /\ state \in [Label -> State] /\ clean \in [Label -> BOOLEAN]
      /\ pid \in [Label -> Pid \cup {NoPid}] /\ pidFile \in [Label -> Pid \cup {NoPid}]
      /\ of \in [Pid -> Label]
  BY DEF Init, SupervisorInit, NoEntries, State
<1>2. peers \in 0..MaxPeers /\ unsent \in 0..peers
  BY LifeAssumption DEF Init
<1>3. /\ live = {} /\ foreign = {} /\ dying = {} /\ unguarded = {} /\ aborted = {}
      /\ phase = "down" /\ toStart = {} /\ waitFor = {} /\ late = {}
      /\ jobsOn = FALSE /\ timer = FALSE /\ faults = 0
  BY DEF Init, SupervisorInit, NoEntries
<1>. QED BY <1>1, <1>2, <1>3 DEF LifeTypeOK, State

LEMMA LifeTypeStep == LifeTypeOK /\ [Next]_vars => LifeTypeOK'
<1> SUFFICES ASSUME LifeTypeOK, [Next]_vars PROVE LifeTypeOK'
  OBVIOUS
<1> USE DEF supervisorVars, processes
<1>1. ASSUME NEW l \in Label, Autostarts(l) PROVE LifeTypeOK'
  <2>1. CASE CanStart(l)
    <3>1. Launch(l) /\ aborted' \subseteq aborted /\ clean' \in [Label -> BOOLEAN]
      BY <1>1, <2>1 DEF Autostarts, FreshEntry, LifeTypeOK
    <3>. QED BY <1>1, <3>1, LaunchTypes DEF Autostarts, LifeTypeOK, State, Entries
  <2>2. CASE ~CanStart(l)
    BY <1>1, <2>2 DEF Autostarts, LifeTypeOK, Entries
  <2>. QED BY <2>1, <2>2
<1>2. ASSUME NEW l \in Label, StartRequest(l) PROVE LifeTypeOK'
  <2>1. Launch(l) /\ aborted' \subseteq aborted /\ clean' \in [Label -> BOOLEAN]
    BY <1>2 DEF StartRequest, FreshEntry, LifeTypeOK
  <2>2. late' \subseteq Label
    BY <1>2 DEF StartRequest, LifeTypeOK
  <2>. QED BY <1>2, <2>1, <2>2, LaunchTypes DEF StartRequest, LifeTypeOK, State, Entries
<1>3. ASSUME NEW l \in Label, Restart(l) PROVE LifeTypeOK'
  <2>1. Launch(l) /\ aborted' \subseteq aborted /\ clean' \in [Label -> BOOLEAN]
    BY <1>3 DEF Restart, BackoffEnds, LifeTypeOK
  <2>2. waitFor' \subseteq Label
    BY <1>3 DEF Restart, Ended, LifeTypeOK
  <2>. QED BY <1>3, <2>1, <2>2, LaunchTypes DEF Restart, LifeTypeOK, State, Entries
<1>4. ASSUME NEW l \in Label, Reap(l) \/ GiveUp(l) PROVE LifeTypeOK'
  <2>1. \E s \in State \ {"none"} : state' = [state EXCEPT ![l] = s]
    BY <1>4 DEF Reap, LoopReaps, GiveUp, BackoffAborts, State
  <2>2. /\ state' \in [Label -> State]
        /\ aborted' \subseteq {m \in Label : state'[m] # "none"}
    <3>1. aborted' = aborted
      BY <1>4 DEF Reap, LoopReaps, GiveUp, BackoffAborts
    <3>. QED BY <2>1, <3>1 DEF LifeTypeOK, Entries, State
  <2>3. waitFor' \subseteq Label /\ pid' \in [Label -> Pid \cup {NoPid}]
        /\ pidFile' \in [Label -> Pid \cup {NoPid}]
    BY <1>4 DEF Reap, LoopReaps, GiveUp, BackoffAborts, Ended, LifeTypeOK
  <2>4. UNCHANGED <<processes, clean, phase, toStart, late, peers, unsent, jobsOn, timer, faults>>
    BY <1>4 DEF Reap, LoopReaps, GiveUp, BackoffAborts
  <2>. QED BY <2>2, <2>3, <2>4 DEF LifeTypeOK, Entries, State
<1>5. ASSUME NEW L \in SUBSET Entries, Stopping(L), peers' = peers, unsent' = unsent,
             toStart' = toStart, jobsOn' = jobsOn, faults' = faults,
             phase' \in {"down", "booting", "serving", "stopping", "closing"},
             timer' \in BOOLEAN, waitFor' \subseteq Label, late' \subseteq Label
      PROVE  LifeTypeOK'
  BY <1>5 DEF Stopping, LifeTypeOK, Entries
<1>6. ASSUME NEW l \in Label, StopRequest(l) PROVE LifeTypeOK'
  <2>1. {l} \in SUBSET Entries
    BY <1>6 DEF StopRequest, Entries
  <2>. QED BY <1>5, <1>6, <2>1 DEF StopRequest, lifeVars, LifeTypeOK
<1>7. ASSUME BeginShutdown, UNCHANGED <<toStart, peers, unsent, jobsOn, faults>>
      PROVE  LifeTypeOK'
  <2>1. waitFor' \subseteq Label
    BY <1>7 DEF BeginShutdown, Running
  <2>. QED BY <1>5, <1>7, <2>1 DEF BeginShutdown, StoppedByShutdown
<1>8. CASE Signalled \/ IdleExpires
  <2>1. CASE BeginShutdown
    BY <1>7, <1>8, <2>1 DEF Signalled, IdleExpires
  <2>2. CASE ~BeginShutdown
    BY <1>8, <2>2 DEF Signalled, IdleExpires, LifeTypeOK, Entries
  <2>. QED BY <2>1, <2>2
<1>9. CASE Boot \/ Serve \/ JobsChange
  BY <1>9 DEF Boot, Serve, JobsChange, IsIdle, LifeTypeOK, Entries
<1>10. ASSUME NEW n \in 0..MaxPeers, PeersChange(n) PROVE LifeTypeOK'
  <2>1. peers' \in 0..MaxPeers /\ unsent' \in 0..peers'
    BY <1>10, LifeAssumption DEF PeersChange, DrainWaiters, LifeTypeOK
  <2>2. timer' \in BOOLEAN
    BY <1>10 DEF PeersChange, Activity, IsIdle
  <2>. QED BY <1>10, <2>1, <2>2 DEF PeersChange, LifeTypeOK, Entries
<1>11. CASE CloseSessions \/ SendSettles
  <2>1. unsent' \in 0..peers' /\ peers' = peers
    BY <1>11, LifeAssumption DEF CloseSessions, SendSettles, LifeTypeOK
  <2>. QED BY <1>11, <2>1 DEF CloseSessions, SendSettles, LifeTypeOK, Entries
<1>12. CASE Exit \/ Crash
  BY <1>12, GoneTypes DEF Exit, Crash, Fault, LifeTypeOK
<1>13. ASSUME NEW l \in Label, NEW p \in Pid, CrashWhileLaunching(l, p) PROVE LifeTypeOK'
  <2>1. /\ live' = live \cup {p} /\ p \notin foreign /\ of' \in [Pid -> Label]
        /\ unguarded' = unguarded \cup {p} /\ foreign' = foreign /\ dying' = dying
    BY <1>13 DEF CrashWhileLaunching, Spawned, FreePid, IsAlive, LifeTypeOK
  <2>2. pidFile' \in [Label -> Pid \cup {NoPid}] /\ faults' \in Nat /\ Gone /\ jobsOn' = jobsOn
    BY <1>13 DEF CrashWhileLaunching, Fault, LifeTypeOK
  <2>3. live' \subseteq Pid /\ foreign' \subseteq Pid \ live' /\ dying' \subseteq live'
        /\ unguarded' \subseteq live'
    BY <2>1 DEF LifeTypeOK
  <2>. QED BY <2>1, <2>2, <2>3, GoneTypes
<1>14. ASSUME NEW p \in live, NEW ok \in BOOLEAN, ScriptExits(p, ok) PROVE LifeTypeOK'
  BY <1>14 DEF ScriptExits, ProcessExits, lifeVars, LifeTypeOK, Entries
<1>15. CASE \/ \E p \in Pid : PidReused(p) /\ UNCHANGED lifeVars
            \/ \E p \in foreign : ForeignExits(p) /\ UNCHANGED lifeVars
            \/ \E l \in Label : PidFileDeleted(l) /\ UNCHANGED lifeVars
  <2>1. foreign' \subseteq Pid \ live /\ pidFile' \in [Label -> Pid \cup {NoPid}]
    BY <1>15 DEF PidReused, FreePid, IsAlive, ForeignExits, PidFileDeleted, LifeTypeOK
  <2>2. UNCHANGED <<live, of, dying, unguarded, state, pid, clean, aborted, lifeVars>>
    BY <1>15 DEF PidReused, ForeignExits, PidFileDeleted
  <2>. QED BY <2>1, <2>2 DEF lifeVars, LifeTypeOK, Entries
<1>16. CASE UNCHANGED vars
  BY <1>16 DEF vars, lifeVars, LifeTypeOK, Entries
<1>. QED
  BY <1>1, <1>2, <1>3, <1>4, <1>6, <1>8, <1>9, <1>10, <1>11, <1>12, <1>13, <1>14, <1>15, <1>16
     DEF Next

\* Every reachable state of the daemon and its services is type correct.
THEOREM LifeTypeCorrect == Spec => []LifeTypeOK
BY LifeTypeInit, LifeTypeStep, PTL DEF Spec

-------------------------------------------------------------------------------
(***************************************************************************)
(* Shutdown and idleness.  A service that runs during the shutdown is one  *)
(* the shutdown awaits, or was started since; peers are gone while the     *)
(* daemon is down, and nobody connects before it serves.                   *)
(***************************************************************************)
AwaitedInv ==
    /\ phase = "stopping" => Running \subseteq late \cup waitFor
    /\ ShutdownStopsServices

QuietInv ==
    /\ phase \in {"down", "booting"} => peers = 0
    /\ IdleWindowUnbroken

\* Loops that end a round, and a restart, run no label that did not.
LEMMA RoundRuns ==
  ASSUME LifeTypeOK, NEW l \in Label, Reap(l) \/ Restart(l) \/ GiveUp(l)
  PROVE  /\ Running' \subseteq Running /\ phase' = phase /\ late' = late
         /\ waitFor' = waitFor \/ (waitFor' = waitFor \ {l} /\ l \notin Running')
<1> USE DEF LifeTypeOK, State
<1>1. l \in Running /\ \E s \in State : state' = [state EXCEPT ![l] = s]
  BY DEF Reap, LoopReaps, Restart, BackoffEnds, GiveUp, BackoffAborts, Running,
     Launch, Launches, LosesProcess, FailsToSpawn
<1>2. Running' \subseteq Running
  BY <1>1 DEF Running
<1>3. phase' = phase /\ late' = late /\ Ended(l)
  BY DEF Reap, Restart, GiveUp
<1>. QED BY <1>2, <1>3 DEF Ended, Running

LEMMA AwaitedStep == LifeTypeOK /\ AwaitedInv /\ [Next]_vars => AwaitedInv'
<1> SUFFICES ASSUME LifeTypeOK, AwaitedInv, [Next]_vars PROVE AwaitedInv'
  OBVIOUS
<1> USE DEF AwaitedInv, ShutdownStopsServices
<1>1. ASSUME NEW l \in Label, StartRequest(l) PROVE AwaitedInv'
  <2>1. \E s \in State : state' = [state EXCEPT ![l] = s]
    BY <1>1 DEF StartRequest, Launch, Launches, LosesProcess, FailsToSpawn, State
  <2>2. Running' \subseteq Running \cup {l}
    BY <2>1 DEF Running, LifeTypeOK
  <2>3. phase' = phase /\ waitFor' = waitFor /\ (phase # "serving" => late' = late \cup {l})
    BY <1>1 DEF StartRequest
  <2>. QED BY <2>2, <2>3
<1>2. ASSUME NEW l \in Label, Reap(l) \/ Restart(l) \/ GiveUp(l) PROVE AwaitedInv'
  BY <1>2, RoundRuns
<1>3. CASE BeginShutdown
  <2>1. Running \subseteq Entries /\ Running' = Running /\ phase' = "stopping"
    BY <1>3 DEF BeginShutdown, Stopping, Running, Entries
  <2>2. waitFor' = Running
    BY <1>3, <2>1 DEF BeginShutdown, StoppedByShutdown
  <2>. QED BY <2>1, <2>2
<1>4. CASE ~BeginShutdown /\ (IdleExpires \/ Signalled)
  BY <1>4 DEF IdleExpires, Signalled, supervisorVars, Running
<1>5. CASE CloseSessions
  BY <1>5 DEF CloseSessions, supervisorVars, Running
<1>6. CASE \/ Boot \/ Serve \/ Exit \/ Crash
           \/ \E l \in Label : Autostarts(l)
           \/ \E l \in Label, p \in Pid : CrashWhileLaunching(l, p)
  <2>1. phase' \in {"down", "booting", "serving"}
    BY <1>6 DEF Boot, Serve, Exit, Crash, Gone, Autostarts, CrashWhileLaunching
  <2>. QED BY <2>1
<1>7. CASE \/ JobsChange \/ SendSettles \/ UNCHANGED vars
           \/ \E l \in Label : StopRequest(l)
           \/ \E n \in 0..MaxPeers : PeersChange(n)
           \/ \E p \in live, ok \in BOOLEAN : ScriptExits(p, ok)
           \/ \E p \in Pid : PidReused(p) /\ UNCHANGED lifeVars
           \/ \E p \in foreign : ForeignExits(p) /\ UNCHANGED lifeVars
           \/ \E l \in Label : PidFileDeleted(l) /\ UNCHANGED lifeVars
  <2>1. UNCHANGED <<phase, state, waitFor, late>>
    BY <1>7 DEF JobsChange, SendSettles, StopRequest, Stopping, PeersChange, ScriptExits,
       ProcessExits, PidReused, ForeignExits, PidFileDeleted, lifeVars, supervisorVars, vars
  <2>. QED BY <2>1 DEF Running
<1>. QED BY <1>1, <1>2, <1>3, <1>4, <1>5, <1>6, <1>7 DEF Next

LEMMA QuietStep == QuietInv /\ [Next]_vars => QuietInv'
<1> SUFFICES ASSUME QuietInv, [Next]_vars PROVE QuietInv'
  OBVIOUS
<1> USE DEF QuietInv, IdleWindowUnbroken
<1>1. CASE Boot
  BY <1>1 DEF Boot
<1>2. ASSUME NEW n \in 0..MaxPeers, PeersChange(n) PROVE QuietInv'
  BY <1>2 DEF PeersChange, Activity, IsIdle, Listening
<1>3. CASE Exit \/ Crash \/ \E l \in Label, p \in Pid : CrashWhileLaunching(l, p)
  BY <1>3 DEF Exit, Crash, CrashWhileLaunching, Gone
<1>4. CASE IdleExpires \/ Signalled \/ CloseSessions
  BY <1>4 DEF IdleExpires, Signalled, BeginShutdown, CloseSessions
<1>5. CASE \/ Serve \/ JobsChange \/ SendSettles \/ UNCHANGED vars
           \/ \E l \in Label : \/ Autostarts(l) \/ StartRequest(l) \/ StopRequest(l)
                               \/ Reap(l) \/ Restart(l) \/ GiveUp(l)
           \/ \E p \in live, ok \in BOOLEAN : ScriptExits(p, ok)
           \/ \E p \in Pid : PidReused(p) /\ UNCHANGED lifeVars
           \/ \E p \in foreign : ForeignExits(p) /\ UNCHANGED lifeVars
           \/ \E l \in Label : PidFileDeleted(l) /\ UNCHANGED lifeVars
  <2>1. UNCHANGED <<peers, timer>> /\ (phase' = phase \/ phase' = "serving")
    BY <1>5 DEF Serve, JobsChange, SendSettles, Autostarts, StartRequest, StopRequest, Reap,
       Restart, GiveUp, ScriptExits, lifeVars, vars
  <2>. QED BY <2>1
<1>. QED BY <1>1, <1>2, <1>3, <1>4, <1>5 DEF Next

\* A graceful shutdown does not close sessions while a service that existed when it
\* began runs or waits to be restarted: stopAll awaits the loop of each.
THEOREM ShutdownLeavesNoService == Spec => []ShutdownStopsServices
<1>1. Init => AwaitedInv
  BY DEF Init, AwaitedInv, ShutdownStopsServices
<1>2. AwaitedInv => ShutdownStopsServices
  BY DEF AwaitedInv
<1>. QED BY <1>1, <1>2, AwaitedStep, LifeTypeCorrect, PTL DEF Spec

\* The idle timer runs only through time without sessions and sockets.
THEOREM IdleWindowHolds == Spec => []IdleWindowUnbroken
<1>1. Init => QuietInv
  BY DEF Init, QuietInv, IdleWindowUnbroken
<1>2. QuietInv => IdleWindowUnbroken
  BY DEF QuietInv
<1>. QED BY <1>1, <1>2, QuietStep, PTL DEF Spec
===============================================================================
