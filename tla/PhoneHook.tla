------------------------------- MODULE PhoneHook -------------------------------
(***************************************************************************)
(* The phone listener's `--on-message` queue (pkg/dg-agent/src/phone:      *)
(* hook.ts, the rows of db.ts it reads, and the life of listener.ts around *)
(* it).  A run delivers unread rows one at a time: a pass walks the rows   *)
(* under the attempt cap and stops to back off at the first failure, a     *)
(* stuck run gives each row at the cap one more attempt.  Calls that come  *)
(* while a run is in flight are remembered in two flags and folded in when *)
(* it ends.                                                                *)
(*                                                                         *)
(* An async function runs synchronously to its first await, and a run      *)
(* awaits only a hook process.  A run that finds nothing to deliver is     *)
(* over, its folded-in successor started, before its caller continues: the *)
(* caller's `current = run()` then overwrites the successor's promise.     *)
(***************************************************************************)
EXTENDS Integers, FiniteSets, FiniteSetsExt

CONSTANTS
    Message,        \* rows, numbered in the order (ts, id) of the queries
    Image,          \* rows whose image is fetched after they are stored
    Private,        \* rows addressed to one agent, which the shared view skips
    Cap,            \* ON_MESSAGE_MAX_ATTEMPTS
    NoMessage,
    MaxCrashes      \* bound

ASSUME HookAssumption ==
    /\ Message \subseteq Nat /\ NoMessage \notin Message
    /\ Image \subseteq Message
    /\ Cap \in Nat \ {0} /\ MaxCrashes \in Nat

VARIABLES
    stored,         \* rows in the database
    unread,         \* rows with read_at NULL
    attempts,       \* attempts[m], up to Cap
    fetching,       \* rows with an image fetch queued
    expired,        \* rows pruned: addMessage refuses them from then on
    run,            \* the run in flight: "none", "pass" or "stuck"
    child,          \* the row its hook process was given, or NoMessage
    rest,           \* what is left of a stuck run's snapshot
    passAgain, stuckAgain,
    timer,          \* cancelRetry is set: a backoff is pending
    current,        \* `current` is the promise of the run in flight
    phase,          \* "down", "starting", "sweeping", "serving", "stopping"
    awaited,        \* the promise the listener awaits is not settled
    orphans,        \* rows whose hook process outlived its listener
    delivered,      \* history: rows the hook exited 0 for
    unrecorded,     \* history: those whose listener did not live to mark them
    crashes

rowVars == <<stored, unread, attempts, fetching, expired>>
runVars == <<run, child, rest, passAgain, stuckAgain, timer, current>>
historyVars == <<orphans, delivered, unrecorded, crashes>>
vars == <<rowVars, runVars, phase, awaited, historyVars>>

-------------------------------------------------------------------------------
(***************************************************************************)
(* The queries, over a state of the rows.                                  *)
(***************************************************************************)
\* nextDeliverable, over all rows instead of the first.
Deliverable(u, a, f) == {m \in u \ f : a[m] < Cap}

\* stuckMessages.
Stuck(u, a, f) == {m \in u \ f : a[m] >= Cap}

First(S) == IF S = {} THEN NoMessage ELSE Min(S)

-------------------------------------------------------------------------------
(***************************************************************************)
(* The runner.  The operators below set runVars from the rows after the    *)
(* step, unread', attempts' and fetching'.                                 *)
(***************************************************************************)
Ready == Deliverable(unread', attempts', fetching')

\* Mutant of Overdue: the sweep takes rows past the cap, where none gets.
OverduePastCap == {m \in unread' \ fetching' : attempts'[m] > Cap}

Overdue == Stuck(unread', attempts', fetching')

Idle(again, sweep, armed) ==
    /\ run' = "none"
    /\ child' = NoMessage
    /\ rest' = {}
    /\ passAgain' = again
    /\ stuckAgain' = sweep
    /\ timer' = armed
    /\ current' = FALSE

\* A pass over at least one row, up to its await.
Pass(again, sweep, mine) ==
    /\ run' = "pass"
    /\ child' = First(Ready)
    /\ rest' = {}
    /\ passAgain' = again
    /\ stuckAgain' = sweep
    /\ timer' = FALSE
    /\ current' = mine

\* A stuck run over at least one row, up to its await.
Sweep(again, sweep, armed, mine) ==
    /\ run' = "stuck"
    /\ child' = First(Overdue)
    /\ rest' = Overdue \ {First(Overdue)}
    /\ passAgain' = again
    /\ stuckAgain' = sweep
    /\ timer' = armed
    /\ current' = mine

\* Mutant of Resume: a coalesced notify is dropped.
ResumeDropsPass(again, sweep, armed, nested) ==
    IF ~armed /\ sweep /\ Overdue # {} THEN Sweep(FALSE, FALSE, FALSE, ~nested)
    ELSE Idle(armed /\ again, armed /\ sweep, armed)

\* Mutant of Resume: a run starts although its predecessor has armed a backoff.
ResumeIntoBackoff(again, sweep, armed, nested) ==
    IF sweep /\ again /\ Ready # {}
    THEN /\ run' = "pass"
         /\ child' = First(Ready)
         /\ rest' = {}
         /\ passAgain' = FALSE
         /\ stuckAgain' = sweep
         /\ timer' = armed
         /\ current' = ~nested
    ELSE Idle(again, sweep, armed)

\* resumeIfAskedAgain, at the end of a run.  `nested` says that the run ends
\* inside the call that began it; a pass with nothing to do ends so, too.
Resume(again, sweep, armed, nested) ==
    IF armed THEN Idle(again, sweep, armed)
    ELSE IF again /\ Ready # {} THEN Pass(FALSE, sweep, ~nested)
    ELSE IF sweep /\ Overdue # {} THEN Sweep(FALSE, FALSE, FALSE, ~nested /\ ~again)
    ELSE Idle(FALSE, FALSE, FALSE)

\* start(pass, "pass") with no run in flight and no backoff.
StartPass(again, sweep) ==
    IF Ready # {} THEN Pass(again, sweep, TRUE) ELSE Resume(again, sweep, FALSE, TRUE)

\* start(stuckPass, "stuck") with no run in flight.
StartSweep ==
    IF Overdue # {} THEN Sweep(passAgain, stuckAgain, timer, TRUE)
                    ELSE Resume(passAgain, stuckAgain, timer, TRUE)

Remember(again, sweep) ==
    /\ passAgain' = again
    /\ stuckAgain' = sweep
    /\ UNCHANGED <<run, child, rest, timer, current>>

\* notify.
Notify ==
    IF timer \/ run # "none" THEN Remember(TRUE, stuckAgain)
                             ELSE StartPass(passAgain, stuckAgain)

\* retryStuck.
RetryStuck ==
    IF run # "none" THEN Remember(passAgain, TRUE) ELSE StartSweep

\* Is a run in flight whose promise the caller was handed?
Handed == run' # "none" /\ current'

\* The run in flight ends; once the runner is stopped nothing follows.
EndRun(armed) ==
    IF phase = "stopping" THEN Idle(passAgain, stuckAgain, armed)
                          ELSE Resume(passAgain, stuckAgain, armed, FALSE)

-------------------------------------------------------------------------------
Init ==
    /\ stored = {} /\ unread = {} /\ fetching = {} /\ expired = {}
    /\ attempts = [m \in Message |-> 0]
    /\ run = "none" /\ child = NoMessage /\ rest = {}
    /\ passAgain = FALSE /\ stuckAgain = FALSE /\ timer = FALSE /\ current = FALSE
    /\ phase = "down" /\ awaited = FALSE
    /\ orphans = {} /\ delivered = {} /\ unrecorded = {}
    /\ crashes = 0

Up == phase \in {"starting", "sweeping", "serving"}

\* Mutant of Insert: a pruned row that rings again is stored again.
InsertPruned(M) ==
    LET new == M \ stored IN
    /\ stored' = stored \cup new
    /\ unread' = unread \cup new
    /\ fetching' = fetching \cup (new \cap Image)
    /\ UNCHANGED <<attempts, expired>>

\* addMessage of the rows M: those already stored, or pruned, are ignored.
Insert(M) ==
    LET new == M \ (stored \cup expired) IN
    /\ stored' = stored \cup new
    /\ unread' = unread \cup new
    /\ fetching' = fetching \cup (new \cap Image)
    /\ UNCHANGED <<attempts, expired>>

\* runClaimedListener: catch up on M, then await notify().
Start(M) ==
    /\ phase = "down"
    /\ Insert(M)
    /\ StartPass(FALSE, FALSE)
    /\ phase' = "starting"
    /\ awaited' = Handed
    /\ UNCHANGED historyVars

\* The first pass has ended: await retryStuck().
FirstSweep ==
    /\ phase = "starting" /\ ~awaited
    /\ UNCHANGED rowVars
    /\ RetryStuck
    /\ phase' = "sweeping"
    /\ awaited' = Handed
    /\ UNCHANGED historyVars

\* The subscription opens, the timers start, the signals are handled.
Serve ==
    /\ phase = "sweeping" /\ ~awaited
    /\ phase' = "serving"
    /\ UNCHANGED <<rowVars, runVars, awaited, historyVars>>

\* onLive: a ring, new or repeated by another relay, then notify().
Ring(m) ==
    /\ phase = "serving"
    /\ Insert({m})
    /\ Notify
    /\ UNCHANGED <<phase, awaited, historyVars>>

\* finishImage, with the image or the reason there is none, then notify().
ImageFinishes(m) ==
    /\ Up
    /\ m \in fetching
    /\ fetching' = fetching \ {m}
    /\ unread' = unread \cup {m}
    /\ attempts' = [attempts EXCEPT ![m] = 0]
    /\ Notify
    /\ UNCHANGED <<stored, expired, phase, awaited, historyVars>>

\* The backoff is over.
RetryFires ==
    /\ timer
    /\ UNCHANGED rowVars
    /\ IF run # "none"
       THEN /\ passAgain' = TRUE
            /\ timer' = FALSE
            /\ UNCHANGED <<run, child, rest, stuckAgain, current>>
       ELSE StartPass(FALSE, stuckAgain)
    /\ UNCHANGED <<phase, awaited, historyVars>>

\* The 30-minute sweep.
StuckTimer ==
    /\ phase = "serving"
    /\ UNCHANGED rowVars
    /\ RetryStuck
    /\ UNCHANGED <<phase, awaited, historyVars>>

-------------------------------------------------------------------------------
(***************************************************************************)
(* The end of a hook process: exit 0 marks the row, anything else counts   *)
(* an attempt.                                                             *)
(***************************************************************************)
\* Mutant of Marked: a stuck row that gets through stays unread.
MarkedByPass(m) == IF run = "stuck" THEN unread ELSE unread \ {m}

\* markRead.
Marked(m) == unread \ {m}

\* bumpAttempts, of a row that may be gone by now.
Bumped(m) ==
    IF m \in stored /\ attempts[m] < Cap THEN [attempts EXCEPT ![m] = @ + 1] ELSE attempts

Result(ok) ==
    /\ unread' = IF ok THEN Marked(child) ELSE unread
    /\ attempts' = IF ok THEN attempts ELSE Bumped(child)
    /\ delivered' = IF ok THEN delivered \cup {child} ELSE delivered
    /\ UNCHANGED <<stored, fetching, expired, orphans, unrecorded, crashes, phase>>

\* A failure below the cap ends the pass; a row that is gone counts as one.
BacksOff(ok) == ~ok /\ (child \in stored => attempts'[child] < Cap)

NextOfPass(ok) ==
    IF BacksOff(ok)
    THEN EndRun(phase # "stopping") /\ awaited' = FALSE
    ELSE IF Ready # {}
         THEN Pass(passAgain, stuckAgain, current) /\ UNCHANGED awaited
         ELSE EndRun(FALSE) /\ awaited' = FALSE

\* The snapshot of a stuck run is not read again: a row the human has read, or
\* one that was pruned meanwhile, still gets its attempt.
NextOfSweep ==
    IF rest # {}
    THEN /\ child' = First(rest)
         /\ rest' = rest \ {First(rest)}
         /\ UNCHANGED <<run, passAgain, stuckAgain, timer, current, awaited>>
    ELSE EndRun(timer) /\ awaited' = FALSE

HookEnds(ok) ==
    /\ run # "none"
    /\ Result(ok)
    /\ IF run = "pass" THEN NextOfPass(ok) ELSE NextOfSweep

-------------------------------------------------------------------------------
(***************************************************************************)
(* Other processes, and the end of the listener.                           *)
(***************************************************************************)
\* `phone unread` marks what the shared view holds.
HumanReads ==
    /\ unread \ Private # {}
    /\ unread' = unread \cap Private
    /\ UNCHANGED <<stored, attempts, fetching, expired, runVars, phase, awaited, historyVars>>

\* pruneMessages: every process that opens the database runs it, and every insert
\* and stuck sweep begins with it.  It may come before any step here.
Prune(m) ==
    /\ m \in stored
    /\ stored' = stored \ {m}
    /\ unread' = unread \ {m}
    /\ fetching' = fetching \ {m}
    /\ expired' = expired \cup {m}
    /\ attempts' = [attempts EXCEPT ![m] = 0]
    /\ UNCHANGED <<runVars, phase, awaited, historyVars>>

\* SIGTERM: stop() cancels the backoff, settle() hands out `current`.
Stop ==
    /\ phase = "serving"
    /\ phase' = "stopping"
    /\ timer' = FALSE
    /\ awaited' = (run # "none" /\ current)
    /\ UNCHANGED <<rowVars, run, child, rest, passAgain, stuckAgain, current, historyVars>>

\* What is left of the listener: a hook process, if one was running.
Down ==
    /\ phase' = "down"
    /\ awaited' = FALSE
    /\ Idle(FALSE, FALSE, FALSE)
    /\ orphans' = IF run = "none" THEN orphans ELSE orphans \cup {child}
    /\ UNCHANGED <<rowVars, delivered, unrecorded>>

Exit ==
    /\ phase = "stopping" /\ ~awaited
    /\ Down
    /\ UNCHANGED crashes

Crash ==
    /\ phase # "down"
    /\ crashes < MaxCrashes
    /\ crashes' = crashes + 1
    /\ Down

OrphanEnds(m, ok) ==
    /\ m \in orphans
    /\ orphans' = orphans \ {m}
    /\ delivered' = IF ok THEN delivered \cup {m} ELSE delivered
    /\ unrecorded' = IF ok THEN unrecorded \cup {m} ELSE unrecorded
    /\ UNCHANGED <<rowVars, runVars, phase, awaited, crashes>>

Next ==
    \/ \E M \in SUBSET Message : Start(M)
    \/ FirstSweep
    \/ Serve
    \/ \E m \in Message : Ring(m)
    \/ \E m \in Message : ImageFinishes(m)
    \/ RetryFires
    \/ StuckTimer
    \/ \E ok \in BOOLEAN : HookEnds(ok)
    \/ HumanReads
    \/ \E m \in Message : Prune(m)
    \/ Stop
    \/ Exit
    \/ Crash
    \/ \E m \in Message, ok \in BOOLEAN : OrphanEnds(m, ok)

Spec == Init /\ [][Next]_vars

\* Timers fire, and the hook timeout ends every hook process.  Nothing is
\* assumed of its exit code, of the relays, the human or the machine.
FairSpec ==
    /\ Spec
    /\ WF_vars(FirstSweep) /\ WF_vars(Serve) /\ WF_vars(RetryFires) /\ WF_vars(StuckTimer)
    /\ WF_vars(\E ok \in BOOLEAN : HookEnds(ok))
    /\ WF_vars(Exit)

-------------------------------------------------------------------------------
(***************************************************************************)
(* Properties.                                                             *)
(***************************************************************************)
HookTypeOK ==
    /\ stored \subseteq Message /\ unread \subseteq stored /\ fetching \subseteq stored
    /\ expired \subseteq Message \ stored
    /\ attempts \in [Message -> 0..Cap]
    /\ run \in {"none", "pass", "stuck"}
    /\ child \in Message \cup {NoMessage} /\ (child = NoMessage <=> run = "none")
    /\ rest \subseteq Message /\ (rest # {} => run = "stuck")
    /\ passAgain \in BOOLEAN /\ stuckAgain \in BOOLEAN
    /\ timer \in BOOLEAN /\ current \in BOOLEAN
    /\ phase \in {"down", "starting", "sweeping", "serving", "stopping"}
    /\ awaited \in BOOLEAN
    /\ orphans \subseteq Message /\ delivered \subseteq Message
    /\ unrecorded \subseteq delivered
    /\ crashes \in 0..MaxCrashes

\* No wakeup is lost: a running listener that delivers nothing and waits for no
\* backoff has nothing to deliver, however calls, timers and results came.
NoLostWakeup ==
    Up /\ run = "none" /\ ~timer => Deliverable(unread, attempts, fetching) = {}

\* hook.ts: "a new message cannot skip that wait": while a backoff is pending no
\* pass runs; only the sweep of stuck rows does.
BackoffHonoured == timer => run # "pass"

\* docs/phone.md: "A message is never delivered twice on success", as far as it
\* holds: a row is given to the hook again only if its listener ended between
\* the hook's success and the mark.
NeverTwice == child \in delivered => child \in unrecorded

\* Every stored row the hook may have is delivered, given up to the sweep, read
\* or pruned, unless the listener ends or its image is being fetched again.
EveryRowHandled ==
    \A m \in Message :
        (phase = "serving" /\ m \in Deliverable(unread, attempts, fetching)) ~>
            (m \notin Deliverable(unread, attempts, fetching) \/ phase # "serving")

\* docs/phone.md: a stuck row gets one more try from "the listener's own
\* 30-minute sweep".
StuckRowRetried ==
    \A m \in Message :
        (phase = "serving" /\ m \in Stuck(unread, attempts, fetching)) ~>
            (child = m \/ m \notin Stuck(unread, attempts, fetching) \/ phase # "serving")
===============================================================================
