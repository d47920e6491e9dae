---------------------------- MODULE PhoneHookProofs ----------------------------
(***************************************************************************)
(* The hook queue for any set of rows, any cap and any number of crashes:  *)
(* no wakeup is lost, a backoff is honoured, no row is delivered twice     *)
(* unless a listener ended before it could mark it, and the types hold.    *)
(***************************************************************************)
EXTENDS PhoneHook, WellFoundedInduction, TLAPS

-------------------------------------------------------------------------------
(***************************************************************************)
(* Wakeups and backoff.                                                    *)
(***************************************************************************)
\* A sweep over stuck rows may run while rows are deliverable; unless a backoff
\* will, it must then start a pass when it ends.
SweepRemembers ==
    Up /\ run = "stuck" /\ ~timer /\ Deliverable(unread, attempts, fetching) # {} => passAgain

QueueInv ==
    /\ run \in {"none", "pass", "stuck"}
    /\ unread \subseteq Message
    /\ attempts \in [Message -> Nat]
    /\ fetching \subseteq Message
    /\ passAgain \in BOOLEAN /\ stuckAgain \in BOOLEAN /\ timer \in BOOLEAN
    /\ phase \in {"down", "starting", "sweeping", "serving", "stopping"}
    /\ run # "none" \/ timer => phase # "down"
    /\ NoLostWakeup
    /\ BackoffHonoured
    /\ SweepRemembers

RowsTyped == unread \subseteq Message /\ attempts \in [Message -> Nat] /\ fetching \subseteq Message

\* What a step of the runner must establish.
RunnerKept ==
    /\ passAgain' \in BOOLEAN /\ stuckAgain' \in BOOLEAN /\ timer' \in BOOLEAN
    /\ run' \in {"none", "pass", "stuck"}
    /\ run' = "none" /\ ~timer' => Ready = {}
    /\ timer' => run' # "pass"
    /\ run' = "stuck" /\ ~timer' /\ Ready # {} => passAgain'

PhaseKept ==
    /\ phase' \in {"down", "starting", "sweeping", "serving", "stopping"}
    /\ run' # "none" \/ timer' => phase' # "down"

LEMMA RunnerKeptSuffices ==
  ASSUME RowsTyped', RunnerKept, PhaseKept PROVE QueueInv'
  BY DEF RowsTyped, RunnerKept, PhaseKept, QueueInv, NoLostWakeup, BackoffHonoured, SweepRemembers, Ready,
         Deliverable

\* The end of a run keeps it, if a pass was asked for or has nothing to do.
LEMMA ResumeKeeps ==
  ASSUME NEW again \in BOOLEAN, NEW sweep \in BOOLEAN, NEW armed \in BOOLEAN,
         NEW nested \in BOOLEAN, Resume(again, sweep, armed, nested),
         ~armed /\ Ready # {} => again
  PROVE  RunnerKept
<1>1. CASE armed
  BY <1>1 DEF Resume, Idle, RunnerKept
<1>2. CASE ~armed /\ again /\ Ready # {}
  BY <1>2 DEF Resume, Pass, RunnerKept
<1>3. CASE ~armed /\ Ready = {} /\ sweep /\ Overdue # {}
  BY <1>3 DEF Resume, Sweep, RunnerKept
<1>4. CASE ~armed /\ Ready = {} /\ ~(sweep /\ Overdue # {})
  BY <1>4 DEF Resume, Idle, RunnerKept
<1>5. QED  BY <1>1, <1>2, <1>3, <1>4

LEMMA StartPassKeeps ==
  ASSUME NEW again \in BOOLEAN, NEW sweep \in BOOLEAN, StartPass(again, sweep)
  PROVE  RunnerKept
<1>1. CASE Ready # {}
  BY <1>1 DEF StartPass, Pass, RunnerKept
<1>2. CASE Ready = {}
  BY <1>2, ResumeKeeps DEF StartPass
<1>3. QED  BY <1>1, <1>2

LEMMA NotifyKeeps == ASSUME QueueInv, Notify PROVE RunnerKept
<1>1. CASE timer \/ run # "none"
  BY <1>1 DEF Notify, Remember, QueueInv, BackoffHonoured, RunnerKept
<1>2. CASE ~(timer \/ run # "none")
  <2>1. StartPass(passAgain, stuckAgain)  BY <1>2 DEF Notify
  <2>2. QED  BY <2>1, StartPassKeeps DEF QueueInv
<1>3. QED  BY <1>1, <1>2

\* With no run and no backoff nothing is deliverable, so a sweep may start.
LEMMA RetryStuckKeeps ==
  ASSUME QueueInv, Up, UNCHANGED rowVars, RetryStuck PROVE RunnerKept
<1>1. Ready = Deliverable(unread, attempts, fetching)  BY DEF Ready, rowVars
<1>2. CASE run # "none"
  BY <1>1, <1>2 DEF RetryStuck, Remember, QueueInv, NoLostWakeup, BackoffHonoured, SweepRemembers,
                    RunnerKept
<1>3. CASE run = "none"
  <2>1. StartSweep /\ (~timer => Ready = {})
    BY <1>1, <1>3 DEF RetryStuck, QueueInv, NoLostWakeup
  <2>2. CASE Overdue # {}
    BY <2>1, <2>2 DEF StartSweep, Sweep, RunnerKept, QueueInv
  <2>3. CASE Overdue = {}
    <3>1. Resume(passAgain, stuckAgain, timer, TRUE)  BY <2>1, <2>3 DEF StartSweep
    <3>2. QED  BY <3>1, <2>1, ResumeKeeps DEF QueueInv
  <2>4. QED  BY <2>2, <2>3
<1>4. QED  BY <1>2, <1>3

\* The result of a hook process makes no row deliverable.
LEMMA ResultShrinks ==
  ASSUME QueueInv, NEW ok \in BOOLEAN, Result(ok)
  PROVE  RowsTyped' /\ Ready \subseteq Deliverable(unread, attempts, fetching)
<1>1. unread' \subseteq unread /\ fetching' = fetching  BY DEF Result, Marked
<1>2. attempts' \in [Message -> Nat] /\ \A m \in Message : attempts[m] <= attempts'[m]
  <2>1. attempts \in [Message -> Nat]  BY DEF QueueInv
  <2>2. CASE attempts' = attempts
    BY <2>1, <2>2
  <2>3. CASE attempts' = [attempts EXCEPT ![child] = @ + 1]
    <3>1. attempts' = [m \in Message |-> IF m = child THEN attempts[m] + 1 ELSE attempts[m]]
      BY <2>1, <2>3
    <3>2. \A m \in Message : attempts[m] \in Nat /\ attempts[m] + 1 \in Nat  BY <2>1
    <3>3. attempts' \in [Message -> Nat]  BY <3>1, <3>2
    <3>4. \A m \in Message : attempts[m] <= attempts'[m]
      BY <3>1, <3>2
    <3>5. QED  BY <3>3, <3>4
  <2>4. QED  BY <2>2, <2>3 DEF Result, Bumped
<1>3. unread \subseteq Message /\ attempts \in [Message -> Nat] /\ Cap \in Nat
  BY HookAssumption DEF QueueInv
<1>4. RowsTyped'  BY <1>1, <1>2 DEF RowsTyped, QueueInv
<1>5. ASSUME NEW m \in Ready PROVE m \in Deliverable(unread, attempts, fetching)
  <2>1. m \in unread /\ m \notin fetching /\ attempts'[m] < Cap
    BY <1>1, <1>5 DEF Ready, Deliverable
  <2>2. attempts[m] < Cap  BY <2>1, <1>2, <1>3
  <2>3. QED  BY <2>1, <2>2 DEF Deliverable
<1>6. QED  BY <1>4, <1>5

LEMMA HookEndsKeeps ==
  ASSUME QueueInv, NEW ok \in BOOLEAN, HookEnds(ok) PROVE QueueInv'
<1>1. Ready \subseteq Deliverable(unread, attempts, fetching) /\ RowsTyped'
  BY ResultShrinks DEF HookEnds
<1>2. run # "none" /\ phase # "down" /\ phase' = phase /\ PhaseKept
  BY DEF HookEnds, Result, QueueInv, PhaseKept
<1>3. CASE phase = "stopping" /\ \E armed \in BOOLEAN : EndRun(armed)
  BY <1>1, <1>2, <1>3, RunnerKeptSuffices
     DEF EndRun, Idle, RowsTyped, QueueInv, NoLostWakeup, BackoffHonoured, SweepRemembers, Up
<1>4. CASE run = "pass"
  <2>1. NextOfPass(ok)  BY <1>4 DEF HookEnds
  <2>2. CASE BacksOff(ok) /\ phase # "stopping"
    <3>1. Resume(passAgain, stuckAgain, TRUE, FALSE)  BY <2>1, <2>2 DEF NextOfPass, EndRun
    <3>2. RunnerKept  BY <3>1 DEF Resume, Idle, RunnerKept, QueueInv
    <3>3. QED  BY <3>2, <1>1, <1>2, RunnerKeptSuffices
  <2>3. CASE ~BacksOff(ok) /\ Ready # {}
    <3>1. RunnerKept  BY <2>1, <2>3 DEF NextOfPass, Pass, RunnerKept, QueueInv
    <3>2. QED  BY <3>1, <1>1, <1>2, RunnerKeptSuffices
  <2>4. CASE ~BacksOff(ok) /\ Ready = {} /\ phase # "stopping"
    <3>1. Resume(passAgain, stuckAgain, FALSE, FALSE)  BY <2>1, <2>4 DEF NextOfPass, EndRun
    <3>2. RunnerKept
      <4>1. CASE stuckAgain /\ Overdue # {}
        BY <3>1, <4>1, <2>4 DEF Resume, Sweep, RunnerKept
      <4>2. CASE ~(stuckAgain /\ Overdue # {})
        BY <3>1, <4>2, <2>4 DEF Resume, Idle, RunnerKept
      <4>3. QED  BY <4>1, <4>2
    <3>3. QED  BY <3>2, <1>1, <1>2, RunnerKeptSuffices
  <2>5. CASE phase = "stopping" /\ (BacksOff(ok) \/ Ready = {})
    BY <2>1, <2>5, <1>3 DEF NextOfPass
  <2>6. QED  BY <2>2, <2>3, <2>4, <2>5
<1>5. CASE run = "stuck"
  <2>1. NextOfSweep  BY <1>5 DEF HookEnds
  <2>2. phase # "stopping" /\ ~timer /\ Ready # {} => passAgain
    BY <1>1, <1>2, <1>5 DEF QueueInv, SweepRemembers, Up
  <2>3. CASE rest # {} /\ phase # "stopping"
    <3>1. UNCHANGED <<run, passAgain, stuckAgain, timer>>  BY <2>1, <2>3 DEF NextOfSweep
    <3>2. RunnerKept  BY <3>1, <2>2, <2>3, <1>5 DEF RunnerKept, QueueInv
    <3>3. QED  BY <3>2, <1>1, <1>2, RunnerKeptSuffices
  <2>7. CASE rest # {} /\ phase = "stopping"
    <3>1. UNCHANGED <<run, passAgain, stuckAgain, timer>>  BY <2>1, <2>7 DEF NextOfSweep
    <3>2. QED
      BY <3>1, <2>7, <1>1, <1>2, <1>5
         DEF RowsTyped, QueueInv, NoLostWakeup, BackoffHonoured, SweepRemembers, Up
  <2>4. CASE rest = {} /\ phase # "stopping"
    <3>1. EndRun(timer)  BY <2>1, <2>4 DEF NextOfSweep
    <3>2. CASE timer
      <4>1. RunnerKept  BY <3>1, <3>2, <2>4 DEF EndRun, Resume, Idle, RunnerKept, QueueInv
      <4>2. QED  BY <4>1, <1>1, <1>2, RunnerKeptSuffices
    <3>3. CASE ~timer
      <4>1. RunnerKept
        <5>1. CASE passAgain /\ Ready # {}
          BY <3>1, <3>3, <2>4, <5>1
             DEF EndRun, Resume, Pass, RunnerKept, QueueInv
        <5>2. CASE Ready = {} /\ stuckAgain /\ Overdue # {}
          BY <3>1, <3>3, <2>4, <5>2 DEF EndRun, Resume, Sweep, RunnerKept
        <5>3. CASE Ready = {} /\ ~(stuckAgain /\ Overdue # {})
          BY <3>1, <3>3, <2>4, <5>3 DEF EndRun, Resume, Idle, RunnerKept, QueueInv
        <5>4. QED  BY <5>1, <5>2, <5>3, <2>2, <2>4, <3>3
      <4>2. QED  BY <4>1, <1>1, <1>2, RunnerKeptSuffices
    <3>4. QED  BY <3>2, <3>3
  <2>5. CASE rest = {} /\ phase = "stopping"
    <3>1. EndRun(timer)  BY <2>1, <2>5 DEF NextOfSweep
    <3>2. QED
      BY <3>1, <2>5, <1>1, <1>2
         DEF EndRun, Idle, RowsTyped, QueueInv, NoLostWakeup, BackoffHonoured, SweepRemembers, Up
  <2>6. QED  BY <2>3, <2>4, <2>5, <2>7
<1>6. QED  BY <1>2, <1>4, <1>5 DEF QueueInv

LEMMA InsertKeeps == ASSUME RowsTyped, NEW M \in SUBSET Message, Insert(M) PROVE RowsTyped'
  BY DEF RowsTyped, Insert

LEMMA DownKeeps == ASSUME QueueInv, Down PROVE QueueInv'
  BY DEF Down, Idle, rowVars, QueueInv, NoLostWakeup, BackoffHonoured, SweepRemembers, Up

\* Rows that are read or pruned are no longer deliverable; the runner is as it was.
LEMMA FewerRowsKeep ==
  ASSUME QueueInv, RowsTyped', UNCHANGED <<runVars, phase>>,
         Ready \subseteq Deliverable(unread, attempts, fetching)
  PROVE  QueueInv'
  BY DEF RowsTyped, runVars, Ready, QueueInv, NoLostWakeup, BackoffHonoured, SweepRemembers, Up

LEMMA InitQueue == Init => QueueInv
<1> SUFFICES ASSUME Init PROVE QueueInv
  OBVIOUS
<1>1. attempts \in [Message -> Nat]  BY DEF Init
<1>2. QED  BY <1>1 DEF Init, QueueInv, NoLostWakeup, BackoffHonoured, SweepRemembers, Up

LEMMA NextQueue == QueueInv /\ [Next]_vars => QueueInv'
<1> SUFFICES ASSUME QueueInv, [Next]_vars PROVE QueueInv'
  OBVIOUS
<1> USE HookAssumption
<1>0. RowsTyped  BY DEF RowsTyped, QueueInv
<1>1. ASSUME NEW M \in SUBSET Message, Start(M) PROVE QueueInv'
  <2>1. RowsTyped'  BY <1>0, <1>1, InsertKeeps DEF Start
  <2>2. RunnerKept  BY <1>1, StartPassKeeps DEF Start
  <2>3. PhaseKept  BY <1>1 DEF Start, PhaseKept
  <2>4. QED  BY <2>1, <2>2, <2>3, RunnerKeptSuffices
<1>2. CASE FirstSweep
  <2>1. RowsTyped'  BY <1>0, <1>2 DEF FirstSweep, rowVars, RowsTyped
  <2>2. RunnerKept  BY <1>2, RetryStuckKeeps DEF FirstSweep, Up
  <2>3. PhaseKept  BY <1>2 DEF FirstSweep, PhaseKept
  <2>4. QED  BY <2>1, <2>2, <2>3, RunnerKeptSuffices
<1>3. CASE Serve
  BY <1>3 DEF Serve, rowVars, runVars, QueueInv, NoLostWakeup, BackoffHonoured, SweepRemembers,
              Up, Deliverable
<1>4. ASSUME NEW m \in Message, Ring(m) PROVE QueueInv'
  <2>1. RowsTyped'  BY <1>0, <1>4, InsertKeeps DEF Ring
  <2>2. RunnerKept  BY <1>4, NotifyKeeps DEF Ring
  <2>3. PhaseKept  BY <1>4 DEF Ring, PhaseKept
  <2>4. QED  BY <2>1, <2>2, <2>3, RunnerKeptSuffices
<1>5. ASSUME NEW m \in Message, ImageFinishes(m) PROVE QueueInv'
  <2>1. RowsTyped'  BY <1>0, <1>5 DEF ImageFinishes, RowsTyped
  <2>2. RunnerKept  BY <1>5, NotifyKeeps DEF ImageFinishes
  <2>3. PhaseKept  BY <1>5 DEF ImageFinishes, PhaseKept, QueueInv, Up
  <2>4. QED  BY <2>1, <2>2, <2>3, RunnerKeptSuffices
<1>6. CASE RetryFires
  <2>1. RowsTyped'  BY <1>0, <1>6 DEF RetryFires, rowVars, RowsTyped
  <2>2. CASE run # "none"
    <3>1. RunnerKept  BY <1>6, <2>2 DEF RetryFires, RunnerKept, QueueInv
    <3>2. PhaseKept  BY <1>6, <2>2 DEF RetryFires, PhaseKept, QueueInv
    <3>3. QED  BY <3>1, <3>2, <2>1, RunnerKeptSuffices
  <2>3. CASE run = "none"
    <3>1. RunnerKept  BY <1>6, <2>3, StartPassKeeps DEF RetryFires, QueueInv
    <3>2. PhaseKept  BY <1>6 DEF RetryFires, PhaseKept, QueueInv
    <3>3. QED  BY <3>1, <3>2, <2>1, RunnerKeptSuffices
  <2>4. QED  BY <2>2, <2>3
<1>7. CASE StuckTimer
  <2>1. RowsTyped'  BY <1>0, <1>7 DEF StuckTimer, rowVars, RowsTyped
  <2>2. RunnerKept  BY <1>7, RetryStuckKeeps DEF StuckTimer, Up
  <2>3. PhaseKept  BY <1>7 DEF StuckTimer, PhaseKept
  <2>4. QED  BY <2>1, <2>2, <2>3, RunnerKeptSuffices
<1>8. ASSUME NEW ok \in BOOLEAN, HookEnds(ok) PROVE QueueInv'
  BY <1>8, HookEndsKeeps
<1>9. CASE HumanReads
  <2>1. RowsTyped'  BY <1>0, <1>9 DEF HumanReads, RowsTyped
  <2>2. Ready \subseteq Deliverable(unread, attempts, fetching)
    BY <1>9 DEF HumanReads, Ready, Deliverable
  <2>3. QED  BY <1>9, <2>1, <2>2, FewerRowsKeep DEF HumanReads
<1>10. ASSUME NEW m \in Message, Prune(m) PROVE QueueInv'
  <2>1. RowsTyped'  BY <1>0, <1>10 DEF Prune, RowsTyped
  <2>2. Ready \subseteq Deliverable(unread, attempts, fetching)
    <3>1. ASSUME NEW r \in Ready PROVE r \in Deliverable(unread, attempts, fetching)
      <4>1. r \in unread /\ r # m /\ r \notin fetching
        BY <1>10, <3>1 DEF Prune, Ready, Deliverable
      <4>2. attempts'[r] = attempts[r]  BY <1>0, <1>10, <4>1 DEF Prune, RowsTyped
      <4>3. QED  BY <3>1, <4>1, <4>2 DEF Ready, Deliverable
    <3>2. QED  BY <3>1
  <2>3. QED  BY <1>10, <2>1, <2>2, FewerRowsKeep DEF Prune
<1>11. CASE Stop
  BY <1>11 DEF Stop, rowVars, QueueInv, NoLostWakeup, BackoffHonoured, SweepRemembers, Up
<1>12. CASE Exit
  BY <1>12, DownKeeps DEF Exit
<1>13. CASE Crash
  BY <1>13, DownKeeps DEF Crash
<1>14. ASSUME NEW m \in Message, NEW ok \in BOOLEAN, OrphanEnds(m, ok) PROVE QueueInv'
  <2>1. RowsTyped'  BY <1>0, <1>14 DEF OrphanEnds, rowVars, RowsTyped
  <2>2. Ready = Deliverable(unread, attempts, fetching)
    BY <1>14 DEF OrphanEnds, rowVars, Ready
  <2>3. QED  BY <1>14, <2>1, <2>2, FewerRowsKeep DEF OrphanEnds
<1>15. CASE UNCHANGED vars
  <2>1. RowsTyped'  BY <1>0, <1>15 DEF vars, rowVars, RowsTyped
  <2>2. Ready = Deliverable(unread, attempts, fetching)
    BY <1>15 DEF vars, rowVars, Ready
  <2>3. QED  BY <1>15, <2>1, <2>2, FewerRowsKeep DEF vars
<1>16. QED
  BY <1>1, <1>2, <1>3, <1>4, <1>5, <1>6, <1>7, <1>8, <1>9, <1>10, <1>11, <1>12, <1>13, <1>14,
     <1>15 DEF Next

\* However calls of notify and retryStuck, hook results, backoffs, prunes and
\* crashes interleave, a listener with nothing under way and no backoff pending
\* has nothing it could deliver (hook.ts, start and resumeIfAskedAgain).
THEOREM NoWakeupIsLost == Spec => []NoLostWakeup
<1>1. Init => QueueInv  BY InitQueue
<1>2. QueueInv /\ [Next]_vars => QueueInv'  BY NextQueue
<1>3. QueueInv => NoLostWakeup  BY DEF QueueInv
<1>4. QED  BY <1>1, <1>2, <1>3, PTL DEF Spec

\* No pass runs while a backoff is pending (hook.ts, armRetry).
THEOREM BackoffIsHonoured == Spec => []BackoffHonoured
<1>1. Init => QueueInv  BY InitQueue
<1>2. QueueInv /\ [Next]_vars => QueueInv'  BY NextQueue
<1>3. QueueInv => BackoffHonoured  BY DEF QueueInv
<1>4. QED  BY <1>1, <1>2, <1>3, PTL DEF Spec

-------------------------------------------------------------------------------
(***************************************************************************)
(* Never twice.                                                            *)
(***************************************************************************)
LEMMA FirstIsMember ==
  ASSUME NEW S \in SUBSET Message, S # {} PROVE First(S) \in S
<1> DEFINE R == OpToRel(<, Nat)
<1>1. S \subseteq Nat  BY HookAssumption
<1>2. IsWellFoundedOn(R, Nat)  BY NatLessThanWellFounded
<1> HIDE DEF R
<1>3. PICK x \in S : \A y \in S : ~(<<y, x>> \in R)  BY <1>1, <1>2, WFMin
<1>4. \A y \in S : ~(y < x)  BY <1>1, <1>3 DEF R, OpToRel
<1>5. \A y \in S : x <= y  BY <1>1, <1>4
<1>6. \E z \in S : \A y \in S : z <= y  BY <1>5
<1>7. QED  BY <1>6 DEF First, Min

\* The rows the run in flight still has to give to the hook.
Held == IF run = "none" THEN {} ELSE {child} \cup rest

\* The rows that have been given to a hook, or are about to be.
PassedOn == delivered \cup Held \cup orphans

\* What the hook took, and was marked as taken.
Recorded == delivered \ unrecorded

OnceInv ==
    /\ run \in {"none", "pass", "stuck"}
    /\ unread \subseteq stored /\ fetching \subseteq stored /\ stored \subseteq Message
    /\ expired \subseteq Message
    /\ Held \subseteq Message /\ child \notin rest
    /\ run = "none" => child = NoMessage
    /\ delivered \subseteq Message
    /\ PassedOn \subseteq stored \cup expired
    /\ PassedOn \cap fetching = {}
    /\ (unread \cup Held) \cap Recorded = {}

LEMMA OnceImplies == OnceInv => NeverTwice
<1> SUFFICES ASSUME OnceInv, child \in delivered PROVE child \in unrecorded
  BY DEF NeverTwice
<1>1. CASE run = "none"  BY <1>1, HookAssumption DEF OnceInv
<1>2. CASE run # "none"  BY <1>2 DEF OnceInv, Held, Recorded
<1>3. QED  BY <1>1, <1>2

\* What the runner's operators leave in its hands: unread rows with no image
\* to come.
HeldFresh ==
    /\ run' \in {"none", "pass", "stuck"}
    /\ Held' \subseteq unread' \ fetching'
    /\ (child \notin rest)'
    /\ (run = "none" => child = NoMessage)'

LEMMA IdleFresh ==
  ASSUME NEW again, NEW sweep, NEW armed, Idle(again, sweep, armed) PROVE HeldFresh
  BY DEF Idle, HeldFresh, Held

LEMMA PassFresh ==
  ASSUME unread' \subseteq Message, Ready # {},
         NEW again, NEW sweep, NEW mine, Pass(again, sweep, mine)
  PROVE  HeldFresh
<1>1. Ready \subseteq unread' \ fetching' /\ Ready \in SUBSET Message  BY DEF Ready, Deliverable
<1>2. First(Ready) \in Ready  BY <1>1, FirstIsMember
<1>3. QED  BY <1>1, <1>2 DEF Pass, HeldFresh, Held

LEMMA SweepFresh ==
  ASSUME unread' \subseteq Message, Overdue # {},
         NEW again, NEW sweep, NEW armed, NEW mine, Sweep(again, sweep, armed, mine)
  PROVE  HeldFresh
<1>1. Overdue \subseteq unread' \ fetching' /\ Overdue \in SUBSET Message  BY DEF Overdue, Stuck
<1>2. First(Overdue) \in Overdue  BY <1>1, FirstIsMember
<1>3. QED  BY <1>1, <1>2 DEF Sweep, HeldFresh, Held

LEMMA ResumeFresh ==
  ASSUME unread' \subseteq Message, NEW again, NEW sweep, NEW armed, NEW nested,
         Resume(again, sweep, armed, nested)
  PROVE  HeldFresh
<1>1. CASE armed \/ ~((again /\ Ready # {}) \/ (sweep /\ Overdue # {}))
  BY <1>1, IdleFresh DEF Resume
<1>2. CASE ~armed /\ again /\ Ready # {}
  <2>1. Pass(FALSE, sweep, ~nested)  BY <1>2 DEF Resume
  <2>2. QED  BY <2>1, <1>2, PassFresh
<1>3. CASE ~armed /\ ~(again /\ Ready # {}) /\ sweep /\ Overdue # {}
  <2>1. Sweep(FALSE, FALSE, FALSE, ~nested /\ ~again)  BY <1>3 DEF Resume
  <2>2. QED  BY <2>1, <1>3, SweepFresh
<1>4. QED  BY <1>1, <1>2, <1>3

LEMMA StartPassFresh ==
  ASSUME unread' \subseteq Message, NEW again, NEW sweep, StartPass(again, sweep)
  PROVE  HeldFresh
<1>1. CASE Ready # {}
  <2>1. Pass(again, sweep, TRUE)  BY <1>1 DEF StartPass
  <2>2. QED  BY <2>1, <1>1, PassFresh
<1>2. CASE Ready = {}
  <2>1. Resume(again, sweep, FALSE, TRUE)  BY <1>2 DEF StartPass
  <2>2. QED  BY <2>1, ResumeFresh
<1>3. QED  BY <1>1, <1>2

LEMMA NotifyFresh ==
  ASSUME unread' \subseteq Message, Notify
  PROVE  HeldFresh \/ UNCHANGED <<run, child, rest>>
<1>1. CASE timer \/ run # "none"  BY <1>1 DEF Notify, Remember
<1>2. CASE ~(timer \/ run # "none")  BY <1>2, StartPassFresh DEF Notify
<1>3. QED  BY <1>1, <1>2

LEMMA RetryStuckFresh ==
  ASSUME unread' \subseteq Message, RetryStuck
  PROVE  HeldFresh \/ UNCHANGED <<run, child, rest>>
<1>1. CASE run # "none"  BY <1>1 DEF RetryStuck, Remember
<1>2. CASE run = "none" /\ Overdue # {}
  <2>1. Sweep(passAgain, stuckAgain, timer, TRUE)  BY <1>2 DEF RetryStuck, StartSweep
  <2>2. QED  BY <2>1, <1>2, SweepFresh
<1>3. CASE run = "none" /\ Overdue = {}
  <2>1. Resume(passAgain, stuckAgain, timer, TRUE)  BY <1>3 DEF RetryStuck, StartSweep
  <2>2. QED  BY <2>1, ResumeFresh
<1>4. QED  BY <1>1, <1>2, <1>3

LEMMA EndRunFresh ==
  ASSUME unread' \subseteq Message, NEW armed, EndRun(armed) PROVE HeldFresh
  BY IdleFresh, ResumeFresh DEF EndRun

\* OnceInv without the run in flight.
RowsOnce ==
    /\ unread \subseteq stored /\ fetching \subseteq stored /\ stored \subseteq Message
    /\ expired \subseteq Message
    /\ delivered \subseteq Message
    /\ delivered \cup orphans \subseteq stored \cup expired
    /\ (delivered \cup orphans) \cap fetching = {}
    /\ unread \cap Recorded = {}

LEMMA OnceRows == OnceInv => RowsOnce
  BY DEF OnceInv, RowsOnce, PassedOn

LEMMA FreshOnce == ASSUME RowsOnce', HeldFresh PROVE OnceInv'
  BY DEF RowsOnce, HeldFresh, OnceInv, PassedOn

\* A step that leaves the run in flight, or its remaining rows, alone.
LEMMA SameHeldOnce ==
  ASSUME OnceInv, RowsOnce', UNCHANGED <<run, child, rest>>,
         stored \cup expired \subseteq (stored \cup expired)',
         Held \cap (fetching \cup Recorded)' = {}
  PROVE  OnceInv'
<1>1. Held' = Held  BY DEF Held
<1>2. QED  BY <1>1 DEF RowsOnce, OnceInv, PassedOn

LEMMA InsertOnce ==
  ASSUME OnceInv, NEW M \in SUBSET Message, Insert(M), UNCHANGED <<delivered, unrecorded, orphans>>
  PROVE  /\ RowsOnce'
         /\ stored \cup expired \subseteq (stored \cup expired)'
         /\ Held \cap (fetching \cup Recorded)' = {}
  BY DEF Insert, OnceInv, RowsOnce, PassedOn, Recorded

LEMMA HookEndsOnce == ASSUME OnceInv, NEW ok \in BOOLEAN, HookEnds(ok) PROVE OnceInv'
<1>1. run # "none" /\ Held = {child} \cup rest /\ Result(ok)  BY DEF HookEnds, Held
<1>2. RowsOnce'
  BY <1>1 DEF Result, Marked, OnceInv, RowsOnce, PassedOn, Recorded
<1>3. unread' \subseteq Message  BY <1>2 DEF RowsOnce
<1>4. CASE \E armed : EndRun(armed)
  BY <1>2, <1>3, <1>4, EndRunFresh, FreshOnce
<1>5. CASE run = "pass"
  <2>1. NextOfPass(ok)  BY <1>5 DEF HookEnds
  <2>2. CASE ~BacksOff(ok) /\ Ready # {}
    <3>1. Pass(passAgain, stuckAgain, current)  BY <2>1, <2>2 DEF NextOfPass
    <3>2. QED  BY <3>1, <2>2, <1>2, <1>3, PassFresh, FreshOnce
  <2>3. QED  BY <2>1, <2>2, <1>4 DEF NextOfPass
<1>6. CASE run = "stuck"
  <2>1. NextOfSweep  BY <1>6 DEF HookEnds
  <2>2. CASE rest # {}
    <3>1. rest \in SUBSET Message  BY <1>1 DEF OnceInv
    <3>2. First(rest) \in rest  BY <3>1, <2>2, FirstIsMember
    <3>3. run' = run /\ child' = First(rest) /\ rest' = rest \ {First(rest)}
      BY <2>1, <2>2 DEF NextOfSweep
    <3>4. Held' = rest  BY <3>2, <3>3, <1>1 DEF Held
    <3>5. Recorded' \subseteq Recorded \cup {child}
      BY <1>1 DEF Result, Recorded
    <3>6. rest \cap (fetching' \cup Recorded') = {} /\ rest \subseteq stored' \cup expired'
      BY <3>5, <1>1 DEF Result, OnceInv, PassedOn
    <3>7. QED
      BY <3>1, <3>2, <3>3, <3>4, <3>6, <1>1, <1>2 DEF RowsOnce, OnceInv, PassedOn
  <2>3. CASE rest = {}
    BY <2>1, <2>3, <1>4 DEF NextOfSweep
  <2>4. QED  BY <2>2, <2>3
<1>7. QED  BY <1>1, <1>5, <1>6 DEF OnceInv

LEMMA DownOnce == ASSUME OnceInv, Down PROVE OnceInv'
<1>1. HeldFresh  BY IdleFresh DEF Down
<1>2. orphans' \subseteq orphans \cup Held  BY DEF Down, Held
<1>3. RowsOnce'
  BY <1>2 DEF Down, rowVars, OnceInv, RowsOnce, PassedOn, Recorded
<1>4. QED  BY <1>1, <1>3, FreshOnce

LEMMA InitOnce == Init => OnceInv
  BY DEF Init, OnceInv, PassedOn, Held, Recorded

LEMMA NextOnce == OnceInv /\ [Next]_vars => OnceInv'
<1> SUFFICES ASSUME OnceInv, [Next]_vars PROVE OnceInv'
  OBVIOUS
<1>1. ASSUME NEW M \in SUBSET Message, Start(M) PROVE OnceInv'
  <2>1. RowsOnce'  BY <1>1, InsertOnce DEF Start, historyVars
  <2>2. HeldFresh  BY <1>1, <2>1, StartPassFresh DEF Start, RowsOnce
  <2>3. QED  BY <2>1, <2>2, FreshOnce
<1>2. CASE UNCHANGED <<rowVars, orphans, delivered, unrecorded>> /\ HeldFresh
  <2>1. RowsOnce'  BY <1>2, OnceRows DEF rowVars, RowsOnce, Recorded
  <2>2. QED  BY <2>1, <1>2, FreshOnce
<1>3. CASE UNCHANGED <<rowVars, run, child, rest, orphans, delivered, unrecorded>>
  <2>1. RowsOnce'  BY <1>3, OnceRows DEF rowVars, RowsOnce, Recorded
  <2>2. Held \cap (fetching \cup Recorded)' = {}
    BY <1>3 DEF rowVars, Recorded, OnceInv, PassedOn
  <2>3. QED  BY <2>1, <2>2, <1>3, SameHeldOnce DEF rowVars
<1>4. CASE FirstSweep \/ StuckTimer
  <2>1. unread' \subseteq Message  BY <1>4 DEF FirstSweep, StuckTimer, rowVars, OnceInv
  <2>2. HeldFresh \/ UNCHANGED <<run, child, rest>>
    BY <1>4, <2>1, RetryStuckFresh DEF FirstSweep, StuckTimer
  <2>3. QED  BY <1>2, <1>3, <1>4, <2>2 DEF FirstSweep, StuckTimer, historyVars, rowVars
<1>5. CASE Serve \/ Stop \/ UNCHANGED vars
  BY <1>3, <1>5 DEF Serve, Stop, vars, rowVars, runVars, historyVars
<1>6. ASSUME NEW m \in Message, Ring(m) PROVE OnceInv'
  <2>1. /\ RowsOnce'
        /\ stored \cup expired \subseteq (stored \cup expired)'
        /\ Held \cap (fetching \cup Recorded)' = {}
    BY <1>6, InsertOnce DEF Ring, historyVars
  <2>2. HeldFresh \/ UNCHANGED <<run, child, rest>>
    BY <1>6, <2>1, NotifyFresh DEF Ring, RowsOnce
  <2>3. QED  BY <2>1, <2>2, FreshOnce, SameHeldOnce
<1>7. ASSUME NEW m \in Message, ImageFinishes(m) PROVE OnceInv'
  <2>1. /\ RowsOnce'
        /\ Held \cap (fetching \cup Recorded)' = {}
    BY <1>7 DEF ImageFinishes, historyVars, OnceInv, RowsOnce, PassedOn, Recorded
  <2>2. HeldFresh \/ UNCHANGED <<run, child, rest>>
    BY <1>7, <2>1, NotifyFresh DEF ImageFinishes, RowsOnce
  <2>3. QED  BY <1>7, <2>1, <2>2, FreshOnce, SameHeldOnce DEF ImageFinishes
<1>8. CASE RetryFires
  <2>1. unread' \subseteq Message  BY <1>8 DEF RetryFires, rowVars, OnceInv
  <2>2. HeldFresh \/ UNCHANGED <<run, child, rest>>
    BY <1>8, <2>1, StartPassFresh DEF RetryFires
  <2>3. QED  BY <1>2, <1>3, <1>8, <2>2 DEF RetryFires, historyVars, rowVars
<1>9. ASSUME NEW ok \in BOOLEAN, HookEnds(ok) PROVE OnceInv'
  BY <1>9, HookEndsOnce
<1>10. CASE HumanReads
  <2>1. RowsOnce' /\ Held \cap (fetching \cup Recorded)' = {}
    BY <1>10 DEF HumanReads, historyVars, OnceInv, RowsOnce, PassedOn, Recorded
  <2>2. QED  BY <1>10, <2>1, SameHeldOnce DEF HumanReads, runVars
<1>11. ASSUME NEW m \in Message, Prune(m) PROVE OnceInv'
  <2>1. /\ RowsOnce'
        /\ stored \cup expired \subseteq (stored \cup expired)'
        /\ Held \cap (fetching \cup Recorded)' = {}
    BY <1>11 DEF Prune, historyVars, OnceInv, RowsOnce, PassedOn, Recorded
  <2>2. QED  BY <1>11, <2>1, SameHeldOnce DEF Prune, runVars
<1>12. CASE Exit \/ Crash
  BY <1>12, DownOnce DEF Exit, Crash
<1>13. ASSUME NEW m \in Message, NEW ok \in BOOLEAN, OrphanEnds(m, ok) PROVE OnceInv'
  <2>1. RowsOnce' /\ Recorded' \subseteq Recorded
    BY <1>13 DEF OrphanEnds, rowVars, OnceInv, RowsOnce, PassedOn, Recorded
  <2>2. QED
    BY <1>13, <2>1, SameHeldOnce DEF OrphanEnds, rowVars, runVars, OnceInv, PassedOn
<1>14. QED
  BY <1>1, <1>4, <1>5, <1>6, <1>7, <1>8, <1>9, <1>10, <1>11, <1>12, <1>13 DEF Next

\* A row the hook took successfully is not given to it again, whatever rings
\* again, is pruned, retried or swept, unless the listener ended in between
\* (docs/phone.md: "A message is never delivered twice on success").
THEOREM NeverDeliveredTwice == Spec => []NeverTwice
<1>1. Init => OnceInv  BY InitOnce
<1>2. OnceInv /\ [Next]_vars => OnceInv'  BY NextOnce
<1>3. OnceInv => NeverTwice  BY OnceImplies
<1>4. QED  BY <1>1, <1>2, <1>3, PTL DEF Spec

-------------------------------------------------------------------------------
(***************************************************************************)
(* Types.  The runner's operators keep theirs whatever they are called     *)
(* with; the rest follows from QueueInv and OnceInv.                       *)
(***************************************************************************)
RunnerTyped == current \in BOOLEAN /\ (rest # {} => run = "stuck")

TypeInv ==
    /\ expired \cap stored = {}
    /\ attempts \in [Message -> 0..Cap]
    /\ RunnerTyped
    /\ awaited \in BOOLEAN
    /\ unrecorded \subseteq delivered
    /\ crashes \in 0..MaxCrashes

LEMMA TypeImplies == QueueInv /\ OnceInv /\ TypeInv => HookTypeOK
<1> SUFFICES ASSUME QueueInv, OnceInv, TypeInv PROVE HookTypeOK
  OBVIOUS
<1> USE HookAssumption
<1>1. stored \subseteq Message /\ unread \subseteq stored /\ fetching \subseteq stored
  BY DEF OnceInv
<1>2. expired \subseteq Message \ stored  BY DEF OnceInv, TypeInv
<1>3. orphans \subseteq Message /\ delivered \subseteq Message  BY DEF OnceInv, PassedOn
<1>4. run \in {"none", "pass", "stuck"}  BY DEF OnceInv
<1>5. child \in Message \cup {NoMessage} /\ (child = NoMessage <=> run = "none")
  <2>1. CASE run = "none"  BY <2>1 DEF OnceInv
  <2>2. CASE run # "none"
    <3>1. child \in Message  BY <2>2 DEF OnceInv, Held
    <3>2. QED  BY <3>1, <2>2
  <2>3. QED  BY <2>1, <2>2
<1>6. rest \subseteq Message /\ (rest # {} => run = "stuck")
  BY DEF OnceInv, Held, TypeInv, RunnerTyped
<1>7. passAgain \in BOOLEAN /\ stuckAgain \in BOOLEAN /\ timer \in BOOLEAN
  BY DEF QueueInv
<1>8. phase \in {"down", "starting", "sweeping", "serving", "stopping"}  BY DEF QueueInv
<1>9. QED
  BY <1>1, <1>2, <1>3, <1>4, <1>5, <1>6, <1>7, <1>8 DEF HookTypeOK, TypeInv, RunnerTyped

LEMMA ResumeTyped ==
  ASSUME NEW again, NEW sweep, NEW armed, NEW nested, Resume(again, sweep, armed, nested)
  PROVE  RunnerTyped'
<1>1. CASE armed \/ ~((again /\ Ready # {}) \/ (sweep /\ Overdue # {}))
  BY <1>1 DEF Resume, Idle, RunnerTyped
<1>2. CASE ~armed /\ again /\ Ready # {}
  BY <1>2 DEF Resume, Pass, RunnerTyped
<1>3. CASE ~armed /\ ~(again /\ Ready # {}) /\ sweep /\ Overdue # {}
  BY <1>3 DEF Resume, Sweep, RunnerTyped
<1>4. QED  BY <1>1, <1>2, <1>3

LEMMA StartPassTyped ==
  ASSUME NEW again, NEW sweep, StartPass(again, sweep) PROVE RunnerTyped'
<1>1. CASE Ready # {}  BY <1>1 DEF StartPass, Pass, RunnerTyped
<1>2. CASE Ready = {}
  <2>1. Resume(again, sweep, FALSE, TRUE)  BY <1>2 DEF StartPass
  <2>2. QED  BY <2>1, ResumeTyped
<1>3. QED  BY <1>1, <1>2

LEMMA NotifyTyped == ASSUME RunnerTyped, Notify PROVE RunnerTyped'
<1>1. CASE timer \/ run # "none"  BY <1>1 DEF Notify, Remember, RunnerTyped
<1>2. CASE ~(timer \/ run # "none")  BY <1>2, StartPassTyped DEF Notify
<1>3. QED  BY <1>1, <1>2

LEMMA RetryStuckTyped == ASSUME RunnerTyped, RetryStuck PROVE RunnerTyped'
<1>1. CASE run # "none"  BY <1>1 DEF RetryStuck, Remember, RunnerTyped
<1>2. CASE run = "none" /\ Overdue # {}
  BY <1>2 DEF RetryStuck, StartSweep, Sweep, RunnerTyped
<1>3. CASE run = "none" /\ Overdue = {}
  <2>1. Resume(passAgain, stuckAgain, timer, TRUE)  BY <1>3 DEF RetryStuck, StartSweep
  <2>2. QED  BY <2>1, ResumeTyped
<1>4. QED  BY <1>1, <1>2, <1>3

LEMMA EndRunTyped == ASSUME NEW armed, EndRun(armed) PROVE RunnerTyped'
<1>1. CASE phase = "stopping"  BY <1>1 DEF EndRun, Idle, RunnerTyped
<1>2. CASE phase # "stopping"  BY <1>2, ResumeTyped DEF EndRun
<1>3. QED  BY <1>1, <1>2

\* The counter stops at the cap, which is why a row at it is stuck and not past it.
LEMMA ResultTyped ==
  ASSUME TypeInv, NEW ok \in BOOLEAN, Result(ok)
  PROVE  attempts' \in [Message -> 0..Cap] /\ unrecorded' \subseteq delivered'
<1>1. unrecorded' \subseteq delivered'  BY DEF Result, TypeInv
<1>2. attempts \in [Message -> 0..Cap]  BY DEF TypeInv
<1>3. CASE attempts' = attempts  BY <1>1, <1>2, <1>3
<1>4. CASE attempts[child] < Cap /\ attempts' = [attempts EXCEPT ![child] = @ + 1]
  <2>1. attempts' = [m \in Message |-> IF m = child THEN attempts[m] + 1 ELSE attempts[m]]
    BY <1>2, <1>4
  <2>2. \A m \in Message : attempts[m] \in 0..Cap  BY <1>2
  <2>3. \A m \in Message : attempts'[m] \in 0..Cap  BY <2>1, <2>2, <1>4, HookAssumption
  <2>4. QED  BY <1>1, <2>1, <2>3
<1>5. QED  BY <1>3, <1>4 DEF Result, Bumped

LEMMA HookEndsTyped == ASSUME TypeInv, NEW ok \in BOOLEAN, HookEnds(ok) PROVE TypeInv'
<1>1. attempts' \in [Message -> 0..Cap] /\ unrecorded' \subseteq delivered'
  BY ResultTyped DEF HookEnds
<1>2. UNCHANGED <<stored, expired, crashes>>  BY DEF HookEnds, Result
<1>3. SUFFICES RunnerTyped' /\ awaited' \in BOOLEAN  BY <1>1, <1>2 DEF TypeInv
<1>4. CASE awaited' = FALSE /\ \E armed : EndRun(armed)
  BY <1>4, EndRunTyped
<1>5. CASE run = "pass"
  <2>1. NextOfPass(ok)  BY <1>5 DEF HookEnds
  <2>2. CASE ~BacksOff(ok) /\ Ready # {}
    BY <2>1, <2>2 DEF NextOfPass, Pass, TypeInv, RunnerTyped
  <2>3. QED  BY <2>1, <2>2, <1>4 DEF NextOfPass
<1>6. CASE run # "pass"
  <2>1. NextOfSweep  BY <1>6 DEF HookEnds
  <2>2. CASE rest # {}
    BY <2>1, <2>2 DEF NextOfSweep, TypeInv, RunnerTyped
  <2>3. QED  BY <2>1, <2>2, <1>4 DEF NextOfSweep
<1>7. QED  BY <1>5, <1>6

LEMMA DownTyped ==
  ASSUME TypeInv, Down, crashes' \in 0..MaxCrashes PROVE TypeInv'
  BY DEF Down, Idle, rowVars, TypeInv, RunnerTyped

LEMMA InitTyped == Init => TypeInv
<1> SUFFICES ASSUME Init PROVE TypeInv
  OBVIOUS
<1>1. attempts \in [Message -> 0..Cap]  BY HookAssumption DEF Init
<1>2. RunnerTyped /\ awaited \in BOOLEAN  BY DEF Init, RunnerTyped
<1>3. expired \cap stored = {} /\ unrecorded \subseteq delivered  BY DEF Init
<1>4. crashes \in 0..MaxCrashes  BY HookAssumption DEF Init
<1>5. QED  BY <1>1, <1>2, <1>3, <1>4 DEF TypeInv

LEMMA NextTyped == TypeInv /\ [Next]_vars => TypeInv'
<1> SUFFICES ASSUME TypeInv, [Next]_vars PROVE TypeInv'
  OBVIOUS
<1> USE HookAssumption
<1>0. RunnerTyped  BY DEF TypeInv
<1>1. ASSUME NEW M \in SUBSET Message, Start(M) PROVE TypeInv'
  <2>1. RunnerTyped'  BY <1>1, StartPassTyped DEF Start
  <2>2. awaited' \in BOOLEAN  BY <1>1 DEF Start, Handed
  <2>3. QED  BY <1>1, <2>1, <2>2 DEF Start, Insert, historyVars, TypeInv
<1>2. CASE FirstSweep
  <2>1. RunnerTyped'  BY <1>0, <1>2, RetryStuckTyped DEF FirstSweep
  <2>2. awaited' \in BOOLEAN  BY <1>2 DEF FirstSweep, Handed
  <2>3. QED  BY <1>2, <2>1, <2>2 DEF FirstSweep, rowVars, historyVars, TypeInv
<1>3. ASSUME NEW m \in Message, Ring(m) PROVE TypeInv'
  <2>1. RunnerTyped'  BY <1>0, <1>3, NotifyTyped DEF Ring
  <2>2. QED  BY <1>3, <2>1 DEF Ring, Insert, historyVars, TypeInv
<1>4. ASSUME NEW m \in Message, ImageFinishes(m) PROVE TypeInv'
  <2>1. RunnerTyped'  BY <1>0, <1>4, NotifyTyped DEF ImageFinishes
  <2>2. attempts' \in [Message -> 0..Cap]  BY <1>4 DEF ImageFinishes, TypeInv
  <2>3. QED  BY <1>4, <2>1, <2>2 DEF ImageFinishes, historyVars, TypeInv
<1>5. CASE RetryFires
  <2>1. RunnerTyped'
    <3>1. CASE run # "none"  BY <1>0, <1>5, <3>1 DEF RetryFires, RunnerTyped
    <3>2. CASE run = "none"  BY <1>5, <3>2, StartPassTyped DEF RetryFires
    <3>3. QED  BY <3>1, <3>2
  <2>2. QED  BY <1>5, <2>1 DEF RetryFires, rowVars, historyVars, TypeInv
<1>6. CASE StuckTimer
  <2>1. RunnerTyped'  BY <1>0, <1>6, RetryStuckTyped DEF StuckTimer
  <2>2. QED  BY <1>6, <2>1 DEF StuckTimer, rowVars, historyVars, TypeInv
<1>7. ASSUME NEW ok \in BOOLEAN, HookEnds(ok) PROVE TypeInv'
  BY <1>7, HookEndsTyped
<1>8. CASE Serve \/ HumanReads \/ Stop \/ UNCHANGED vars
  BY <1>8 DEF Serve, HumanReads, Stop, vars, rowVars, runVars, historyVars, TypeInv, RunnerTyped
<1>9. ASSUME NEW m \in Message, Prune(m) PROVE TypeInv'
  <2>1. attempts' \in [Message -> 0..Cap]  BY <1>9 DEF Prune, TypeInv
  <2>2. expired' \cap stored' = {}  BY <1>9 DEF Prune, TypeInv
  <2>3. QED  BY <1>9, <2>1, <2>2 DEF Prune, runVars, historyVars, TypeInv, RunnerTyped
<1>10. CASE Exit
  BY <1>10, DownTyped DEF Exit, TypeInv
<1>11. CASE Crash
  <2>1. crashes' \in 0..MaxCrashes  BY <1>11 DEF Crash, TypeInv
  <2>2. QED  BY <1>11, <2>1, DownTyped DEF Crash
<1>12. ASSUME NEW m \in Message, NEW ok \in BOOLEAN, OrphanEnds(m, ok) PROVE TypeInv'
  BY <1>12 DEF OrphanEnds, rowVars, runVars, TypeInv, RunnerTyped
<1>13. QED
  BY <1>1, <1>2, <1>3, <1>4, <1>5, <1>6, <1>7, <1>8, <1>9, <1>10, <1>11, <1>12 DEF Next

\* Every value has its type: attempts stop at the cap, a run has a hook process
\* exactly while it is in flight, only a sweep has rows still to walk, and no
\* pruned row comes back (hook.ts, db.ts).
THEOREM HookTypeCorrect == Spec => []HookTypeOK
<1>1. Init => QueueInv /\ OnceInv /\ TypeInv  BY InitQueue, InitOnce, InitTyped
<1>2. QueueInv /\ OnceInv /\ TypeInv /\ [Next]_vars => (QueueInv /\ OnceInv /\ TypeInv)'
  BY NextQueue, NextOnce, NextTyped
<1>3. QueueInv /\ OnceInv /\ TypeInv => HookTypeOK  BY TypeImplies
<1>4. QED  BY <1>1, <1>2, <1>3, PTL DEF Spec
===============================================================================
