-------------------------- MODULE DispatchScheduler ---------------------------
(***************************************************************************)
(* dispatch/scheduler.ts: the admission control that every command the     *)
(* daemon spawns passes, a session's published commands and the scheduled  *)
(* jobs alike.  It counts executions per session and daemon-wide by hand   *)
(* and keeps the start times of the last minute per session and label.     *)
(* The module holds its state and its two calls; JobRunner composes them   *)
(* with the callers.                                                       *)
(***************************************************************************)
EXTENDS Naturals, FiniteSets

CONSTANTS
    Session,        \* session ids that ask for admission, the scheduler's own included
    Key,            \* keys <<session, label>> of the rate window
    MaxPerSession,  \* limits.maxConcurrentPerSession
    MaxDaemonWide,  \* DISPATCH_MAX_CONCURRENT_DAEMON_WIDE
    MaxPerMinute    \* limits.maxInvocationsPerMinute

ASSUME LimitAssumption ==
    /\ MaxPerSession \in Nat \ {0}
    /\ MaxDaemonWide \in Nat \ {0}
    /\ MaxPerMinute \in Nat \ {0}

VARIABLES
    sessionInFlight,    \* sessionInFlight[s]: admissions of s not yet released
    daemonInFlight,     \* the same over all sessions
    recent              \* recent[k]: start times of k inside the rate window

schedulerVars == <<sessionInFlight, daemonInFlight, recent>>

\* A new DispatchScheduler: every map empty.
FreshScheduler ==
    /\ sessionInFlight = [s \in Session |-> 0]
    /\ daemonInFlight = 0
    /\ recent = [k \in Key |-> 0]

\* Mutants of Admissible: one start too many in the window, or the daemon-wide
\* limit forgotten.
AdmissibleOneMore(s, k) ==
    /\ recent[k] <= MaxPerMinute
    /\ sessionInFlight[s] < MaxPerSession
    /\ daemonInFlight < MaxDaemonWide

AdmissibleBySession(s, k) ==
    /\ recent[k] < MaxPerMinute
    /\ sessionInFlight[s] < MaxPerSession

\* tryAdmit's three refusals, passed.
Admissible(s, k) ==
    /\ recent[k] < MaxPerMinute
    /\ sessionInFlight[s] < MaxPerSession
    /\ daemonInFlight < MaxDaemonWide

\* The rest of tryAdmit.
Admit(s, k) ==
    /\ recent' = [recent EXCEPT ![k] = @ + 1]
    /\ sessionInFlight' = [sessionInFlight EXCEPT ![s] = @ + 1]
    /\ daemonInFlight' = daemonInFlight + 1

\* release: neither count goes below zero.
Release(s) ==
    /\ sessionInFlight' = [sessionInFlight EXCEPT ![s] = IF @ <= 1 THEN 0 ELSE @ - 1]
    /\ daemonInFlight' = IF daemonInFlight = 0 THEN 0 ELSE daemonInFlight - 1
    /\ UNCHANGED recent

\* The oldest start of k falls out of the sliding window.
WindowSlides(k) ==
    /\ recent[k] > 0
    /\ recent' = [recent EXCEPT ![k] = @ - 1]
    /\ UNCHANGED <<sessionInFlight, daemonInFlight>>
===============================================================================
