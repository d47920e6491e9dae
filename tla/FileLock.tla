-------------------------------- MODULE FileLock --------------------------------
(***************************************************************************)
(* The lock file the `dg` processes of one machine share                   *)
(* (pkg/dg-agent/src/phone/file-lock.ts), under which the phone's vault    *)
(* key is made and its storage is written (vault.ts).                      *)
(*                                                                         *)
(* A process takes the lock by creating the file with its token.  One that *)
(* finds the file there judges by the token whether its holder is alive;   *)
(* if not it moves the file aside, judges again what it moved, and puts    *)
(* back what was not stale.  Each system call is a step.  An empty file,   *)
(* created and not written yet, is fresh for 30 seconds, as one whose      *)
(* holder lives, and stale after that, as one whose holder died: the       *)
(* creation and the first write are one step.                              *)
(***************************************************************************)
EXTENDS Naturals, FiniteSets

CONSTANTS
    Process,    \* processes; a pid is not reused, or its start time differs
    NoFile,
    MaxTries,   \* bound: tokens a process makes
    MaxDeaths   \* bound

VARIABLES
    file,       \* the token in the lock file, or NoFile
    aside,      \* aside[p]: the token p has moved aside, or NoFile
    pc,         \* where each process stands
    tries       \* tokens made so far; p's last one is <<p, tries[p]>>

vars == <<file, aside, pc, tries>>

\* Processes that run, or have run, the work under the lock.
Holding == {p \in Process : pc[p] = "work"}

Dead == {p \in Process : pc[p] = "dead"}

Token(p) == <<p, tries[p]>>

\* lockStale.
Stale(content) == content # NoFile /\ content[1] \in Dead

Goto(p, place) == pc' = [pc EXCEPT ![p] = place]

Init ==
    /\ file = NoFile
    /\ aside = [p \in Process |-> NoFile]
    /\ pc = [p \in Process |-> "trying"]
    /\ tries = [p \in Process |-> 0]

\* tryFileLock finds no file: it creates it, and the work begins.
Take(p) ==
    /\ pc[p] = "trying" /\ file = NoFile
    /\ tries[p] < MaxTries
    /\ tries' = [tries EXCEPT ![p] = @ + 1]
    /\ file' = Token(p)'
    /\ Goto(p, "work")
    /\ UNCHANGED aside

\* tryFileLock finds a file and judges it stale; a fresh one is waited for.
Judge(p) ==
    /\ pc[p] = "trying" /\ Stale(file)
    /\ Goto(p, "break")
    /\ UNCHANGED <<file, aside, tries>>

\* breakStaleLock: renameSync, of whatever the file is by now.
MoveAside(p) ==
    /\ pc[p] = "break"
    /\ aside' = [aside EXCEPT ![p] = file]
    /\ file' = NoFile
    /\ Goto(p, IF file = NoFile THEN "trying" ELSE "check")
    /\ UNCHANGED tries

\* breakStaleLock: the second look at what was moved.
Check(p) ==
    /\ pc[p] = "check"
    /\ Goto(p, IF Stale(aside[p]) THEN "drop" ELSE "restore")
    /\ UNCHANGED <<file, aside, tries>>

\* breakStaleLock: written back, unless another file is there by now.
Restore(p) ==
    /\ pc[p] = "restore"
    /\ file' = IF file = NoFile THEN aside[p] ELSE file
    /\ Goto(p, "drop")
    /\ UNCHANGED <<aside, tries>>

\* breakStaleLock: rmSync(aside).
Drop(p) ==
    /\ pc[p] = "drop"
    /\ aside' = [aside EXCEPT ![p] = NoFile]
    /\ Goto(p, "trying")
    /\ UNCHANGED <<file, tries>>

\* The work is over; release reads the file,
Release(p) ==
    /\ pc[p] = "work"
    /\ Goto(p, IF file = Token(p) THEN "remove" ELSE "trying")
    /\ UNCHANGED <<file, aside, tries>>

\* and removes it if it held its token when it was read.
Remove(p) ==
    /\ pc[p] = "remove"
    /\ file' = NoFile
    /\ Goto(p, "trying")
    /\ UNCHANGED <<aside, tries>>

\* The process is killed, at any point.
Die(p) ==
    /\ p \notin Dead
    /\ Cardinality(Dead) < MaxDeaths
    /\ Goto(p, "dead")
    /\ UNCHANGED <<file, aside, tries>>

Next ==
    \E p \in Process :
        \/ Take(p)
        \/ Judge(p)
        \/ MoveAside(p)
        \/ Check(p)
        \/ Restore(p)
        \/ Drop(p)
        \/ Release(p)
        \/ Remove(p)
        \/ Die(p)

Spec == Init /\ [][Next]_vars

-------------------------------------------------------------------------------
\* file-lock.ts: withFileLock "runs `work` while this process holds `name` in
\* `root`, so only one process runs it at a time".
OneAtATime == Cardinality(Holding) <= 1
===============================================================================
