--------------------------- MODULE SessionLifecycle ---------------------------
(***************************************************************************)
(* The life of a chat session in dg-daemon: created by a page or a CLI,    *)
(* claimed by a CLI through short-lived /cli sockets, released after a     *)
(* quiet gap, reaped, archived and finally dropped; kept in memory by      *)
(* SessionRegistry and in the `sessions` and `archived_sessions` tables by *)
(* the store, across crashes, graceful stops and boots of the daemon.      *)
(*                                                                         *)
(* A timestamp is modelled by its age in ticks.  An age is only ever       *)
(* compared with the one limit that governs its field, so it stops growing *)
(* there; Unset is an absent timestamp.  Records that are closed, and rows *)
(* that are archived, are never read again but for their state and close   *)
(* time, so their other fields are blanked.                                *)
(***************************************************************************)
EXTENDS Naturals, FiniteSets

CONSTANTS
    Session,            \* session ids
    Unset,              \* an undefined timestamp
    SessionTtl,         \* DG_SESSION_TTL_MS
    AgentGone,          \* DG_AGENT_GONE_MS
    UnclaimedTtl,       \* DG_UNCLAIMED_TTL_MS
    Grace,              \* DG_CLI_REATTACH_GRACE_MS
    ClosedRetention,    \* CLOSED_RECORD_RETENTION_MS
    ArchiveTtl,         \* DG_ARCHIVE_TTL_MS
    ArchiveMaxRows,     \* DG_ARCHIVE_MAX_ROWS
    UpgradeMayFail,     \* whether server.upgrade can refuse an authenticated request
    MaxSockets,         \* bound: CLI sockets open at once for one session
    MaxStops,           \* bound: graceful stops
    MaxCrashes          \* bound: crashes

ASSUME LimitAssumption ==
    /\ SessionTtl \in Nat \ {0}
    /\ AgentGone \in Nat \ {0}
    /\ UnclaimedTtl \in Nat \ {0}
    /\ Grace \in Nat \ {0}
    /\ ClosedRetention \in Nat \ {0}
    /\ ArchiveTtl \in Nat \ {0}
    /\ ArchiveMaxRows \in Nat
    /\ Unset \notin Nat

ASSUME LifecycleAssumption ==
    /\ UpgradeMayFail \in BOOLEAN
    /\ MaxSockets \in Nat
    /\ MaxStops \in Nat
    /\ MaxCrashes \in Nat
    /\ IsFiniteSet(Session)

VARIABLES
    phase,      \* the daemon process: up, stopping (its server still answers), down
    record,     \* the registry's Map, in memory
    row,        \* the `sessions` table
    archive,    \* archive[s]: age of archived_at in `archived_sessions`, or Unset
    sockets,    \* open CLI sockets that hold the session's capability
    unseen,     \* history: ticks since a CLI socket was last open; Unset: not since a stop
    stops, crashes

vars == <<phase, record, row, archive, sockets, unseen, stops, crashes>>

Age(limit) == (0..limit) \cup {Unset}

Record ==
    [state : {"none", "active", "closed", "archived"},
     awaiting : BOOLEAN, attached : BOOLEAN,
     created : Age(UnclaimedTtl), activity : Age(SessionTtl), quiet : Age(Grace),
     detached : Age(AgentGone), closedFor : Age(ClosedRetention)]

Blank ==
    [state |-> "none", awaiting |-> FALSE, attached |-> FALSE, created |-> Unset,
     activity |-> Unset, quiet |-> Unset, detached |-> Unset, closedFor |-> Unset]

Active(r) == r.state = "active"

Init ==
    /\ phase = "up"
    /\ record = [s \in Session |-> Blank]
    /\ row = [s \in Session |-> Blank]
    /\ archive = [s \in Session |-> Unset]
    /\ sockets = [s \in Session |-> 0]
    /\ unseen = [s \in Session |-> Unset]
    /\ stops = 0
    /\ crashes = 0

-------------------------------------------------------------------------------
(***************************************************************************)
(* What the registry's methods do to one record.                           *)
(***************************************************************************)
\* Mutant of Attached: a reattach does not reset the quiet clock.
AttachedKeepsQuiet(r) ==
    [r EXCEPT !.attached = TRUE, !.awaiting = FALSE, !.detached = Unset, !.activity = 0]

\* noteCliAttached
Attached(r) ==
    [r EXCEPT !.attached = TRUE, !.awaiting = FALSE, !.quiet = Unset,
              !.detached = Unset, !.activity = 0]

\* noteCliQuiet
Quieted(r) == IF r.attached /\ r.quiet = Unset THEN [r EXCEPT !.quiet = 0] ELSE r

\* noteCliDetached
Detached(r) == [r EXCEPT !.attached = FALSE, !.detached = 0]

\* Mutant of Archived: the row is saved as closed, not archived.
ArchivedAsClosed(r) == [Blank EXCEPT !.state = "closed"]

\* close, in memory, and the row archiveSession leaves
Closed(r) == [Blank EXCEPT !.state = "closed", !.closedFor = 0]
Archived(r) == [Blank EXCEPT !.state = "archived"]

\* shouldReleaseClaim
ShouldReleaseClaim(r, socketOpen) ==
    /\ Active(r)
    /\ ~socketOpen
    /\ r.attached
    /\ r.quiet # Unset
    /\ r.quiet >= Grace

\* Mutant of ShouldReapSession: one clock for every session.
ShouldReapByActivity(r, socketOpen) ==
    Active(r) /\ ~socketOpen /\ ~r.attached /\ r.activity >= SessionTtl

\* shouldReapSession: which clock decides depends on who claimed the session.
ShouldReapSession(r, socketOpen) ==
    /\ Active(r)
    /\ ~socketOpen /\ ~r.attached
    /\ CASE r.awaiting                         -> r.created >= UnclaimedTtl
         [] ~r.awaiting /\ r.detached # Unset  -> r.detached >= AgentGone
         [] OTHER                              -> r.activity >= SessionTtl

\* isManuallyClearable
IsManuallyClearable(r) == Active(r) /\ ~r.attached /\ ~r.awaiting

-------------------------------------------------------------------------------
(***************************************************************************)
(* The archive.  pruneArchiveIds drops what is past the age cap and, of    *)
(* the rest, all but the ArchiveMaxRows youngest; rows archived at the     *)
(* same time may come in any order, so it is the set of its outcomes.      *)
(***************************************************************************)
PruneArchiveIds(arch) ==
    LET rows  == {s \in Session : arch[s] # Unset}
        fresh == {s \in rows : arch[s] < ArchiveTtl}
        Keeps(kept) ==
            /\ kept = fresh \/ Cardinality(kept) = ArchiveMaxRows
            /\ Cardinality(kept) <= ArchiveMaxRows
            /\ \A a \in kept, b \in fresh \ kept : arch[a] <= arch[b]
    IN  {rows \ kept : kept \in {k \in SUBSET fresh : Keeps(k)}}

\* maintainArchive over the tables `rows` and `arch`.
MaintainArchive(rows, arch) ==
    \E drop \in PruneArchiveIds(arch) :
        /\ row' = [s \in Session |-> IF s \in drop THEN Blank ELSE rows[s]]
        /\ archive' = [s \in Session |-> IF s \in drop THEN Unset ELSE arch[s]]

\* archiveSession for the sessions S.
ArchiveRows(S) == [s \in Session |-> IF s \in S THEN Archived(row[s]) ELSE row[s]]
ArchiveTimes(S) == [s \in Session |-> IF s \in S THEN 0 ELSE archive[s]]

\* The "closed" event takes the capability from every socket that holds it.
Dismiss(S) ==
    /\ sockets' = [s \in Session |-> IF s \in S THEN 0 ELSE sockets[s]]
    /\ unseen' = [s \in Session |-> IF s \in S THEN Unset ELSE unseen[s]]

\* Mutant of Persist: memory only.
KeepInMemory(s, r) ==
    /\ record' = [record EXCEPT ![s] = r]
    /\ UNCHANGED row

Persist(s, r) ==
    /\ record' = [record EXCEPT ![s] = r]
    /\ row' = [row EXCEPT ![s] = r]

-------------------------------------------------------------------------------
(***************************************************************************)
(* Requests and sockets.  They are served until the process is gone.       *)
(***************************************************************************)
Serving == phase # "down"

\* registry.create.  Ids are UUIDs: one that no table knows is a new one.
Create(s, awaiting) ==
    /\ Serving
    /\ record[s] = Blank /\ row[s] = Blank /\ archive[s] = Unset
    /\ Persist(s, [Blank EXCEPT !.state = "active", !.awaiting = awaiting,
                                !.created = 0, !.activity = 0])
    /\ UNCHANGED <<phase, archive, sockets, unseen, stops, crashes>>

\* handleCliUpgrade notes the CLI before it upgrades; the socket opens only if
\* the upgrade succeeds.
CliUpgrade(s, upgraded) ==
    /\ Serving
    /\ Active(record[s])
    /\ upgraded => sockets[s] < MaxSockets
    /\ Persist(s, Attached(record[s]))
    /\ sockets' = [sockets EXCEPT ![s] = IF upgraded THEN @ + 1 ELSE @]
    /\ unseen' = [unseen EXCEPT ![s] = IF upgraded THEN 0 ELSE @]
    /\ UNCHANGED <<phase, archive, stops, crashes>>

\* Mutant of CliClose: any closing CLI socket starts the quiet clock.
CliCloseAlwaysQuiet(s) ==
    /\ Serving
    /\ sockets[s] > 0
    /\ sockets' = [sockets EXCEPT ![s] = @ - 1]
    /\ Persist(s, Quieted(record[s]))
    /\ UNCHANGED <<phase, archive, unseen, stops, crashes>>

\* The socket's close handler: the last CLI socket starts the quiet clock.
CliClose(s) ==
    /\ Serving
    /\ sockets[s] > 0
    /\ sockets' = [sockets EXCEPT ![s] = @ - 1]
    /\ Persist(s, IF sockets'[s] = 0 THEN Quieted(record[s]) ELSE record[s])
    /\ UNCHANGED <<phase, archive, unseen, stops, crashes>>

\* Any authorised frame but a keepalive, from a page or a CLI.
Touch(s) ==
    /\ Serving
    /\ Active(record[s])
    /\ Persist(s, [record[s] EXCEPT !.activity = 0])
    /\ UNCHANGED <<phase, archive, sockets, unseen, stops, crashes>>

\* session-close from the CLI or the canvas.
Close(s) ==
    /\ Serving
    /\ Active(record[s])
    /\ record' = [record EXCEPT ![s] = Closed(@)]
    /\ row' = ArchiveRows({s})
    /\ archive' = ArchiveTimes({s})
    /\ Dismiss({s})
    /\ UNCHANGED <<phase, stops, crashes>>

\* POST /sessions/clear
ClearDisconnected ==
    LET cleared == {s \in Session : IsManuallyClearable(record[s])}
    IN  /\ Serving
        /\ record' = [s \in Session |->
                        IF s \in cleared THEN Closed(record[s]) ELSE record[s]]
        /\ MaintainArchive(ArchiveRows(cleared), ArchiveTimes(cleared))
        /\ Dismiss(cleared)
        /\ UNCHANGED <<phase, stops, crashes>>

-------------------------------------------------------------------------------
(***************************************************************************)
(* The reap timer: reapExpired releases the claims that were quiet for the *)
(* whole grace, closes what shouldReapSession names, evicts old closed     *)
(* records; then the archive is maintained.                                *)
(***************************************************************************)
ReapTick ==
    LET released == {s \in Session : ShouldReleaseClaim(record[s], sockets[s] > 0)}
        Freed(s) == IF s \in released THEN Detached(record[s]) ELSE record[s]
        expired == {s \in Session : ShouldReapSession(Freed(s), sockets[s] > 0)}
        Kept(s) == IF s \in expired THEN Closed(record[s]) ELSE Freed(s)
        evicted == {s \in Session : /\ Kept(s).state = "closed"
                                    /\ Kept(s).closedFor >= ClosedRetention}
    IN  /\ phase = "up"
        /\ record' = [s \in Session |-> IF s \in evicted THEN Blank ELSE Kept(s)]
        /\ MaintainArchive(
             [s \in Session |-> IF s \in expired THEN Archived(row[s])
                                ELSE IF s \in released THEN Freed(s) ELSE row[s]],
             ArchiveTimes(expired))
        /\ Dismiss(expired)
        /\ UNCHANGED <<phase, stops, crashes>>

-------------------------------------------------------------------------------
(***************************************************************************)
(* Stops, crashes, boots, and time.                                        *)
(***************************************************************************)
\* Mutant of ShutdownRow: closeAll also saves the records that were closed.
ShutdownRowOfClosed(s) ==
    IF record[s].state # "none"
    THEN [record[s] EXCEPT !.state = "active", !.attached = FALSE, !.closedFor = 0]
    ELSE row[s]

\* What closeAll("daemon-shutdown") leaves in the table for a record.
ShutdownRow(s) ==
    IF Active(record[s])
    THEN [record[s] EXCEPT !.attached = FALSE, !.closedFor = 0]
    ELSE row[s]

\* shutdown() up to its wait for the session-closed frames to drain.
Shutdown ==
    /\ phase = "up"
    /\ stops < MaxStops
    /\ phase' = "stopping"
    /\ stops' = stops + 1
    /\ row' = [s \in Session |-> ShutdownRow(s)]
    /\ record' = [s \in Session |->
                    IF Active(record[s]) THEN Closed(record[s]) ELSE record[s]]
    /\ Dismiss(Session)
    /\ UNCHANGED <<archive, crashes>>

\* The rest of shutdown(): stop(true) closes the sockets that sessions created
\* meanwhile have, and runs their close handlers.
FinishShutdown ==
    /\ phase = "stopping"
    /\ phase' = "down"
    /\ row' = [s \in Session |-> IF sockets[s] > 0 THEN Quieted(row[s]) ELSE row[s]]
    /\ record' = [s \in Session |-> Blank]
    /\ sockets' = [s \in Session |-> 0]
    /\ UNCHANGED <<archive, unseen, stops, crashes>>

Crash ==
    /\ Serving
    /\ crashes < MaxCrashes
    /\ crashes' = crashes + 1
    /\ phase' = "down"
    /\ record' = [s \in Session |-> Blank]
    /\ sockets' = [s \in Session |-> 0]
    /\ UNCHANGED <<row, archive, unseen, stops>>

\* The registry's constructor takes the active rows as loadSessions reads them.
Boot ==
    /\ phase = "down"
    /\ phase' = "up"
    /\ record' = [s \in Session |-> IF Active(row[s]) THEN row[s] ELSE Blank]
    /\ UNCHANGED <<row, archive, sockets, unseen, stops, crashes>>

Older(a, limit) == IF a = Unset \/ a = limit THEN a ELSE a + 1

OlderRecord(r) ==
    [r EXCEPT !.created = Older(@, UnclaimedTtl), !.activity = Older(@, SessionTtl),
              !.quiet = Older(@, Grace), !.detached = Older(@, AgentGone),
              !.closedFor = Older(@, ClosedRetention)]

Tick ==
    /\ record' = [s \in Session |-> OlderRecord(record[s])]
    /\ row' = [s \in Session |-> OlderRecord(row[s])]
    /\ archive' = [s \in Session |-> Older(archive[s], ArchiveTtl)]
    /\ unseen' = [s \in Session |->
                    IF sockets[s] > 0 THEN unseen[s] ELSE Older(unseen[s], Grace + AgentGone)]
    /\ UNCHANGED <<phase, sockets, stops, crashes>>

Next ==
    \/ \E s \in Session, awaiting \in BOOLEAN : Create(s, awaiting)
    \/ \E s \in Session : CliUpgrade(s, TRUE)
    \/ \E s \in Session : UpgradeMayFail /\ CliUpgrade(s, FALSE)
    \/ \E s \in Session : CliClose(s)
    \/ \E s \in Session : Touch(s)
    \/ \E s \in Session : Close(s)
    \/ ClearDisconnected
    \/ ReapTick
    \/ Shutdown
    \/ FinishShutdown
    \/ Crash
    \/ Boot
    \/ Tick

Spec == Init /\ [][Next]_vars

(***************************************************************************)
(* The reap timer is an interval, time passes, shutdown's wait ends when   *)
(* the last socket drains or closes (idleTimeout), and a daemon that is    *)
(* down is booted by the next dg command.                                  *)
(***************************************************************************)
Fairness == WF_vars(Tick) /\ WF_vars(ReapTick) /\ WF_vars(FinishShutdown) /\ WF_vars(Boot)

FairSpec == Spec /\ Fairness

-------------------------------------------------------------------------------
(***************************************************************************)
(* Properties.                                                             *)
(***************************************************************************)
\* Every variable keeps its type; a closed record has its close time.
TypeOK ==
    /\ phase \in {"up", "stopping", "down"}
    /\ record \in [Session -> Record]
    /\ row \in [Session -> Record]
    /\ archive \in [Session -> Age(ArchiveTtl)]
    /\ sockets \in [Session -> 0..MaxSockets]
    /\ unseen \in [Session -> Age(Grace + AgentGone)]
    /\ stops \in 0..MaxStops
    /\ crashes \in 0..MaxCrashes
    /\ \A s \in Session : record[s].state = "closed" => record[s].closedFor # Unset

\* A crash at any instant loses nothing: what the registry holds of a live
\* session is what its row says, and no row is live that the registry does not
\* hold, so the next boot continues where the daemon was.
CrashLosesNothing ==
    \A s \in Session :
        /\ Active(record[s]) => row[s] = record[s]
        /\ phase = "up" /\ Active(row[s]) => Active(record[s])

\* The two tables agree: a session has an archive entry exactly when its row
\* is archived, so the archive prune never drops a live session's transcript
\* and never leaves an archived one behind for ever.
ArchiveMatchesRows ==
    \A s \in Session : row[s].state = "archived" <=> archive[s] # Unset

\* A session is expired by the reap timer only when no CLI socket of it was
\* open during the last Grace + AgentGone, and cleared by hand only when none
\* was during the last Grace; crashes in between do not shorten either.  (A
\* graceful stop gives the claim up and restarts the count.)
AttendedNeverReaped ==
    [][\A s \in Session :
         Active(record[s]) /\ record'[s].state = "closed" /\ unseen[s] # Unset =>
           /\ ReapTick => sockets[s] = 0 /\ unseen[s] >= Grace + AgentGone
           /\ ClearDisconnected => sockets[s] = 0 /\ unseen[s] >= Grace]_vars

\* A session that was closed, archived or dropped never becomes live again,
\* in memory or in the table, whatever stops, crashes and boots follow.
NoResurrection ==
    [][\A s \in Session :
         (archive[s] # Unset \/ (record[s].state = "closed" /\ ~Active(row[s]))) =>
           ~Active(record'[s]) /\ ~Active(row'[s])]_vars

\* The claim of s is held by no socket, and no clock will release it.
Unclocked(s) ==
    /\ Active(record[s]) /\ record[s].attached
    /\ sockets[s] = 0 /\ record[s].quiet = Unset

\* The quiet clock runs while the claim is held without a socket, and only
\* then.  A claim comes to be held without either in two ways only: the daemon
\* booted after a crash took the socket, or it refused the upgrade it had
\* already noted.
QuietClockExact ==
    [][\A s \in Session :
         /\ Active(record'[s]) /\ record'[s].quiet # Unset => sockets'[s] = 0
         /\ Unclocked(s)' /\ ~Unclocked(s) => Boot \/ CliUpgrade(s, FALSE)]_vars

\* Somebody has a reason to keep session s: a CLI socket is open, or no CLI
\* ever claimed it since the boot and a page used it within SessionTtl.
Attending(s) ==
    \/ sockets[s] > 0
    \/ /\ ~row[s].awaiting /\ ~row[s].attached /\ row[s].detached = Unset
       /\ row[s].activity < SessionTtl

\* A session nobody keeps is archived in the end: no session occupies a slot
\* for ever without a CLI or recent use, unless its claim has lost its clock.
AbandonedSessionExpires ==
    \A s \in Session : []<>(Active(row[s]) => Attending(s) \/ Unclocked(s))
===============================================================================
