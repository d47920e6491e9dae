----------------------- MODULE SessionLifecycleProofs -----------------------
(***************************************************************************)
(* Proofs, for every value of the constants, that the registry and its     *)
(* tables agree at every instant, that no closed session returns, and that *)
(* the sweep closes only sessions nobody has attended for the grace time.  *)
(***************************************************************************)
EXTENDS SessionLifecycle, TLAPS

USE LimitAssumption, LifecycleAssumption

-------------------------------------------------------------------------------
(***************************************************************************)
(* Lemmas about the operators on records and tables.                       *)
(***************************************************************************)
\* Blank is a record of no state.
LEMMA BlankIsRecord == Blank \in Record /\ Blank.state = "none"
BY DEF Blank, Record, Age

\* Writing one field of a record gives a record of the same state.
LEMMA OneField ==
    ASSUME NEW r \in Record
    PROVE  /\ \A b \in BOOLEAN :
                /\ [r EXCEPT !.attached = b] \in Record
                /\ [r EXCEPT !.attached = b].state = r.state
                /\ [r EXCEPT !.awaiting = b] \in Record
                /\ [r EXCEPT !.awaiting = b].state = r.state
           /\ \A a \in {0, Unset} :
                /\ [r EXCEPT !.created = a] \in Record
                /\ [r EXCEPT !.created = a].state = r.state
                /\ [r EXCEPT !.activity = a] \in Record
                /\ [r EXCEPT !.activity = a].state = r.state
                /\ [r EXCEPT !.quiet = a] \in Record
                /\ [r EXCEPT !.quiet = a].state = r.state
                /\ [r EXCEPT !.detached = a] \in Record
                /\ [r EXCEPT !.detached = a].state = r.state
                /\ [r EXCEPT !.closedFor = a] \in Record
                /\ [r EXCEPT !.closedFor = a].state = r.state
                /\ [r EXCEPT !.closedFor = a].closedFor = a
           /\ \A x \in {"active", "closed", "archived"} :
                /\ [r EXCEPT !.state = x] \in Record
                /\ [r EXCEPT !.state = x].state = x
<1>1. /\ {0, Unset} \subseteq Age(UnclaimedTtl)
      /\ {0, Unset} \subseteq Age(SessionTtl)
      /\ {0, Unset} \subseteq Age(Grace)
      /\ {0, Unset} \subseteq Age(AgentGone)
      /\ {0, Unset} \subseteq Age(ClosedRetention)
  BY DEF Age
<1>2. ASSUME NEW b \in BOOLEAN
      PROVE  /\ [r EXCEPT !.attached = b] \in Record
             /\ [r EXCEPT !.attached = b].state = r.state
             /\ [r EXCEPT !.awaiting = b] \in Record
             /\ [r EXCEPT !.awaiting = b].state = r.state
  BY DEF Record
<1>3. ASSUME NEW a \in {0, Unset}
      PROVE  /\ [r EXCEPT !.created = a] \in Record
             /\ [r EXCEPT !.created = a].state = r.state
             /\ [r EXCEPT !.activity = a] \in Record
             /\ [r EXCEPT !.activity = a].state = r.state
             /\ [r EXCEPT !.quiet = a] \in Record
             /\ [r EXCEPT !.quiet = a].state = r.state
             /\ [r EXCEPT !.detached = a] \in Record
             /\ [r EXCEPT !.detached = a].state = r.state
             /\ [r EXCEPT !.closedFor = a] \in Record
             /\ [r EXCEPT !.closedFor = a].state = r.state
             /\ [r EXCEPT !.closedFor = a].closedFor = a
  BY <1>1 DEF Record
<1>4. ASSUME NEW x \in {"active", "closed", "archived"}
      PROVE  /\ [r EXCEPT !.state = x] \in Record
             /\ [r EXCEPT !.state = x].state = x
  BY DEF Record
<1>. QED BY <1>2, <1>3, <1>4

\* The registry's methods map records to records and keep the state, but for
\* close and archive, which set it.
LEMMA RecordOps ==
    ASSUME NEW r \in Record
    PROVE  /\ Attached(r) \in Record /\ Attached(r).state = r.state
           /\ Quieted(r) \in Record /\ Quieted(r).state = r.state
           /\ Detached(r) \in Record /\ Detached(r).state = r.state
           /\ Closed(r) \in Record /\ Closed(r).state = "closed"
           /\ Closed(r).closedFor = 0
           /\ Archived(r) \in Record /\ Archived(r).state = "archived"
<1>1. Attached(r) \in Record /\ Attached(r).state = r.state
  <2> DEFINE r1 == [r EXCEPT !.attached = TRUE]
             r2 == [r1 EXCEPT !.awaiting = FALSE]
             r3 == [r2 EXCEPT !.quiet = Unset]
             r4 == [r3 EXCEPT !.detached = Unset]
             r5 == [r4 EXCEPT !.activity = 0]
  <2>1. r1 \in Record /\ r1.state = r.state
    BY OneField
  <2>2. r2 \in Record /\ r2.state = r1.state
    <3> HIDE DEF r1
    <3> QED BY <2>1, OneField
  <2>3. r3 \in Record /\ r3.state = r2.state
    <3> HIDE DEF r2
    <3> QED BY <2>2, OneField
  <2>4. r4 \in Record /\ r4.state = r3.state
    <3> HIDE DEF r3
    <3> QED BY <2>3, OneField
  <2>5. r5 \in Record /\ r5.state = r4.state
    <3> HIDE DEF r4
    <3> QED BY <2>4, OneField
  <2>6. Attached(r) = r5
    BY DEF Attached
  <2>. HIDE DEF r1, r2, r3, r4, r5
  <2>. QED BY <2>1, <2>2, <2>3, <2>4, <2>5, <2>6
<1>2. Quieted(r) \in Record /\ Quieted(r).state = r.state
  BY OneField DEF Quieted
<1>3. Detached(r) \in Record /\ Detached(r).state = r.state
  <2> DEFINE r1 == [r EXCEPT !.attached = FALSE]
             r2 == [r1 EXCEPT !.detached = 0]
  <2>1. r1 \in Record /\ r1.state = r.state
    BY OneField
  <2>2. r2 \in Record /\ r2.state = r1.state
    <3> HIDE DEF r1
    <3> QED BY <2>1, OneField
  <2>3. Detached(r) = r2
    BY DEF Detached
  <2>. HIDE DEF r1, r2
  <2>. QED BY <2>1, <2>2, <2>3
<1>4. Closed(r) \in Record /\ Closed(r).state = "closed" /\ Closed(r).closedFor = 0
  <2> DEFINE r1 == [Blank EXCEPT !.state = "closed"]
             r2 == [r1 EXCEPT !.closedFor = 0]
  <2>1. r1 \in Record /\ r1.state = "closed"
    BY BlankIsRecord, OneField
  <2>2. r2 \in Record /\ r2.state = r1.state /\ r2.closedFor = 0
    <3> HIDE DEF r1
    <3> QED BY <2>1, OneField
  <2>3. Closed(r) = r2
    BY DEF Closed
  <2>. HIDE DEF r1, r2
  <2>. QED BY <2>1, <2>2, <2>3
<1>5. Archived(r) \in Record /\ Archived(r).state = "archived"
  BY BlankIsRecord, OneField DEF Archived
<1>. QED BY <1>1, <1>2, <1>3, <1>4, <1>5

\* The record that create makes, and the row that a graceful stop leaves.
LEMMA NewAndStopped ==
    ASSUME NEW r \in Record, NEW w \in BOOLEAN
    PROVE  /\ [Blank EXCEPT !.state = "active", !.awaiting = w,
                            !.created = 0, !.activity = 0] \in Record
           /\ [Blank EXCEPT !.state = "active", !.awaiting = w,
                            !.created = 0, !.activity = 0].state = "active"
           /\ [r EXCEPT !.attached = FALSE, !.closedFor = 0] \in Record
           /\ [r EXCEPT !.attached = FALSE, !.closedFor = 0].state = r.state
<1> DEFINE b1 == [Blank EXCEPT !.state = "active"]
           b2 == [b1 EXCEPT !.awaiting = w]
           b3 == [b2 EXCEPT !.created = 0]
           b4 == [b3 EXCEPT !.activity = 0]
           r1 == [r EXCEPT !.attached = FALSE]
           r2 == [r1 EXCEPT !.closedFor = 0]
<1>1. b1 \in Record /\ b1.state = "active"
  BY BlankIsRecord, OneField
<1>2. b2 \in Record /\ b2.state = "active"
  <2> HIDE DEF b1
  <2> QED BY <1>1, OneField
<1>3. b3 \in Record /\ b3.state = "active"
  <2> HIDE DEF b2
  <2> QED BY <1>2, OneField
<1>4. b4 \in Record /\ b4.state = "active"
  <2> HIDE DEF b3
  <2> QED BY <1>3, OneField
<1>5. r1 \in Record /\ r1.state = r.state
  BY OneField
<1>6. r2 \in Record /\ r2.state = r.state
  <2> HIDE DEF r1
  <2> QED BY <1>5, OneField
<1>. QED BY <1>4, <1>6

\* An age stays in its range, and is absent after a tick exactly if it was.
LEMMA OlderAge ==
    ASSUME NEW limit \in Nat, NEW a \in Age(limit)
    PROVE  /\ Older(a, limit) \in Age(limit)
           /\ Older(a, limit) = Unset <=> a = Unset
BY DEF Older, Age

\* A tick keeps a record's type, its state, and whether it has a close time.
LEMMA OlderRecordFacts ==
    ASSUME NEW r \in Record
    PROVE  /\ OlderRecord(r) \in Record
           /\ OlderRecord(r).state = r.state
           /\ OlderRecord(r).closedFor = Unset <=> r.closedFor = Unset
<1>1. /\ Older(r.created, UnclaimedTtl) \in Age(UnclaimedTtl)
      /\ Older(r.activity, SessionTtl) \in Age(SessionTtl)
      /\ Older(r.quiet, Grace) \in Age(Grace)
      /\ Older(r.detached, AgentGone) \in Age(AgentGone)
      /\ Older(r.closedFor, ClosedRetention) \in Age(ClosedRetention)
      /\ Older(r.closedFor, ClosedRetention) = Unset <=> r.closedFor = Unset
  BY OlderAge DEF Record
<1>. QED BY <1>1 DEF OlderRecord, Record

\* The archive prune drops archived sessions only.
LEMMA PruneDropsArchived ==
    ASSUME NEW arch, NEW drop \in PruneArchiveIds(arch)
    PROVE  drop \subseteq {s \in Session : arch[s] # Unset}
BY DEF PruneArchiveIds

-------------------------------------------------------------------------------
(***************************************************************************)
(* Type correctness.                                                       *)
(***************************************************************************)
\* Maintaining the archive keeps the types of both tables.
LEMMA MaintainTypes ==
    ASSUME NEW rows \in [Session -> Record], NEW arch \in [Session -> Age(ArchiveTtl)],
           MaintainArchive(rows, arch)
    PROVE  row' \in [Session -> Record] /\ archive' \in [Session -> Age(ArchiveTtl)]
<1>1. Unset \in Age(ArchiveTtl)
  BY DEF Age
<1>. QED BY <1>1, BlankIsRecord DEF MaintainArchive

\* Archiving sessions keeps the types of both tables.
LEMMA ArchiveTypes ==
    ASSUME TypeOK, NEW S \in SUBSET Session
    PROVE  /\ ArchiveRows(S) \in [Session -> Record]
           /\ ArchiveTimes(S) \in [Session -> Age(ArchiveTtl)]
<1>1. 0 \in Age(ArchiveTtl)
  BY DEF Age
<1>. QED BY <1>1, RecordOps DEF ArchiveRows, ArchiveTimes, TypeOK

\* Dismissing sessions keeps the types of the sockets and of the history.
LEMMA DismissTypes ==
    ASSUME TypeOK, NEW S \in SUBSET Session, Dismiss(S)
    PROVE  /\ sockets' \in [Session -> 0..MaxSockets]
           /\ unseen' \in [Session -> Age(Grace + AgentGone)]
BY DEF Dismiss, TypeOK, Age

\* The part of TypeOK that speaks of a closed record's time.
ClosedTimes(rec) ==
    \A s \in Session : rec[s].state = "closed" => rec[s].closedFor # Unset

LEMMA TypeStep == TypeOK /\ [Next]_vars => TypeOK'
<1> SUFFICES ASSUME TypeOK, [Next]_vars PROVE TypeOK'
  OBVIOUS
<1>0. /\ record \in [Session -> Record] /\ row \in [Session -> Record]
      /\ ClosedTimes(record)
  BY DEF TypeOK, ClosedTimes
<1>1. ASSUME NEW s \in Session, NEW r \in Record, Persist(s, r), r.state # "closed" \/ r = record[s]
      PROVE  record' \in [Session -> Record] /\ row' \in [Session -> Record] /\ ClosedTimes(record')
  BY <1>0, <1>1 DEF Persist, ClosedTimes
<1>2. ASSUME NEW s \in Session, NEW w \in BOOLEAN, Create(s, w) PROVE TypeOK'
  BY <1>1, <1>2, NewAndStopped, BlankIsRecord DEF Create, TypeOK, ClosedTimes
<1>3. ASSUME NEW s \in Session, NEW b \in BOOLEAN, CliUpgrade(s, b) PROVE TypeOK'
  <2>1. Attached(record[s]) \in Record /\ Attached(record[s]).state # "closed"
    BY <1>0, <1>3, RecordOps DEF CliUpgrade, Active
  <2>2. record' \in [Session -> Record] /\ row' \in [Session -> Record] /\ ClosedTimes(record')
    BY <1>1, <1>3, <2>1 DEF CliUpgrade
  <2>3. sockets' \in [Session -> 0..MaxSockets]
    BY <1>3 DEF CliUpgrade, TypeOK
  <2>4. unseen' \in [Session -> Age(Grace + AgentGone)]
    BY <1>3 DEF CliUpgrade, TypeOK, Age
  <2>. QED BY <1>3, <2>2, <2>3, <2>4 DEF CliUpgrade, TypeOK, ClosedTimes
<1>4. ASSUME NEW s \in Session, CliClose(s) PROVE TypeOK'
  <2>1. PICK r \in Record : Persist(s, r) /\ (r = record[s] \/ r = Quieted(record[s]))
    BY <1>0, <1>4, RecordOps DEF CliClose
  <2>2. record' \in [Session -> Record] /\ row' \in [Session -> Record]
    BY <1>0, <2>1 DEF Persist
  <2>3. ClosedTimes(record')
    <3>1. Quieted(record[s]).closedFor = record[s].closedFor
      BY <1>0 DEF Quieted, Record
    <3>. QED BY <1>0, <2>1, <3>1, RecordOps DEF Persist, ClosedTimes
  <2>4. sockets' \in [Session -> 0..MaxSockets]
    BY <1>4 DEF CliClose, TypeOK
  <2>. QED BY <1>4, <2>2, <2>3, <2>4 DEF CliClose, TypeOK, ClosedTimes
<1>5. ASSUME NEW s \in Session, Touch(s) PROVE TypeOK'
  <2>1. /\ [record[s] EXCEPT !.activity = 0] \in Record
        /\ [record[s] EXCEPT !.activity = 0].state # "closed"
    BY <1>0, <1>5, OneField DEF Touch, Active
  <2>. QED BY <1>1, <1>5, <2>1 DEF Touch, TypeOK, ClosedTimes
<1>6. ASSUME NEW s \in Session, Close(s) PROVE TypeOK'
  <2>1. record' \in [Session -> Record] /\ ClosedTimes(record')
    BY <1>0, <1>6, RecordOps DEF Close, ClosedTimes
  <2>. QED BY <1>6, <2>1, ArchiveTypes, DismissTypes DEF Close, TypeOK, ClosedTimes
<1>7. CASE ClearDisconnected
  <2> DEFINE cleared == {s \in Session : IsManuallyClearable(record[s])}
  <2>1. record' \in [Session -> Record] /\ ClosedTimes(record')
    BY <1>0, <1>7, RecordOps DEF ClearDisconnected, ClosedTimes
  <2>2. row' \in [Session -> Record] /\ archive' \in [Session -> Age(ArchiveTtl)]
    <3>1. MaintainArchive(ArchiveRows(cleared), ArchiveTimes(cleared))
      BY <1>7 DEF ClearDisconnected
    <3>. QED BY <3>1, ArchiveTypes, MaintainTypes
  <2>. QED BY <1>7, <2>1, <2>2, DismissTypes DEF ClearDisconnected, TypeOK, ClosedTimes
<1>8. CASE ReapTick
  <2> DEFINE released == {s \in Session : ShouldReleaseClaim(record[s], sockets[s] > 0)}
             Freed(s) == IF s \in released THEN Detached(record[s]) ELSE record[s]
             expired == {s \in Session : ShouldReapSession(Freed(s), sockets[s] > 0)}
             Kept(s) == IF s \in expired THEN Closed(record[s]) ELSE Freed(s)
             evicted == {s \in Session : /\ Kept(s).state = "closed"
                                         /\ Kept(s).closedFor >= ClosedRetention}
             rows == [s \in Session |-> IF s \in expired THEN Archived(row[s])
                                        ELSE IF s \in released THEN Freed(s) ELSE row[s]]
  <2>1. \A s \in Session : Freed(s) \in Record /\ Freed(s).state = record[s].state
    BY <1>0, RecordOps
  <2>2. \A s \in released : Freed(s).state = "active"
    BY <1>0, RecordOps DEF ShouldReleaseClaim, Active
  <2>3. \A s \in Session :
          Kept(s) \in Record /\ (Kept(s).state = "closed" => Kept(s).closedFor # Unset)
    <3> SUFFICES ASSUME NEW s \in Session
                 PROVE  Kept(s) \in Record /\ (Kept(s).state = "closed" => Kept(s).closedFor # Unset)
      OBVIOUS
    <3>1. CASE s \in expired
      BY <1>0, <3>1, RecordOps
    <3>2. CASE s \notin expired /\ s \in released
      <4>1. Kept(s) = Freed(s) /\ Freed(s).state = "active" /\ Freed(s) \in Record
        <5> HIDE DEF released, Freed
        <5> QED BY <2>1, <2>2, <3>2
      <4> HIDE DEF Kept, Freed, released
      <4>. QED BY <4>1
    <3>3. CASE s \notin expired /\ s \notin released
      <4>1. Kept(s) = record[s]
        BY <3>3
      <4> HIDE DEF Kept
      <4>. QED BY <1>0, <4>1 DEF ClosedTimes
    <3>. QED BY <3>1, <3>2, <3>3
  <2>4. record' = [s \in Session |-> IF s \in evicted THEN Blank ELSE Kept(s)]
    BY <1>8 DEF ReapTick
  <2>5. record' \in [Session -> Record] /\ ClosedTimes(record')
    <3> HIDE DEF Kept, evicted
    <3>. QED BY <2>3, <2>4, BlankIsRecord DEF ClosedTimes
  <2>6. rows \in [Session -> Record]
    <3> HIDE DEF released, expired, Freed
    <3>. QED BY <1>0, <2>1, RecordOps
  <2>7. row' \in [Session -> Record] /\ archive' \in [Session -> Age(ArchiveTtl)]
    <3>1. MaintainArchive(rows, ArchiveTimes(expired))
      BY <1>8 DEF ReapTick
    <3> HIDE DEF rows, expired
    <3>2. expired \in SUBSET Session
      BY DEF expired
    <3>. QED BY <2>6, <3>1, <3>2, ArchiveTypes, MaintainTypes
  <2>8. Dismiss(expired)
    BY <1>8 DEF ReapTick
  <2>9. /\ sockets' \in [Session -> 0..MaxSockets]
        /\ unseen' \in [Session -> Age(Grace + AgentGone)]
    <3>1. expired \in SUBSET Session
      OBVIOUS
    <3> HIDE DEF expired
    <3>. QED BY <2>8, <3>1, DismissTypes
  <2> HIDE DEF released, Freed, expired, Kept, evicted, rows
  <2>. QED BY <1>8, <2>5, <2>7, <2>9 DEF ReapTick, TypeOK, ClosedTimes
<1>9. CASE Shutdown
  <2>1. row' \in [Session -> Record]
    BY <1>0, <1>9, NewAndStopped DEF Shutdown, ShutdownRow
  <2>2. record' \in [Session -> Record] /\ ClosedTimes(record')
    BY <1>0, <1>9, RecordOps DEF Shutdown, ClosedTimes
  <2>3. phase' \in {"up", "stopping", "down"} /\ stops' \in 0..MaxStops
    BY <1>9 DEF Shutdown, TypeOK
  <2>. QED BY <1>9, <2>1, <2>2, <2>3, DismissTypes DEF Shutdown, TypeOK, ClosedTimes
<1>10. CASE FinishShutdown
  <2>1. row' \in [Session -> Record]
    BY <1>0, <1>10, RecordOps DEF FinishShutdown
  <2>2. record' \in [Session -> Record] /\ ClosedTimes(record')
    BY <1>10, BlankIsRecord DEF FinishShutdown, ClosedTimes
  <2>. QED BY <1>10, <2>1, <2>2 DEF FinishShutdown, TypeOK, ClosedTimes
<1>11. CASE Crash
  <2>1. record' \in [Session -> Record] /\ ClosedTimes(record')
    BY <1>11, BlankIsRecord DEF Crash, ClosedTimes
  <2>. QED BY <1>11, <2>1 DEF Crash, TypeOK, ClosedTimes
<1>12. CASE Boot
  <2>1. record' \in [Session -> Record] /\ ClosedTimes(record')
    BY <1>0, <1>12, BlankIsRecord DEF Boot, ClosedTimes, Active
  <2>. QED BY <1>12, <2>1 DEF Boot, TypeOK, ClosedTimes
<1>13. CASE Tick
  <2>1. /\ record' \in [Session -> Record] /\ row' \in [Session -> Record]
        /\ ClosedTimes(record')
    BY <1>0, <1>13, OlderRecordFacts DEF Tick, ClosedTimes
  <2>2. archive' \in [Session -> Age(ArchiveTtl)]
    BY <1>13, OlderAge DEF Tick, TypeOK
  <2>3. unseen' \in [Session -> Age(Grace + AgentGone)]
    <3>1. Grace + AgentGone \in Nat
      OBVIOUS
    <3>. QED BY <1>13, <3>1, OlderAge DEF Tick, TypeOK
  <2>. QED BY <1>13, <2>1, <2>2, <2>3 DEF Tick, TypeOK, ClosedTimes
<1>14. CASE UNCHANGED vars
  BY <1>14 DEF vars, TypeOK
<1>. QED
  BY <1>2, <1>3, <1>4, <1>5, <1>6, <1>7, <1>8, <1>9, <1>10, <1>11, <1>12, <1>13, <1>14
  DEF Next

\* The initial state has the type.
LEMMA TypeInit == Init => TypeOK
BY BlankIsRecord DEF Init, TypeOK, Age

\* Every variable keeps its type, and a closed record its close time, in every
\* behaviour of the daemon.
THEOREM LifecycleTypes == Spec => []TypeOK
BY TypeInit, TypeStep, PTL DEF Spec

-------------------------------------------------------------------------------
(***************************************************************************)
(* The inductive invariant.  The two agreements are not inductive without  *)
(* SocketInv: the close handler of a CLI socket saves the record it finds, *)
(* which is harmless only because a session that is closed has lost its    *)
(* sockets.                                                                *)
(***************************************************************************)
SocketInv == \A s \in Session : sockets[s] > 0 => Active(record[s])

\* The tables `rows` and `arch` agree.
Agree(rows, arch) ==
    \A s \in Session : rows[s].state = "archived" <=> arch[s] # Unset

LInv == TypeOK /\ SocketInv /\ CrashLosesNothing /\ ArchiveMatchesRows

\* Maintaining tables that agree leaves them agreeing, and every row that is
\* not archived where it was.
LEMMA MaintainAgree ==
    ASSUME NEW rows, NEW arch, Agree(rows, arch), MaintainArchive(rows, arch)
    PROVE  /\ Agree(row', archive')
           /\ \A s \in Session : rows[s].state # "archived" => row'[s] = rows[s]
           /\ \A s \in Session : row'[s] = rows[s] \/ row'[s] = Blank
<1>1. PICK drop \in PruneArchiveIds(arch) :
        /\ row' = [s \in Session |-> IF s \in drop THEN Blank ELSE rows[s]]
        /\ archive' = [s \in Session |-> IF s \in drop THEN Unset ELSE arch[s]]
  BY DEF MaintainArchive
<1>2. \A s \in drop : arch[s] # Unset
  BY PruneDropsArchived
<1>. QED BY <1>1, <1>2, BlankIsRecord DEF Agree

\* Archiving sessions keeps the tables agreeing.
LEMMA ArchiveAgree ==
    ASSUME LInv, NEW S \in SUBSET Session
    PROVE  Agree(ArchiveRows(S), ArchiveTimes(S))
<1>1. \A s \in S : Archived(row[s]).state = "archived"
  BY RecordOps DEF LInv, TypeOK
<1>2. 0 # Unset
  OBVIOUS
<1>. QED BY <1>1, <1>2 DEF Agree, ArchiveRows, ArchiveTimes, LInv, ArchiveMatchesRows

\* Persisting a live record of a session that was live, or that no table knew,
\* keeps memory and tables in agreement.
LEMMA PersistKeeps ==
    ASSUME LInv, NEW s \in Session, NEW r \in Record, Active(r), Persist(s, r),
           archive[s] = Unset, archive' = archive, phase' = phase
    PROVE  /\ CrashLosesNothing' /\ ArchiveMatchesRows' /\ Active(record'[s])
           /\ \A t \in Session \ {s} : record'[t] = record[t]
<1>1. /\ record'[s] = r /\ row'[s] = r
      /\ \A t \in Session \ {s} : record'[t] = record[t] /\ row'[t] = row[t]
  BY DEF Persist, LInv, TypeOK
<1>2. CrashLosesNothing'
  BY <1>1 DEF LInv, CrashLosesNothing
<1>3. ArchiveMatchesRows'
  <2>1. r.state # "archived"
    BY DEF Active
  <2>. QED BY <1>1, <2>1 DEF LInv, ArchiveMatchesRows
<1>. QED BY <1>1, <1>2, <1>3

\* A live record has a live row and no archive entry.
LEMMA LiveHasNoArchive ==
    ASSUME LInv, NEW s \in Session, Active(record[s])
    PROVE  row[s] = record[s] /\ archive[s] = Unset
BY DEF LInv, CrashLosesNothing, ArchiveMatchesRows, Active

LEMMA LInvInit == Init => LInv
<1> SUFFICES ASSUME Init PROVE LInv
  OBVIOUS
<1>1. \A s \in Session : record[s] = Blank /\ row[s] = Blank /\ sockets[s] = 0 /\ archive[s] = Unset
  BY DEF Init
<1>. QED BY <1>1, TypeInit, BlankIsRecord
  DEF LInv, SocketInv, CrashLosesNothing, ArchiveMatchesRows, Active

LEMMA LInvStep == LInv /\ [Next]_vars => LInv'
<1> SUFFICES ASSUME LInv, [Next]_vars PROVE LInv'
  OBVIOUS
<1>0. /\ TypeOK' /\ SocketInv /\ CrashLosesNothing /\ ArchiveMatchesRows
      /\ record \in [Session -> Record] /\ row \in [Session -> Record]
      /\ sockets \in [Session -> 0..MaxSockets]
  BY TypeStep DEF LInv, TypeOK
<1>1. ASSUME NEW s \in Session, NEW w \in BOOLEAN, Create(s, w) PROVE LInv'
  <2> DEFINE r == [Blank EXCEPT !.state = "active", !.awaiting = w,
                                !.created = 0, !.activity = 0]
  <2>1. r \in Record /\ Active(r)
    BY NewAndStopped, BlankIsRecord DEF Active
  <2>2. Persist(s, r) /\ archive[s] = Unset /\ archive' = archive /\ phase' = phase
    BY <1>1 DEF Create
  <2> HIDE DEF r
  <2>3. SocketInv'
    BY <1>0, <1>1, <2>1, <2>2, PersistKeeps DEF Create, SocketInv
  <2>. QED BY <1>0, <2>1, <2>2, <2>3, PersistKeeps DEF LInv
<1>2. ASSUME NEW s \in Session, NEW b \in BOOLEAN, CliUpgrade(s, b) PROVE LInv'
  <2>1. Attached(record[s]) \in Record /\ Active(Attached(record[s]))
    BY <1>0, <1>2, RecordOps DEF CliUpgrade, Active
  <2>2. /\ Persist(s, Attached(record[s])) /\ archive[s] = Unset
        /\ archive' = archive /\ phase' = phase
    BY <1>2, LiveHasNoArchive DEF CliUpgrade
  <2>3. SocketInv'
    BY <1>0, <1>2, <2>1, <2>2, PersistKeeps DEF CliUpgrade, SocketInv
  <2>. QED BY <1>0, <2>1, <2>2, <2>3, PersistKeeps DEF LInv
<1>3. ASSUME NEW s \in Session, CliClose(s) PROVE LInv'
  <2>1. PICK r \in Record : Persist(s, r) /\ Active(r)
    BY <1>0, <1>3, RecordOps DEF CliClose, SocketInv, Active
  <2>2. archive[s] = Unset /\ archive' = archive /\ phase' = phase
    BY <1>0, <1>3, LiveHasNoArchive DEF CliClose, SocketInv
  <2>3. SocketInv'
    BY <1>0, <1>3, <2>1, <2>2, PersistKeeps DEF CliClose, SocketInv
  <2>. QED BY <1>0, <2>1, <2>2, <2>3, PersistKeeps DEF LInv
<1>4. ASSUME NEW s \in Session, Touch(s) PROVE LInv'
  <2> DEFINE r == [record[s] EXCEPT !.activity = 0]
  <2>1. r \in Record /\ Active(r)
    BY <1>0, <1>4, OneField DEF Touch, Active
  <2>2. Persist(s, r) /\ archive[s] = Unset /\ archive' = archive /\ phase' = phase
    BY <1>4, LiveHasNoArchive DEF Touch
  <2> HIDE DEF r
  <2>3. SocketInv'
    BY <1>0, <1>4, <2>1, <2>2, PersistKeeps DEF Touch, SocketInv
  <2>. QED BY <1>0, <2>1, <2>2, <2>3, PersistKeeps DEF LInv
<1>5. ASSUME NEW s \in Session, Close(s) PROVE LInv'
  <2>1. /\ record'[s] = Closed(record[s]) /\ row'[s] = Archived(row[s]) /\ sockets'[s] = 0
        /\ \A t \in Session \ {s} : /\ record'[t] = record[t] /\ row'[t] = row[t]
                                     /\ sockets'[t] = sockets[t]
    BY <1>0, <1>5 DEF Close, ArchiveRows, Dismiss
  <2>2. ~Active(record'[s]) /\ ~Active(row'[s])
    BY <1>0, <2>1, RecordOps DEF Active
  <2>3. ArchiveMatchesRows'
    BY <1>5, ArchiveAgree DEF Close, Agree, ArchiveMatchesRows
  <2>4. CrashLosesNothing'
    BY <1>0, <1>5, <2>1, <2>2 DEF Close, CrashLosesNothing
  <2>5. SocketInv'
    BY <1>0, <2>1 DEF SocketInv
  <2>. QED BY <1>0, <2>3, <2>4, <2>5 DEF LInv
<1>6. CASE ClearDisconnected
  <2> DEFINE cleared == {s \in Session : IsManuallyClearable(record[s])}
  <2>1. MaintainArchive(ArchiveRows(cleared), ArchiveTimes(cleared)) /\ Dismiss(cleared)
        /\ record' = [s \in Session |->
                        IF s \in cleared THEN Closed(record[s]) ELSE record[s]]
        /\ phase' = phase
    BY <1>6 DEF ClearDisconnected
  <2>2. cleared \in SUBSET Session
    OBVIOUS
  <2> HIDE DEF cleared
  <2>3. Agree(ArchiveRows(cleared), ArchiveTimes(cleared))
    BY <2>2, ArchiveAgree
  <2>4. ArchiveMatchesRows'
    BY <2>1, <2>3, MaintainAgree DEF Agree, ArchiveMatchesRows
  <2>5. \A s \in cleared : ~Active(record'[s]) /\ ~Active(row'[s]) /\ sockets'[s] = 0
    BY <1>0, <2>1, <2>2, <2>3, MaintainAgree, RecordOps, BlankIsRecord
    DEF Active, ArchiveRows, Dismiss
  <2>6. \A s \in Session \ cleared :
          /\ record'[s] = record[s] /\ sockets'[s] = sockets[s]
          /\ Active(record[s]) => row'[s] = row[s]
          /\ Active(row'[s]) => row'[s] = row[s]
    BY <1>0, <2>1, <2>2, <2>3, MaintainAgree, BlankIsRecord
    DEF Active, ArchiveRows, Dismiss, CrashLosesNothing
  <2>7. CrashLosesNothing'
    BY <1>0, <2>1, <2>5, <2>6 DEF CrashLosesNothing
  <2>8. SocketInv'
    BY <1>0, <2>5, <2>6 DEF SocketInv
  <2>. QED BY <1>0, <2>4, <2>7, <2>8 DEF LInv
<1>7. CASE ReapTick
  <2> DEFINE released == {s \in Session : ShouldReleaseClaim(record[s], sockets[s] > 0)}
             Freed(s) == IF s \in released THEN Detached(record[s]) ELSE record[s]
             expired == {s \in Session : ShouldReapSession(Freed(s), sockets[s] > 0)}
             Kept(s) == IF s \in expired THEN Closed(record[s]) ELSE Freed(s)
             evicted == {s \in Session : /\ Kept(s).state = "closed"
                                         /\ Kept(s).closedFor >= ClosedRetention}
             rows == [s \in Session |-> IF s \in expired THEN Archived(row[s])
                                        ELSE IF s \in released THEN Freed(s) ELSE row[s]]
  <2>1. /\ MaintainArchive(rows, ArchiveTimes(expired)) /\ Dismiss(expired)
        /\ record' = [s \in Session |-> IF s \in evicted THEN Blank ELSE Kept(s)]
        /\ phase' = phase
    BY <1>7 DEF ReapTick
  <2>2. \A s \in Session : /\ Freed(s).state = record[s].state
                           /\ s \in released => Active(record[s])
    BY <1>0, RecordOps DEF ShouldReleaseClaim
  <2>3. \A s \in expired : /\ Active(record[s]) /\ Kept(s).state = "closed"
                           /\ rows[s].state = "archived"
    <3>1. \A s \in expired : Active(Freed(s))
      BY DEF ShouldReapSession
    <3>2. \A s \in expired : Kept(s) = Closed(record[s]) /\ rows[s] = Archived(row[s])
      OBVIOUS
    <3> HIDE DEF released, Freed, Kept, rows
    <3>. QED BY <1>0, <2>2, <3>1, <3>2, RecordOps DEF Active
  <2>4. \A s \in Session \ expired :
          /\ Kept(s) = Freed(s) /\ Kept(s).state = record[s].state
          /\ Active(record[s]) => rows[s] = Kept(s)
          /\ ~Active(record[s]) => rows[s] = row[s]
    <3> SUFFICES ASSUME NEW s \in Session \ expired
                 PROVE  /\ Kept(s) = Freed(s) /\ Kept(s).state = record[s].state
                        /\ Active(record[s]) => rows[s] = Kept(s)
                        /\ ~Active(record[s]) => rows[s] = row[s]
      OBVIOUS
    <3>1. Kept(s) = Freed(s)
      OBVIOUS
    <3>2. rows[s] = IF s \in released THEN Freed(s) ELSE row[s]
      OBVIOUS
    <3>3. s \notin released => Freed(s) = record[s]
      OBVIOUS
    <3> HIDE DEF released, Freed, expired, Kept, rows
    <3>. QED BY <1>0, <2>2, <3>1, <3>2, <3>3 DEF CrashLosesNothing
  <2>5. \A s \in evicted : Kept(s).state = "closed"
    OBVIOUS
  <2>6. expired \in SUBSET Session /\ evicted \in SUBSET Session
    OBVIOUS
  <2> HIDE DEF released, Freed, expired, Kept, evicted, rows
  <2>7. Agree(rows, ArchiveTimes(expired))
    <3>1. \A s \in Session : rows[s].state = "archived" <=> ArchiveRows(expired)[s].state = "archived"
      BY <1>0, <2>2, <2>3, <2>4, <2>6, RecordOps
      DEF ArchiveRows, Active, CrashLosesNothing
    <3>. QED BY <2>6, <3>1, ArchiveAgree DEF Agree
  <2>8. ArchiveMatchesRows'
    BY <2>1, <2>7, MaintainAgree DEF Agree, ArchiveMatchesRows
  <2>9. \A s \in expired : ~Active(record'[s]) /\ ~Active(row'[s]) /\ sockets'[s] = 0
    <3>1. \A s \in expired : record'[s] = Kept(s) \/ record'[s] = Blank
      BY <2>1, <2>6
    <3>2. \A s \in expired : row'[s] = rows[s] \/ row'[s] = Blank
      BY <2>1, <2>6, <2>7, MaintainAgree
    <3>. QED BY <2>1, <2>3, <2>6, <3>1, <3>2, BlankIsRecord DEF Active, Dismiss
  <2>10. \A s \in Session \ expired :
          /\ Active(record'[s]) <=> Active(record[s])
          /\ Active(record[s]) => record'[s] = row'[s]
          /\ Active(row'[s]) /\ ~Active(record[s]) => row'[s] = row[s]
          /\ sockets'[s] = sockets[s]
    <3> SUFFICES ASSUME NEW s \in Session \ expired
                 PROVE  /\ Active(record'[s]) <=> Active(record[s])
                        /\ Active(record[s]) => record'[s] = row'[s]
                        /\ Active(row'[s]) /\ ~Active(record[s]) => row'[s] = row[s]
                        /\ sockets'[s] = sockets[s]
      OBVIOUS
    <3>1. sockets'[s] = sockets[s]
      BY <2>1 DEF Dismiss
    <3>2. s \in evicted => record'[s] = Blank /\ ~Active(record[s])
      BY <2>1, <2>4, <2>5 DEF Active
    <3>3. s \notin evicted => record'[s] = Kept(s)
      BY <2>1
    <3>4. Active(record'[s]) <=> Active(record[s])
      BY <2>4, <3>2, <3>3, BlankIsRecord DEF Active
    <3>5. Active(record[s]) => rows[s] = Kept(s) /\ record'[s] = Kept(s) /\ rows[s].state # "archived"
      BY <2>4, <3>2, <3>3 DEF Active
    <3>6. /\ rows[s].state # "archived" => row'[s] = rows[s]
          /\ row'[s] = rows[s] \/ row'[s] = Blank
      BY <2>1, <2>7, MaintainAgree
    <3>7. Active(row'[s]) => row'[s] = rows[s]
      BY <3>6, BlankIsRecord DEF Active
    <3>. QED BY <2>4, <3>1, <3>4, <3>5, <3>6, <3>7
  <2>11. CrashLosesNothing'
    BY <1>0, <2>1, <2>9, <2>10 DEF CrashLosesNothing
  <2>12. SocketInv'
    BY <1>0, <2>9, <2>10 DEF SocketInv
  <2>. QED BY <1>0, <2>8, <2>11, <2>12 DEF LInv
<1>8. CASE Shutdown
  <2>1. \A s \in Session : ~Active(record'[s]) /\ sockets'[s] = 0
    BY <1>0, <1>8, RecordOps DEF Shutdown, Dismiss, Active
  <2>2. \A s \in Session : row'[s].state = row[s].state
    <3> SUFFICES ASSUME NEW s \in Session PROVE ShutdownRow(s).state = row[s].state
      BY <1>8 DEF Shutdown
    <3>. QED BY <1>0, NewAndStopped DEF ShutdownRow, CrashLosesNothing
  <2>. QED BY <1>0, <1>8, <2>1, <2>2
       DEF Shutdown, LInv, SocketInv, CrashLosesNothing, ArchiveMatchesRows
<1>9. CASE FinishShutdown
  <2>1. \A s \in Session : ~Active(record'[s]) /\ sockets'[s] = 0
    BY <1>9, BlankIsRecord DEF FinishShutdown, Active
  <2>2. \A s \in Session : row'[s].state = row[s].state
    BY <1>0, <1>9, RecordOps DEF FinishShutdown
  <2>. QED BY <1>0, <1>9, <2>1, <2>2
       DEF FinishShutdown, LInv, SocketInv, CrashLosesNothing, ArchiveMatchesRows
<1>10. CASE Crash
  <2>1. \A s \in Session : ~Active(record'[s]) /\ sockets'[s] = 0
    BY <1>10, BlankIsRecord DEF Crash, Active
  <2>. QED BY <1>0, <1>10, <2>1
       DEF Crash, LInv, SocketInv, CrashLosesNothing, ArchiveMatchesRows
<1>11. CASE Boot
  <2>1. \A s \in Session : /\ Active(row[s]) => record'[s] = row[s]
                           /\ Active(record'[s]) => record'[s] = row[s]
    BY <1>11, BlankIsRecord DEF Boot, Active
  <2>. QED BY <1>0, <1>11, <2>1
       DEF Boot, LInv, SocketInv, CrashLosesNothing, ArchiveMatchesRows
<1>12. CASE Tick
  <2>1. \A s \in Session :
          /\ record'[s] = OlderRecord(record[s]) /\ row'[s] = OlderRecord(row[s])
          /\ record'[s].state = record[s].state /\ row'[s].state = row[s].state
    BY <1>0, <1>12, OlderRecordFacts DEF Tick
  <2>2. \A s \in Session : archive'[s] # Unset <=> archive[s] # Unset
    BY <1>12, OlderAge DEF Tick, LInv, TypeOK
  <2>. QED BY <1>0, <1>12, <2>1, <2>2
       DEF Tick, LInv, SocketInv, CrashLosesNothing, ArchiveMatchesRows, Active
<1>13. CASE UNCHANGED vars
  BY <1>0, <1>13 DEF vars, LInv, SocketInv, CrashLosesNothing, ArchiveMatchesRows
<1>. QED
  BY <1>1, <1>2, <1>3, <1>4, <1>5, <1>6, <1>7, <1>8, <1>9, <1>10, <1>11, <1>12, <1>13
  DEF Next

\* The inductive invariant holds in every state of the daemon.
THEOREM LifecycleInvariant == Spec => []LInv
BY LInvInit, LInvStep, PTL DEF Spec

\* A crash at any instant loses nothing of a live session, and leaves no row
\* that the registry does not hold.
THEOREM CrashSafe == Spec => []CrashLosesNothing
<1>1. LInv => CrashLosesNothing
  BY DEF LInv
<1>. QED BY <1>1, LifecycleInvariant, PTL

\* An archive entry exists exactly for an archived row, whatever the prune
\* drops and whatever timestamps collide.
THEOREM TablesAgree == Spec => []ArchiveMatchesRows
<1>1. LInv => ArchiveMatchesRows
  BY DEF LInv
<1>. QED BY <1>1, LifecycleInvariant, PTL

-------------------------------------------------------------------------------
(***************************************************************************)
(* No closed session returns.                                              *)
(***************************************************************************)
\* A session that is live nowhere and that memory or the archive still knows
\* as closed: an id that Create cannot be given again.
Gone(s) ==
    /\ ~Active(record[s]) /\ ~Active(row[s])
    /\ archive[s] # Unset \/ record[s].state = "closed"

\* What was closed or archived is live nowhere.
LEMMA ClosedIsGone ==
    ASSUME LInv, NEW s \in Session,
           archive[s] # Unset \/ (record[s].state = "closed" /\ ~Active(row[s]))
    PROVE  Gone(s)
BY DEF LInv, CrashLosesNothing, ArchiveMatchesRows, Active, Gone

\* No step makes such a session live.
LEMMA GoneStaysDead ==
    ASSUME LInv, [Next]_vars, NEW s \in Session, Gone(s)
    PROVE  ~Active(record'[s]) /\ ~Active(row'[s])
<1>0. /\ ~Active(record[s]) /\ ~Active(row[s]) /\ sockets[s] = 0
      /\ record \in [Session -> Record] /\ row \in [Session -> Record]
      /\ ~Active(Blank)
  BY BlankIsRecord DEF Gone, LInv, SocketInv, TypeOK, Active
<1>1. ASSUME NEW t \in Session, t # s, NEW r, Persist(t, r)
      PROVE  ~Active(record'[s]) /\ ~Active(row'[s])
  BY <1>0, <1>1 DEF Persist
<1>2. ASSUME NEW t \in Session, NEW w \in BOOLEAN, Create(t, w)
      PROVE  ~Active(record'[s]) /\ ~Active(row'[s])
  <2>1. t # s
    BY <1>2, BlankIsRecord DEF Create, Gone
  <2>. QED BY <1>1, <1>2, <2>1 DEF Create
<1>3. ASSUME NEW t \in Session, NEW b \in BOOLEAN, CliUpgrade(t, b) \/ CliClose(t) \/ Touch(t)
      PROVE  ~Active(record'[s]) /\ ~Active(row'[s])
  <2>1. t # s
    BY <1>0, <1>3 DEF CliUpgrade, CliClose, Touch
  <2>. QED BY <1>1, <1>3, <2>1 DEF CliUpgrade, CliClose, Touch
<1>4. ASSUME NEW t \in Session, Close(t) PROVE ~Active(record'[s]) /\ ~Active(row'[s])
  BY <1>0, <1>4, RecordOps DEF Close, ArchiveRows, Active
<1>5. ASSUME NEW rows, NEW arch, MaintainArchive(rows, arch), ~Active(rows[s])
      PROVE  ~Active(row'[s])
  BY <1>0, <1>5 DEF MaintainArchive
<1>6. CASE ClearDisconnected
  <2>1. ~Active(ArchiveRows({t \in Session : IsManuallyClearable(record[t])})[s])
    BY <1>0, RecordOps DEF ArchiveRows, Active
  <2>2. ~Active(row'[s])
    BY <1>5, <1>6, <2>1 DEF ClearDisconnected
  <2>. QED BY <1>0, <1>6, <2>2, RecordOps DEF ClearDisconnected, Active
<1>7. CASE ReapTick
  <2> DEFINE released == {t \in Session : ShouldReleaseClaim(record[t], sockets[t] > 0)}
             Freed(t) == IF t \in released THEN Detached(record[t]) ELSE record[t]
             expired == {t \in Session : ShouldReapSession(Freed(t), sockets[t] > 0)}
             Kept(t) == IF t \in expired THEN Closed(record[t]) ELSE Freed(t)
             evicted == {t \in Session : /\ Kept(t).state = "closed"
                                         /\ Kept(t).closedFor >= ClosedRetention}
             rows == [t \in Session |-> IF t \in expired THEN Archived(row[t])
                                        ELSE IF t \in released THEN Freed(t) ELSE row[t]]
  <2>1. s \notin released
    BY <1>0 DEF ShouldReleaseClaim
  <2>2. s \notin expired
    BY <1>0, <2>1 DEF ShouldReapSession
  <2>3. Kept(s) = record[s] /\ rows[s] = row[s]
    BY <2>1, <2>2
  <2>4. /\ MaintainArchive(rows, ArchiveTimes(expired))
        /\ record' = [t \in Session |-> IF t \in evicted THEN Blank ELSE Kept(t)]
    BY <1>7 DEF ReapTick
  <2> HIDE DEF released, Freed, expired, Kept, evicted, rows
  <2>. QED BY <1>0, <1>5, <2>3, <2>4
<1>8. CASE Shutdown
  BY <1>0, <1>8, RecordOps DEF Shutdown, ShutdownRow, Active
<1>9. CASE FinishShutdown \/ Crash \/ Boot
  BY <1>0, <1>9, RecordOps DEF FinishShutdown, Crash, Boot, Active
<1>10. CASE Tick
  BY <1>0, <1>10, OlderRecordFacts DEF Tick, Active
<1>11. CASE UNCHANGED vars
  BY <1>0, <1>11 DEF vars
<1>. QED
  BY <1>2, <1>3, <1>4, <1>6, <1>7, <1>8, <1>9, <1>10, <1>11 DEF Next

\* A session that was closed, archived or dropped is not made live by any step,
\* in memory or in the table.
THEOREM NeverResurrected == Spec => NoResurrection
<1>1. LInv /\ [Next]_vars =>
        [\A s \in Session :
           (archive[s] # Unset \/ (record[s].state = "closed" /\ ~Active(row[s]))) =>
             ~Active(record'[s]) /\ ~Active(row'[s])]_vars
  BY ClosedIsGone, GoneStaysDead
<1>. QED BY <1>1, LifecycleInvariant, PTL DEF Spec, NoResurrection

-------------------------------------------------------------------------------
(***************************************************************************)
(* The clocks.                                                             *)
(***************************************************************************)
\* What a live row says of the CLI of its session: an open socket holds the
\* claim, with no clock running; since the last one closed the quiet clock, if
\* it was started, has not run ahead of the time; and a claim was released no
\* earlier than the whole grace after it.
ClockOK(s) ==
    /\ sockets[s] > 0 => row[s].attached /\ row[s].quiet = Unset /\ unseen[s] = 0
    /\ unseen[s] # Unset =>
         /\ Active(row[s]) /\ ~row[s].awaiting
         /\ row[s].attached /\ row[s].quiet # Unset => row[s].quiet <= unseen[s]
         /\ ~row[s].attached => row[s].detached # Unset /\ Grace + row[s].detached <= unseen[s]

ClockInv == \A s \in Session : ClockOK(s)

\* What the registry's methods do to the fields the clocks depend on.
LEMMA RecordClocks ==
    ASSUME NEW r \in Record
    PROVE  /\ Attached(r).attached /\ ~Attached(r).awaiting
           /\ Attached(r).quiet = Unset /\ Attached(r).detached = Unset
           /\ r.attached /\ r.quiet = Unset => Quieted(r).attached /\ Quieted(r).quiet = 0
           /\ ~r.awaiting => ~Quieted(r).awaiting
           /\ ~Detached(r).attached /\ (Detached(r).awaiting <=> r.awaiting)
           /\ Detached(r).detached = 0
<1>1. /\ Attached(r).attached /\ ~Attached(r).awaiting
      /\ Attached(r).quiet = Unset /\ Attached(r).detached = Unset
  BY DEF Attached, Record
<1>2. /\ r.attached /\ r.quiet = Unset => Quieted(r).attached /\ Quieted(r).quiet = 0
      /\ ~r.awaiting => ~Quieted(r).awaiting
  BY DEF Quieted, Record
<1>3. /\ ~Detached(r).attached /\ (Detached(r).awaiting <=> r.awaiting)
      /\ Detached(r).detached = 0
  BY DEF Detached, Record
<1>. QED BY <1>1, <1>2, <1>3

\* What a reap tick makes of a session: it is expired, or its claim is
\* released, or nothing of it changes that is live.
LEMMA ReapFates ==
    ASSUME LInv, ReapTick, NEW s \in Session
    PROVE  \/ /\ ShouldReapSession(IF ShouldReleaseClaim(record[s], sockets[s] > 0)
                                   THEN Detached(record[s]) ELSE record[s], sockets[s] > 0)
              /\ ~Active(record'[s])
              /\ sockets'[s] = 0 /\ unseen'[s] = Unset
           \/ /\ ShouldReleaseClaim(record[s], sockets[s] > 0)
              /\ record'[s] = Detached(record[s]) /\ row'[s] = Detached(record[s])
              /\ sockets'[s] = sockets[s] /\ unseen'[s] = unseen[s]
           \/ /\ Active(record[s]) => record'[s] = record[s]
              /\ Active(record'[s]) => record'[s] = record[s]
              /\ Active(row[s]) => row'[s] = row[s]
              /\ sockets'[s] = sockets[s] /\ unseen'[s] = unseen[s]
<1> DEFINE released == {t \in Session : ShouldReleaseClaim(record[t], sockets[t] > 0)}
           Freed(t) == IF t \in released THEN Detached(record[t]) ELSE record[t]
           expired == {t \in Session : ShouldReapSession(Freed(t), sockets[t] > 0)}
           Kept(t) == IF t \in expired THEN Closed(record[t]) ELSE Freed(t)
           evicted == {t \in Session : /\ Kept(t).state = "closed"
                                       /\ Kept(t).closedFor >= ClosedRetention}
           rows == [t \in Session |-> IF t \in expired THEN Archived(row[t])
                                      ELSE IF t \in released THEN Freed(t) ELSE row[t]]
<1>0. /\ record \in [Session -> Record] /\ row \in [Session -> Record]
      /\ CrashLosesNothing
  BY DEF LInv, TypeOK
<1>1. /\ MaintainArchive(rows, ArchiveTimes(expired)) /\ Dismiss(expired)
      /\ record' = [t \in Session |-> IF t \in evicted THEN Blank ELSE Kept(t)]
  BY DEF ReapTick
<1>2. \A t \in Session : /\ Freed(t).state = record[t].state
                         /\ t \in released => Active(record[t])
  BY <1>0, RecordOps DEF ShouldReleaseClaim
<1>3. \A t \in expired : Active(record[t]) /\ rows[t].state = "archived"
  <2>1. \A t \in expired : Active(Freed(t))
    BY DEF ShouldReapSession
  <2>2. \A t \in expired : rows[t] = Archived(row[t])
    OBVIOUS
  <2> HIDE DEF released, Freed, Kept, rows
  <2>. QED BY <1>0, <1>2, <2>1, <2>2, RecordOps DEF Active
<1>4. Agree(rows, ArchiveTimes(expired))
  <2>1. ASSUME NEW t \in Session
        PROVE  rows[t].state = "archived" <=> ArchiveRows(expired)[t].state = "archived"
    <3>1. CASE t \in expired
      BY <1>0, <1>3, <3>1, RecordOps DEF ArchiveRows
    <3>2. CASE t \notin expired /\ t \in released
      <4>1. rows[t] = Freed(t) /\ ArchiveRows(expired)[t] = row[t]
        BY <3>2 DEF ArchiveRows
      <4> HIDE DEF released, Freed, expired, rows
      <4>. QED BY <1>0, <1>2, <3>2, <4>1 DEF Active, CrashLosesNothing
    <3>3. CASE t \notin expired /\ t \notin released
      BY <3>3 DEF ArchiveRows
    <3>. QED BY <3>1, <3>2, <3>3
  <2>2. expired \in SUBSET Session
    OBVIOUS
  <2> HIDE DEF released, Freed, expired, Kept, rows
  <2>. QED BY <2>1, <2>2, ArchiveAgree DEF Agree
<1>5. CASE s \in expired
  <2>1. ShouldReapSession(Freed(s), sockets[s] > 0)
    BY <1>5
  <2>2. Kept(s) = Closed(record[s])
    BY <1>5
  <2>3. sockets'[s] = 0 /\ unseen'[s] = Unset
    BY <1>1, <1>5 DEF Dismiss
  <2>4. ~Active(record'[s])
    <3> HIDE DEF Kept, evicted
    <3>. QED BY <1>0, <1>1, <2>2, RecordOps, BlankIsRecord DEF Active
  <2>5. Freed(s) = IF ShouldReleaseClaim(record[s], sockets[s] > 0)
                   THEN Detached(record[s]) ELSE record[s]
    OBVIOUS
  <2> HIDE DEF Freed
  <2>. QED BY <2>1, <2>3, <2>4, <2>5
<1>6. CASE s \notin expired /\ s \in released
  <2>1. /\ ShouldReleaseClaim(record[s], sockets[s] > 0)
        /\ Kept(s) = Detached(record[s]) /\ rows[s] = Detached(record[s])
    BY <1>6
  <2>2. Detached(record[s]).state = "active"
    BY <1>0, <1>2, <1>6, RecordOps DEF Active
  <2>3. s \notin evicted
    BY <2>1, <2>2
  <2>4. sockets'[s] = sockets[s] /\ unseen'[s] = unseen[s]
    BY <1>1, <1>6 DEF Dismiss
  <2> HIDE DEF released, Freed, expired, Kept, evicted, rows
  <2>5. row'[s] = Detached(record[s])
    BY <1>1, <1>4, <2>1, <2>2, MaintainAgree
  <2>. QED BY <1>1, <2>1, <2>3, <2>4, <2>5
<1>7. CASE s \notin expired /\ s \notin released
  <2>1. Kept(s) = record[s] /\ rows[s] = row[s]
    BY <1>7
  <2>2. s \in evicted => ~Active(record[s]) /\ record'[s] = Blank
    BY <1>1, <2>1 DEF Active
  <2>3. s \notin evicted => record'[s] = record[s]
    BY <1>1, <2>1
  <2>4. sockets'[s] = sockets[s] /\ unseen'[s] = unseen[s]
    BY <1>1, <1>7 DEF Dismiss
  <2> HIDE DEF released, Freed, expired, Kept, evicted, rows
  <2>5. Active(row[s]) => row'[s] = row[s]
    BY <1>1, <1>4, <2>1, MaintainAgree DEF Active
  <2>. QED BY <2>2, <2>3, <2>4, <2>5, BlankIsRecord DEF Active
<1>. QED BY <1>5, <1>6, <1>7

\* What clearing by hand makes of a session.
LEMMA ClearFates ==
    ASSUME LInv, ClearDisconnected, NEW s \in Session
    PROVE  \/ /\ IsManuallyClearable(record[s])
              /\ ~Active(record'[s])
              /\ sockets'[s] = 0 /\ unseen'[s] = Unset
           \/ /\ record'[s] = record[s]
              /\ Active(row[s]) => row'[s] = row[s]
              /\ sockets'[s] = sockets[s] /\ unseen'[s] = unseen[s]
<1> DEFINE cleared == {t \in Session : IsManuallyClearable(record[t])}
<1>1. /\ MaintainArchive(ArchiveRows(cleared), ArchiveTimes(cleared)) /\ Dismiss(cleared)
      /\ record' = [t \in Session |-> IF t \in cleared THEN Closed(record[t]) ELSE record[t]]
  BY DEF ClearDisconnected
<1>2. cleared \in SUBSET Session /\ (s \in cleared <=> IsManuallyClearable(record[s]))
  OBVIOUS
<1>3. record \in [Session -> Record]
  BY DEF LInv, TypeOK
<1> HIDE DEF cleared
<1>4. Agree(ArchiveRows(cleared), ArchiveTimes(cleared))
  BY <1>2, ArchiveAgree
<1>5. CASE s \in cleared
  BY <1>1, <1>2, <1>3, <1>5, RecordOps DEF Active, Dismiss
<1>6. CASE s \notin cleared
  <2>1. ArchiveRows(cleared)[s] = row[s]
    BY <1>6 DEF ArchiveRows
  <2>2. Active(row[s]) => row'[s] = row[s]
    BY <1>1, <1>4, <2>1, MaintainAgree DEF Active
  <2>. QED BY <1>1, <1>6, <2>2 DEF Dismiss
<1>. QED BY <1>5, <1>6

\* A tick starts and stops no clock, and runs none ahead of the time.
LEMMA OlderClocks ==
    ASSUME NEW r \in Record
    PROVE  /\ OlderRecord(r).attached = r.attached /\ OlderRecord(r).awaiting = r.awaiting
           /\ OlderRecord(r).quiet = Older(r.quiet, Grace)
           /\ OlderRecord(r).detached = Older(r.detached, AgentGone)
BY DEF OlderRecord, Record

LEMMA OlderAges ==
    ASSUME NEW u \in Age(Grace + AgentGone), u # Unset,
           NEW q \in Age(Grace), NEW d \in Age(AgentGone)
    PROVE  /\ Older(u, Grace + AgentGone) # Unset /\ u <= Older(u, Grace + AgentGone)
           /\ Older(q, Grace) = Unset <=> q = Unset
           /\ q # Unset /\ q <= u => Older(q, Grace) <= Older(u, Grace + AgentGone)
           /\ Older(d, AgentGone) = Unset <=> d = Unset
           /\ d # Unset /\ Grace + d <= u =>
                 Grace + Older(d, AgentGone) <= Older(u, Grace + AgentGone)
<1>1. u \in 0..(Grace + AgentGone)
  BY DEF Age
<1>2. Older(u, Grace + AgentGone) = IF u = Grace + AgentGone THEN u ELSE u + 1
  BY DEF Older
<1>3. q # Unset => q \in 0..Grace /\ Older(q, Grace) = IF q = Grace THEN q ELSE q + 1
  BY DEF Older, Age
<1>4. d # Unset => d \in 0..AgentGone /\ Older(d, AgentGone) = IF d = AgentGone THEN d ELSE d + 1
  BY DEF Older, Age
<1>5. Older(q, Grace) = Unset <=> q = Unset
  BY OlderAge
<1>6. Older(d, AgentGone) = Unset <=> d = Unset
  BY OlderAge
<1>. QED BY <1>1, <1>2, <1>3, <1>4, <1>5, <1>6

\* A live session whose sockets, history and row stay keeps its clocks in
\* order, and so does one that lost its sockets and its history.
LEMMA ClockFrame ==
    ASSUME LInv, NEW s \in Session, ClockOK(s)
    PROVE  /\ (/\ Active(row[s]) => row'[s] = row[s]
               /\ sockets'[s] = sockets[s] /\ unseen'[s] = unseen[s]) => ClockOK(s)'
           /\ sockets'[s] = 0 /\ unseen'[s] = Unset => ClockOK(s)'
<1>1. sockets[s] > 0 => Active(row[s])
  BY DEF LInv, SocketInv, CrashLosesNothing
<1>2. sockets[s] \in Nat
  BY DEF LInv, TypeOK
<1>. QED BY <1>1, <1>2 DEF ClockOK

LEMMA ClockInit == Init => ClockInv
<1> SUFFICES ASSUME Init, NEW s \in Session PROVE ClockOK(s)
  BY DEF ClockInv
<1>1. sockets[s] = 0 /\ unseen[s] = Unset
  BY DEF Init
<1>. QED BY <1>1 DEF ClockOK

LEMMA ClockStep == LInv /\ LInv' /\ ClockInv /\ [Next]_vars => ClockInv'
<1> SUFFICES ASSUME LInv, LInv', ClockInv, [Next]_vars, NEW s \in Session PROVE ClockOK(s)'
  BY DEF ClockInv
<1>0. /\ record \in [Session -> Record] /\ row \in [Session -> Record]
      /\ sockets \in [Session -> 0..MaxSockets]
      /\ unseen \in [Session -> Age(Grace + AgentGone)]
      /\ \A t \in Session : Active(record[t]) => row[t] = record[t]
      /\ ClockOK(s)
  BY DEF LInv, TypeOK, CrashLosesNothing, ClockInv
<1>1. ASSUME NEW t \in Session, t # s, NEW r, Persist(t, r),
             sockets'[s] = sockets[s], unseen'[s] = unseen[s]
      PROVE  ClockOK(s)'
  <2>1. row'[s] = row[s]
    BY <1>0, <1>1 DEF Persist
  <2>. QED BY <1>0, <1>1, <2>1, ClockFrame
<1>2. ASSUME NEW t \in Session, NEW w \in BOOLEAN, Create(t, w) PROVE ClockOK(s)'
  <2>1. CASE t # s
    BY <1>1, <1>2, <2>1 DEF Create
  <2>2. CASE t = s
    <3>1. unseen[s] = Unset /\ ~(sockets[s] > 0)
      BY <1>0, <1>2, <2>2, BlankIsRecord DEF Create, ClockOK, Active
    <3>2. sockets'[s] = 0 /\ unseen'[s] = Unset
      BY <1>0, <1>2, <3>1 DEF Create
    <3>. QED BY <1>0, <3>2, ClockFrame
  <2>. QED BY <2>1, <2>2
<1>3. ASSUME NEW t \in Session, NEW b \in BOOLEAN, CliUpgrade(t, b) PROVE ClockOK(s)'
  <2>1. CASE t # s
    <3>1. sockets'[s] = sockets[s] /\ unseen'[s] = unseen[s]
      BY <1>0, <1>3, <2>1 DEF CliUpgrade
    <3>. QED BY <1>1, <1>3, <2>1, <3>1 DEF CliUpgrade
  <2>2. CASE t = s
    <3>1. row'[s] = Attached(record[s]) /\ Active(row'[s])
      BY <1>0, <1>3, <2>2, RecordOps DEF CliUpgrade, Persist, Active
    <3>2. row'[s].attached /\ ~row'[s].awaiting /\ row'[s].quiet = Unset
      BY <1>0, <3>1, RecordClocks
    <3>3. sockets'[s] > 0 => unseen'[s] = 0
      BY <1>0, <1>3, <2>2 DEF CliUpgrade, ClockOK
    <3>. QED BY <3>1, <3>2, <3>3 DEF ClockOK
  <2>. QED BY <2>1, <2>2
<1>4. ASSUME NEW t \in Session, CliClose(t) PROVE ClockOK(s)'
  <2>1. CASE t # s
    <3>1. sockets'[s] = sockets[s] /\ unseen'[s] = unseen[s]
      BY <1>0, <1>4, <2>1 DEF CliClose
    <3>. QED BY <1>1, <1>4, <2>1, <3>1 DEF CliClose
  <2>2. CASE t = s
    <3>1. /\ sockets[s] > 0 /\ sockets'[s] = sockets[s] - 1 /\ unseen'[s] = unseen[s]
          /\ row'[s] = IF sockets'[s] = 0 THEN Quieted(record[s]) ELSE record[s]
      BY <1>0, <1>4, <2>2 DEF CliClose, Persist
    <3>2. /\ Active(record[s]) /\ row[s] = record[s] /\ unseen[s] = 0
          /\ record[s].attached /\ record[s].quiet = Unset /\ ~record[s].awaiting
      BY <1>0, <3>1 DEF LInv, SocketInv, ClockOK
    <3>3. CASE sockets'[s] = 0
      <4>1. /\ Active(row'[s]) /\ row'[s].attached /\ ~row'[s].awaiting /\ row'[s].quiet = 0
        <5>1. row'[s] = Quieted(record[s]) /\ record[s] \in Record
          BY <1>0, <3>1, <3>3
        <5>2. Active(row'[s])
          BY <3>2, <5>1, RecordOps DEF Active
        <5>3. row'[s].attached /\ ~row'[s].awaiting /\ row'[s].quiet = 0
          BY <3>2, <5>1, RecordClocks
        <5>. QED BY <5>2, <5>3
      <4>. QED BY <3>1, <3>2, <3>3, <4>1 DEF ClockOK
    <3>4. CASE sockets'[s] # 0
      BY <3>1, <3>2, <3>4 DEF ClockOK
    <3>. QED BY <3>3, <3>4
  <2>. QED BY <2>1, <2>2
<1>5. ASSUME NEW t \in Session, Touch(t) PROVE ClockOK(s)'
  <2>1. CASE t # s
    BY <1>1, <1>5, <2>1 DEF Touch
  <2>2. CASE t = s
    <3>1. /\ Active(row[s]) /\ row'[s] = [row[s] EXCEPT !.activity = 0]
          /\ sockets'[s] = sockets[s] /\ unseen'[s] = unseen[s]
      BY <1>0, <1>5, <2>2 DEF Touch, Persist
    <3>2. /\ row'[s].state = row[s].state /\ row'[s].attached = row[s].attached
          /\ row'[s].awaiting = row[s].awaiting /\ row'[s].quiet = row[s].quiet
          /\ row'[s].detached = row[s].detached
      BY <1>0, <3>1 DEF Record
    <3>. QED BY <1>0, <3>1, <3>2 DEF ClockOK, Active
  <2>. QED BY <2>1, <2>2
<1>6. ASSUME NEW t \in Session, Close(t) PROVE ClockOK(s)'
  <2>1. CASE t # s
    BY <1>0, <1>6, <2>1, ClockFrame DEF Close, ArchiveRows, Dismiss
  <2>2. CASE t = s
    BY <1>0, <1>6, <2>2, ClockFrame DEF Close, Dismiss
  <2>. QED BY <2>1, <2>2
<1>7. CASE ClearDisconnected
  BY <1>0, <1>7, ClearFates, ClockFrame
<1>8. CASE ReapTick
  <2>1. ASSUME ShouldReleaseClaim(record[s], sockets[s] > 0), row'[s] = Detached(record[s]),
               sockets'[s] = sockets[s], unseen'[s] = unseen[s]
        PROVE  ClockOK(s)'
    <3>1. /\ row[s] = record[s] /\ ~(sockets[s] > 0) /\ record[s].attached
          /\ record[s].quiet # Unset /\ record[s].quiet >= Grace /\ Active(record[s])
      BY <1>0, <2>1 DEF ShouldReleaseClaim
    <3>2. Active(row'[s]) /\ ~row'[s].attached /\ row'[s].detached = 0
          /\ (~row[s].awaiting => ~row'[s].awaiting)
      <4>1. row'[s] = Detached(record[s]) /\ record[s] \in Record
        BY <1>0, <2>1
      <4>2. Active(row'[s])
        BY <3>1, <4>1, RecordOps DEF Active
      <4>3. ~row'[s].attached /\ row'[s].detached = 0 /\ (~row[s].awaiting => ~row'[s].awaiting)
        BY <3>1, <4>1, RecordClocks
      <4>. QED BY <4>2, <4>3
    <3>3. record[s].quiet \in 0..Grace
      BY <1>0, <3>1 DEF Record, Age
    <3>4. unseen[s] # Unset => unseen[s] \in Nat /\ Grace <= unseen[s]
      BY <1>0, <3>1, <3>3 DEF ClockOK, Age
    <3>. QED BY <1>0, <2>1, <3>1, <3>2, <3>4 DEF ClockOK
  <2>. QED BY <1>0, <1>8, <2>1, ReapFates, ClockFrame
<1>9. CASE Shutdown
  BY <1>0, <1>9, ClockFrame DEF Shutdown, Dismiss
<1>10. CASE FinishShutdown
  <2>1. /\ sockets'[s] = 0 /\ unseen'[s] = unseen[s]
        /\ row'[s] = IF sockets[s] > 0 THEN Quieted(row[s]) ELSE row[s]
    BY <1>10 DEF FinishShutdown
  <2>2. CASE sockets[s] > 0
    <3>1. Active(row[s]) /\ row[s].attached /\ row[s].quiet = Unset /\ unseen[s] = 0 /\ ~row[s].awaiting
      BY <1>0, <2>2 DEF ClockOK
    <3>2. Active(row'[s]) /\ row'[s].attached /\ row'[s].quiet = 0 /\ ~row'[s].awaiting
      <4>1. row'[s] = Quieted(row[s]) /\ row[s] \in Record
        BY <1>0, <2>1, <2>2
      <4>2. Active(row'[s])
        BY <3>1, <4>1, RecordOps DEF Active
      <4>3. row'[s].attached /\ row'[s].quiet = 0 /\ ~row'[s].awaiting
        BY <3>1, <4>1, RecordClocks
      <4>. QED BY <4>2, <4>3
    <3>. QED BY <2>1, <3>1, <3>2 DEF ClockOK
  <2>3. CASE ~(sockets[s] > 0)
    BY <1>0, <2>1, <2>3 DEF ClockOK
  <2>. QED BY <2>2, <2>3
<1>11. CASE Crash
  BY <1>0, <1>11 DEF Crash, ClockOK
<1>12. CASE Boot
  BY <1>0, <1>12, ClockFrame DEF Boot
<1>13. CASE Tick
  <2>1. /\ row'[s] = OlderRecord(row[s]) /\ sockets'[s] = sockets[s]
        /\ unseen'[s] = IF sockets[s] > 0 THEN unseen[s] ELSE Older(unseen[s], Grace + AgentGone)
    BY <1>13 DEF Tick
  <2>2. /\ row'[s].state = row[s].state
        /\ row'[s].attached = row[s].attached /\ row'[s].awaiting = row[s].awaiting
        /\ row'[s].quiet = Older(row[s].quiet, Grace)
        /\ row'[s].detached = Older(row[s].detached, AgentGone)
    BY <1>0, <2>1, OlderRecordFacts, OlderClocks
  <2>3. row[s].quiet \in Age(Grace) /\ row[s].detached \in Age(AgentGone)
    BY <1>0 DEF Record
  <2>4. CASE sockets[s] > 0
    <3>1. row'[s].quiet = Unset
      BY <1>0, <2>2, <2>4 DEF ClockOK, Older
    <3>. QED BY <1>0, <2>1, <2>2, <2>4, <3>1 DEF ClockOK, Active
  <2>5. CASE ~(sockets[s] > 0) /\ unseen[s] = Unset
    <3>1. unseen'[s] = Unset /\ ~(sockets'[s] > 0)
      BY <2>1, <2>5 DEF Older
    <3>. QED BY <3>1 DEF ClockOK
  <2>6. CASE ~(sockets[s] > 0) /\ unseen[s] # Unset
    <3> DEFINE u == unseen[s]
               q == row[s].quiet
               d == row[s].detached
    <3>1. /\ u \in Age(Grace + AgentGone) /\ u # Unset /\ q \in Age(Grace) /\ d \in Age(AgentGone)
          /\ unseen'[s] = Older(u, Grace + AgentGone) /\ ~(sockets'[s] > 0)
      BY <1>0, <2>1, <2>3, <2>6
    <3>2. /\ Active(row[s]) /\ ~row[s].awaiting
          /\ row[s].attached /\ q # Unset => q <= u
          /\ ~row[s].attached => d # Unset /\ Grace + d <= u
      BY <1>0, <2>6 DEF ClockOK
    <3>3. /\ Older(q, Grace) = Unset <=> q = Unset
          /\ q # Unset /\ q <= u => Older(q, Grace) <= Older(u, Grace + AgentGone)
          /\ Older(d, AgentGone) = Unset <=> d = Unset
          /\ d # Unset /\ Grace + d <= u =>
                Grace + Older(d, AgentGone) <= Older(u, Grace + AgentGone)
      <4> HIDE DEF u, q, d
      <4>. QED BY <3>1, OlderAges
    <3>4. Active(row'[s]) /\ ~row'[s].awaiting
      BY <2>2, <3>2 DEF Active
    <3>5. row'[s].attached /\ row'[s].quiet # Unset => row'[s].quiet <= unseen'[s]
      BY <2>2, <3>1, <3>2, <3>3
    <3>6. ~row'[s].attached => row'[s].detached # Unset /\ Grace + row'[s].detached <= unseen'[s]
      BY <2>2, <3>1, <3>2, <3>3
    <3>. QED BY <3>1, <3>4, <3>5, <3>6 DEF ClockOK
  <2>. QED BY <2>4, <2>5, <2>6
<1>14. CASE UNCHANGED vars
  BY <1>0, <1>14, ClockFrame DEF vars
<1>. QED
  BY <1>2, <1>3, <1>4, <1>5, <1>6, <1>7, <1>8, <1>9, <1>10, <1>11, <1>12, <1>13, <1>14
  DEF Next

LEMMA ClocksInOrder == Spec => [](LInv /\ ClockInv)
<1>1. Init => LInv /\ ClockInv
  BY LInvInit, ClockInit
<1>2. LInv /\ ClockInv /\ [Next]_vars => (LInv /\ ClockInv)'
  BY LInvStep, ClockStep
<1>. QED BY <1>1, <1>2, PTL DEF Spec

\* What a reap tick closes no CLI attended for the whole grace and the whole
\* absence after it; what is cleared by hand, for the whole grace.
LEMMA ReapedWasUnattended ==
    ASSUME LInv, ClockInv, NEW s \in Session, Active(record[s]), ~Active(record'[s]),
           unseen[s] # Unset
    PROVE  /\ ReapTick => sockets[s] = 0 /\ unseen[s] >= Grace + AgentGone
           /\ ClearDisconnected => sockets[s] = 0 /\ unseen[s] >= Grace
<1>0. /\ record[s] \in Record /\ row[s] = record[s] /\ ClockOK(s)
      /\ sockets[s] \in Nat
      /\ unseen[s] \in Nat
  BY DEF LInv, TypeOK, CrashLosesNothing, ClockInv, Age
<1>1. ASSUME ReapTick PROVE sockets[s] = 0 /\ unseen[s] >= Grace + AgentGone
  <2>1. ShouldReapSession(IF ShouldReleaseClaim(record[s], sockets[s] > 0)
                          THEN Detached(record[s]) ELSE record[s], sockets[s] > 0)
    <3>1. Active(Detached(record[s]))
      BY <1>0, RecordOps DEF Active
    <3>. QED BY <1>1, <3>1, ReapFates
  <2>2. ~(sockets[s] > 0) /\ ~record[s].awaiting
    BY <1>0, <2>1 DEF ShouldReapSession, ClockOK
  <2>3. ~ShouldReleaseClaim(record[s], sockets[s] > 0)
    <3> SUFFICES ASSUME ShouldReleaseClaim(record[s], sockets[s] > 0) PROVE FALSE
      OBVIOUS
    <3>1. ~Detached(record[s]).awaiting /\ Detached(record[s]).detached = 0
      BY <1>0, <2>2, RecordClocks
    <3>2. ShouldReapSession(Detached(record[s]), sockets[s] > 0)
      BY <2>1
    <3>. QED BY <3>1, <3>2 DEF ShouldReapSession
  <2>4. ~record[s].attached /\ (record[s].detached # Unset => record[s].detached >= AgentGone)
    BY <2>1, <2>2, <2>3 DEF ShouldReapSession
  <2>5. record[s].detached \in Nat /\ Grace + record[s].detached <= unseen[s]
    BY <1>0, <2>4 DEF ClockOK, Record, Age
  <2>. QED BY <1>0, <2>2, <2>4, <2>5
<1>2. ASSUME ClearDisconnected PROVE sockets[s] = 0 /\ unseen[s] >= Grace
  <2>1. ~record[s].attached
    BY <1>2, ClearFates DEF IsManuallyClearable
  <2>2. record[s].detached # Unset /\ Grace + record[s].detached <= unseen[s] /\ ~(sockets[s] > 0)
    BY <1>0, <2>1 DEF ClockOK
  <2>3. record[s].detached \in Nat
    BY <1>0, <2>2 DEF Record, Age
  <2>. QED BY <1>0, <2>2, <2>3
<1>. QED BY <1>1, <1>2

\* No session is expired or cleared while a CLI attends it, or sooner after
\* than the grace and the limit on its absence allow, whatever crashes, boots
\* and failed upgrades came in between and whatever the limits are.
THEOREM AttendedStays == Spec => AttendedNeverReaped
<1>1. LInv /\ ClockInv /\ [Next]_vars =>
        [\A s \in Session :
           Active(record[s]) /\ record'[s].state = "closed" /\ unseen[s] # Unset =>
             /\ ReapTick => sockets[s] = 0 /\ unseen[s] >= Grace + AgentGone
             /\ ClearDisconnected => sockets[s] = 0 /\ unseen[s] >= Grace]_vars
  BY ReapedWasUnattended DEF Active
<1>. QED BY <1>1, ClocksInOrder, PTL DEF Spec, AttendedNeverReaped

\* A claim loses its clock, or never gets one, in a boot and in a refused
\* upgrade, and nowhere else.
LEMMA ClaimLosesClock ==
    ASSUME LInv, LInv', ClockInv, ClockInv', [Next]_vars, NEW s \in Session,
           Unclocked(s)', ~Unclocked(s)
    PROVE  Boot \/ CliUpgrade(s, FALSE)
<1>0. /\ record \in [Session -> Record] /\ sockets \in [Session -> 0..MaxSockets]
      /\ Active(record'[s]) /\ record'[s].attached /\ sockets'[s] = 0 /\ record'[s].quiet = Unset
  BY DEF LInv, TypeOK, Unclocked
<1>same. ASSUME record'[s] = record[s], sockets'[s] = sockets[s] PROVE FALSE
  BY <1>0, <1>same DEF Unclocked
<1>1. ASSUME NEW t \in Session, t # s, NEW r, Persist(t, r), sockets'[s] = sockets[s] PROVE FALSE
  BY <1>0, <1>1, <1>same DEF Persist
<1>2. ASSUME NEW t \in Session, NEW w \in BOOLEAN, Create(t, w) PROVE FALSE
  <2>1. CASE t # s
    BY <1>1, <1>2, <2>1 DEF Create
  <2>2. CASE t = s
    <3>1. record'[s] = [Blank EXCEPT !.state = "active", !.awaiting = w,
                                     !.created = 0, !.activity = 0]
      BY <1>0, <1>2, <2>2 DEF Create, Persist
    <3>2. ~record'[s].attached
      BY <3>1 DEF Blank
    <3>. QED BY <1>0, <3>2
  <2>. QED BY <2>1, <2>2
<1>3. ASSUME NEW t \in Session, CliUpgrade(t, TRUE) PROVE FALSE
  <2>1. CASE t # s
    BY <1>0, <1>1, <1>3, <2>1 DEF CliUpgrade
  <2>2. CASE t = s
    <3>1. sockets'[s] = sockets[s] + 1 /\ sockets[s] \in Nat
      BY <1>0, <1>3, <2>2 DEF CliUpgrade
    <3>. QED BY <1>0, <3>1
  <2>. QED BY <2>1, <2>2
<1>4. ASSUME NEW t \in Session, CliUpgrade(t, FALSE) PROVE CliUpgrade(s, FALSE)
  <2>1. CASE t # s
    BY <1>0, <1>1, <1>4, <2>1 DEF CliUpgrade
  <2>. QED BY <1>4, <2>1
<1>5. ASSUME NEW t \in Session, CliClose(t) PROVE FALSE
  <2>1. CASE t # s
    BY <1>0, <1>1, <1>5, <2>1 DEF CliClose
  <2>2. CASE t = s
    <3>1. record'[s] = Quieted(record[s]) /\ sockets[s] > 0 /\ record[s] \in Record
      BY <1>0, <1>5, <2>2 DEF CliClose, Persist
    <3>2. record[s].attached /\ record[s].quiet = Unset
      BY <3>1 DEF LInv, SocketInv, CrashLosesNothing, ClockInv, ClockOK
    <3>3. record'[s].quiet = 0
      BY <3>1, <3>2, RecordClocks
    <3>. QED BY <1>0, <3>3
  <2>. QED BY <2>1, <2>2
<1>6. ASSUME NEW t \in Session, Touch(t) PROVE FALSE
  <2>1. CASE t # s
    BY <1>0, <1>1, <1>6, <2>1 DEF Touch
  <2>2. CASE t = s
    <3>1. /\ record'[s] = [record[s] EXCEPT !.activity = 0]
          /\ sockets'[s] = sockets[s] /\ Active(record[s])
      BY <1>0, <1>6, <2>2 DEF Touch, Persist
    <3>2. (record'[s].attached <=> record[s].attached) /\ record'[s].quiet = record[s].quiet
      BY <1>0, <3>1 DEF Record
    <3>. QED BY <1>0, <3>1, <3>2 DEF Unclocked
  <2>. QED BY <2>1, <2>2
<1>7. ASSUME NEW t \in Session, Close(t) PROVE FALSE
  <2>1. CASE t # s
    BY <1>0, <1>7, <2>1, <1>same DEF Close, Dismiss
  <2>2. CASE t = s
    BY <1>0, <1>7, <2>2, RecordOps DEF Close, Active
  <2>. QED BY <2>1, <2>2
<1>8. ASSUME ClearDisconnected PROVE FALSE
  BY <1>0, <1>8, <1>same, ClearFates
<1>9. ASSUME ReapTick PROVE FALSE
  <2>1. record[s] \in Record
    BY <1>0
  <2>2. ~Detached(record[s]).attached
    BY <2>1, RecordClocks
  <2>. QED BY <1>0, <1>9, <1>same, <2>2, ReapFates
<1>10. ASSUME Shutdown \/ FinishShutdown \/ Crash PROVE FALSE
  BY <1>0, <1>10, RecordOps, BlankIsRecord DEF Shutdown, FinishShutdown, Crash, Active
<1>11. ASSUME Tick PROVE FALSE
  <2>1. record'[s] = OlderRecord(record[s]) /\ sockets'[s] = sockets[s] /\ record[s] \in Record
    BY <1>0, <1>11 DEF Tick
  <2>2. /\ record'[s].state = record[s].state /\ record'[s].attached = record[s].attached
        /\ record'[s].quiet = Older(record[s].quiet, Grace)
    BY <2>1, OlderRecordFacts, OlderClocks
  <2>3. record[s].quiet = Unset
    BY <1>0, <2>1, <2>2, OlderAge DEF Record
  <2>. QED BY <1>0, <2>1, <2>2, <2>3 DEF Unclocked, Active
<1>12. ASSUME UNCHANGED vars PROVE FALSE
  BY <1>12, <1>same DEF vars
<1>. QED
  BY <1>2, <1>3, <1>4, <1>5, <1>6, <1>7, <1>8, <1>9, <1>10, <1>11, <1>12 DEF Next

\* The quiet clock of a live session never runs beside an open socket, and a
\* claim is without both only from a boot, or a refused upgrade, on.
THEOREM QuietClockIsExact == Spec => QuietClockExact
<1>1. ASSUME LInv, LInv', ClockInv, ClockInv', [Next]_vars, NEW s \in Session
      PROVE  /\ Active(record'[s]) /\ record'[s].quiet # Unset => sockets'[s] = 0
             /\ Unclocked(s)' /\ ~Unclocked(s) => Boot \/ CliUpgrade(s, FALSE)
  <2>1. Active(record'[s]) /\ record'[s].quiet # Unset => sockets'[s] = 0
    <3>1. /\ Active(record'[s]) => row'[s] = record'[s]
          /\ ClockOK(s)' /\ sockets'[s] \in Nat
      BY <1>1 DEF LInv, TypeOK, CrashLosesNothing, ClockInv
    <3>. QED BY <3>1 DEF ClockOK
  <2>. QED BY <1>1, <2>1, ClaimLosesClock
<1>2. (LInv /\ ClockInv) /\ (LInv /\ ClockInv)' /\ [Next]_vars =>
        [\A s \in Session :
           /\ Active(record'[s]) /\ record'[s].quiet # Unset => sockets'[s] = 0
           /\ Unclocked(s)' /\ ~Unclocked(s) => Boot \/ CliUpgrade(s, FALSE)]_vars
  BY <1>1
<1>. QED BY <1>2, ClocksInOrder, PTL DEF Spec, QuietClockExact
=============================================================================
