--------------------------- MODULE JobRunnerProofs ----------------------------
(***************************************************************************)
(* For every value of the constants: the admission counts of the dispatch  *)
(* scheduler are exact, a tick outlives its turn only after a rejection,   *)
(* the types hold, and every row of a feed is announced once.              *)
(***************************************************************************)
EXTENDS JobRunner, FiniteSetTheorems, SequenceTheorems, TLAPS

USE LimitAssumption, JobAssumption

\* The part of the type invariant the counts rest on.
CountTypes ==
    /\ sessionInFlight \in [Session -> Nat]
    /\ daemonInFlight \in Nat
    /\ pc \in [Slot -> Pc]

AdmissionInv == CountTypes /\ AdmissionExact

-------------------------------------------------------------------------------
(***************************************************************************)
(* Lemmas about slots.                                                     *)
(***************************************************************************)
LEMMA SlotFacts ==
    /\ Worker \subseteq JobSlot
    /\ JobSlot \subseteq Slot
    /\ DaemonSlot \subseteq Slot
    /\ DaemonSlot \cap Cli = {}
    /\ \A x \in Slot : SessionOf(x) \in Session
    /\ \A x \in JobSlot : SessionOf(x) = SCHEDULER
    /\ \A t \in Tick : WorkersOf(t) \subseteq Worker
BY DEF JobSlot, DaemonSlot, Slot, SessionOf, WorkersOf, Worker

LEMMA DaemonSlotFinite == IsFiniteSet(DaemonSlot)
BY FS_Union DEF DaemonSlot

\* The sets the counts are compared with are finite.
LEMMA HoldingFinite ==
    /\ IsFiniteSet(Active)
    /\ \A s \in Session : IsFiniteSet(Holding(s))
<1>1. IsFiniteSet(Active)
  BY DaemonSlotFinite, FS_Subset DEF Active
<1>2. ASSUME NEW s \in Session PROVE IsFiniteSet(Holding(s))
  <2>1. Holding(s) \in SUBSET Active
    BY DEF Holding
  <2>. QED BY <1>1, <2>1, FS_Subset
<1>. QED BY <1>1, <1>2

\* A step that starts and ends no execution of the daemon leaves the counts
\* exact.
LEMMA SameHolders ==
    ASSUME AdmissionInv, pc' \in [Slot -> Pc], Active' = Active,
           UNCHANGED <<sessionInFlight, daemonInFlight>>
    PROVE  AdmissionInv'
<1>1. \A s \in Session : Holding(s)' = Holding(s)
  BY DEF Holding, SessionOf
<1>. QED BY <1>1 DEF AdmissionInv, CountTypes, AdmissionExact

\* An admitted execution adds itself to the holders of its session.
LEMMA AdmitExact ==
    ASSUME AdmissionInv, NEW x \in DaemonSlot, NEW k, pc[x] = "idle",
           Admissible(SessionOf(x), k), Admit(SessionOf(x), k),
           pc' = [pc EXCEPT ![x] = "exec"]
    PROVE  AdmissionInv'
<1>. DEFINE S == SessionOf(x)
<1>1. x \in Slot /\ S \in Session
  BY SlotFacts
<1>2. pc' \in [Slot -> Pc] /\ pc'[x] = "exec" /\ \A y \in Slot \ {x} : pc'[y] = pc[y]
  BY <1>1 DEF AdmissionInv, CountTypes, Pc
<1>3. x \notin Active /\ Active' = Active \cup {x}
  BY <1>1, <1>2, SlotFacts DEF Active
<1>4. Cardinality(Active') = Cardinality(Active) + 1
  BY <1>3, HoldingFinite, FS_AddElement
<1>5. x \notin Holding(S) /\ Holding(S)' = Holding(S) \cup {x}
  BY <1>3 DEF Holding, SessionOf
<1>6. Cardinality(Holding(S)') = Cardinality(Holding(S)) + 1
  <2>1. IsFiniteSet(Holding(S))
    BY <1>1, HoldingFinite
  <2>2. Cardinality(Holding(S) \cup {x}) = Cardinality(Holding(S)) + 1
    BY <1>5, <2>1, FS_AddElement
  <2>. QED BY <1>5, <2>2
<1>7. ASSUME NEW s \in Session, s # S PROVE Holding(s)' = Holding(s)
  BY <1>3, <1>7 DEF Holding, SessionOf
<1>. HIDE DEF S
<1>8. /\ sessionInFlight \in [Session -> Nat]
      /\ sessionInFlight' = [sessionInFlight EXCEPT ![S] = @ + 1]
      /\ sessionInFlight[S] < MaxPerSession
      /\ daemonInFlight \in Nat
      /\ daemonInFlight' = daemonInFlight + 1
      /\ daemonInFlight < MaxDaemonWide
  BY DEF AdmissionInv, CountTypes, Admissible, Admit, S
<1>9. CountTypes'
  BY <1>1, <1>2, <1>8 DEF CountTypes
<1>10. ASSUME NEW s \in Session
       PROVE  /\ sessionInFlight'[s] = Cardinality(Holding(s)')
              /\ sessionInFlight'[s] <= MaxPerSession
  <2>1. CASE s = S
    BY <2>1, <1>1, <1>6, <1>8 DEF AdmissionInv, AdmissionExact
  <2>2. CASE s # S
    BY <2>2, <1>1, <1>7, <1>8 DEF AdmissionInv, AdmissionExact
  <2>. QED BY <2>1, <2>2
<1>11. daemonInFlight' = Cardinality(Active') /\ daemonInFlight' <= MaxDaemonWide
  BY <1>4, <1>8 DEF AdmissionInv, AdmissionExact
<1>. QED BY <1>9, <1>10, <1>11 DEF AdmissionInv, AdmissionExact

\* A released execution is no holder any more, and the floor at zero in
\* `release` is never what makes the counts come out right.
LEMMA ReleaseExact ==
    ASSUME AdmissionInv, NEW x \in Active, NEW next \in {"idle", "gone"},
           Release(SessionOf(x)), pc' = [pc EXCEPT ![x] = next]
    PROVE  AdmissionInv'
<1>. DEFINE S == SessionOf(x)
<1>1. x \in Slot /\ x \in DaemonSlot /\ S \in Session
  BY SlotFacts DEF Active
<1>2. pc' \in [Slot -> Pc] /\ pc'[x] = next /\ \A y \in Slot \ {x} : pc'[y] = pc[y]
  BY <1>1 DEF AdmissionInv, CountTypes, Pc
<1>3. Active' = Active \ {x}
  BY <1>1, <1>2, SlotFacts DEF Active
<1>4. Cardinality(Active') = Cardinality(Active) - 1
  BY <1>3, HoldingFinite, FS_RemoveElement
<1>5. x \in Holding(S) /\ Holding(S)' = Holding(S) \ {x}
  BY <1>3 DEF Holding, SessionOf
<1>6. Cardinality(Holding(S)') = Cardinality(Holding(S)) - 1
  <2>1. IsFiniteSet(Holding(S))
    BY <1>1, HoldingFinite
  <2>2. Cardinality(Holding(S) \ {x}) = Cardinality(Holding(S)) - 1
    BY <1>5, <2>1, FS_RemoveElement
  <2>. QED BY <1>5, <2>2
<1>7. ASSUME NEW s \in Session, s # S PROVE Holding(s)' = Holding(s)
  BY <1>3, <1>7 DEF Holding, SessionOf
<1>8. Cardinality(Holding(S)) > 0 /\ Cardinality(Active) > 0
  <2>1. Cardinality(Holding(S)) # 0 /\ Cardinality(Active) # 0
    BY <1>1, <1>5, HoldingFinite, FS_EmptySet
  <2>2. Cardinality(Holding(S)) \in Nat /\ Cardinality(Active) \in Nat
    BY <1>1, HoldingFinite, FS_CardinalityType
  <2>. QED BY <2>1, <2>2
<1>. HIDE DEF S
<1>9. /\ sessionInFlight \in [Session -> Nat]
      /\ sessionInFlight' = [sessionInFlight EXCEPT ![S] = IF @ <= 1 THEN 0 ELSE @ - 1]
      /\ daemonInFlight \in Nat
      /\ daemonInFlight' = IF daemonInFlight = 0 THEN 0 ELSE daemonInFlight - 1
  BY DEF AdmissionInv, CountTypes, Release, S
<1>10. sessionInFlight[S] = Cardinality(Holding(S)) /\ daemonInFlight = Cardinality(Active)
  BY <1>1 DEF AdmissionInv, AdmissionExact
<1>11. /\ sessionInFlight'[S] = sessionInFlight[S] - 1
       /\ daemonInFlight' = daemonInFlight - 1
  BY <1>1, <1>8, <1>9, <1>10
<1>12. CountTypes'
  BY <1>1, <1>2, <1>9 DEF CountTypes
<1>13. ASSUME NEW s \in Session
       PROVE  /\ sessionInFlight'[s] = Cardinality(Holding(s)')
              /\ sessionInFlight'[s] <= MaxPerSession
  <2>1. CASE s = S
    BY <2>1, <1>1, <1>6, <1>9, <1>10, <1>11 DEF AdmissionInv, AdmissionExact
  <2>2. CASE s # S
    BY <2>2, <1>1, <1>7, <1>9 DEF AdmissionInv, AdmissionExact
  <2>. QED BY <2>1, <2>2
<1>14. daemonInFlight' = Cardinality(Active') /\ daemonInFlight' <= MaxDaemonWide
  BY <1>4, <1>9, <1>10, <1>11 DEF AdmissionInv, AdmissionExact
<1>. QED BY <1>12, <1>13, <1>14 DEF AdmissionInv, AdmissionExact

-------------------------------------------------------------------------------
(***************************************************************************)
(* The invariant.                                                          *)
(***************************************************************************)
LEMMA AdmissionInit == Init => AdmissionInv
<1>. SUFFICES ASSUME Init PROVE AdmissionInv
  OBVIOUS
<1>1. CountTypes
  BY DEF Init, FreshScheduler, CountTypes, Pc
<1>2. Active = {}
  BY SlotFacts DEF Init, Active
<1>3. \A s \in Session : Holding(s) = {}
  BY <1>2 DEF Holding
<1>4. Cardinality({}) = 0 /\ 0 <= MaxPerSession /\ 0 <= MaxDaemonWide
  BY FS_EmptySet
<1>5. (\A s \in Session : sessionInFlight[s] = 0) /\ daemonInFlight = 0
  BY DEF Init, FreshScheduler
<1>6. AdmissionExact
  BY <1>2, <1>3, <1>4, <1>5 DEF AdmissionExact
<1>. QED BY <1>1, <1>6 DEF AdmissionInv

\* The end of a job's run, in the daemon or in a CLI process.
LEMMA RunEnds ==
    ASSUME AdmissionInv, NEW x \in JobSlot, NEW next \in {"idle", "gone"},
           pc[x] \notin {"idle", "gone"}, GiveBack(x), Vacate(x, next)
    PROVE  AdmissionInv'
<1>1. pc' = [pc EXCEPT ![x] = next] /\ x \in Slot
  BY SlotFacts DEF Vacate
<1>2. CASE x \in DaemonSlot
  BY <1>1, <1>2, ReleaseExact DEF GiveBack, Active
<1>3. CASE x \notin DaemonSlot
  <2>1. Active' = Active
    BY <1>1, <1>3, SlotFacts DEF Active, AdmissionInv, CountTypes
  <2>2. pc' \in [Slot -> Pc]
    BY <1>1 DEF AdmissionInv, CountTypes, Pc
  <2>. QED BY <1>3, <2>1, <2>2, SameHolders DEF GiveBack, schedulerVars
<1>. QED BY <1>2, <1>3

\* A slot that was executing goes on executing.
LEMMA RunGoesOn ==
    ASSUME AdmissionInv, NEW x \in JobSlot, NEW next \in Pc \ {"idle", "gone"},
           pc[x] \notin {"idle", "gone"}, pc' = [pc EXCEPT ![x] = next],
           UNCHANGED schedulerVars
    PROVE  AdmissionInv'
<1>1. pc' \in [Slot -> Pc]
  BY SlotFacts DEF AdmissionInv, CountTypes
<1>2. Active' = Active
  BY SlotFacts DEF Active, AdmissionInv, CountTypes
<1>. QED BY <1>1, <1>2, SameHolders DEF schedulerVars

\* The workers of a quiet tick hold nothing, so setting their pc to an idle
\* one changes no holder.
LEMMA QuietTickHoldsNothing ==
    ASSUME AdmissionInv, NEW t \in Tick, Quiet(t), NEW next \in {"idle", "gone"},
           pc' = [x \in Slot |-> IF x \in WorkersOf(t) THEN next ELSE pc[x]],
           UNCHANGED schedulerVars
    PROVE  AdmissionInv'
<1>1. pc' \in [Slot -> Pc]
  BY DEF AdmissionInv, CountTypes, Pc
<1>2. Active' = Active
  BY SlotFacts DEF Active, Quiet
<1>. QED BY <1>1, <1>2, SameHolders DEF schedulerVars

LEMMA AdmissionStep == AdmissionInv /\ [Next]_vars => AdmissionInv'
<1>. SUFFICES ASSUME AdmissionInv, [Next]_vars PROVE AdmissionInv'
  OBVIOUS
<1>pc. pc \in [Slot -> Pc]
  BY DEF AdmissionInv, CountTypes
<1>same. ASSUME UNCHANGED <<pc, schedulerVars>> PROVE AdmissionInv'
  <2>1. Active' = Active
    BY <1>same DEF Active
  <2>. QED BY <1>same, <1>pc, <2>1, SameHolders DEF schedulerVars
<1>1. ASSUME NEW t \in Tick, TickStarts(t) PROVE AdmissionInv'
  BY <1>1, QuietTickHoldsNothing DEF TickStarts
<1>2. ASSUME NEW w \in Worker, NEW j \in queue[w[1]], WorkerTakes(w, j) PROVE AdmissionInv'
  <2>1. w \in DaemonSlot /\ SessionOf(w) = SCHEDULER
    BY SlotFacts DEF DaemonSlot
  <2>2. CASE Admissible(SCHEDULER, j)
    BY <1>2, <2>1, <2>2, AdmitExact DEF WorkerTakes, Begin
  <2>3. CASE ~Admissible(SCHEDULER, j)
    BY <1>2, <2>3, <1>same DEF WorkerTakes, runs
  <2>. QED BY <2>2, <2>3
<1>3. ASSUME NEW t \in Tick, TickEnds(t) PROVE AdmissionInv'
  BY <1>3, QuietTickHoldsNothing DEF TickEnds
<1>4. ASSUME NEW x \in RunNow, NEW j \in Job, RunNowStarts(x, j) PROVE AdmissionInv'
  <2>1. x \in DaemonSlot /\ SessionOf(x) = SCHEDULER
    BY SlotFacts DEF DaemonSlot, JobSlot
  <2>. QED BY <1>4, <2>1, AdmitExact DEF RunNowStarts, Begin
<1>5. ASSUME NEW x \in Cli, NEW j \in Job, CliRunStarts(x, j) PROVE AdmissionInv'
  <2>1. x \in Slot /\ x \notin DaemonSlot
    BY SlotFacts DEF Slot, JobSlot
  <2>2. pc' = [pc EXCEPT ![x] = "exec"] /\ UNCHANGED schedulerVars
    BY <1>5 DEF CliRunStarts, Begin
  <2>3. Active' = Active
    BY <2>1, <2>2, <1>pc, SlotFacts DEF Active
  <2>4. pc' \in [Slot -> Pc]
    BY <2>2, <1>pc DEF Pc
  <2>. QED BY <2>2, <2>3, <2>4, SameHolders DEF schedulerVars
<1>6. ASSUME NEW c \in Chat, CommandStarts(c) PROVE AdmissionInv'
  <2>1. c \in DaemonSlot /\ SessionOf(c) = c
    BY DEF DaemonSlot, SessionOf
  <2>. QED BY <1>6, <2>1, AdmitExact DEF CommandStarts
<1>7. ASSUME NEW c \in Chat, CommandEnds(c) PROVE AdmissionInv'
  <2>1. c \in Active /\ SessionOf(c) = c
    BY <1>7 DEF DaemonSlot, SessionOf, Active, CommandEnds
  <2>. QED BY <1>7, <2>1, ReleaseExact DEF CommandEnds
<1>8. ASSUME NEW x \in JobSlot, NEW items \in SUBSET Item, CommandExits(x, items) PROVE AdmissionInv'
  BY <1>8, RunGoesOn DEF CommandExits, Pc, TurnPc
<1>10. ASSUME NEW x \in JobSlot, Throws(x) \/ Rejects(x) PROVE AdmissionInv'
  <2>1. CASE Throws(x)
    BY <2>1, RunGoesOn DEF Throws, Pc, TurnPc
  <2>2. CASE Rejects(x)
    BY <2>2, RunEnds DEF Rejects
  <2>. QED BY <1>10, <2>1, <2>2
<1>9. ASSUME NEW x \in JobSlot, Turn(x) PROVE AdmissionInv'
  <2>1. ASSUME NEW chunk \in SUBSET left[x], InsertsChunk(x, chunk) PROVE AdmissionInv'
    BY <2>1, RunGoesOn DEF InsertsChunk, Pc, TurnPc
  <2>2. CASE Records(x)
    BY <2>2, RunGoesOn, RunEnds DEF Records, Pc, TurnPc
  <2>3. CASE Notifies(x, TRUE)
    BY <2>3, RunEnds DEF Notifies
  <2>4. CASE Throws(x) \/ Rejects(x)
    BY <2>4, <1>10
  <2>. QED BY <1>9, <2>1, <2>2, <2>3, <2>4 DEF Turn
<1>11. ASSUME NEW x \in JobSlot, Notifies(x, FALSE) PROVE AdmissionInv'
  BY <1>11, RunEnds DEF Notifies
<1>12. CASE Crash
  <2>1. /\ pc' = [x \in Slot |-> IF x \in Worker THEN "gone" ELSE IF x \in Cli THEN pc[x] ELSE "idle"]
        /\ sessionInFlight' = [s \in Session |-> 0]
        /\ daemonInFlight' = 0
    BY <1>12 DEF Crash
  <2>2. pc' \in [Slot -> Pc]
    BY <2>1, <1>pc DEF Pc
  <2>3. Active' = {}
    BY <2>1, SlotFacts DEF Active
  <2>4. \A s \in Session : Holding(s)' = {}
    BY <2>3 DEF Holding
  <2>5. Cardinality({}) = 0 /\ 0 <= MaxPerSession /\ 0 <= MaxDaemonWide
    BY FS_EmptySet
  <2>6. CountTypes'
    BY <2>1, <2>2 DEF CountTypes
  <2>7. AdmissionExact'
    BY <2>1, <2>3, <2>4, <2>5 DEF AdmissionExact
  <2>. QED BY <2>6, <2>7 DEF AdmissionInv
<1>13. ASSUME NEW x \in Cli, CliDies(x) PROVE AdmissionInv'
  <2>1. x \in Slot /\ x \notin DaemonSlot
    BY SlotFacts DEF Slot, JobSlot
  <2>2. pc' = [pc EXCEPT ![x] = "idle"] /\ UNCHANGED schedulerVars
    BY <1>13 DEF CliDies, Vacate
  <2>3. Active' = Active
    BY <2>1, <2>2, <1>pc, SlotFacts DEF Active
  <2>4. pc' \in [Slot -> Pc]
    BY <2>2, <1>pc DEF Pc
  <2>. QED BY <2>2, <2>3, <2>4, SameHolders DEF schedulerVars
<1>14. ASSUME NEW k \in Key, RateWindowSlides(k) PROVE AdmissionInv'
  <2>1. UNCHANGED <<sessionInFlight, daemonInFlight, pc>>
    BY <1>14 DEF RateWindowSlides, WindowSlides, runs
  <2>2. Active' = Active
    BY <2>1 DEF Active
  <2>. QED BY <1>pc, <2>1, <2>2, SameHolders
<1>15. ASSUME \/ \E j \in Job : AddJob(j)
              \/ \E j \in Job, on \in BOOLEAN : SetJobEnabled(j, on)
              \/ \E j \in Job : DeleteJob(j)
              \/ ClockTick
              \/ PruneFeedItems
              \/ UNCHANGED vars
       PROVE  AdmissionInv'
  <2>1. UNCHANGED <<pc, schedulerVars>>
    BY <1>15 DEF AddJob, SetJobEnabled, DeleteJob, ClockTick, PruneFeedItems, vars, runs
  <2>. QED BY <2>1, <1>same
<1>. QED
  BY <1>1, <1>2, <1>3, <1>4, <1>5, <1>6, <1>7, <1>8, <1>9, <1>10, <1>11, <1>12, <1>13,
     <1>14, <1>15 DEF Next

\* The hand-kept admission counts equal the executions that hold an admission,
\* and neither limit is ever passed, for any number of jobs, workers,
\* requests, commands and crashes: no path of runner.ts or dispatchCommand
\* leaks or double-releases capacity.
THEOREM AdmissionAlwaysExact == Spec => []AdmissionExact
<1>1. Spec => []AdmissionInv
  BY AdmissionInit, AdmissionStep, PTL DEF Spec
<1>2. AdmissionInv => AdmissionExact
  BY DEF AdmissionInv
<1>. QED BY <1>1, <1>2, PTL

-------------------------------------------------------------------------------
(***************************************************************************)
(* Ticks overlap only by a rejection.                                      *)
(***************************************************************************)
\* What the tick bookkeeping rests on: `running` says whether a promise is
\* pending, and every job that is queued or run exists or was deleted.
TickTypes ==
    /\ pc \in [Slot -> Pc]
    /\ job \in [Slot -> Job \cup {NoJob}]
    /\ queue \in [Tick -> SUBSET Job]
    /\ jobs \subseteq Job
    /\ current \in Tick \cup {NoTick}
    /\ running = (current # NoTick)

JobsKnown ==
    /\ \A t \in Tick : queue[t] \subseteq jobs \cup removed
    /\ \A x \in JobSlot : pc[x] \notin {"idle", "gone"} => job[x] \in jobs \cup removed

\* Stronger than the property: a worker that only waits to take a job counts.
OutlivesByRejection ==
    \A t \in Tick :
        (t # current /\ \E w \in WorkersOf(t) : pc[w] # "gone") =>
            \E w \in WorkersOf(t) : pc[w] = "gone"

TickInv == TickTypes /\ JobsKnown /\ OutlivesByRejection

\* A step that at most takes jobs off the queues.
QueuesShrink ==
    /\ queue' \in [Tick -> SUBSET Job]
    /\ \A t \in Tick : queue'[t] \subseteq queue[t]
    /\ UNCHANGED <<jobs, removed, running, current>>

LEMMA TickInit == Init => TickInv
<1>. SUFFICES ASSUME Init PROVE TickInv
  OBVIOUS
<1>1. TickTypes
  BY DEF Init, TickTypes, Pc
<1>2. JobsKnown
  BY SlotFacts DEF Init, JobsKnown
<1>3. \A x \in Worker : pc[x] = "gone"
  BY SlotFacts DEF Init
<1>4. OutlivesByRejection
  BY <1>3, SlotFacts DEF OutlivesByRejection
<1>. QED BY <1>1, <1>2, <1>4 DEF TickInv

\* A step of a slot that leaves the ticks' own state alone, and makes no
\* worker of a tick stop or come back, preserves the invariant.
LEMMA TickFrame ==
    ASSUME TickInv, QueuesShrink,
           pc' \in [Slot -> Pc], job' \in [Slot -> Job \cup {NoJob}],
           \A w \in Worker : pc'[w] = "gone" <=> pc[w] = "gone",
           \A x \in JobSlot : pc'[x] \notin {"idle", "gone"} => job'[x] \in jobs \cup removed
    PROVE  TickInv'
<1>1. TickTypes'
  BY DEF TickInv, TickTypes, QueuesShrink
<1>2. JobsKnown'
  BY DEF TickInv, JobsKnown, QueuesShrink
<1>3. OutlivesByRejection'
  BY SlotFacts DEF TickInv, OutlivesByRejection, WorkersOf, QueuesShrink
<1>. QED BY <1>1, <1>2, <1>3 DEF TickInv

\* The end of a run that is not a rejection frees its slot.
LEMMA VacateIdle ==
    ASSUME TickInv, NEW x \in JobSlot, pc[x] \notin {"idle", "gone"}, Vacate(x, "idle"),
           QueuesShrink
    PROVE  TickInv'
<1>1. /\ x \in Slot
      /\ pc' = [pc EXCEPT ![x] = "idle"]
      /\ job' = [job EXCEPT ![x] = NoJob]
  BY SlotFacts DEF Vacate
<1>2. pc' \in [Slot -> Pc] /\ job' \in [Slot -> Job \cup {NoJob}]
  BY <1>1 DEF TickInv, TickTypes, Pc
<1>3. \A w \in Worker : pc'[w] = "gone" <=> pc[w] = "gone"
  BY <1>1, SlotFacts DEF TickInv, TickTypes
<1>4. ASSUME NEW y \in JobSlot, pc'[y] \notin {"idle", "gone"}
      PROVE  job'[y] \in jobs \cup removed
  BY <1>1, <1>4, SlotFacts DEF TickInv, TickTypes, JobsKnown
<1>. QED BY <1>2, <1>3, <1>4, TickFrame

\* A run that goes on keeps its job.
LEMMA RunKeepsTicks ==
    ASSUME TickInv, NEW x \in JobSlot, NEW next \in Pc \ {"idle", "gone"},
           pc[x] \notin {"idle", "gone"}, pc' = [pc EXCEPT ![x] = next],
           QueuesShrink, UNCHANGED job
    PROVE  TickInv'
<1>1. x \in Slot /\ pc' \in [Slot -> Pc]
  BY SlotFacts DEF TickInv, TickTypes
<1>2. \A w \in Worker : pc'[w] = "gone" <=> pc[w] = "gone"
  BY <1>1, SlotFacts DEF TickInv, TickTypes
<1>3. ASSUME NEW y \in JobSlot, pc'[y] \notin {"idle", "gone"}
      PROVE  job'[y] \in jobs \cup removed
  BY <1>1, <1>3, SlotFacts DEF TickInv, TickTypes, JobsKnown
<1>. QED BY <1>1, <1>2, <1>3, TickFrame DEF TickInv, TickTypes

\* A run that starts has a job that is queued or exists.
LEMMA BeginKeepsTicks ==
    ASSUME TickInv, NEW x \in JobSlot, NEW j \in Job, NEW a, pc[x] = "idle",
           j \in jobs \cup removed, Begin(x, j, a), QueuesShrink
    PROVE  TickInv'
<1>1. x \in Slot /\ pc' = [pc EXCEPT ![x] = "exec"] /\ job' = [job EXCEPT ![x] = j]
  BY SlotFacts DEF Begin
<1>2. pc' \in [Slot -> Pc] /\ job' \in [Slot -> Job \cup {NoJob}]
  BY <1>1 DEF TickInv, TickTypes, Pc
<1>3. \A w \in Worker : pc'[w] = "gone" <=> pc[w] = "gone"
  BY <1>1, SlotFacts DEF TickInv, TickTypes
<1>4. ASSUME NEW y \in JobSlot, pc'[y] \notin {"idle", "gone"}
      PROVE  job'[y] \in jobs \cup removed
  BY <1>1, <1>4, SlotFacts DEF TickInv, TickTypes, JobsKnown
<1>. QED BY <1>2, <1>3, <1>4, TickFrame

\* A rejection leaves a gone worker behind.
LEMMA RejectKeepsTicks ==
    ASSUME TickInv, NEW x \in JobSlot, pc[x] \notin {"idle", "gone"}, Rejects(x)
    PROVE  TickInv'
<1>. DEFINE next == IF x \in Worker THEN "gone" ELSE "idle"
<1>1. /\ x \in Slot
      /\ pc' = [pc EXCEPT ![x] = next]
      /\ job' = [job EXCEPT ![x] = NoJob]
      /\ UNCHANGED <<jobs, removed, queue>>
  BY SlotFacts DEF Rejects, Vacate, tables
<1>3. pc' \in [Slot -> Pc] /\ job' \in [Slot -> Job \cup {NoJob}]
  BY <1>1 DEF TickInv, TickTypes, Pc
<1>4. ASSUME NEW y \in JobSlot, pc'[y] \notin {"idle", "gone"}
      PROVE  job'[y] \in jobs \cup removed
  BY <1>1, <1>4, SlotFacts DEF TickInv, TickTypes, JobsKnown
<1>5. JobsKnown'
  BY <1>1, <1>4 DEF TickInv, JobsKnown
<1>6. CASE x \in Worker /\ x[1] = current
  <2>1. running' = FALSE /\ current' = NoTick
    BY <1>6 DEF Rejects
  <2>2. TickTypes'
    BY <1>1, <1>3, <2>1 DEF TickInv, TickTypes
  <2>3. x \in WorkersOf(current) /\ current \in Tick /\ pc'[x] = "gone"
    BY <1>1, <1>6 DEF Worker, WorkersOf, TickInv, TickTypes
  <2>4. ASSUME NEW t \in Tick, t # current,
               \E w \in WorkersOf(t) : pc'[w] # "gone"
        PROVE  \E w \in WorkersOf(t) : pc'[w] = "gone"
    <3>1. x \notin WorkersOf(t)
      BY <1>6, <2>4 DEF WorkersOf
    <3>2. \A w \in WorkersOf(t) : pc'[w] = pc[w]
      BY <1>1, <3>1, SlotFacts DEF TickInv, TickTypes
    <3>. QED BY <2>4, <3>2 DEF TickInv, OutlivesByRejection
  <2>5. OutlivesByRejection'
    BY <1>1, <2>1, <2>3, <2>4 DEF OutlivesByRejection, WorkersOf
  <2>. QED BY <1>5, <2>2, <2>5 DEF TickInv
<1>7. CASE ~(x \in Worker /\ x[1] = current)
  <2>1. UNCHANGED <<running, current>>
    BY <1>7 DEF Rejects
  <2>2. TickTypes'
    BY <1>1, <1>3, <2>1 DEF TickInv, TickTypes
  <2>3. ASSUME NEW t \in Tick, t # current,
               \E w \in WorkersOf(t) : pc'[w] # "gone"
        PROVE  \E w \in WorkersOf(t) : pc'[w] = "gone"
    <3>1. PICK w \in WorkersOf(t) : pc'[w] # "gone"
      BY <2>3
    <3>2. w \in Worker /\ w \in Slot
      BY SlotFacts
    <3>3. pc[w] # "gone"
      BY <1>1, <3>1, <3>2 DEF TickInv, TickTypes
    <3>4. PICK v \in WorkersOf(t) : pc[v] = "gone"
      BY <2>3, <3>3 DEF TickInv, OutlivesByRejection
    <3>5. v \in Slot /\ v # x
      BY <3>4, SlotFacts
    <3>. QED BY <1>1, <3>4, <3>5 DEF TickInv, TickTypes
  <2>4. OutlivesByRejection'
    BY <1>1, <2>1, <2>3 DEF OutlivesByRejection, WorkersOf
  <2>. QED BY <1>5, <2>2, <2>4 DEF TickInv
<1>. QED BY <1>6, <1>7

LEMMA TickStep == TickInv /\ [Next]_vars => TickInv'
<1>. SUFFICES ASSUME TickInv, [Next]_vars PROVE TickInv'
  OBVIOUS
<1>ty. /\ pc \in [Slot -> Pc] /\ job \in [Slot -> Job \cup {NoJob}]
       /\ queue \in [Tick -> SUBSET Job] /\ jobs \subseteq Job
       /\ current \in Tick \cup {NoTick} /\ running = (current # NoTick)
  BY DEF TickInv, TickTypes
<1>own. \A t, u \in Tick : t # u => WorkersOf(t) \cap WorkersOf(u) = {}
  BY DEF WorkersOf
<1>same. ASSUME UNCHANGED <<pc, job, ticks>>, jobs' \subseteq Job,
                jobs \cup removed \subseteq jobs' \cup removed'
         PROVE  TickInv'
  <2>1. TickTypes'
    BY <1>same, <1>ty DEF TickTypes, ticks
  <2>2. JobsKnown'
    BY <1>same DEF TickInv, JobsKnown, ticks
  <2>4. OutlivesByRejection'
    BY <1>same DEF TickInv, OutlivesByRejection, WorkersOf, ticks
  <2>. QED BY <2>1, <2>2, <2>4 DEF TickInv
<1>still. ASSUME UNCHANGED <<jobs, removed, ticks>> PROVE QueuesShrink
  BY <1>still, <1>ty DEF QueuesShrink, ticks
<1>1. ASSUME NEW t \in Tick, TickStarts(t) PROVE TickInv'
  <2>1. /\ current = NoTick /\ current' = t /\ running' = TRUE
        /\ queue' = [queue EXCEPT ![t] = Due]
        /\ pc' = [x \in Slot |-> IF x \in WorkersOf(t) THEN "idle" ELSE pc[x]]
        /\ UNCHANGED <<jobs, removed, job>>
    BY <1>1, <1>ty DEF TickStarts, tables
  <2>2. Due \subseteq jobs
    BY DEF Due
  <2>3. TickTypes'
    BY <1>ty, <2>1, <2>2 DEF TickTypes, Pc
  <2>4. JobsKnown'
    BY <1>ty, <2>1, <2>2, SlotFacts DEF TickInv, JobsKnown
  <2>5. ASSUME NEW u \in Tick, u # t PROVE \A w \in WorkersOf(u) : pc'[w] = pc[w]
    BY <2>1, <2>5, <1>own, SlotFacts
  <2>6. ASSUME NEW u \in Tick, u # current', \E w \in WorkersOf(u) : pc'[w] # "gone"
        PROVE  \E w \in WorkersOf(u) : pc'[w] = "gone"
    BY <2>1, <2>5, <2>6, <1>ty DEF TickInv, OutlivesByRejection
  <2>7. OutlivesByRejection'
    BY <2>1, <2>6 DEF OutlivesByRejection, WorkersOf
  <2>. QED BY <2>3, <2>4, <2>7 DEF TickInv
<1>2. ASSUME NEW w \in Worker, NEW j \in queue[w[1]], WorkerTakes(w, j) PROVE TickInv'
  <2>1. w[1] \in Tick /\ w \in JobSlot /\ w \in Slot
    BY SlotFacts DEF Worker
  <2>2. j \in Job /\ j \in jobs \cup removed
    BY <1>ty, <2>1 DEF TickInv, JobsKnown
  <2>3. QueuesShrink
    BY <1>2, <1>ty, <2>1 DEF WorkerTakes, QueuesShrink, tables
  <2>4. CASE Admissible(SCHEDULER, j)
    BY <1>2, <2>1, <2>2, <2>3, <2>4, BeginKeepsTicks DEF WorkerTakes
  <2>5. CASE ~Admissible(SCHEDULER, j)
    <3>1. UNCHANGED <<pc, job>>
      BY <1>2, <2>5 DEF WorkerTakes, runs
    <3>. QED BY <1>ty, <2>3, <3>1, TickFrame DEF TickInv, JobsKnown
  <2>. QED BY <2>4, <2>5
<1>3. ASSUME NEW t \in Tick, TickEnds(t) PROVE TickInv'
  <2>1. /\ current = t /\ current' = NoTick /\ running' = FALSE
        /\ pc' = [x \in Slot |-> IF x \in WorkersOf(t) THEN "gone" ELSE pc[x]]
        /\ UNCHANGED <<jobs, removed, job, queue>>
    BY <1>3 DEF TickEnds, tables
  <2>2. TickTypes'
    BY <1>ty, <2>1 DEF TickTypes, Pc
  <2>3. JobsKnown'
    BY <2>1, SlotFacts DEF TickInv, JobsKnown
  <2>4. ASSUME NEW u \in Tick, u # t PROVE \A w \in WorkersOf(u) : pc'[w] = pc[w]
    BY <2>1, <2>4, <1>own, SlotFacts
  <2>5. \A w \in WorkersOf(t) : pc'[w] = "gone"
    BY <2>1, SlotFacts
  <2>6. ASSUME NEW u \in Tick, \E w \in WorkersOf(u) : pc'[w] # "gone"
        PROVE  \E w \in WorkersOf(u) : pc'[w] = "gone"
    <3>1. u # t
      BY <2>5, <2>6
    <3>. QED BY <2>1, <2>4, <2>6, <3>1 DEF TickInv, OutlivesByRejection
  <2>7. OutlivesByRejection'
    BY <2>1, <2>6 DEF OutlivesByRejection, WorkersOf
  <2>. QED BY <2>2, <2>3, <2>7 DEF TickInv
<1>4. ASSUME NEW x \in RunNow, NEW j \in Job, RunNowStarts(x, j) PROVE TickInv'
  <2>1. QueuesShrink
    BY <1>4, <1>still DEF RunNowStarts, tables
  <2>. QED BY <1>4, <2>1, BeginKeepsTicks DEF RunNowStarts, JobSlot
<1>5. ASSUME NEW x \in Cli, NEW j \in Job, CliRunStarts(x, j) PROVE TickInv'
  <2>1. QueuesShrink
    BY <1>5, <1>still DEF CliRunStarts, tables
  <2>. QED BY <1>5, <2>1, BeginKeepsTicks DEF CliRunStarts, JobSlot
<1>6. ASSUME NEW c \in Chat, NEW next \in {"exec", "idle"},
             pc' = [pc EXCEPT ![c] = next], UNCHANGED <<tables, ticks, job>>
      PROVE  TickInv'
  <2>1. c \in Slot /\ c \notin JobSlot
    BY DEF Slot, JobSlot
  <2>2. pc' \in [Slot -> Pc] /\ \A x \in JobSlot : pc'[x] = pc[x]
    BY <1>6, <1>ty, <2>1, SlotFacts DEF Pc
  <2>3. QueuesShrink
    BY <1>6, <1>still DEF tables
  <2>. QED BY <1>6, <1>ty, <2>2, <2>3, TickFrame, SlotFacts DEF TickInv, JobsKnown
<1>7. ASSUME NEW c \in Chat, CommandStarts(c) \/ CommandEnds(c) PROVE TickInv'
  BY <1>6, <1>7 DEF CommandStarts, CommandEnds
<1>8. ASSUME NEW x \in JobSlot, NEW items \in SUBSET Item, CommandExits(x, items) PROVE TickInv'
  <2>1. QueuesShrink
    BY <1>8, <1>still DEF CommandExits, tables
  <2>. QED BY <1>8, <2>1, RunKeepsTicks DEF CommandExits, Pc, TurnPc
<1>10. ASSUME NEW x \in JobSlot, Throws(x) \/ Rejects(x) PROVE TickInv'
  <2>1. CASE Throws(x)
    <3>1. QueuesShrink
      BY <2>1, <1>still DEF Throws, tables
    <3>. QED BY <2>1, <3>1, RunKeepsTicks DEF Throws, Pc, TurnPc
  <2>2. CASE Rejects(x)
    BY <2>2, RejectKeepsTicks DEF Rejects
  <2>. QED BY <1>10, <2>1, <2>2
<1>9. ASSUME NEW x \in JobSlot, Turn(x) PROVE TickInv'
  <2>1. ASSUME NEW chunk \in SUBSET left[x], InsertsChunk(x, chunk) PROVE TickInv'
    <3>1. QueuesShrink
      BY <2>1, <1>still DEF InsertsChunk
    <3>. QED BY <2>1, <3>1, RunKeepsTicks DEF InsertsChunk, Pc, TurnPc
  <2>2. CASE Records(x)
    <3>1. QueuesShrink
      BY <2>2, <1>still DEF Records
    <3>. QED BY <2>2, <3>1, RunKeepsTicks, VacateIdle DEF Records, Pc, TurnPc
  <2>3. CASE Notifies(x, TRUE)
    <3>1. QueuesShrink
      BY <2>3, <1>still DEF Notifies, tables
    <3>. QED BY <2>3, <3>1, VacateIdle DEF Notifies
  <2>4. CASE Throws(x) \/ Rejects(x)
    BY <2>4, <1>10
  <2>. QED BY <1>9, <2>1, <2>2, <2>3, <2>4 DEF Turn
<1>11. ASSUME NEW x \in JobSlot, Notifies(x, FALSE) PROVE TickInv'
  <2>1. QueuesShrink
    BY <1>11, <1>still DEF Notifies, tables
  <2>. QED BY <1>11, <2>1, VacateIdle DEF Notifies
<1>12. CASE Crash
  <2>1. /\ pc' = [x \in Slot |-> IF x \in Worker THEN "gone" ELSE IF x \in Cli THEN pc[x] ELSE "idle"]
        /\ job' = [x \in Slot |-> IF x \in Cli THEN job[x] ELSE NoJob]
        /\ queue' = [t \in Tick |-> {}] /\ running' = FALSE /\ current' = NoTick
        /\ UNCHANGED <<jobs, removed>>
    BY <1>12 DEF Crash, tables
  <2>2. TickTypes'
    BY <1>ty, <2>1 DEF TickTypes, Pc
  <2>3. JobsKnown'
    BY <2>1, SlotFacts DEF TickInv, JobsKnown
  <2>4. \A w \in Worker : pc'[w] = "gone"
    BY <2>1, SlotFacts
  <2>5. OutlivesByRejection'
    BY <2>4, SlotFacts DEF OutlivesByRejection, WorkersOf
  <2>. QED BY <2>2, <2>3, <2>5 DEF TickInv
<1>13. ASSUME NEW x \in Cli, CliDies(x) PROVE TickInv'
  <2>1. QueuesShrink
    BY <1>13, <1>still DEF CliDies, tables
  <2>2. x \in JobSlot /\ x \notin Worker /\ x \in Slot
    BY SlotFacts DEF JobSlot
  <2>3. pc' = [pc EXCEPT ![x] = "idle"] /\ job' = [job EXCEPT ![x] = NoJob]
    BY <1>13 DEF CliDies, Vacate
  <2>4. pc' \in [Slot -> Pc] /\ job' \in [Slot -> Job \cup {NoJob}]
    BY <1>ty, <2>3 DEF Pc
  <2>5. \A w \in Worker : pc'[w] = "gone" <=> pc[w] = "gone"
    BY <1>ty, <2>2, <2>3, SlotFacts
  <2>6. ASSUME NEW y \in JobSlot, pc'[y] \notin {"idle", "gone"}
        PROVE  job'[y] \in jobs \cup removed
    BY <1>ty, <2>2, <2>3, <2>6, SlotFacts DEF TickInv, JobsKnown
  <2>. QED BY <2>1, <2>4, <2>5, <2>6, TickFrame
<1>14. ASSUME \/ \E j \in Job : AddJob(j)
              \/ \E j \in Job, on \in BOOLEAN : SetJobEnabled(j, on)
              \/ \E j \in Job : DeleteJob(j)
              \/ ClockTick
              \/ \E k \in Key : RateWindowSlides(k)
              \/ PruneFeedItems
              \/ UNCHANGED vars
       PROVE  TickInv'
  <2>1. UNCHANGED <<pc, job, ticks>>
    BY <1>14 DEF AddJob, SetJobEnabled, DeleteJob, ClockTick, RateWindowSlides,
                 PruneFeedItems, vars, runs
  <2>2. /\ jobs' \subseteq Job
        /\ jobs \cup removed \subseteq jobs' \cup removed'
    BY <1>14, <1>ty DEF AddJob, SetJobEnabled, DeleteJob, ClockTick, RateWindowSlides,
                        PruneFeedItems, vars, tables
  <2>. QED BY <2>1, <2>2, <1>same
<1>. QED
  BY <1>1, <1>2, <1>3, <1>4, <1>5, <1>7, <1>8, <1>9, <1>10, <1>11, <1>12, <1>13, <1>14 DEF Next

\* Two ticks of the timer overlap only when one worker of the older tick is gone:
\* its last write threw, at a deleted job or a failing database, and the rejection
\* reset `running` under the others; for any number of jobs, workers and outside
\* requests.
THEOREM TicksOverlapOnlyByRejection == Spec => []TickOutlivesOnlyByRejection
<1>1. Spec => []TickInv
  BY TickInit, TickStep, PTL DEF Spec
<1>2. TickInv => TickOutlivesOnlyByRejection
  BY DEF TickInv, OutlivesByRejection, TickOutlivesOnlyByRejection, LiveRuns
<1>. QED BY <1>1, <1>2, PTL
-------------------------------------------------------------------------------
(***************************************************************************)
(* The feed's rows.                                                        *)
(***************************************************************************)
\* A set of items put in some order has just those items.
LEMMA SetToSeqOf ==
    ASSUME NEW S, S \subseteq Item
    PROVE  SetToSeq(S) \in Seq(Item) /\ Range(SetToSeq(S)) = S
<1> DEFINE n == Cardinality(S)
           f == SetToSeq(S)
<1>1. IsFiniteSet(S)
  BY FeedAssumption, FS_Subset
<1>2. n \in Nat /\ ExistsBijection(1..n, S)
  BY <1>1, FS_CardinalityType
<1>3. \E g \in [1..n -> S] : IsInjective(g)
  BY <1>2 DEF ExistsBijection, Bijection, Injection
<1>4. f \in [1..n -> S] /\ IsInjective(f)
  BY <1>3 DEF SetToSeq
<1>5. f \in Injection(1..n, S)
  BY <1>4 DEF Injection
<1>6. Cardinality(1..n) = n
  BY <1>2, FS_Interval
<1> HIDE DEF f
<1>7. f \in Surjection(1..n, S)
  BY <1>1, <1>5, <1>6, FS_Injection
<1>8. Range(f) = S
  BY <1>4, <1>7 DEF Range, Surjection
<1>9. f \in Seq(Item)
  BY <1>2, <1>4, SeqDef
<1>. QED BY <1>8, <1>9 DEF f

LEMMA AppendedRows ==
    ASSUME NEW s \in Seq(Item), NEW t \in Seq(Item)
    PROVE  s \o t \in Seq(Item) /\ Range(s \o t) = Range(s) \cup Range(t)
<1>1. /\ s \o t \in Seq(Item) /\ Len(s \o t) = Len(s) + Len(t)
      /\ \A i \in 1 .. Len(s) + Len(t) :
            (s \o t)[i] = IF i <= Len(s) THEN s[i] ELSE t[i - Len(s)]
  BY ConcatProperties
<1>2. /\ Len(s) \in Nat /\ DOMAIN s = 1..Len(s)
      /\ Len(t) \in Nat /\ DOMAIN t = 1..Len(t)
      /\ DOMAIN (s \o t) = 1..(Len(s) + Len(t))
  BY <1>1, LenProperties
<1>3. ASSUME NEW k \in DOMAIN s PROVE s[k] \in Range(s \o t)
  <2>1. k \in DOMAIN (s \o t) /\ (s \o t)[k] = s[k]
    BY <1>1, <1>2
  <2>. QED BY <2>1 DEF Range
<1>4. ASSUME NEW k \in DOMAIN t PROVE t[k] \in Range(s \o t)
  <2>1. Len(s) + k \in DOMAIN (s \o t) /\ (s \o t)[Len(s) + k] = t[k]
    BY <1>1, <1>2
  <2>. QED BY <2>1 DEF Range
<1>5. ASSUME NEW k \in DOMAIN (s \o t) PROVE (s \o t)[k] \in Range(s) \cup Range(t)
  <2>1. CASE k <= Len(s)
    BY <1>1, <1>2, <2>1 DEF Range
  <2>2. CASE ~(k <= Len(s))
    <3>1. k - Len(s) \in DOMAIN t /\ (s \o t)[k] = t[k - Len(s)]
      BY <1>1, <1>2, <2>2
    <3>. QED BY <3>1 DEF Range
  <2>. QED BY <2>1, <2>2
<1>. QED BY <1>1, <1>3, <1>4, <1>5 DEF Range

LEMMA KeptRows ==
    ASSUME NEW s \in Seq(Item), Len(s) > FeedLimit
    PROVE  Kept(s) \in Seq(Item) /\ Range(Kept(s)) \subseteq Range(s)
<1> DEFINE m == 1 + Len(s) - FeedLimit
           n == Len(s)
<1>1. n \in Nat /\ DOMAIN s = 1..n /\ m \in 1..n /\ \A i \in 1..n : s[i] \in Item
  BY LenProperties, FeedAssumption
<1>2. /\ Kept(s) \in Seq(Item)
      /\ Len(Kept(s)) = n - m + 1
      /\ \A i \in 1 .. n - m + 1 : Kept(s)[i] = s[m + i - 1]
  <2>1. Kept(s) = SubSeq(s, m, n)
    BY DEF Kept
  <2>2. m \in Int /\ n \in Int /\ m <= n /\ \A i \in m..n : s[i] \in Item
    BY <1>1
  <2> HIDE DEF m, n
  <2>. QED BY <2>1, <2>2, SubSeqProperties
<1>3. ASSUME NEW k \in DOMAIN Kept(s) PROVE Kept(s)[k] \in Range(s)
  <2>1. k \in 1 .. n - m + 1
    BY <1>2, <1>3, LenProperties
  <2>2. m + k - 1 \in 1..n
    BY <1>1, <2>1
  <2>. QED BY <1>1, <1>2, <2>1, <2>2 DEF Range
<1>. QED BY <1>2, <1>3 DEF Range
-------------------------------------------------------------------------------
(***************************************************************************)
(* Type correctness, in the groups of variables the actions change.        *)
(***************************************************************************)
SchedulerTypes ==
    /\ sessionInFlight \in [Session -> Nat]
    /\ daemonInFlight \in Nat
    /\ recent \in [Key -> 0..MaxPerMinute]

TableTypes ==
    /\ jobs \subseteq Job
    /\ enabled \subseteq jobs
    /\ wait \in [Job -> 0..Interval]
    /\ removed \subseteq Job
    /\ feed \in [Job -> Seq(Item)]

QueueTypes ==
    /\ running \in BOOLEAN
    /\ current \in Tick \cup {NoTick}
    /\ queue \in [Tick -> SUBSET Job]

RunTypes ==
    /\ pc \in [Slot -> Pc]
    /\ job \in [Slot -> Job \cup {NoJob}]
    /\ age \in [Slot -> 0..Interval]
    /\ left \in [Slot -> SUBSET Item]
    /\ fresh \in [Slot -> SUBSET Item]

HistoryTypes ==
    /\ told \in [Job -> [Item -> Nat]]
    /\ missed \subseteq Job \X Item
    /\ pruned \subseteq Job \X Item
    /\ outside \in Nat

LEMMA TypeGroups ==
    JobTypeOK <=> SchedulerTypes /\ TableTypes /\ QueueTypes /\ RunTypes /\ HistoryTypes
BY DEF JobTypeOK, SchedulerTypes, TableTypes, QueueTypes, RunTypes, HistoryTypes

\* A group that a step leaves alone keeps its types.
LEMMA TypeFrames ==
    /\ SchedulerTypes /\ UNCHANGED schedulerVars => SchedulerTypes'
    /\ TableTypes /\ UNCHANGED tables => TableTypes'
    /\ QueueTypes /\ UNCHANGED ticks => QueueTypes'
    /\ RunTypes /\ UNCHANGED runs => RunTypes'
    /\ HistoryTypes /\ UNCHANGED history => HistoryTypes'
BY DEF SchedulerTypes, TableTypes, QueueTypes, RunTypes, HistoryTypes,
       schedulerVars, tables, ticks, runs, history

LEMMA AdmitTypes ==
    ASSUME SchedulerTypes, NEW s \in Session, NEW k \in Key, Admissible(s, k), Admit(s, k)
    PROVE  SchedulerTypes'
<1>1. recent[k] + 1 \in 0..MaxPerMinute
  BY DEF SchedulerTypes, Admissible
<1>2. recent' \in [Key -> 0..MaxPerMinute]
  BY <1>1 DEF SchedulerTypes, Admit
<1>. QED BY <1>2 DEF SchedulerTypes, Admit

LEMMA ReleaseTypes ==
    ASSUME SchedulerTypes, NEW s \in Session, Release(s)
    PROVE  SchedulerTypes'
<1>1. /\ sessionInFlight' = [sessionInFlight EXCEPT ![s] = IF @ <= 1 THEN 0 ELSE @ - 1]
      /\ daemonInFlight' = IF daemonInFlight = 0 THEN 0 ELSE daemonInFlight - 1
      /\ recent' = recent
  BY DEF Release
<1>2. (IF sessionInFlight[s] <= 1 THEN 0 ELSE sessionInFlight[s] - 1) \in Nat
  BY DEF SchedulerTypes
<1>. QED BY <1>1, <1>2 DEF SchedulerTypes

LEMMA GiveBackTypes ==
    ASSUME SchedulerTypes, NEW x \in Slot, GiveBack(x)
    PROVE  SchedulerTypes'
BY SlotFacts, ReleaseTypes, TypeFrames DEF GiveBack

LEMMA BeginTypes ==
    ASSUME RunTypes, NEW x \in Slot, NEW j \in Job, NEW a \in 0..Interval, Begin(x, j, a)
    PROVE  RunTypes'
BY DEF RunTypes, Begin, Pc

LEMMA VacateTypes ==
    ASSUME RunTypes, NEW x \in Slot, NEW next \in {"idle", "gone"}, Vacate(x, next)
    PROVE  RunTypes'
BY DEF RunTypes, Vacate, Pc

\* News is carried by a run of a job, in the turn after its command, and not into
\* the catch block.
NewsPc == TurnPc \ {"catch"}
NewsInTurn == \A x \in Slot : fresh[x] # {} => x \in JobSlot /\ pc[x] \in NewsPc

TypeInv == JobTypeOK /\ NewsInTurn

\* A run is of a job that exists or existed, and so is what it has to announce.
LEMMA RunsHaveJobs ==
    ASSUME TypeInv, TickInv
    PROVE  /\ \A x \in JobSlot : pc[x] \notin {"idle", "gone"} => job[x] \in Job
           /\ \A x \in Slot : fresh[x] # {} => job[x] \in Job
<1>1. jobs \cup removed \subseteq Job
  BY DEF TypeInv, JobTypeOK
<1>2. \A x \in JobSlot : pc[x] \notin {"idle", "gone"} => job[x] \in Job
  BY <1>1 DEF TickInv, JobsKnown
<1>. QED BY <1>2 DEF TypeInv, NewsInTurn, NewsPc, TurnPc

LEMMA MissedTypes ==
    ASSUME TypeInv, TickInv, NEW X, X \subseteq Slot
    PROVE  Missed(X) \subseteq Job \X Item
<1>1. \A x \in X : {job[x]} \X fresh[x] \subseteq Job \X Item
  BY RunsHaveJobs DEF TypeInv, JobTypeOK
<1>. QED BY <1>1 DEF Missed

LEMMA TypeInit == Init => TypeInv
<1>. SUFFICES ASSUME Init PROVE TypeInv
  OBVIOUS
<1>1. SchedulerTypes
  BY DEF Init, FreshScheduler, SchedulerTypes
<1>2. TableTypes
  BY DEF Init, TableTypes
<1>3. QueueTypes
  BY DEF Init, QueueTypes
<1>4. RunTypes
  <2>1. pc \in [Slot -> Pc]
    BY DEF Init, Pc
  <2>2. job \in [Slot -> Job \cup {NoJob}] /\ age \in [Slot -> 0..Interval]
    BY DEF Init
  <2>3. left \in [Slot -> SUBSET Item] /\ fresh \in [Slot -> SUBSET Item]
    BY DEF Init
  <2>. QED BY <2>1, <2>2, <2>3 DEF RunTypes
<1>5. HistoryTypes
  BY DEF Init, HistoryTypes
<1>6. NewsInTurn
  BY DEF Init, NewsInTurn
<1>. QED BY <1>1, <1>2, <1>3, <1>4, <1>5, <1>6, TypeGroups DEF TypeInv

LEMMA TypeStep == TypeInv /\ TickInv /\ [Next]_vars => JobTypeOK'
<1>. SUFFICES ASSUME TypeInv, TickInv, [Next]_vars PROVE JobTypeOK'
  OBVIOUS
<1>ty. SchedulerTypes /\ TableTypes /\ QueueTypes /\ RunTypes /\ HistoryTypes
  BY TypeGroups DEF TypeInv
<1>all. ASSUME SchedulerTypes', TableTypes', QueueTypes', RunTypes', HistoryTypes'
        PROVE  JobTypeOK'
  BY <1>all DEF JobTypeOK, SchedulerTypes, TableTypes, QueueTypes, RunTypes, HistoryTypes
<1>1. ASSUME NEW t \in Tick, TickStarts(t) PROVE JobTypeOK'
  <2>1. SchedulerTypes' /\ TableTypes' /\ HistoryTypes'
    BY <1>1, <1>ty, TypeFrames DEF TickStarts
  <2>2. QueueTypes'
    BY <1>1, <1>ty DEF TickStarts, QueueTypes, TableTypes, Due
  <2>3. RunTypes'
    BY <1>1, <1>ty DEF TickStarts, RunTypes, Pc
  <2>. QED BY <2>1, <2>2, <2>3, <1>all
<1>2. ASSUME NEW w \in Worker, NEW j \in queue[w[1]], WorkerTakes(w, j) PROVE JobTypeOK'
  <2>1. w[1] \in Tick /\ w \in Slot
    BY SlotFacts DEF Worker
  <2>2. j \in Job /\ j \in Key /\ SCHEDULER \in Session
    BY <1>ty, <2>1 DEF QueueTypes
  <2>3. TableTypes' /\ HistoryTypes'
    BY <1>2, <1>ty, TypeFrames DEF WorkerTakes
  <2>4. QueueTypes'
    BY <1>2, <1>ty, <2>1 DEF WorkerTakes, QueueTypes
  <2>5. SchedulerTypes' /\ RunTypes'
    <3>1. CASE Admissible(SCHEDULER, j)
      <4>1. Admit(SCHEDULER, j) /\ Begin(w, j, age[w])
        BY <1>2, <3>1 DEF WorkerTakes
      <4>2. age[w] \in 0..Interval
        BY <1>ty, <2>1 DEF RunTypes
      <4>. QED BY <1>ty, <2>1, <2>2, <3>1, <4>1, <4>2, AdmitTypes, BeginTypes
    <3>2. CASE ~Admissible(SCHEDULER, j)
      BY <1>2, <1>ty, <3>2, TypeFrames DEF WorkerTakes
    <3>. QED BY <3>1, <3>2
  <2>. QED BY <2>3, <2>4, <2>5, <1>all
<1>3. ASSUME NEW t \in Tick, TickEnds(t) PROVE JobTypeOK'
  <2>1. SchedulerTypes' /\ TableTypes' /\ HistoryTypes'
    BY <1>3, <1>ty, TypeFrames DEF TickEnds
  <2>2. QueueTypes'
    BY <1>3, <1>ty DEF TickEnds, QueueTypes
  <2>3. RunTypes'
    BY <1>3, <1>ty DEF TickEnds, RunTypes, Pc
  <2>. QED BY <2>1, <2>2, <2>3, <1>all
<1>4. ASSUME NEW x \in RunNow, NEW j \in Job, RunNowStarts(x, j) PROVE JobTypeOK'
  <2>1. x \in Slot /\ j \in Key /\ SCHEDULER \in Session /\ 0 \in 0..Interval
    BY SlotFacts DEF Slot, JobSlot
  <2>2. TableTypes' /\ QueueTypes'
    BY <1>4, <1>ty, TypeFrames DEF RunNowStarts
  <2>3. SchedulerTypes' /\ RunTypes'
    BY <1>4, <1>ty, <2>1, AdmitTypes, BeginTypes DEF RunNowStarts
  <2>4. HistoryTypes'
    BY <1>4, <1>ty DEF RunNowStarts, HistoryTypes
  <2>. QED BY <2>2, <2>3, <2>4, <1>all
<1>5. ASSUME NEW x \in Cli, NEW j \in Job, CliRunStarts(x, j) PROVE JobTypeOK'
  <2>1. x \in Slot /\ 0 \in 0..Interval
    BY SlotFacts DEF Slot, JobSlot
  <2>2. SchedulerTypes' /\ TableTypes' /\ QueueTypes'
    BY <1>5, <1>ty, TypeFrames DEF CliRunStarts
  <2>3. RunTypes'
    BY <1>5, <1>ty, <2>1, BeginTypes DEF CliRunStarts
  <2>4. HistoryTypes'
    BY <1>5, <1>ty DEF CliRunStarts, HistoryTypes
  <2>. QED BY <2>2, <2>3, <2>4, <1>all
<1>6. ASSUME NEW c \in Chat, CommandStarts(c) PROVE JobTypeOK'
  <2>1. c \in Slot /\ c \in Key /\ c \in Session
    BY DEF Slot
  <2>2. TableTypes' /\ QueueTypes'
    BY <1>6, <1>ty, TypeFrames DEF CommandStarts
  <2>3. SchedulerTypes'
    BY <1>6, <1>ty, <2>1, AdmitTypes DEF CommandStarts
  <2>4. RunTypes' /\ HistoryTypes'
    BY <1>6, <1>ty, <2>1 DEF CommandStarts, RunTypes, HistoryTypes, Pc
  <2>. QED BY <2>2, <2>3, <2>4, <1>all
<1>7. ASSUME NEW c \in Chat, CommandEnds(c) PROVE JobTypeOK'
  <2>1. c \in Slot /\ c \in Session
    BY DEF Slot
  <2>2. TableTypes' /\ QueueTypes' /\ HistoryTypes'
    BY <1>7, <1>ty, TypeFrames DEF CommandEnds
  <2>3. SchedulerTypes'
    BY <1>7, <1>ty, <2>1, ReleaseTypes DEF CommandEnds
  <2>4. RunTypes'
    BY <1>7, <1>ty, <2>1 DEF CommandEnds, RunTypes, Pc
  <2>. QED BY <2>2, <2>3, <2>4, <1>all
<1>8. ASSUME NEW x \in JobSlot, NEW items \in SUBSET Item, CommandExits(x, items) PROVE JobTypeOK'
  <2>1. SchedulerTypes' /\ TableTypes' /\ QueueTypes' /\ HistoryTypes'
    BY <1>8, <1>ty, TypeFrames DEF CommandExits
  <2>2. RunTypes'
    BY <1>8, <1>ty, SlotFacts DEF CommandExits, RunTypes, Pc, TurnPc
  <2>. QED BY <2>1, <2>2, <1>all
<1>9. ASSUME NEW x \in JobSlot, NEW chunk \in SUBSET left[x], InsertsChunk(x, chunk) PROVE JobTypeOK'
  <2>1. x \in Slot /\ job[x] \in Job /\ chunk \subseteq Item
    BY <1>9, <1>ty, SlotFacts DEF InsertsChunk, TableTypes, RunTypes
  <2>2. SchedulerTypes' /\ QueueTypes' /\ HistoryTypes'
    BY <1>9, <1>ty, TypeFrames DEF InsertsChunk
  <2>3. feed[job[x]] \in Seq(Item)
    BY <1>ty, <2>1 DEF TableTypes
  <2>4. SetToSeq(chunk \ Range(feed[job[x]])) \in Seq(Item)
    BY <2>1, SetToSeqOf
  <2>5. feed[job[x]] \o SetToSeq(chunk \ Range(feed[job[x]])) \in Seq(Item)
    BY <2>3, <2>4, AppendedRows
  <2>6. TableTypes'
    BY <1>9, <1>ty, <2>5 DEF InsertsChunk, TableTypes
  <2>7. pc' \in [Slot -> Pc] /\ UNCHANGED <<job, age>>
    BY <1>9, <1>ty DEF InsertsChunk, RunTypes, Pc, TurnPc
  <2>8. left' \in [Slot -> SUBSET Item] /\ fresh' \in [Slot -> SUBSET Item]
    BY <1>9, <1>ty, <2>1 DEF InsertsChunk, RunTypes, Inserted
  <2>9. RunTypes'
    BY <1>ty, <2>7, <2>8 DEF RunTypes
  <2>. QED BY <2>2, <2>6, <2>9, <1>all
<1>10. ASSUME NEW x \in JobSlot, Records(x) PROVE JobTypeOK'
  <2>1. x \in Slot /\ age[x] \in 0..Interval
    BY <1>ty, SlotFacts DEF RunTypes
  <2>2. QueueTypes' /\ HistoryTypes'
    BY <1>10, <1>ty, TypeFrames DEF Records
  <2>3. Interval - age[x] \in 0..Interval
    BY <2>1
  <2>4. TableTypes'
    BY <1>10, <1>ty, <2>3 DEF Records, TableTypes
  <2>5. CASE Announces(x)
    <3>1. SchedulerTypes'
      BY <1>10, <1>ty, <2>5, TypeFrames DEF Records
    <3>2. RunTypes'
      BY <1>10, <1>ty, <2>5 DEF Records, RunTypes, Pc, TurnPc
    <3>. QED BY <2>2, <2>4, <3>1, <3>2, <1>all
  <2>6. CASE ~Announces(x)
    <3>1. SchedulerTypes' /\ RunTypes'
      BY <1>10, <1>ty, <2>1, <2>6, GiveBackTypes, VacateTypes DEF Records
    <3>. QED BY <2>2, <2>4, <3>1, <1>all
  <2>. QED BY <2>5, <2>6
<1>11. ASSUME NEW x \in JobSlot, NEW sent \in BOOLEAN, Notifies(x, sent) PROVE JobTypeOK'
  <2>1. x \in Slot /\ job[x] \in Job
    <3>1. pc[x] \notin {"idle", "gone"}
      BY <1>11 DEF Notifies
    <3>. QED BY <3>1, SlotFacts, RunsHaveJobs
  <2>2. TableTypes' /\ QueueTypes'
    BY <1>11, <1>ty, TypeFrames DEF Notifies
  <2>3. SchedulerTypes' /\ RunTypes'
    BY <1>11, <1>ty, <2>1, GiveBackTypes, VacateTypes DEF Notifies
  <2>4. HistoryTypes'
    <3>1. CASE sent
      <4>1. \A i \in Item : told[job[x]][i] \in Nat
        BY <1>ty, <2>1 DEF HistoryTypes
      <4> DEFINE rows == [i \in Item |-> IF i \in fresh[x] /\ <<job[x], i>> \notin pruned
                                         THEN told[job[x]][i] + 1 ELSE told[job[x]][i]]
      <4>3. rows \in [Item -> Nat]
        BY <4>1
      <4>4. told' = [told EXCEPT ![job[x]] = rows]
        BY <1>11, <3>1 DEF Notifies
      <4>5. told' \in [Job -> [Item -> Nat]]
        <5> HIDE DEF rows
        <5>. QED BY <1>ty, <2>1, <4>3, <4>4 DEF HistoryTypes
      <4>. QED BY <1>11, <1>ty, <3>1, <4>5 DEF Notifies, HistoryTypes
    <3>2. CASE ~sent
      <4>1. Missed({x}) \subseteq Job \X Item
        BY <2>1, MissedTypes
      <4>. QED BY <1>11, <1>ty, <3>2, <4>1 DEF Notifies, HistoryTypes
    <3>. QED BY <3>1, <3>2
  <2>. QED BY <2>2, <2>3, <2>4, <1>all
<1>12. ASSUME NEW x \in JobSlot, Rejects(x) PROVE JobTypeOK'
  <2>1. x \in Slot
    BY SlotFacts
  <2>2. TableTypes' /\ HistoryTypes'
    BY <1>12, <1>ty, TypeFrames DEF Rejects
  <2>3. SchedulerTypes' /\ RunTypes'
    BY <1>12, <1>ty, <2>1, GiveBackTypes, VacateTypes DEF Rejects
  <2>4. QueueTypes'
    BY <1>12, <1>ty DEF Rejects, QueueTypes
  <2>. QED BY <2>2, <2>3, <2>4, <1>all
<1>13. ASSUME NEW x \in JobSlot, Throws(x) PROVE JobTypeOK'
  <2>1. x \in Slot
    BY SlotFacts
  <2>2. SchedulerTypes' /\ TableTypes' /\ QueueTypes'
    BY <1>13, <1>ty, TypeFrames DEF Throws
  <2>3. RunTypes'
    BY <1>13, <1>ty DEF Throws, RunTypes, Pc, TurnPc
  <2>4. Missed({x}) \subseteq Job \X Item
    BY <2>1, MissedTypes
  <2>5. HistoryTypes'
    BY <1>13, <1>ty, <2>4 DEF Throws, HistoryTypes
  <2>. QED BY <2>2, <2>3, <2>5, <1>all
<1>14. ASSUME \/ \E j \in Job : AddJob(j)
              \/ \E j \in Job, on \in BOOLEAN : SetJobEnabled(j, on)
              \/ \E j \in Job : DeleteJob(j)
       PROVE  JobTypeOK'
  <2>1. SchedulerTypes' /\ QueueTypes' /\ RunTypes' /\ HistoryTypes'
    BY <1>14, <1>ty, TypeFrames DEF AddJob, SetJobEnabled, DeleteJob
  <2>2. ASSUME NEW j \in Job, AddJob(j) PROVE TableTypes'
    BY <2>2, <1>ty DEF AddJob, TableTypes
  <2>3. ASSUME NEW j \in Job, NEW on \in BOOLEAN, SetJobEnabled(j, on) PROVE TableTypes'
    BY <2>3, <1>ty DEF SetJobEnabled, TableTypes
  <2>4. ASSUME NEW j \in Job, DeleteJob(j) PROVE TableTypes'
    <3>1. feed' \in [Job -> Seq(Item)]
      BY <2>4, <1>ty DEF DeleteJob, TableTypes
    <3>. QED BY <2>4, <1>ty, <3>1 DEF DeleteJob, TableTypes
  <2>. QED BY <1>14, <2>1, <2>2, <2>3, <2>4, <1>all
<1>15. CASE ClockTick
  <2>1. SchedulerTypes' /\ QueueTypes' /\ HistoryTypes'
    BY <1>15, <1>ty, TypeFrames DEF ClockTick
  <2>2. wait' \in [Job -> 0..Interval]
    BY <1>15, <1>ty DEF ClockTick, TableTypes
  <2>3. TableTypes'
    BY <1>15, <1>ty, <2>2 DEF ClockTick, TableTypes
  <2>4. age' \in [Slot -> 0..Interval]
    BY <1>15, <1>ty DEF ClockTick, RunTypes
  <2>5. RunTypes'
    BY <1>15, <1>ty, <2>4 DEF ClockTick, RunTypes
  <2>. QED BY <2>1, <2>3, <2>5, <1>all
<1>16. ASSUME NEW k \in Key, RateWindowSlides(k) PROVE JobTypeOK'
  <2>1. TableTypes' /\ QueueTypes' /\ RunTypes' /\ HistoryTypes'
    BY <1>16, <1>ty, TypeFrames DEF RateWindowSlides
  <2>2. recent[k] - 1 \in 0..MaxPerMinute
    BY <1>16, <1>ty DEF RateWindowSlides, WindowSlides, SchedulerTypes
  <2>3. SchedulerTypes'
    BY <1>16, <1>ty, <2>2 DEF RateWindowSlides, WindowSlides, SchedulerTypes
  <2>. QED BY <2>1, <2>3, <1>all
<1>17. CASE PruneFeedItems
  <2>1. SchedulerTypes' /\ QueueTypes' /\ RunTypes'
    BY <1>17, <1>ty, TypeFrames DEF PruneFeedItems
  <2>2. \A j \in Job : (IF Len(feed[j]) > FeedLimit THEN Kept(feed[j]) ELSE feed[j]) \in Seq(Item)
    BY <1>ty, KeptRows DEF TableTypes
  <2>3. feed' = [j \in Job |-> IF Len(feed[j]) > FeedLimit THEN Kept(feed[j]) ELSE feed[j]]
    BY <1>17 DEF PruneFeedItems
  <2>4. feed' \in [Job -> Seq(Item)]
    BY <2>2, <2>3
  <2>5. TableTypes'
    BY <1>17, <1>ty, <2>4 DEF PruneFeedItems, TableTypes
  <2>6. pruned' \subseteq Job \X Item
    BY <1>17, <1>ty DEF PruneFeedItems, HistoryTypes, Rows
  <2>7. told' \in [Job -> [Item -> Nat]]
    BY <1>17, <1>ty DEF PruneFeedItems, HistoryTypes
  <2>8. HistoryTypes'
    BY <1>17, <1>ty, <2>6, <2>7 DEF PruneFeedItems, HistoryTypes
  <2>. QED BY <2>1, <2>5, <2>8, <1>all
<1>18. CASE Crash
  <2>1. TableTypes'
    BY <1>18, <1>ty, TypeFrames DEF Crash
  <2>2. SchedulerTypes' /\ QueueTypes'
    <3>1. SchedulerTypes'
      BY <1>18 DEF Crash, SchedulerTypes
    <3>2. QueueTypes'
      BY <1>18 DEF Crash, QueueTypes
    <3>. QED BY <3>1, <3>2
  <2>3. pc' \in [Slot -> Pc]
    BY <1>18, <1>ty DEF Crash, RunTypes, Pc
  <2>4. job' \in [Slot -> Job \cup {NoJob}] /\ age' \in [Slot -> 0..Interval]
    BY <1>18, <1>ty DEF Crash, RunTypes
  <2>5. left' \in [Slot -> SUBSET Item] /\ fresh' \in [Slot -> SUBSET Item]
    BY <1>18, <1>ty DEF Crash, RunTypes
  <2>6. RunTypes'
    BY <2>3, <2>4, <2>5 DEF RunTypes
  <2>7. Missed(DaemonSlot) \subseteq Job \X Item
    BY SlotFacts, MissedTypes
  <2>8. HistoryTypes'
    BY <1>18, <1>ty, <2>7 DEF Crash, HistoryTypes
  <2>. QED BY <2>1, <2>2, <2>6, <2>8, <1>all
<1>19. ASSUME NEW x \in Cli, CliDies(x) PROVE JobTypeOK'
  <2>1. x \in Slot
    BY SlotFacts DEF Slot, JobSlot
  <2>2. SchedulerTypes' /\ TableTypes' /\ QueueTypes'
    BY <1>19, <1>ty, TypeFrames DEF CliDies
  <2>3. RunTypes'
    BY <1>19, <1>ty, <2>1, VacateTypes DEF CliDies
  <2>4. Missed({x}) \subseteq Job \X Item
    BY <2>1, MissedTypes
  <2>5. HistoryTypes'
    <3>1. /\ UNCHANGED <<told, pruned>>
          /\ outside' = outside + 1
          /\ missed' = missed \cup Missed({x})
      BY <1>19 DEF CliDies
    <3>2. outside' \in Nat
      BY <1>ty, <3>1 DEF HistoryTypes
    <3>3. missed' \subseteq Job \X Item
      BY <1>ty, <2>4, <3>1 DEF HistoryTypes
    <3>. QED BY <1>ty, <3>1, <3>2, <3>3 DEF HistoryTypes
  <2>. QED BY <2>2, <2>3, <2>5, <1>all
<1>20. CASE UNCHANGED vars
  <2>1. UNCHANGED <<schedulerVars, tables, ticks, runs, history>>
    BY <1>20 DEF vars
  <2>2. SchedulerTypes' /\ TableTypes' /\ QueueTypes' /\ RunTypes' /\ HistoryTypes'
    BY <1>ty, <2>1, TypeFrames
  <2>. QED BY <2>2, <1>all
<1>21. ASSUME NEW x \in JobSlot, Turn(x) PROVE JobTypeOK'
  BY <1>21, <1>9, <1>10, <1>11, <1>12, <1>13 DEF Turn
<1>. QED
  BY <1>1, <1>2, <1>3, <1>4, <1>5, <1>6, <1>7, <1>8, <1>11, <1>12, <1>13, <1>14, <1>15, <1>16,
     <1>17, <1>18, <1>19, <1>20, <1>21 DEF Next
LEMMA NewsStep == TypeInv /\ [Next]_vars => NewsInTurn'
<1>. SUFFICES ASSUME TypeInv, [Next]_vars PROVE NewsInTurn'
  OBVIOUS
<1>ty. pc \in [Slot -> Pc] /\ fresh \in [Slot -> SUBSET Item] /\ NewsInTurn
  BY DEF TypeInv, JobTypeOK
<1>same. ASSUME UNCHANGED <<pc, fresh>> PROVE NewsInTurn'
  BY <1>same, <1>ty DEF NewsInTurn
<1>chat. \A c \in Chat : c \in Slot /\ fresh[c] = {}
  BY <1>ty DEF NewsInTurn, Slot, JobSlot
<1>begin. ASSUME NEW x \in Slot, NEW next \in Pc, fresh[x] = {} \/ next \in NewsPc,
                 pc' = [pc EXCEPT ![x] = next], UNCHANGED fresh
          PROVE  NewsInTurn'
  BY <1>begin, <1>ty DEF NewsInTurn
<1>vacate. ASSUME NEW x \in Slot, NEW next, pc' = [pc EXCEPT ![x] = next],
                  fresh' = [fresh EXCEPT ![x] = {}]
           PROVE  NewsInTurn'
  BY <1>vacate, <1>ty DEF NewsInTurn
<1>idle. \A x \in Slot : pc[x] \in {"idle", "gone"} => fresh[x] = {}
  BY <1>ty DEF NewsInTurn, NewsPc, TurnPc
<1>1. ASSUME NEW t \in Tick, TickStarts(t) \/ TickEnds(t) PROVE NewsInTurn'
  <2>1. Quiet(t) /\ UNCHANGED fresh
    BY <1>1 DEF TickStarts, TickEnds
  <2>2. \A x \in Slot : x \notin WorkersOf(t) => pc'[x] = pc[x]
    BY <1>1 DEF TickStarts, TickEnds
  <2>3. \A x \in WorkersOf(t) : fresh[x] = {}
    BY <1>idle, <2>1, SlotFacts DEF Quiet
  <2>. QED BY <1>ty, <2>1, <2>2, <2>3 DEF NewsInTurn
<1>2. ASSUME NEW w \in Worker, NEW j \in queue[w[1]], WorkerTakes(w, j) PROVE NewsInTurn'
  <2>1. w \in Slot /\ fresh[w] = {} /\ "exec" \in Pc
    BY <1>2, <1>idle, SlotFacts DEF WorkerTakes, Pc
  <2>. QED BY <1>2, <1>begin, <1>same, <2>1 DEF WorkerTakes, Begin, runs
<1>3. ASSUME NEW x \in JobSlot, NEW j \in Job, RunNowStarts(x, j) \/ CliRunStarts(x, j)
      PROVE  NewsInTurn'
  <2>1. x \in Slot /\ fresh[x] = {} /\ "exec" \in Pc
    BY <1>3, <1>idle, SlotFacts DEF RunNowStarts, CliRunStarts, Pc
  <2>. QED BY <1>3, <1>begin, <2>1 DEF RunNowStarts, CliRunStarts, Begin
<1>4. ASSUME NEW c \in Chat, CommandStarts(c) \/ CommandEnds(c) PROVE NewsInTurn'
  BY <1>4, <1>chat, <1>begin DEF CommandStarts, CommandEnds, Pc
<1>5. ASSUME NEW x \in JobSlot, NEW items \in SUBSET Item, CommandExits(x, items)
      PROVE  NewsInTurn'
  BY <1>5, <1>begin, SlotFacts DEF CommandExits, Pc, NewsPc, TurnPc
<1>6. ASSUME NEW x \in JobSlot, NEW chunk \in SUBSET left[x], InsertsChunk(x, chunk)
      PROVE  NewsInTurn'
  <2>1. /\ x \in Slot
        /\ pc'[x] \in NewsPc
        /\ \A y \in Slot : y # x => pc'[y] = pc[y] /\ fresh'[y] = fresh[y]
    BY <1>6, <1>ty, SlotFacts DEF InsertsChunk, NewsPc, TurnPc
  <2>. QED BY <1>ty, <2>1 DEF NewsInTurn
<1>7. ASSUME NEW x \in JobSlot, Records(x) PROVE NewsInTurn'
  <2>1. x \in Slot /\ "notify" \in NewsPc /\ "notify" \in Pc
    BY SlotFacts DEF NewsPc, TurnPc, Pc
  <2>. QED BY <1>7, <2>1, <1>begin, <1>vacate DEF Records, Vacate
<1>8. ASSUME NEW x \in Slot,
             \/ \E sent \in BOOLEAN : Notifies(x, sent)
             \/ Rejects(x)
             \/ Throws(x)
             \/ CliDies(x)
      PROVE  NewsInTurn'
  BY <1>8, <1>vacate DEF Notifies, Rejects, Throws, CliDies, Vacate
<1>9. CASE Crash
  <2>1. \A x \in Slot : fresh'[x] # {} => x \in Cli /\ fresh[x] # {}
    BY <1>9 DEF Crash
  <2>2. \A x \in Slot : x \in Cli => x \in JobSlot /\ pc'[x] = pc[x]
    BY <1>9, SlotFacts DEF Crash, JobSlot, DaemonSlot
  <2>. QED BY <1>ty, <2>1, <2>2 DEF NewsInTurn
<1>10. ASSUME \/ \E j \in Job : AddJob(j)
              \/ \E j \in Job, on \in BOOLEAN : SetJobEnabled(j, on)
              \/ \E j \in Job : DeleteJob(j)
              \/ ClockTick
              \/ \E k \in Key : RateWindowSlides(k)
              \/ PruneFeedItems
              \/ UNCHANGED vars
       PROVE  NewsInTurn'
  <2>1. UNCHANGED <<pc, fresh>>
    BY <1>10 DEF AddJob, SetJobEnabled, DeleteJob, ClockTick, RateWindowSlides,
                 PruneFeedItems, vars, runs
  <2>. QED BY <2>1, <1>same
<1>11. RunNow \subseteq JobSlot /\ Cli \subseteq JobSlot /\ JobSlot \subseteq Slot
  BY SlotFacts DEF JobSlot
<1>12. ASSUME NEW x \in JobSlot, Turn(x) PROVE NewsInTurn'
  BY <1>6, <1>7, <1>8, <1>11, <1>12 DEF Turn
<1>. QED
  BY <1>1, <1>2, <1>3, <1>4, <1>5, <1>8, <1>9, <1>10, <1>11, <1>12 DEF Next

\* Every variable keeps its type: a run is of a job that existed when it
\* began, next_run_at never lies further off than an interval, and a feed is a
\* sequence of items whatever chunks are inserted and rows are pruned.
THEOREM JobTypeCorrect == Spec => []JobTypeOK
<1>1. Spec => []TickInv
  BY TickInit, TickStep, PTL DEF Spec
<1>2. TypeInv /\ TickInv /\ [Next]_vars => TypeInv'
  BY TypeStep, NewsStep DEF TypeInv
<1>3. Spec => []TypeInv
  BY <1>1, <1>2, TypeInit, PTL DEF Spec
<1>4. TypeInv => JobTypeOK
  BY DEF TypeInv
<1>. QED BY <1>3, <1>4, PTL

-------------------------------------------------------------------------------
(***************************************************************************)
(* The ledger of announcements.                                            *)
(***************************************************************************)
\* The runs that are about to announce item i of job j.
Carriers(j, i) == {x \in JobSlot : job[x] = j /\ i \in fresh[x]}

Untold(j, i) == told[j][i] = 0 /\ Carriers(j, i) = {} /\ <<j, i>> \notin missed

\* Announced, or carried by one run, or missed: one of the three.
Accounted(j, i) ==
    \/ told[j][i] = 1 /\ Carriers(j, i) = {} /\ <<j, i>> \notin missed
    \/ told[j][i] = 0 /\ (\E x \in JobSlot : Carriers(j, i) = {x}) /\ <<j, i>> \notin missed
    \/ told[j][i] = 0 /\ Carriers(j, i) = {} /\ <<j, i>> \in missed

\* The entry of one item of one job: a stored row is accounted for, and an
\* item that is not stored has no entry yet, unless its job was deleted.
EntryOK(j, i) ==
    <<j, i>> \notin pruned =>
        IF i \in Range(feed[j]) THEN Accounted(j, i) ELSE j \in removed \/ Untold(j, i)

LedgerExact == \A j \in Job \cap Notify, i \in Item : EntryOK(j, i)

\* Only a job that exists has rows, and a deleted job's id is not used again.
RowsOfJobs ==
    /\ \A j \in Job : feed[j] # <<>> => j \in jobs
    /\ jobs \cap removed = {}

LedgerInv == RowsOfJobs /\ LedgerExact

JobInv == TypeInv /\ TickInv

\* An entry whose row, count and carriers stay is still right.
LEMMA EntryFrame ==
    ASSUME NEW j, NEW i, EntryOK(j, i),
           i \in Range(feed'[j]) <=> i \in Range(feed[j]),
           told'[j][i] = told[j][i],
           <<j, i>> \in missed' <=> <<j, i>> \in missed,
           Carriers(j, i)' = Carriers(j, i),
           pruned \subseteq pruned', removed \subseteq removed'
    PROVE  EntryOK(j, i)'
<1>1. Accounted(j, i) => Accounted(j, i)'
  BY DEF Accounted
<1>2. Untold(j, i) => Untold(j, i)'
  BY DEF Untold
<1>. QED BY <1>1, <1>2 DEF EntryOK

\* Steps that leave the feed, the runs' news and its history alone.
LEMMA LedgerFrame ==
    ASSUME LedgerInv, UNCHANGED <<feed, told, missed, pruned>>,
           \A j \in Job \cap Notify, i \in Item : Carriers(j, i)' = Carriers(j, i),
           jobs \subseteq jobs', jobs' \cap removed' = {}, removed \subseteq removed'
    PROVE  LedgerInv'
<1>1. RowsOfJobs'
  BY DEF LedgerInv, RowsOfJobs
<1>2. ASSUME NEW j \in Job \cap Notify, NEW i \in Item PROVE EntryOK(j, i)'
  <2>1. EntryOK(j, i)
    BY DEF LedgerInv, LedgerExact
  <2>. QED BY <2>1, EntryFrame
<1>. QED BY <1>1, <1>2 DEF LedgerInv, LedgerExact

\* A run that gives up takes its news from the carriers, and only that.
LEMMA VacateCarriers ==
    ASSUME JobInv, NEW x \in JobSlot, NEW next, Vacate(x, next), NEW j, NEW i
    PROVE  Carriers(j, i)' = Carriers(j, i) \ {x}
<1>1. x \in Slot /\ job \in [Slot -> Job \cup {NoJob}] /\ fresh \in [Slot -> SUBSET Item]
  BY SlotFacts DEF JobInv, TypeInv, JobTypeOK
<1>2. /\ fresh'[x] = {}
      /\ \A y \in JobSlot : y # x => job'[y] = job[y] /\ fresh'[y] = fresh[y]
  BY <1>1, SlotFacts DEF Vacate
<1>. QED BY <1>2 DEF Carriers

\* News that is dropped is booked as missed.
LEMMA DropsNews ==
    ASSUME JobInv, LedgerInv, NEW X, X \subseteq Slot,
           \A j, i : Carriers(j, i)' = Carriers(j, i) \ X,
           missed' = missed \cup Missed(X),
           UNCHANGED <<jobs, removed, feed, told, pruned>>
    PROVE  LedgerInv'
<1>1. RowsOfJobs'
  BY DEF LedgerInv, RowsOfJobs
<1>2. ASSUME NEW j \in Job \cap Notify, NEW i \in Item PROVE EntryOK(j, i)'
  <2>1. EntryOK(j, i)
    BY DEF LedgerInv, LedgerExact
  <2>2. <<j, i>> \in Missed(X) <=> X \cap Carriers(j, i) # {}
    <3>1. \A x \in X : i \in fresh[x] => x \in JobSlot
      BY DEF JobInv, TypeInv, NewsInTurn
    <3>2. \A x : <<j, i>> \in {job[x]} \X fresh[x] <=> job[x] = j /\ i \in fresh[x]
      OBVIOUS
    <3>. QED BY <3>1, <3>2 DEF Missed, Carriers
  <2>3. Carriers(j, i)' = Carriers(j, i) \ X
    OBVIOUS
  <2>4. CASE X \cap Carriers(j, i) = {}
    <3>1. Carriers(j, i)' = Carriers(j, i) /\ (<<j, i>> \in missed' <=> <<j, i>> \in missed)
      BY <2>2, <2>3, <2>4
    <3>. QED BY <2>1, <3>1, EntryFrame
  <2>5. CASE X \cap Carriers(j, i) # {}
    <3>1. <<j, i>> \in missed'
      BY <2>2, <2>5
    <3>2. ~Untold(j, i)
      BY <2>5 DEF Untold
    <3>3. ASSUME Accounted(j, i) PROVE Accounted(j, i)'
      <4>1. told[j][i] = 0 /\ \E x \in JobSlot : Carriers(j, i) = {x}
        BY <2>5, <3>3 DEF Accounted
      <4>2. Carriers(j, i)' = {}
        BY <2>3, <2>5, <4>1
      <4>. QED BY <3>1, <4>1, <4>2 DEF Accounted
    <3>. QED BY <2>1, <3>2, <3>3 DEF EntryOK
  <2>. QED BY <2>4, <2>5
<1>. QED BY <1>1, <1>2 DEF LedgerInv, LedgerExact
LEMMA LedgerInit == Init => LedgerInv
<1>. SUFFICES ASSUME Init PROVE LedgerInv
  OBVIOUS
<1>1. RowsOfJobs
  BY DEF Init, RowsOfJobs
<1>2. ASSUME NEW j \in Job, NEW i \in Item PROVE EntryOK(j, i)
  <2>1. i \notin Range(feed[j])
    BY DEF Init, Range
  <2>2. Carriers(j, i) = {}
    BY SlotFacts DEF Init, Carriers
  <2>3. told[j][i] = 0 /\ missed = {}
    BY DEF Init
  <2>. QED BY <2>1, <2>2, <2>3 DEF EntryOK, Untold
<1>. QED BY <1>1, <1>2 DEF LedgerInv, LedgerExact

\* The rows of a chunk: those ON CONFLICT DO NOTHING reports are new rows of
\* an existing job, which nobody had to announce, and now this run has.
LEMMA InsertsChunkLedger ==
    ASSUME JobInv, LedgerInv, NEW x \in JobSlot, NEW chunk \in SUBSET left[x],
           InsertsChunk(x, chunk)
    PROVE  LedgerInv'
<1> DEFINE J == job[x]
           new == chunk \ Range(feed[J])
<1>1. /\ x \in Slot /\ J \in jobs /\ J \in Job
      /\ chunk \subseteq Item
      /\ feed \in [Job -> Seq(Item)] /\ fresh \in [Slot -> SUBSET Item]
  BY SlotFacts DEF InsertsChunk, JobInv, TypeInv, JobTypeOK
<1>2. /\ feed' = [feed EXCEPT ![J] = @ \o SetToSeq(new)]
      /\ fresh' = [fresh EXCEPT ![x] = @ \cup new]
      /\ UNCHANGED <<jobs, removed, job, told, missed, pruned>>
  BY DEF InsertsChunk, Inserted, history
<1>3. SetToSeq(new) \in Seq(Item) /\ Range(SetToSeq(new)) = new
  BY <1>1, SetToSeqOf
<1>4. feed[J] \in Seq(Item) /\ feed'[J] = feed[J] \o SetToSeq(new)
  BY <1>1, <1>2
<1>5. Range(feed'[J]) = Range(feed[J]) \cup new
  BY <1>3, <1>4, AppendedRows
<1>6. \A j \in Job : j # J => feed'[j] = feed[j]
  BY <1>1, <1>2
<1>7. fresh'[x] = fresh[x] \cup new /\ \A y \in JobSlot : y # x => fresh'[y] = fresh[y]
  BY <1>1, <1>2, SlotFacts
<1> HIDE DEF new
<1>8. RowsOfJobs'
  BY <1>1, <1>2, <1>6 DEF LedgerInv, RowsOfJobs
<1>9. ASSUME NEW j \in Job \cap Notify, NEW i \in Item PROVE EntryOK(j, i)'
  <2>1. EntryOK(j, i)
    BY DEF LedgerInv, LedgerExact
  <2>2. CASE j = J /\ i \in new
    <3>1. J \notin removed
      BY <1>1 DEF LedgerInv, RowsOfJobs
    <3>2. i \notin Range(feed[j]) /\ i \in Range(feed'[j])
      BY <1>5, <2>2 DEF new
    <3>3. ASSUME <<j, i>> \notin pruned PROVE Accounted(j, i)'
      <4>1. told[j][i] = 0 /\ Carriers(j, i) = {} /\ <<j, i>> \notin missed
        BY <2>1, <2>2, <3>1, <3>2, <3>3 DEF EntryOK, Untold
      <4>2. Carriers(j, i)' = {x}
        BY <1>2, <1>7, <2>2, <4>1 DEF Carriers
      <4>. QED BY <1>2, <4>1, <4>2 DEF Accounted
    <3>. QED BY <1>2, <3>2, <3>3 DEF EntryOK
  <2>3. CASE ~(j = J /\ i \in new)
    <3>1. Carriers(j, i)' = Carriers(j, i)
      BY <1>2, <1>7, <2>3 DEF Carriers
    <3>2. i \in Range(feed'[j]) <=> i \in Range(feed[j])
      BY <1>5, <1>6, <2>3
    <3>. QED BY <1>2, <2>1, <3>1, <3>2, EntryFrame
  <2>. QED BY <2>2, <2>3
<1>. QED BY <1>8, <1>9 DEF LedgerInv, LedgerExact

\* One message: what the run carried is announced, and it carries nothing.
LEMMA AnnouncesLedger ==
    ASSUME JobInv, LedgerInv, NEW x \in JobSlot, Notifies(x, TRUE)
    PROVE  LedgerInv'
<1>1. job[x] \in Job
  BY RunsHaveJobs DEF Notifies, JobInv
<1>2. /\ told' = [told EXCEPT ![job[x]] = [i \in Item |->
                    IF i \in fresh[x] /\ <<job[x], i>> \notin pruned THEN @[i] + 1 ELSE @[i]]]
      /\ Vacate(x, "idle")
      /\ UNCHANGED <<jobs, removed, feed, missed, pruned>>
  BY DEF Notifies, tables
<1>3. told \in [Job -> [Item -> Nat]]
  BY DEF JobInv, TypeInv, JobTypeOK
<1>4. ASSUME NEW j \in Job, NEW i \in Item
      PROVE  told'[j][i] = IF j = job[x] /\ i \in fresh[x] /\ <<j, i>> \notin pruned
                           THEN told[j][i] + 1 ELSE told[j][i]
  BY <1>1, <1>2, <1>3
<1>5. RowsOfJobs'
  BY <1>2 DEF LedgerInv, RowsOfJobs
<1>6. ASSUME NEW j \in Job \cap Notify, NEW i \in Item PROVE EntryOK(j, i)'
  <2>1. EntryOK(j, i)
    BY DEF LedgerInv, LedgerExact
  <2>2. Carriers(j, i)' = Carriers(j, i) \ {x}
    BY <1>2, VacateCarriers
  <2>3. CASE x \in Carriers(j, i)
    <3>1. ~Untold(j, i)
      BY <2>3 DEF Untold
    <3>2. ASSUME Accounted(j, i), <<j, i>> \notin pruned PROVE Accounted(j, i)'
      <4>1. told[j][i] = 0 /\ Carriers(j, i) = {x} /\ <<j, i>> \notin missed
        BY <2>3, <3>2 DEF Accounted
      <4>2. told'[j][i] = 1
        BY <1>4, <2>3, <3>2, <4>1 DEF Carriers
      <4>3. Carriers(j, i)' = {} /\ <<j, i>> \notin missed'
        BY <1>2, <2>2, <4>1
      <4>. QED BY <4>2, <4>3 DEF Accounted
    <3>. QED BY <1>2, <2>1, <3>1, <3>2 DEF EntryOK
  <2>4. CASE x \notin Carriers(j, i)
    <3>1. told'[j][i] = told[j][i]
      BY <1>4, <2>4 DEF Carriers
    <3>2. Carriers(j, i)' = Carriers(j, i)
      BY <2>2, <2>4
    <3>. QED BY <1>2, <2>1, <3>1, <3>2, EntryFrame
  <2>. QED BY <2>3, <2>4
<1>. QED BY <1>5, <1>6 DEF LedgerInv, LedgerExact

\* A rejected run has no news left: what it had is missed since it threw.
LEMMA RejectsLedger ==
    ASSUME JobInv, LedgerInv, NEW x \in JobSlot, Rejects(x)
    PROVE  LedgerInv'
<1>1. /\ pc[x] = "catch"
      /\ \E next \in {"idle", "gone"} : Vacate(x, next)
      /\ UNCHANGED <<jobs, removed, feed, told, missed, pruned>>
  BY DEF Rejects, tables, history
<1>2. fresh[x] = {}
  BY <1>1, SlotFacts DEF JobInv, TypeInv, NewsInTurn, NewsPc
<1>3. ASSUME NEW j \in Job \cap Notify, NEW i \in Item PROVE Carriers(j, i)' = Carriers(j, i)
  <2>1. x \notin Carriers(j, i)
    BY <1>2 DEF Carriers
  <2>2. Carriers(j, i)' = Carriers(j, i) \ {x}
    BY <1>1, VacateCarriers
  <2>. QED BY <2>1, <2>2
<1>4. jobs' \cap removed' = {}
  BY <1>1 DEF LedgerInv, RowsOfJobs
<1>. QED BY <1>1, <1>3, <1>4, LedgerFrame

\* A run ends at its record only when it has nothing to announce.
LEMMA RecordsLedger ==
    ASSUME JobInv, LedgerInv, NEW x \in JobSlot, Records(x)
    PROVE  LedgerInv'
<1>1. UNCHANGED <<jobs, removed, feed, told, missed, pruned>>
  BY DEF Records, history
<1>2. ASSUME NEW j \in Job \cap Notify, NEW i \in Item PROVE Carriers(j, i)' = Carriers(j, i)
  <2>1. CASE Announces(x)
    BY <2>1 DEF Records, Carriers
  <2>2. CASE ~Announces(x)
    <3>1. x \notin Carriers(j, i)
      BY <2>2 DEF Announces, Carriers
    <3>2. Carriers(j, i)' = Carriers(j, i) \ {x}
      BY <2>2, VacateCarriers DEF Records
    <3>. QED BY <3>1, <3>2
  <2>. QED BY <2>1, <2>2
<1>3. jobs' \cap removed' = {}
  BY <1>1 DEF LedgerInv, RowsOfJobs
<1>. QED BY <1>1, <1>2, <1>3, LedgerFrame

\* ON DELETE CASCADE: no row of a deleted job is left to account for.
LEMMA DeleteJobLedger ==
    ASSUME JobInv, LedgerInv, NEW d \in Job, DeleteJob(d)
    PROVE  LedgerInv'
<1>1. /\ jobs' = jobs \ {d} /\ removed' = removed \cup {d}
      /\ feed' = [feed EXCEPT ![d] = <<>>]
      /\ UNCHANGED <<job, fresh, told, missed, pruned>>
  BY DEF DeleteJob, runs, history
<1>2. feed \in [Job -> Seq(Item)]
  BY DEF JobInv, TypeInv, JobTypeOK
<1>3. feed'[d] = <<>> /\ \A j \in Job : j # d => feed'[j] = feed[j]
  BY <1>1, <1>2
<1>4. RowsOfJobs'
  BY <1>1, <1>3 DEF LedgerInv, RowsOfJobs
<1>5. ASSUME NEW j \in Job \cap Notify, NEW i \in Item PROVE EntryOK(j, i)'
  <2>1. EntryOK(j, i)
    BY DEF LedgerInv, LedgerExact
  <2>2. CASE j = d
    <3>1. i \notin Range(feed'[j]) /\ j \in removed'
      BY <1>1, <1>3, <2>2 DEF Range
    <3>. QED BY <3>1 DEF EntryOK
  <2>3. CASE j # d
    <3>1. Carriers(j, i)' = Carriers(j, i)
      BY <1>1 DEF Carriers
    <3>. QED BY <1>1, <1>3, <2>1, <2>3, <3>1, EntryFrame
  <2>. QED BY <2>2, <2>3
<1>. QED BY <1>4, <1>5 DEF LedgerInv, LedgerExact

\* A prune takes the oldest rows of a feed, and adds none.
LEMMA PruneLedger ==
    ASSUME JobInv, LedgerInv, PruneFeedItems
    PROVE  LedgerInv'
<1>1. /\ feed' = [j \in Job |-> IF Len(feed[j]) > FeedLimit THEN Kept(feed[j]) ELSE feed[j]]
      /\ pruned' = pruned \cup {r \in Rows : r[2] \notin Range(feed'[r[1]])}
      /\ told' = [j \in Job |-> [i \in Item |-> IF <<j, i>> \in pruned' THEN 0 ELSE told[j][i]]]
      /\ UNCHANGED <<jobs, removed, job, fresh, missed>>
  BY DEF PruneFeedItems, runs
<1>2. feed \in [Job -> Seq(Item)]
  BY DEF JobInv, TypeInv, JobTypeOK
<1>3. \A j \in Job : Range(feed'[j]) \subseteq Range(feed[j])
  BY <1>1, <1>2, KeptRows
<1>4. \A j \in Job : feed'[j] # <<>> => feed[j] # <<>>
  <2>1. SUFFICES ASSUME NEW j \in Job, feed[j] = <<>> PROVE feed'[j] = <<>>
    OBVIOUS
  <2>2. ~(Len(feed[j]) > FeedLimit)
    BY <2>1, FeedAssumption
  <2>. QED BY <1>1, <2>1, <2>2
<1>5. RowsOfJobs'
  BY <1>1, <1>4 DEF LedgerInv, RowsOfJobs
<1>6. ASSUME NEW j \in Job \cap Notify, NEW i \in Item PROVE EntryOK(j, i)'
  <2>1. EntryOK(j, i)
    BY DEF LedgerInv, LedgerExact
  <2>2. CASE <<j, i>> \in pruned'
    BY <2>2 DEF EntryOK
  <2>3. CASE <<j, i>> \notin pruned'
    <3>1. told'[j][i] = told[j][i]
      BY <1>1, <2>3
    <3>2. ASSUME i \in Range(feed[j]) PROVE i \in Range(feed'[j])
      <4>1. <<j, i>> \in Rows
        BY <3>2 DEF Rows, Range
      <4>. QED BY <1>1, <2>3, <4>1
    <3>3. Carriers(j, i)' = Carriers(j, i)
      BY <1>1 DEF Carriers
    <3>4. pruned \subseteq pruned' /\ removed \subseteq removed'
      BY <1>1
    <3>. QED BY <1>1, <1>3, <2>1, <3>1, <3>2, <3>3, <3>4, EntryFrame
  <2>. QED BY <2>2, <2>3
<1>. QED BY <1>5, <1>6 DEF LedgerInv, LedgerExact

LEMMA LedgerStep == JobInv /\ LedgerInv /\ [Next]_vars => LedgerInv'
<1>. SUFFICES ASSUME JobInv, LedgerInv, [Next]_vars PROVE LedgerInv'
  OBVIOUS
<1>ty. /\ job \in [Slot -> Job \cup {NoJob}] /\ fresh \in [Slot -> SUBSET Item]
       /\ jobs \cap removed = {}
  BY DEF JobInv, TypeInv, JobTypeOK, LedgerInv, RowsOfJobs
<1>same. ASSUME UNCHANGED <<job, fresh, jobs, removed, feed, told, missed, pruned>>
         PROVE  LedgerInv'
  <2>1. \A j, i : Carriers(j, i)' = Carriers(j, i)
    BY <1>same DEF Carriers
  <2>. QED BY <1>same, <1>ty, <2>1, LedgerFrame
<1>begin. ASSUME NEW x \in JobSlot, pc[x] = "idle", NEW k, job' = [job EXCEPT ![x] = k],
                 UNCHANGED <<fresh, jobs, removed, feed, told, missed, pruned>>
          PROVE  LedgerInv'
  <2>1. x \in Slot /\ fresh[x] = {}
    BY <1>begin, SlotFacts DEF JobInv, TypeInv, NewsInTurn, NewsPc, TurnPc
  <2>2. \A y \in JobSlot : y # x => job'[y] = job[y]
    BY <1>begin, <1>ty, SlotFacts
  <2>3. \A j, i : Carriers(j, i)' = Carriers(j, i)
    BY <1>begin, <2>1, <2>2 DEF Carriers
  <2>. QED BY <1>begin, <1>ty, <2>3, LedgerFrame
<1>1. ASSUME NEW t \in Tick, TickStarts(t) \/ TickEnds(t) PROVE LedgerInv'
  <2>1. UNCHANGED <<job, fresh, jobs, removed, feed, told, missed, pruned>>
    BY <1>1 DEF TickStarts, TickEnds, tables, history
  <2>. QED BY <2>1, <1>same
<1>2. ASSUME NEW w \in Worker, NEW j \in queue[w[1]], WorkerTakes(w, j) PROVE LedgerInv'
  <2>1. w \in JobSlot /\ pc[w] = "idle"
    BY <1>2, SlotFacts DEF WorkerTakes
  <2>2. UNCHANGED <<fresh, jobs, removed, feed, told, missed, pruned>>
    BY <1>2 DEF WorkerTakes, Begin, tables, runs, history
  <2>3. job' = [job EXCEPT ![w] = j] \/ UNCHANGED job
    BY <1>2 DEF WorkerTakes, Begin, runs
  <2>. QED BY <2>1, <2>2, <2>3, <1>begin, <1>same
<1>3. ASSUME NEW x \in JobSlot, NEW j \in Job, RunNowStarts(x, j) \/ CliRunStarts(x, j)
      PROVE  LedgerInv'
  <2>1. /\ pc[x] = "idle" /\ job' = [job EXCEPT ![x] = j]
        /\ UNCHANGED <<fresh, jobs, removed, feed, told, missed, pruned>>
    BY <1>3 DEF RunNowStarts, CliRunStarts, Begin, tables
  <2>. QED BY <2>1, <1>begin
<1>4. ASSUME NEW c \in Chat, CommandStarts(c) \/ CommandEnds(c) PROVE LedgerInv'
  <2>1. UNCHANGED <<job, fresh, jobs, removed, feed, told, missed, pruned>>
    BY <1>4 DEF CommandStarts, CommandEnds, tables, history
  <2>. QED BY <2>1, <1>same
<1>5. ASSUME NEW x \in JobSlot, NEW items \in SUBSET Item, CommandExits(x, items)
      PROVE  LedgerInv'
  <2>1. UNCHANGED <<job, fresh, jobs, removed, feed, told, missed, pruned>>
    BY <1>5 DEF CommandExits, tables, history
  <2>. QED BY <2>1, <1>same
<1>7. ASSUME NEW x \in JobSlot, Throws(x) PROVE LedgerInv'
  <2>1. /\ fresh' = [fresh EXCEPT ![x] = {}]
        /\ missed' = missed \cup Missed({x})
        /\ UNCHANGED <<job, jobs, removed, feed, told, pruned>>
    BY <1>7 DEF Throws, tables
  <2>2. {x} \subseteq Slot
    BY SlotFacts
  <2>3. fresh'[x] = {} /\ \A y \in JobSlot : y # x => fresh'[y] = fresh[y]
    BY <1>ty, <2>1, SlotFacts
  <2>4. \A j, i : Carriers(j, i)' = Carriers(j, i) \ {x}
    BY <2>1, <2>3 DEF Carriers
  <2>. QED BY <2>1, <2>2, <2>4, DropsNews
<1>6. ASSUME NEW x \in JobSlot, Turn(x) PROVE LedgerInv'
  BY <1>6, <1>7, InsertsChunkLedger, RecordsLedger, AnnouncesLedger, RejectsLedger DEF Turn
<1>8. ASSUME NEW x \in JobSlot, Notifies(x, FALSE) \/ CliDies(x) PROVE LedgerInv'
  <2>1. /\ Vacate(x, "idle")
        /\ missed' = missed \cup Missed({x})
        /\ UNCHANGED <<jobs, removed, feed, told, pruned>>
    BY <1>8 DEF Notifies, CliDies, tables
  <2>2. {x} \subseteq Slot
    BY SlotFacts
  <2>3. \A j, i : Carriers(j, i)' = Carriers(j, i) \ {x}
    BY <2>1, VacateCarriers
  <2>. QED BY <2>1, <2>2, <2>3, DropsNews
<1>9. CASE Crash
  <2>1. /\ job' = [x \in Slot |-> IF x \in Cli THEN job[x] ELSE NoJob]
        /\ fresh' = [x \in Slot |-> IF x \in Cli THEN fresh[x] ELSE {}]
        /\ missed' = missed \cup Missed(DaemonSlot)
        /\ UNCHANGED <<jobs, removed, feed, told, pruned>>
    BY <1>9 DEF Crash, tables
  <2>2. DaemonSlot \subseteq Slot
    BY SlotFacts
  <2>3. \A x \in JobSlot : x \in Cli <=> x \notin DaemonSlot
    BY SlotFacts DEF JobSlot, DaemonSlot
  <2>4. \A j, i : Carriers(j, i)' = Carriers(j, i) \ DaemonSlot
    BY <2>1, <2>3, SlotFacts DEF Carriers
  <2>. QED BY <2>1, <2>2, <2>4, DropsNews
<1>10. ASSUME NEW j \in Job, AddJob(j) PROVE LedgerInv'
  <2>1. /\ j \notin removed /\ jobs' = jobs \cup {j}
        /\ UNCHANGED <<job, fresh, removed, feed, told, missed, pruned>>
    BY <1>10 DEF AddJob, runs, history
  <2>2. \A k, i : Carriers(k, i)' = Carriers(k, i)
    BY <2>1 DEF Carriers
  <2>. QED BY <1>ty, <2>1, <2>2, LedgerFrame
<1>11. ASSUME \/ \E j \in Job, on \in BOOLEAN : SetJobEnabled(j, on)
              \/ ClockTick
              \/ \E k \in Key : RateWindowSlides(k)
              \/ UNCHANGED vars
       PROVE  LedgerInv'
  <2>1. UNCHANGED <<job, fresh, jobs, removed, feed, told, missed, pruned>>
    BY <1>11 DEF SetJobEnabled, ClockTick, RateWindowSlides, vars, tables, runs, history
  <2>. QED BY <2>1, <1>same
<1>12. RunNow \subseteq JobSlot /\ Cli \subseteq JobSlot
  BY DEF JobSlot
<1>. QED
  BY <1>1, <1>2, <1>3, <1>4, <1>5, <1>6, <1>7, <1>8, <1>9, <1>10, <1>11, <1>12,
     RejectsLedger, DeleteJobLedger, PruneLedger DEF Next

\* The ledger is the property: an entry in order has one of the three.
LEMMA LedgerCounts == JobInv /\ LedgerInv => AnnouncedExactlyOnce
<1>. SUFFICES ASSUME JobInv, LedgerInv, NEW r \in Rows, r[1] \in Notify, r \notin pruned
              PROVE  told[r[1]][r[2]] + Cardinality(Carrying(r)) + (IF r \in missed THEN 1 ELSE 0) = 1
  BY DEF AnnouncedExactlyOnce
<1> DEFINE j == r[1]
           i == r[2]
<1>1. r = <<j, i>> /\ j \in Job /\ i \in Item
  BY DEF Rows
<1>2. i \in Range(feed[j])
  BY DEF Rows, Range
<1>3. Carrying(r) = Carriers(j, i)
  BY DEF Carrying, Carriers
<1> HIDE DEF j, i
<1>4. Accounted(j, i)
  BY <1>1, <1>2 DEF LedgerInv, LedgerExact, EntryOK, j
<1>5. Cardinality({}) = 0 /\ \A x : Cardinality({x}) = 1
  BY FS_EmptySet, FS_Singleton
<1>6. told[j][i] + Cardinality(Carriers(j, i)) + (IF <<j, i>> \in missed THEN 1 ELSE 0) = 1
  <2>1. CASE told[j][i] = 1 /\ Carriers(j, i) = {} /\ <<j, i>> \notin missed
    BY <1>5, <2>1
  <2>2. CASE told[j][i] = 0 /\ (\E x \in JobSlot : Carriers(j, i) = {x}) /\ <<j, i>> \notin missed
    <3>1. Cardinality(Carriers(j, i)) = 1
      BY <1>5, <2>2
    <3>. QED BY <2>2, <3>1
  <2>3. CASE told[j][i] = 0 /\ Carriers(j, i) = {} /\ <<j, i>> \in missed
    BY <1>5, <2>3
  <2>. QED BY <1>4, <2>1, <2>2, <2>3 DEF Accounted
<1>. QED BY <1>1, <1>3, <1>6 DEF j, i

\* A stored feed row of a job that notifies was announced once, or one run
\* still carries it, or it is booked as missed, because the run that stored it
\* threw or died or could not send: never two of these and never none, for any number of ticks, run-now requests and CLI
\* processes that run the same job at the same time, with failures, deletions,
\* prunes and crashes between any two steps.
THEOREM FeedIsAnnouncedOnce == Spec => []AnnouncedExactlyOnce
<1>1. Spec => []TickInv
  BY TickInit, TickStep, PTL DEF Spec
<1>2. TypeInv /\ TickInv /\ [Next]_vars => TypeInv'
  BY TypeStep, NewsStep DEF TypeInv
<1>3. Spec => []TypeInv
  BY <1>1, <1>2, TypeInit, PTL DEF Spec
<1>4. TypeInv /\ TickInv /\ LedgerInv /\ [Next]_vars => LedgerInv'
  BY LedgerStep DEF JobInv
<1>5. Spec => []LedgerInv
  BY <1>1, <1>3, <1>4, LedgerInit, PTL DEF Spec
<1>6. TypeInv /\ TickInv /\ LedgerInv => AnnouncedExactlyOnce
  BY LedgerCounts DEF JobInv
<1>. QED BY <1>1, <1>3, <1>5, <1>6, PTL
===============================================================================
