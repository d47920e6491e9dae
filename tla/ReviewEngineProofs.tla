-------------------------- MODULE ReviewEngineProofs --------------------------
(***************************************************************************)
(* Proofs, for every value of the constants, that one job at a time works  *)
(* for a pull request, an issue or a repository, and that no request is    *)
(* forgotten or taken up again.                                            *)
(***************************************************************************)
EXTENDS ReviewEngine, SequenceTheorems, TLAPS

USE ReviewAssumption

\* A process that is down or recovering has nothing in the engine.
QuietInv ==
    phase \in {"down", "recovering"} =>
        /\ inFlight = {}
        /\ queue = <<>>
        /\ \A j \in Job : stage[j] = "idle"
        /\ \A c \in Chat : handling[c] = Nobody

\* What waits in the buffer is queued, and waits once.
QueueInv ==
    Listening =>
        /\ \A i \in DOMAIN queue : stage[queue[i]] = "queued"
        /\ \A i, k \in DOMAIN queue : queue[i] = queue[k] => i = k

\* Live agents are on record, so those a crash leaves behind are too, and
\* Boot kills them all.
AgentInv ==
    /\ \A j \in Job : Live(j) => j \in running
    /\ phase = "down" => orphan \subseteq running
    /\ phase # "down" => orphan = {}

KeyInv == ReviewTypeOK /\ QuietInv /\ KeysExact /\ QueueInv /\ AgentInv

-------------------------------------------------------------------------------
(***************************************************************************)
(* Types.                                                                  *)
(***************************************************************************)
LEMMA KeyTypes ==
    /\ \A r \in Repo : r \in Job /\ r \notin Message /\ KeyOf(r) = r /\ KeyOf(r) \in Key
    /\ \A m \in Message : m \in Job /\ m \notin Repo /\ KeyOf(m) = PrOf[m]
    /\ \A m \in Message : PrOf[m] # NoPr => PrOf[m] \in Pr /\ PrOf[m] \in Key
    /\ Fix \subseteq Repo /\ Deps \subseteq Repo
    /\ \A r \in Repo : r \notin Pr /\ r # NoPr
BY DEF Job, Repo, Key, KeyOf

LEMMA NextInIsMessage ==
    ASSUME ReviewTypeOK, NEW c \in Chat, cursor[c] < Len(Stream[c])
    PROVE  NextIn(c) \in Message /\ cursor[c] + 1 \in DOMAIN Stream[c]
<1>1. Stream[c] \in Seq(Message) /\ cursor[c] \in Nat
  BY DEF ReviewTypeOK
<1>2. Len(Stream[c]) \in Nat /\ DOMAIN Stream[c] = 1 .. Len(Stream[c])
  BY <1>1
<1>3. cursor[c] + 1 \in 1 .. Len(Stream[c])
  BY <1>1, <1>2
<1>. QED BY <1>1, <1>2, <1>3 DEF NextIn

LEMMA TypeInit == Init => ReviewTypeOK
BY DEF Init, ReviewTypeOK, Stage, Phase, Open, Closed

USE DEF Listening, Up, KeepStatus

LEMMA TypeReceive ==
    ASSUME ReviewTypeOK, NEW c \in Chat, Receive(c) PROVE ReviewTypeOK'
<1>1. NextIn(c) \in Message /\ NextIn(c) \in Job
  BY NextInIsMessage, KeyTypes DEF Receive
<1>2. cursor[c] + 1 \in Nat
  BY DEF ReviewTypeOK
<1>3. CASE Repeated(c)
  BY <1>1, <1>2, <1>3 DEF Receive, Repeated, MoveCursor, ReviewTypeOK, memory
<1>4. CASE Duplicate(c)
  BY <1>1, <1>2, <1>4 DEF Receive, Duplicate, MoveCursor, SetStatus, Save, ReviewTypeOK, memory, Closed
<1>5. CASE AnswerAtOnce(c)
  BY <1>1, <1>5 DEF Receive, AnswerAtOnce, SetStatus, Save, ReviewTypeOK, Closed
<1>6. CASE Accept(c)
  BY <1>1, <1>6, KeyTypes DEF Receive, Accept, SetStatus, SetStage, Save, ReviewTypeOK, Open, Stage
<1>. QED BY <1>3, <1>4, <1>5, <1>6 DEF Receive

LEMMA TypeDispatched ==
    ASSUME ReviewTypeOK, NEW c \in Chat, Dispatched(c) PROVE ReviewTypeOK'
<1>1. handling[c] \in Message /\ handling[c] \in Job
  BY KeyTypes DEF Dispatched, ReviewTypeOK
<1>2. cursor[c] + 1 \in Nat /\ Append(queue, handling[c]) \in Seq(Job)
  BY <1>1 DEF ReviewTypeOK
<1>. QED BY <1>1, <1>2 DEF Dispatched, SetStage, MoveCursor, ReviewTypeOK, Stage

LEMMA EnqueueTypes ==
    ASSUME ReviewTypeOK, NEW r \in Repo,
           Enqueue(r) \/ UNCHANGED <<stage, queue, inFlight>>
    PROVE  stage' \in [Job -> Stage] /\ queue' \in Seq(Job) /\ inFlight' \subseteq Key
<1>1. r \in Job /\ r \in Key
  BY KeyTypes
<1>2. Append(queue, r) \in Seq(Job)
  BY <1>1 DEF ReviewTypeOK
<1>3. [stage EXCEPT ![r] = "queued"] \in [Job -> Stage]
  BY <1>1 DEF ReviewTypeOK, Stage
<1>4. inFlight \cup {r} \subseteq Key
  BY <1>1 DEF ReviewTypeOK
<1>5. CASE UNCHANGED <<stage, queue, inFlight>>
  BY <1>5 DEF ReviewTypeOK
<1>6. CASE stage' = [stage EXCEPT ![r] = "queued"] /\ queue' = Append(queue, r)
           /\ inFlight' = inFlight \cup {r}
  BY <1>2, <1>3, <1>4, <1>6
<1>. QED BY <1>5, <1>6 DEF Enqueue, SetStage

LEMMA TypeTickers ==
    ASSUME ReviewTypeOK, Tickers PROVE ReviewTypeOK'
<1>0. \A r \in Repo, s \in Open \cup Closed \cup {"none", "gone", "lost", "seen", "deferred"} :
         [status EXCEPT ![r] = s]
            \in [Job -> Open \cup Closed \cup {"none", "gone", "lost", "seen", "deferred"}]
  BY KeyTypes DEF ReviewTypeOK
<1>1. Fix \subseteq Repo /\ Deps \subseteq Repo
  BY KeyTypes
<1>2. ASSUME NEW f \in Fix, Ask(f) PROVE ReviewTypeOK'
  <2>1. status' \in [Job -> Open \cup Closed \cup {"none", "gone", "lost", "seen", "deferred"}]
    BY <1>0, <1>1, <1>2 DEF Ask, SetStatus, ReviewTypeOK
  <2>. QED BY <1>2, <2>1 DEF Ask, SetStatus, Save, ReviewTypeOK
<1>3. ASSUME NEW f \in Fix, HandOff(f) PROVE ReviewTypeOK'
  <2>1. status' \in [Job -> Open \cup Closed \cup {"none", "gone", "lost", "seen", "deferred"}]
    BY <1>0, <1>1, <1>3 DEF HandOff, SetStatus, Open, Closed
  <2>2. stage' \in [Job -> Stage] /\ queue' \in Seq(Job) /\ inFlight' \subseteq Key
    BY <1>1, <1>3, EnqueueTypes DEF HandOff
  <2>. QED BY <1>3, <2>1, <2>2 DEF HandOff, SetStatus, Save, ReviewTypeOK
<1>4. ASSUME NEW d \in Deps, WindowOpens(d) PROVE ReviewTypeOK'
  <2>1. status' \in [Job -> Open \cup Closed \cup {"none", "gone", "lost", "seen", "deferred"}]
    BY <1>0, <1>1, <1>4 DEF WindowOpens, SetStatus, Open, Closed
  <2>2. stage' \in [Job -> Stage] /\ queue' \in Seq(Job) /\ inFlight' \subseteq Key
    BY <1>1, <1>4, EnqueueTypes DEF WindowOpens
  <2>. QED BY <1>4, <2>1, <2>2 DEF WindowOpens, SetStatus, Save, ReviewTypeOK
<1>. QED BY <1>2, <1>3, <1>4 DEF Tickers

LEMMA HeadIsJob ==
    ASSUME ReviewTypeOK, queue # <<>>
    PROVE  /\ Head(queue) \in Job /\ Head(queue) = queue[1]
           /\ Tail(queue) \in Seq(Job)
           /\ Len(queue) \in Nat \ {0}
           /\ DOMAIN queue = 1 .. Len(queue)
           /\ DOMAIN Tail(queue) = 1 .. (Len(queue) - 1)
           /\ \A i \in DOMAIN Tail(queue) : Tail(queue)[i] = queue[i + 1] /\ i + 1 \in DOMAIN queue
<1>1. queue \in Seq(Job)
  BY DEF ReviewTypeOK
<1>. QED BY <1>1, HeadTailProperties, EmptySeq

LEMMA TypeTake == ASSUME ReviewTypeOK, Take PROVE ReviewTypeOK'
<1>1. Head(queue) \in Job /\ Tail(queue) \in Seq(Job)
  BY HeadIsJob DEF Take
<1>2. CASE Drop(Head(queue))
  BY <1>1, <1>2 DEF Take, Drop, SetStage, ReviewTypeOK, Stage
<1>3. CASE Start(Head(queue))
  BY <1>1, <1>3 DEF Take, Start, SetStage, SetStatus, Save, ReviewTypeOK, Stage, Open
<1>. QED BY <1>2, <1>3 DEF Take

LEMMA TypeWork == ASSUME ReviewTypeOK, Work PROVE ReviewTypeOK'
<1>1. ASSUME NEW j \in Job, Spawn(j) PROVE ReviewTypeOK'
  <2>1. runs[j] + 1 \in Nat
    BY DEF ReviewTypeOK
  <2>. QED BY <1>1, <2>1 DEF Spawn, SetStage, Save, ReviewTypeOK, Stage
<1>2. ASSUME NEW j \in Job, AgentExits(j) PROVE ReviewTypeOK'
  BY <1>2 DEF AgentExits, SetStage, ReviewTypeOK, Stage
<1>3. ASSUME NEW j \in Job, Settle(j) PROVE ReviewTypeOK'
  BY <1>3 DEF Settle, SetStage, SetStatus, Save, ReviewTypeOK, Stage, Closed
<1>4. ASSUME NEW j \in Job, Finish(j) PROVE ReviewTypeOK'
  BY <1>4 DEF Finish, SetStage, Save, ReviewTypeOK, Stage
<1>. QED BY <1>1, <1>2, <1>3, <1>4, TypeTake DEF Work

LEMMA TypeLife == ASSUME ReviewTypeOK, Life PROVE ReviewTypeOK'
<1>1. Forget => /\ phase' \in Phase /\ handling' \in [Chat -> Message \cup {Nobody}]
                /\ asking' \subseteq Fix /\ stage' \in [Job -> Stage]
                /\ queue' \in Seq(Job) /\ inFlight' \subseteq Key /\ runs' \in [Job -> Nat]
  BY DEF Forget, Phase, Stage
<1>2. CASE StopRequested \/ EngineStops \/ Recovered
  BY <1>2 DEF StopRequested, EngineStops, Recovered, ReviewTypeOK, memory, Phase
<1>3. CASE StopEnds \/ Crash
  BY <1>1, <1>3 DEF StopEnds, Crash, Save, ReviewTypeOK
<1>4. CASE Boot
  BY <1>4 DEF Boot, Pruned, ReviewTypeOK, memory, Phase
<1>5. ASSUME NEW j \in Job, RecoverOne(j) PROVE ReviewTypeOK'
  BY <1>5 DEF RecoverOne, SetStatus, ReviewTypeOK, memory, Closed
<1>6. ASSUME NEW j \in Job, OrphanEnds(j) PROVE ReviewTypeOK'
  BY <1>6 DEF OrphanEnds, ReviewTypeOK, memory
<1>. QED BY <1>2, <1>3, <1>4, <1>5, <1>6 DEF Life

LEMMA TypeNext == ASSUME ReviewTypeOK, [Next]_vars PROVE ReviewTypeOK'
<1>1. CASE FlushTimer
  BY <1>1 DEF FlushTimer, Save, ReviewTypeOK, memory
<1>2. CASE Maintain
  BY <1>2 DEF Maintain, Pruned, Save, ReviewTypeOK, memory
<1>3. CASE DayPasses
  BY <1>3 DEF DayPasses, ReviewTypeOK, memory
<1>4. CASE UNCHANGED vars
  BY <1>4 DEF vars, memory, ReviewTypeOK
<1>. QED BY <1>1, <1>2, <1>3, <1>4, TypeReceive, TypeDispatched, TypeTickers, TypeWork, TypeLife
         DEF Next, Pump

\* Every variable keeps its type in every run.
THEOREM ReviewTypes == Spec => []ReviewTypeOK
BY TypeInit, TypeNext, PTL DEF Spec

-------------------------------------------------------------------------------
(***************************************************************************)
(* Keys in flight.                                                         *)
(***************************************************************************)
\* A job enters the engine with a key nobody has.
LEMMA KeyTaken ==
    ASSUME ReviewTypeOK, KeysExact, Listening, phase' = phase,
           NEW j \in Job, NEW s \in Stage, s # "idle",
           KeyOf(j) \notin inFlight, inFlight' = inFlight \cup {KeyOf(j)},
           stage' = [stage EXCEPT ![j] = s]
    PROVE  KeysExact' /\ stage[j] = "idle"
<1>1. stage[j] = "idle"
  BY DEF KeysExact
<1>2. \A i \in Job : stage'[i] = IF i = j THEN s ELSE stage[i]
  BY DEF ReviewTypeOK
<1>3. \A i \in Job : i # j /\ stage'[i] # "idle" => KeyOf(i) \in inFlight
  BY <1>2 DEF KeysExact
<1>4. {KeyOf(i) : i \in {x \in Job : stage'[x] # "idle"}}
        = {KeyOf(i) : i \in {x \in Job : stage[x] # "idle"}} \cup {KeyOf(j)}
  BY <1>1, <1>2
<1>. QED BY <1>1, <1>2, <1>3, <1>4 DEF KeysExact

\* A job leaves the engine with its key.
LEMMA KeyReleased ==
    ASSUME ReviewTypeOK, KeysExact, Listening, phase' = phase,
           NEW j \in Job, stage[j] # "idle",
           inFlight' = inFlight \ {KeyOf(j)},
           stage' = [stage EXCEPT ![j] = "idle"]
    PROVE  KeysExact'
<1>1. \A i \in Job : stage'[i] = IF i = j THEN "idle" ELSE stage[i]
  BY DEF ReviewTypeOK
<1>2. \A i \in Job : i # j /\ stage[i] # "idle" => KeyOf(i) # KeyOf(j)
  BY DEF KeysExact
<1>3. {KeyOf(i) : i \in {x \in Job : stage'[x] # "idle"}}
        = {KeyOf(i) : i \in {x \in Job : stage[x] # "idle"}} \ {KeyOf(j)}
  BY <1>1, <1>2
<1>. QED BY <1>1, <1>3 DEF KeysExact

\* A job goes on within the engine.
LEMMA KeyKept ==
    ASSUME ReviewTypeOK, KeysExact, Listening, phase' = phase,
           NEW j \in Job, stage[j] # "idle", NEW s \in Stage, s # "idle",
           inFlight' = inFlight, stage' = [stage EXCEPT ![j] = s]
    PROVE  KeysExact'
<1>1. \A i \in Job : stage'[i] = IF i = j THEN s ELSE stage[i]
  BY DEF ReviewTypeOK
<1>2. {x \in Job : stage'[x] # "idle"} = {x \in Job : stage[x] # "idle"}
  BY <1>1
<1>. QED BY <1>1, <1>2 DEF KeysExact

\* Nothing moves in the engine.
LEMMA KeysSame ==
    ASSUME KeysExact, UNCHANGED <<inFlight, stage>>,
           Listening' => Listening
    PROVE  KeysExact'
BY DEF KeysExact

-------------------------------------------------------------------------------
(***************************************************************************)
(* The buffer.                                                             *)
(***************************************************************************)
LEMMA AppendQueued ==
    ASSUME ReviewTypeOK, QueueInv, Listening, NEW j \in Job, stage[j] # "queued",
           queue' = Append(queue, j), stage' = [stage EXCEPT ![j] = "queued"]
    PROVE  QueueInv'
<1>1. queue \in Seq(Job)
  BY DEF ReviewTypeOK
<1>2. /\ Len(queue) \in Nat
      /\ DOMAIN queue = 1 .. Len(queue)
      /\ DOMAIN queue' = 1 .. (Len(queue) + 1)
      /\ \A i \in 1 .. Len(queue) : queue'[i] = queue[i] /\ queue[i] \in Job
      /\ queue'[Len(queue) + 1] = j
  BY <1>1, AppendProperties
<1>3. \A i \in Job : stage'[i] = IF i = j THEN "queued" ELSE stage[i]
  BY DEF ReviewTypeOK
<1>4. \A i \in DOMAIN queue : queue[i] # j
  BY DEF QueueInv
<1>5. \A i \in DOMAIN queue' : i \in DOMAIN queue \/ i = Len(queue) + 1
  BY <1>2
<1>6. \A i \in DOMAIN queue' : stage'[queue'[i]] = "queued"
  BY <1>2, <1>3, <1>5 DEF QueueInv
<1>7. ASSUME NEW i \in DOMAIN queue', NEW k \in DOMAIN queue', queue'[i] = queue'[k]
      PROVE  i = k
  BY <1>2, <1>4, <1>5, <1>7 DEF QueueInv
<1>. QED BY <1>6, <1>7 DEF QueueInv

LEMMA HeadTaken ==
    ASSUME ReviewTypeOK, QueueInv, Listening, queue # <<>>, NEW s \in Stage,
           queue' = Tail(queue), stage' = [stage EXCEPT ![Head(queue)] = s]
    PROVE  QueueInv'
<1>1. /\ Head(queue) = queue[1] /\ Head(queue) \in Job
      /\ Len(queue) \in Nat \ {0}
      /\ DOMAIN queue = 1 .. Len(queue)
      /\ DOMAIN queue' = 1 .. (Len(queue) - 1)
      /\ \A i \in DOMAIN queue' : queue'[i] = queue[i + 1] /\ i + 1 \in DOMAIN queue
  BY HeadIsJob
<1>2. 1 \in DOMAIN queue
  BY <1>1
<1>3. \A i \in DOMAIN queue' : queue'[i] # Head(queue)
  BY <1>1, <1>2 DEF QueueInv
<1>4. \A i \in DOMAIN queue' : queue'[i] \in Job
  BY <1>1 DEF ReviewTypeOK
<1>5. \A i \in Job : i # Head(queue) => stage'[i] = stage[i]
  BY <1>1 DEF ReviewTypeOK
<1>6. \A i \in DOMAIN queue' : stage'[queue'[i]] = "queued"
  BY <1>1, <1>3, <1>4, <1>5 DEF QueueInv
<1>7. ASSUME NEW i \in DOMAIN queue', NEW k \in DOMAIN queue', queue'[i] = queue'[k]
      PROVE  i = k
  BY <1>1, <1>7 DEF QueueInv
<1>. QED BY <1>6, <1>7 DEF QueueInv

\* A job that is not queued changes its stage, but not to "queued".
LEMMA QueueApart ==
    ASSUME ReviewTypeOK, QueueInv, Listening, NEW j \in Job, stage[j] # "queued",
           NEW s \in Stage, queue' = queue, stage' = [stage EXCEPT ![j] = s]
    PROVE  QueueInv'
<1>1. \A i \in DOMAIN queue : queue[i] \in Job
  BY DEF ReviewTypeOK
<1>2. \A i \in Job : i # j => stage'[i] = stage[i]
  BY DEF ReviewTypeOK
<1>. QED BY <1>1, <1>2 DEF QueueInv

LEMMA QueueSame ==
    ASSUME QueueInv, UNCHANGED <<queue, stage>>, Listening' => Listening
    PROVE  QueueInv'
BY DEF QueueInv

-------------------------------------------------------------------------------
(***************************************************************************)
(* One step of each kind.                                                  *)
(***************************************************************************)
\* A step that moves nothing in the engine, and no agent.
LEMMA StepSame ==
    ASSUME ReviewTypeOK, KeyInv, ReviewTypeOK', UNCHANGED <<phase, stage, queue, inFlight>>,
           UNCHANGED running, orphan' \subseteq orphan,
           phase \in {"down", "recovering"} => UNCHANGED handling
    PROVE  KeyInv'
<1>1. KeysExact' /\ QueueInv'
  BY KeysSame, QueueSame DEF KeyInv
<1>2. QuietInv' /\ AgentInv'
  BY DEF KeyInv, QuietInv, AgentInv, Live
<1>. QED BY <1>1, <1>2 DEF KeyInv

\* A step of an engine that listens, which changes the stage of one job.
LEMMA StepMoved ==
    ASSUME KeyInv, ReviewTypeOK', Listening, phase' = phase, orphan' = orphan,
           NEW j \in Job, NEW s \in Stage, stage' = [stage EXCEPT ![j] = s],
           running \ {j} \subseteq running', s = "running" => j \in running',
           KeysExact', QueueInv'
    PROVE  KeyInv'
<1>1. \A i \in Job : stage'[i] = IF i = j THEN s ELSE stage[i]
  BY DEF KeyInv, ReviewTypeOK
<1>2. QuietInv' /\ AgentInv'
  BY <1>1 DEF KeyInv, QuietInv, AgentInv, Live
<1>. QED BY <1>2 DEF KeyInv

LEMMA StepReceive ==
    ASSUME KeyInv, ReviewTypeOK', NEW c \in Chat, Receive(c) PROVE KeyInv'
<1>1. ReviewTypeOK /\ phase = "serving" /\ UNCHANGED <<phase, running, orphan>>
  BY DEF KeyInv, Receive
<1>2. CASE Repeated(c) \/ Duplicate(c) \/ AnswerAtOnce(c)
  <2>1. UNCHANGED <<stage, queue, inFlight>>
    BY <1>2 DEF Repeated, Duplicate, AnswerAtOnce, memory
  <2>. QED BY <1>1, <2>1, StepSame
<1>3. CASE Accept(c)
  <2>1. NextIn(c) \in Job /\ KeyOf(NextIn(c)) = PrOf[NextIn(c)]
    BY <1>1, NextInIsMessage, KeyTypes DEF Receive
  <2>2. /\ stage' = [stage EXCEPT ![NextIn(c)] = "accepted"] /\ queue' = queue
        /\ KeyOf(NextIn(c)) \notin inFlight
        /\ inFlight' = inFlight \cup {KeyOf(NextIn(c))}
    BY <1>3, <2>1 DEF Accept, SetStage
  <2>3. KeysExact' /\ stage[NextIn(c)] = "idle"
    BY <1>1, <2>1, <2>2, KeyTaken DEF KeyInv, Stage
  <2>4. QueueInv'
    BY <1>1, <2>1, <2>2, <2>3, QueueApart DEF KeyInv, Stage
  <2>. QED BY <1>1, <2>1, <2>2, <2>3, <2>4, StepMoved DEF Stage
<1>. QED BY <1>2, <1>3 DEF Receive

LEMMA StepDispatched ==
    ASSUME KeyInv, ReviewTypeOK', NEW c \in Chat, Dispatched(c) PROVE KeyInv'
<1>1. ReviewTypeOK /\ Listening /\ UNCHANGED <<phase, running, orphan, inFlight>>
  BY DEF KeyInv, Dispatched
<1>2. CASE UNCHANGED <<stage, queue>>
  BY <1>1, <1>2, StepSame
<1>3. CASE /\ stage[handling[c]] = "accepted"
           /\ stage' = [stage EXCEPT ![handling[c]] = "queued"]
           /\ queue' = Append(queue, handling[c])
  <2>1. handling[c] \in Job
    BY <1>1, KeyTypes DEF Dispatched, ReviewTypeOK
  <2>2. KeysExact'
    BY <1>1, <1>3, <2>1, KeyKept DEF KeyInv, Stage
  <2>3. QueueInv'
    BY <1>1, <1>3, <2>1, AppendQueued DEF KeyInv
  <2>. QED BY <1>1, <1>3, <2>1, <2>2, <2>3, StepMoved DEF Stage
<1>. QED BY <1>2, <1>3 DEF Dispatched, SetStage

LEMMA StepEnqueue ==
    ASSUME KeyInv, ReviewTypeOK', Listening, UNCHANGED <<phase, running, orphan>>,
           NEW r \in Repo, Enqueue(r) \/ UNCHANGED <<stage, queue, inFlight>>
    PROVE  KeyInv'
<1>1. CASE UNCHANGED <<stage, queue, inFlight>>
  BY <1>1, StepSame DEF KeyInv
<1>2. CASE /\ r \notin inFlight
           /\ inFlight' = inFlight \cup {r}
           /\ stage' = [stage EXCEPT ![r] = "queued"]
           /\ queue' = Append(queue, r)
  <2>1. r \in Job /\ KeyOf(r) = r
    BY KeyTypes
  <2>2. KeysExact' /\ stage[r] = "idle"
    BY <1>2, <2>1, KeyTaken DEF KeyInv, Stage
  <2>3. QueueInv'
    BY <1>2, <2>1, <2>2, AppendQueued DEF KeyInv
  <2>. QED BY <1>2, <2>1, <2>2, <2>3, StepMoved DEF Stage
<1>. QED BY <1>1, <1>2 DEF Enqueue, SetStage

LEMMA StepTickers == ASSUME KeyInv, ReviewTypeOK', Tickers PROVE KeyInv'
<1>1. Fix \subseteq Repo /\ Deps \subseteq Repo
  BY KeyTypes
<1>2. ASSUME NEW f \in Fix, Ask(f) PROVE KeyInv'
  BY <1>2, StepSame DEF Ask, KeyInv
<1>3. ASSUME NEW f \in Fix, HandOff(f) PROVE KeyInv'
  BY <1>1, <1>3, StepEnqueue DEF HandOff
<1>4. ASSUME NEW d \in Deps, WindowOpens(d) PROVE KeyInv'
  BY <1>1, <1>4, StepEnqueue DEF WindowOpens
<1>. QED BY <1>2, <1>3, <1>4 DEF Tickers

\* A process that stops claims nothing of its keys, buffer or agents.
LEMMA StepStopping ==
    ASSUME KeyInv, ReviewTypeOK', phase' = "stopping", orphan' = {}
    PROVE  KeyInv'
BY DEF KeyInv, QuietInv, KeysExact, QueueInv, AgentInv, Live

LEMMA StepTake == ASSUME KeyInv, ReviewTypeOK', Take PROVE KeyInv'
<1>1. ReviewTypeOK /\ UNCHANGED <<phase, running, orphan>> /\ queue' = Tail(queue)
  BY DEF KeyInv, Take
<1>2. Head(queue) \in Job /\ Head(queue) = queue[1] /\ 1 \in DOMAIN queue
  BY <1>1, HeadIsJob DEF Take
<1>3. CASE Drop(Head(queue))
  BY <1>1, <1>3, StepStopping DEF Drop, KeyInv, AgentInv
<1>4. CASE Start(Head(queue))
  <2>1. stage[Head(queue)] = "queued"
    BY <1>2, <1>4 DEF Start, KeyInv, QueueInv
  <2>2. /\ Listening /\ inFlight' = inFlight
        /\ stage' = [stage EXCEPT ![Head(queue)] = "working"]
    BY <1>4 DEF Start, SetStage
  <2>3. KeysExact'
    BY <1>1, <1>2, <2>1, <2>2, KeyKept DEF KeyInv, Stage
  <2>4. QueueInv'
    BY <1>1, <2>2, HeadTaken DEF KeyInv, Take, Stage
  <2>. QED BY <1>1, <1>2, <2>2, <2>3, <2>4, StepMoved DEF Stage
<1>. QED BY <1>3, <1>4 DEF Take

LEMMA StepWork == ASSUME KeyInv, ReviewTypeOK', Work PROVE KeyInv'
<1>1. ReviewTypeOK
  BY DEF KeyInv
<1>2. ASSUME NEW j \in Job, NEW s \in Stage, s # "idle", s # "queued", Listening,
             stage[j] \notin {"idle", "queued"}, stage' = [stage EXCEPT ![j] = s],
             UNCHANGED <<phase, queue, inFlight, orphan>>,
             running' = running \/ running' = running \cup {j},
             s = "running" => j \in running'
      PROVE  KeyInv'
  <2>1. KeysExact'
    BY <1>1, <1>2, KeyKept DEF KeyInv
  <2>2. QueueInv'
    BY <1>1, <1>2, QueueApart DEF KeyInv
  <2>. QED BY <1>2, <2>1, <2>2, StepMoved
<1>3. ASSUME phase = "stopping", UNCHANGED <<phase, orphan>> PROVE KeyInv'
  BY <1>3, StepStopping DEF KeyInv, AgentInv
<1>4. ASSUME NEW j \in Job, Spawn(j) PROVE KeyInv'
  BY <1>2, <1>4 DEF Spawn, SetStage, Stage
<1>5. ASSUME NEW j \in Job, AgentExits(j) PROVE KeyInv'
  BY <1>2, <1>3, <1>5 DEF AgentExits, SetStage, Stage
<1>6. ASSUME NEW j \in Job, Settle(j) PROVE KeyInv'
  BY <1>2, <1>3, <1>6 DEF Settle, SetStage, Stage
<1>7. ASSUME NEW j \in Job, Finish(j) PROVE KeyInv'
  <2>1. CASE phase = "stopping"
    BY <1>3, <1>7, <2>1 DEF Finish
  <2>2. CASE Listening
    <3>1. /\ stage[j] = "answering" /\ stage' = [stage EXCEPT ![j] = "idle"]
          /\ inFlight' = inFlight \ {KeyOf(j)} /\ queue' = queue
          /\ running' = running \ {j} /\ UNCHANGED <<phase, orphan>>
      BY <1>7 DEF Finish, SetStage
    <3>2. KeysExact'
      BY <1>1, <2>2, <3>1, KeyReleased DEF KeyInv
    <3>3. QueueInv'
      BY <1>1, <2>2, <3>1, QueueApart DEF KeyInv, Stage
    <3>. QED BY <2>2, <3>1, <3>2, <3>3, StepMoved DEF Stage
  <2>. QED BY <1>7, <2>1, <2>2 DEF Finish
<1>. QED BY <1>4, <1>5, <1>6, <1>7, StepTake DEF Work

LEMMA StepLife == ASSUME KeyInv, ReviewTypeOK', Life PROVE KeyInv'
<1>1. ReviewTypeOK
  BY DEF KeyInv
<1>2. CASE StopRequested
  BY <1>2 DEF StopRequested, memory, KeyInv, QuietInv, KeysExact, QueueInv, AgentInv, Live
<1>3. CASE EngineStops
  BY <1>3, StepStopping DEF EngineStops, KeyInv, AgentInv
<1>4. CASE StopEnds
  BY <1>4 DEF StopEnds, Forget, KeyInv, QuietInv, KeysExact, QueueInv, AgentInv, Live
<1>5. CASE Crash
  <2>1. orphan' \subseteq running'
    BY <1>5 DEF Crash, KeyInv, AgentInv
  <2>2. phase' = "down" /\ QuietInv'
    BY <1>5 DEF Crash, Forget, QuietInv
  <2>. QED BY <2>1, <2>2 DEF KeyInv, KeysExact, QueueInv, AgentInv, Live
<1>6. CASE Boot
  <2>1. orphan' = {} /\ phase' = "recovering"
    BY <1>6 DEF Boot, KeyInv, AgentInv
  <2>2. QuietInv'
    BY <1>6 DEF Boot, memory, KeyInv, QuietInv
  <2>. QED BY <2>1, <2>2 DEF KeyInv, KeysExact, QueueInv, AgentInv, Live
<1>7. CASE Recovered
  <2>1. /\ phase = "recovering" /\ phase' = "serving"
        /\ UNCHANGED <<stage, queue, inFlight, orphan>>
    BY <1>7 DEF Recovered, memory
  <2>2. inFlight' = {} /\ queue' = <<>> /\ \A j \in Job : stage'[j] = "idle"
    BY <2>1 DEF KeyInv, QuietInv
  <2>3. DOMAIN queue' = {}
    BY <2>2
  <2>. QED BY <2>1, <2>2, <2>3 DEF KeyInv, QuietInv, KeysExact, QueueInv, AgentInv, Live
<1>8. ASSUME NEW j \in Job, RecoverOne(j) PROVE KeyInv'
  BY <1>1, <1>8, StepSame DEF RecoverOne, memory
<1>9. ASSUME NEW j \in Job, OrphanEnds(j) PROVE KeyInv'
  BY <1>1, <1>9, StepSame DEF OrphanEnds, memory
<1>. QED BY <1>2, <1>3, <1>4, <1>5, <1>6, <1>7, <1>8, <1>9 DEF Life

LEMMA KeyInit == Init => KeyInv
<1>1. Init => DOMAIN queue = {}
  BY DEF Init
<1>. QED BY <1>1, TypeInit DEF Init, KeyInv, QuietInv, KeysExact, QueueInv, AgentInv, Live

LEMMA KeyNext == ASSUME KeyInv, [Next]_vars PROVE KeyInv'
<1>1. ReviewTypeOK /\ ReviewTypeOK'
  BY TypeNext DEF KeyInv
<1>2. CASE FlushTimer \/ Maintain \/ DayPasses \/ UNCHANGED vars
  BY <1>1, <1>2, StepSame DEF FlushTimer, Maintain, DayPasses, vars, memory
<1>. QED BY <1>1, <1>2, StepReceive, StepDispatched, StepTickers, StepWork, StepLife
         DEF Next, Pump

LEMMA KeyImplies == KeyInv => OneJobPerKey
BY DEF KeyInv, OneJobPerKey, KeysExact, NoTwinAgents, AgentInv, Live

\* At no time do two jobs, or two agents, work for one pull request, issue or
\* repository.
THEOREM OneJobPerKeyAlways == Spec => []OneJobPerKey
BY KeyInit, KeyNext, KeyImplies, PTL DEF Spec

-------------------------------------------------------------------------------
(***************************************************************************)
(* Messages to come.                                                       *)
(***************************************************************************)
\* A pump awaits the message its cursor stands at, and of the messages from
\* there on no other has a job in the engine.
AheadOf(c) ==
    /\ handling[c] # Nobody => cursor[c] < Len(Stream[c]) /\ handling[c] = NextIn(c)
    /\ \A i \in (cursor[c] + 1) .. Len(Stream[c]) :
          stage[Stream[c][i]] # "idle" => i = cursor[c] + 1 /\ handling[c] # Nobody

AheadInv == \A c \in Chat : AheadOf(c)

LEMMA StreamTypes ==
    \A c \in Chat : /\ Len(Stream[c]) \in Nat
                    /\ \A i \in 1 .. Len(Stream[c]) : Stream[c][i] \in Message
                    /\ DOMAIN Stream[c] = 1 .. Len(Stream[c])
<1>1. \A c \in Chat : Stream[c] \in Seq(Message)
  OBVIOUS
<1>. QED BY <1>1

LEMMA MessagesAhead ==
    ASSUME ReviewTypeOK, NEW c \in Chat, NEW i \in (cursor[c] + 1) .. Len(Stream[c])
    PROVE  i \in DOMAIN Stream[c] /\ Stream[c][i] \in Message /\ Stream[c][i] \in Job
<1>1. cursor[c] \in Nat
  BY DEF ReviewTypeOK
<1>2. i \in 1 .. Len(Stream[c])
  BY <1>1, StreamTypes
<1>. QED BY <1>2, StreamTypes, KeyTypes

\* Nothing enters the engine, and the pump of chat c stays where it is.
LEMMA AheadKept ==
    ASSUME ReviewTypeOK, NEW c \in Chat, AheadOf(c),
           cursor'[c] = cursor[c], handling'[c] = handling[c],
           \A m \in Message : stage[m] = "idle" => stage'[m] = "idle"
    PROVE  AheadOf(c)'
<1>1. \A i \in (cursor[c] + 1) .. Len(Stream[c]) : Stream[c][i] \in Message
  BY MessagesAhead
<1>. QED BY <1>1 DEF AheadOf, NextIn

\* The pump of chat c passes its message.
LEMMA AheadMoved ==
    ASSUME ReviewTypeOK, NEW c \in Chat, AheadOf(c),
           cursor'[c] = cursor[c] + 1, handling'[c] = Nobody,
           \A m \in Message : stage[m] = "idle" => stage'[m] = "idle"
    PROVE  AheadOf(c)'
<1>1. cursor[c] \in Nat /\ Len(Stream[c]) \in Nat
  BY StreamTypes DEF ReviewTypeOK
<1>2. ASSUME NEW i \in (cursor'[c] + 1) .. Len(Stream[c])
      PROVE  stage'[Stream[c][i]] = "idle"
  <2>1. i \in (cursor[c] + 1) .. Len(Stream[c]) /\ i # cursor[c] + 1
    BY <1>1
  <2>2. Stream[c][i] \in Message /\ stage[Stream[c][i]] = "idle"
    BY <2>1, MessagesAhead DEF AheadOf
  <2>. QED BY <2>2
<1>. QED BY <1>2 DEF AheadOf

LEMMA AheadReceive ==
    ASSUME ReviewTypeOK, AheadInv, NEW c \in Chat, Receive(c) PROVE AheadInv'
<1>1. /\ NextIn(c) \in Message /\ NextIn(c) \in Job /\ cursor[c] + 1 \in DOMAIN Stream[c]
      /\ handling[c] = Nobody /\ cursor[c] < Len(Stream[c])
  BY NextInIsMessage, KeyTypes DEF Receive
<1>2. CASE Repeated(c) \/ Duplicate(c)
  <2>1. UNCHANGED <<handling, stage>> /\ cursor' = [cursor EXCEPT ![c] = @ + 1]
    BY <1>2 DEF Repeated, Duplicate, MoveCursor, memory
  <2>2. cursor'[c] = cursor[c] + 1 /\ \A d \in Chat : d # c => cursor'[d] = cursor[d]
    BY <2>1 DEF ReviewTypeOK
  <2>3. AheadOf(c)'
    BY <1>1, <2>1, <2>2, AheadMoved DEF AheadInv
  <2>4. ASSUME NEW d \in Chat, d # c PROVE AheadOf(d)'
    BY <2>1, <2>2, <2>4, AheadKept DEF AheadInv
  <2>. QED BY <2>3, <2>4 DEF AheadInv
<1>3. CASE AnswerAtOnce(c) \/ Accept(c)
  <2>1. /\ cursor' = cursor /\ handling' = [handling EXCEPT ![c] = NextIn(c)]
        /\ stage' = stage \/ stage' = [stage EXCEPT ![NextIn(c)] = "accepted"]
    BY <1>3 DEF AnswerAtOnce, Accept, SetStage
  <2>2. /\ handling'[c] = NextIn(c) /\ NextIn(c) # Nobody
        /\ \A d \in Chat : d # c => handling'[d] = handling[d]
        /\ \A m \in Message : m # NextIn(c) => stage'[m] = stage[m]
    BY <1>1, <2>1, KeyTypes DEF ReviewTypeOK
  <2>3. ASSUME NEW d \in Chat, NEW i \in (cursor[d] + 1) .. Len(Stream[d]),
               stage'[Stream[d][i]] # "idle"
        PROVE  \/ d = c /\ i = cursor[c] + 1
               \/ d # c /\ i = cursor[d] + 1 /\ handling[d] # Nobody
    <3>1. i \in DOMAIN Stream[d] /\ Stream[d][i] \in Message
      BY MessagesAhead
    <3>2. CASE Stream[d][i] = NextIn(c)
      <4>1. Stream[d][i] = Stream[c][cursor[c] + 1]
        BY <3>2 DEF NextIn
      <4>. QED BY <1>1, <3>1, <4>1
    <3>3. CASE Stream[d][i] # NextIn(c)
      BY <1>1, <2>2, <2>3, <3>1, <3>3 DEF AheadInv, AheadOf
    <3>. QED BY <3>2, <3>3
  <2>4. AheadOf(c)'
    BY <1>1, <2>1, <2>2, <2>3 DEF AheadOf, NextIn
  <2>5. ASSUME NEW d \in Chat, d # c PROVE AheadOf(d)'
    BY <2>1, <2>2, <2>3, <2>5 DEF AheadInv, AheadOf, NextIn
  <2>. QED BY <2>4, <2>5 DEF AheadInv
<1>. QED BY <1>2, <1>3 DEF Receive

LEMMA AheadDispatched ==
    ASSUME ReviewTypeOK, AheadInv, NEW c \in Chat, Dispatched(c) PROVE AheadInv'
<1>1. /\ cursor' = [cursor EXCEPT ![c] = @ + 1]
      /\ handling' = [handling EXCEPT ![c] = Nobody]
      /\ handling[c] \in Message /\ handling[c] \in Job
      /\ \/ stage[handling[c]] = "accepted"
            /\ stage' = [stage EXCEPT ![handling[c]] = "queued"]
         \/ stage' = stage
  BY KeyTypes DEF Dispatched, MoveCursor, SetStage, ReviewTypeOK
<1>2. /\ cursor'[c] = cursor[c] + 1 /\ handling'[c] = Nobody
      /\ \A d \in Chat : d # c => cursor'[d] = cursor[d] /\ handling'[d] = handling[d]
      /\ \A m \in Message : stage[m] = "idle" => stage'[m] = "idle"
  BY <1>1, KeyTypes DEF ReviewTypeOK
<1>3. AheadOf(c)'
  BY <1>2, AheadMoved DEF AheadInv
<1>4. ASSUME NEW d \in Chat, d # c PROVE AheadOf(d)'
  BY <1>2, <1>4, AheadKept DEF AheadInv
<1>. QED BY <1>3, <1>4 DEF AheadInv

\* A job that is not of a message, or that is in the engine, moves.
LEMMA AheadRest ==
    ASSUME ReviewTypeOK, AheadInv, UNCHANGED <<cursor, handling>>,
           \/ stage' = stage
           \/ \E j \in Job, s \in Stage : /\ j \in Repo \/ stage[j] # "idle"
                                        /\ stage' = [stage EXCEPT ![j] = s]
    PROVE  AheadInv'
<1>1. \A m \in Message : stage[m] = "idle" => stage'[m] = "idle"
  BY KeyTypes DEF ReviewTypeOK
<1>2. ASSUME NEW c \in Chat PROVE AheadOf(c)'
  BY <1>1, AheadKept DEF AheadInv
<1>. QED BY <1>2 DEF AheadInv

LEMMA AheadTickers == ASSUME ReviewTypeOK, AheadInv, Tickers PROVE AheadInv'
<1>1. \A r \in Repo : r \in Job
  BY KeyTypes
<1>2. ASSUME NEW r \in Repo, Enqueue(r) \/ UNCHANGED <<stage, queue, inFlight>>
      PROVE  \/ stage' = stage
             \/ \E j \in Job, s \in Stage : /\ j \in Repo \/ stage[j] # "idle"
                                          /\ stage' = [stage EXCEPT ![j] = s]
  BY <1>1, <1>2 DEF Enqueue, SetStage, Stage
<1>3. UNCHANGED <<cursor, handling>>
  BY DEF Tickers, Ask, HandOff, WindowOpens
<1>4. ASSUME NEW f \in Fix, Ask(f) PROVE AheadInv'
  BY <1>3, <1>4, AheadRest DEF Ask
<1>5. ASSUME NEW f \in Fix, HandOff(f) PROVE AheadInv'
  BY <1>2, <1>3, <1>5, AheadRest, KeyTypes DEF HandOff
<1>6. ASSUME NEW d \in Deps, WindowOpens(d) PROVE AheadInv'
  BY <1>2, <1>3, <1>6, AheadRest, KeyTypes DEF WindowOpens
<1>. QED BY <1>4, <1>5, <1>6 DEF Tickers

LEMMA AheadWork == ASSUME ReviewTypeOK, QueueInv, AheadInv, Work PROVE AheadInv'
<1>1. CASE Take
  <2>1. Head(queue) \in Job /\ Head(queue) = queue[1] /\ 1 \in DOMAIN queue
    BY <1>1, HeadIsJob DEF Take
  <2>2. UNCHANGED <<cursor, handling>>
    BY <1>1 DEF Take
  <2>3. CASE Drop(Head(queue))
    <3>1. \A m \in Message : stage[m] = "idle" => stage'[m] = "idle"
      BY <2>1, <2>3, KeyTypes DEF Drop, SetStage, ReviewTypeOK
    <3>2. ASSUME NEW c \in Chat PROVE AheadOf(c)'
      BY <2>2, <3>1, AheadKept DEF AheadInv
    <3>. QED BY <3>2 DEF AheadInv
  <2>4. CASE Start(Head(queue))
    <3>1. stage[Head(queue)] = "queued"
      BY <2>1, <2>4 DEF Start, QueueInv
    <3>2. stage' = [stage EXCEPT ![Head(queue)] = "working"] /\ "working" \in Stage
      BY <2>4 DEF Start, SetStage, Stage
    <3>. QED BY <2>1, <2>2, <3>1, <3>2, AheadRest
  <2>. QED BY <1>1, <2>3, <2>4 DEF Take
<1>2. ASSUME NEW j \in Job, Spawn(j) \/ AgentExits(j) \/ Settle(j) \/ Finish(j)
      PROVE  AheadInv'
  <2>1. /\ UNCHANGED <<cursor, handling>> /\ stage[j] # "idle"
        /\ \E s \in Stage : stage' = [stage EXCEPT ![j] = s]
    BY <1>2 DEF Spawn, AgentExits, Settle, Finish, SetStage, Stage
  <2>. QED BY <2>1, AheadRest
<1>. QED BY <1>1, <1>2 DEF Work

\* A process that ends has nothing in its engine or its pumps.
LEMMA AheadForget ==
    ASSUME ReviewTypeOK', Forget PROVE AheadInv'
<1>1. ASSUME NEW c \in Chat PROVE AheadOf(c)'
  <2>1. handling'[c] = Nobody /\ \A m \in Message : stage'[m] = "idle"
    BY KeyTypes DEF Forget
  <2>2. ASSUME NEW i \in (cursor'[c] + 1) .. Len(Stream[c])
        PROVE  stage'[Stream[c][i]] = "idle"
    <3>1. cursor'[c] \in Nat /\ i \in 1 .. Len(Stream[c])
      BY <2>2, StreamTypes DEF ReviewTypeOK
    <3>. QED BY <2>1, <3>1, StreamTypes
  <2>. QED BY <2>1, <2>2 DEF AheadOf
<1>. QED BY <1>1 DEF AheadInv

LEMMA AheadNext ==
    ASSUME KeyInv, AheadInv, [Next]_vars PROVE AheadInv'
<1>1. ReviewTypeOK /\ QueueInv /\ ReviewTypeOK'
  BY TypeNext DEF KeyInv
<1>2. CASE FlushTimer \/ Maintain \/ DayPasses \/ UNCHANGED vars
  BY <1>1, <1>2, AheadRest DEF FlushTimer, Maintain, DayPasses, vars, memory
<1>3. CASE Life
  <2>1. CASE StopEnds \/ Crash
    BY <1>1, <2>1, AheadForget DEF StopEnds, Crash
  <2>2. CASE StopRequested \/ EngineStops \/ Boot \/ Recovered
    BY <1>1, <2>2, AheadRest DEF StopRequested, EngineStops, Boot, Recovered, memory
  <2>3. ASSUME NEW j \in Job, RecoverOne(j) \/ OrphanEnds(j) PROVE AheadInv'
    BY <1>1, <2>3, AheadRest DEF RecoverOne, OrphanEnds, memory
  <2>. QED BY <1>3, <2>1, <2>2, <2>3 DEF Life
<1>. QED BY <1>1, <1>2, <1>3, AheadReceive, AheadDispatched, AheadTickers, AheadWork
         DEF Next, Pump

LEMMA AheadInit == Init => AheadInv
<1>1. ASSUME Init, NEW c \in Chat PROVE AheadOf(c)
  <2>1. cursor[c] = 0 /\ handling[c] = Nobody /\ \A m \in Message : stage[m] = "idle"
    BY <1>1, KeyTypes DEF Init
  <2>2. \A i \in (cursor[c] + 1) .. Len(Stream[c]) : Stream[c][i] \in Message
    BY <2>1, StreamTypes
  <2>. QED BY <2>1, <2>2 DEF AheadOf
<1>. QED BY <1>1 DEF AheadInv

-------------------------------------------------------------------------------
(***************************************************************************)
(* Entries of messages.                                                    *)
(***************************************************************************)
\* Stages of a request between acceptance and outcome.
Pending == {"accepted", "queued", "working", "running"}

\* Entry and stage agree: an unfinished entry has its job in the engine, and a
\* job without outcome has an unfinished entry or one pruned as such.
EntryInv ==
    /\ Listening => \A m \in Message : status[m] \in Open => stage[m] \in Pending
    /\ Up => \A m \in Message : stage[m] \in Pending => status[m] \in Open \cup {"lost"}
    /\ \A m \in old : Handled(m)

\* What a step of the engine may do with a message: nothing; make its entry;
\* go on with its job; settle it; take the job out of the engine.
EntryStep(m) ==
    \/ status'[m] = status[m] /\ stage'[m] = stage[m]
    \/ ~Handled(m) /\ stage[m] = "idle" /\ stage'[m] = stage[m] /\ status'[m] \in Closed
    \/ ~Handled(m) /\ stage'[m] = "accepted" /\ status'[m] = "pending"
    \/ /\ stage[m] \in Pending /\ stage'[m] \in Pending
       /\ status'[m] = status[m] \/ status'[m] = "running"
    \/ stage[m] \in Pending /\ stage'[m] = "answering" /\ status'[m] \in Closed
    \/ /\ stage[m] = "answering" \/ phase = "stopping"
       /\ stage'[m] = "idle" /\ status'[m] = status[m]

\* An entry never disappears without a trace, and stays until it is old.
EntryKept(m) ==
    /\ status[m] # "none" => status'[m] # "none"
    /\ status[m] \in Closed => status'[m] = status[m] \/ (m \in old /\ status'[m] = "gone")
    /\ status'[m] = "lost" => status[m] = "lost" \/ m \in old

LEMMA EntryPreserved ==
    ASSUME ReviewTypeOK, EntryInv, Up, phase' = phase, old' \subseteq old,
           \A m \in Message : EntryStep(m)
    PROVE  EntryInv' /\ \A m \in Message : EntryKept(m)
<1>1. ASSUME NEW m \in Message PROVE EntryKept(m)
  BY DEF EntryInv, EntryStep, EntryKept, Handled, Pending, Open, Closed
<1>2. ASSUME NEW m \in Message, Listening, status'[m] \in Open PROVE stage'[m] \in Pending
  BY <1>2 DEF EntryInv, EntryStep, Handled, Pending, Open, Closed
<1>3. ASSUME NEW m \in Message, stage'[m] \in Pending PROVE status'[m] \in Open \cup {"lost"}
  BY <1>3 DEF EntryInv, EntryStep, Handled, Pending, Open, Closed
<1>4. ASSUME NEW m \in old' PROVE Handled(m)'
  <2>1. m \in Message /\ m \in old
    BY DEF ReviewTypeOK
  <2>. QED BY <2>1 DEF EntryInv, EntryStep, Handled, Open, Closed
<1>. QED BY <1>1, <1>2, <1>3, <1>4 DEF EntryInv

LEMMA EntryReceive ==
    ASSUME ReviewTypeOK, AheadInv, NEW c \in Chat, Receive(c), NEW m \in Message
    PROVE  EntryStep(m)
<1>1. NextIn(c) \in Message /\ NextIn(c) \in Job /\ m \in Job
  BY NextInIsMessage, KeyTypes DEF Receive
<1>2. stage[NextIn(c)] = "idle"
  <2>1. cursor[c] + 1 \in (cursor[c] + 1) .. Len(Stream[c])
    BY StreamTypes DEF Receive, ReviewTypeOK
  <2>. QED BY <2>1 DEF Receive, AheadInv, AheadOf, NextIn
<1>3. CASE Repeated(c)
  BY <1>3 DEF Repeated, memory, EntryStep
<1>4. CASE Duplicate(c)
  BY <1>1, <1>4, <1>2 DEF Duplicate, memory, SetStatus, EntryStep, ReviewTypeOK, Closed
<1>5. CASE AnswerAtOnce(c)
  BY <1>1, <1>5, <1>2 DEF AnswerAtOnce, SetStatus, EntryStep, ReviewTypeOK, Closed
<1>6. CASE Accept(c)
  BY <1>1, <1>6 DEF Accept, SetStatus, SetStage, EntryStep, ReviewTypeOK
<1>. QED BY <1>3, <1>4, <1>5, <1>6 DEF Receive

LEMMA EntryDispatched ==
    ASSUME ReviewTypeOK, NEW c \in Chat, Dispatched(c), NEW m \in Message
    PROVE  EntryStep(m)
<1>1. handling[c] \in Job /\ m \in Job
  BY KeyTypes DEF Dispatched, ReviewTypeOK
<1>. QED BY <1>1 DEF Dispatched, SetStage, EntryStep, Pending, ReviewTypeOK

LEMMA EntryTickers ==
    ASSUME ReviewTypeOK, Tickers, NEW m \in Message PROVE EntryStep(m)
<1>1. /\ Fix \subseteq Repo /\ Deps \subseteq Repo
      /\ m \in Job /\ m \notin Repo /\ \A r \in Repo : r \in Job /\ r # m
  BY KeyTypes
<1>2. ASSUME NEW r \in Repo, Enqueue(r) PROVE stage'[m] = stage[m]
  BY <1>1, <1>2 DEF Enqueue, SetStage, ReviewTypeOK
<1>3. ASSUME NEW r \in Repo, NEW s, SetStatus(r, s) PROVE status'[m] = status[m]
  BY <1>1, <1>3 DEF SetStatus, ReviewTypeOK
<1>4. ASSUME NEW f \in Fix, Ask(f) PROVE EntryStep(m)
  BY <1>1, <1>3, <1>4 DEF Ask, EntryStep
<1>5. ASSUME NEW f \in Fix, HandOff(f) PROVE EntryStep(m)
  BY <1>1, <1>2, <1>3, <1>5 DEF HandOff, EntryStep
<1>6. ASSUME NEW d \in Deps, WindowOpens(d) PROVE EntryStep(m)
  BY <1>1, <1>2, <1>3, <1>6 DEF WindowOpens, EntryStep
<1>. QED BY <1>4, <1>5, <1>6 DEF Tickers

LEMMA EntryTake ==
    ASSUME ReviewTypeOK, QueueInv, Take, NEW m \in Message PROVE EntryStep(m)
<1>1. Head(queue) \in Job /\ Head(queue) = queue[1] /\ 1 \in DOMAIN queue /\ m \in Job
  BY HeadIsJob, KeyTypes DEF Take
<1>2. CASE Drop(Head(queue))
  BY <1>1, <1>2 DEF Drop, SetStage, EntryStep, ReviewTypeOK
<1>3. CASE Start(Head(queue))
  <2>1. stage[Head(queue)] = "queued"
    BY <1>1, <1>3 DEF Start, QueueInv
  <2>2. CASE m = Head(queue)
    BY <1>1, <1>3, <2>1, <2>2 DEF Start, SetStage, SetStatus, EntryStep, Pending, ReviewTypeOK
  <2>3. CASE m # Head(queue)
    BY <1>1, <1>3, <2>3 DEF Start, SetStage, SetStatus, EntryStep, ReviewTypeOK
  <2>. QED BY <2>2, <2>3
<1>. QED BY <1>2, <1>3 DEF Take

LEMMA EntryWork ==
    ASSUME ReviewTypeOK, QueueInv, Work, NEW m \in Message PROVE EntryStep(m)
<1>1. m \in Job
  BY KeyTypes
<1>2. ASSUME NEW j \in Job, Spawn(j) PROVE EntryStep(m)
  BY <1>1, <1>2 DEF Spawn, SetStage, EntryStep, Pending, ReviewTypeOK
<1>3. ASSUME NEW j \in Job, AgentExits(j) PROVE EntryStep(m)
  BY <1>1, <1>3 DEF AgentExits, SetStage, EntryStep, Pending, ReviewTypeOK
<1>4. ASSUME NEW j \in Job, Settle(j) PROVE EntryStep(m)
  <2>1. CASE m = j
    BY <1>1, <1>4, <2>1 DEF Settle, SetStage, SetStatus, EntryStep, Pending, ReviewTypeOK
  <2>2. CASE m # j
    BY <1>1, <1>4, <2>2 DEF Settle, SetStage, SetStatus, EntryStep, ReviewTypeOK
  <2>. QED BY <2>1, <2>2
<1>5. ASSUME NEW j \in Job, Finish(j) PROVE EntryStep(m)
  BY <1>1, <1>5 DEF Finish, SetStage, EntryStep, ReviewTypeOK
<1>. QED BY <1>2, <1>3, <1>4, <1>5, EntryTake DEF Work

LEMMA EntryEngine ==
    ASSUME KeyInv, AheadInv, EntryInv, Pump \/ Tickers \/ Work
    PROVE  EntryInv' /\ \A m \in Message : EntryKept(m)
<1>1. ReviewTypeOK /\ QueueInv
  BY DEF KeyInv
<1>2. \A m \in Message : EntryStep(m)
  BY <1>1, EntryReceive, EntryDispatched, EntryTickers, EntryWork DEF Pump
<1>3. CASE Pump
  <2>1. Up /\ phase' = phase /\ old' \subseteq old
    BY <1>3 DEF Pump, Receive, Repeated, Duplicate, AnswerAtOnce, Accept, Dispatched, SetStatus
  <2>. QED BY <1>1, <1>2, <2>1, EntryPreserved
<1>4. CASE Tickers
  <2>1. Up /\ phase' = phase /\ old' \subseteq old
    BY <1>4 DEF Tickers, Ask, HandOff, WindowOpens, SetStatus
  <2>. QED BY <1>1, <1>2, <2>1, EntryPreserved
<1>5. CASE Work
  <2>1. Up /\ phase' = phase /\ old' \subseteq old
    BY <1>5 DEF Work, Take, Drop, Start, Spawn, AgentExits, Settle, Finish, SetStatus
  <2>. QED BY <1>1, <1>2, <2>1, EntryPreserved
<1>. QED BY <1>3, <1>4, <1>5

\* Entries grow old, or are pruned.
LEMMA EntryAges ==
    ASSUME KeyInv, EntryInv, Maintain \/ Boot \/ DayPasses
    PROVE  EntryInv' /\ \A m \in Message : EntryKept(m)
<1>1. ReviewTypeOK /\ \A m \in Message : m \in Job
  BY KeyTypes DEF KeyInv
<1>2. ASSUME old' = {}, status' = Pruned(status)
      PROVE  /\ \A m \in Message : EntryKept(m)
             /\ \A m \in Message : status'[m] \in Open => status[m] \in Open
             /\ \A m \in Message : status[m] \in Open \cup {"lost"}
                                        => status'[m] \in Open \cup {"lost"}
  <2>1. \A m \in Message : status'[m] = IF m \notin old THEN status[m]
                                        ELSE IF status[m] \in Open THEN "lost" ELSE "gone"
    BY <1>1, <1>2 DEF Pruned
  <2>. QED BY <2>1 DEF EntryInv, EntryKept, Handled, Open, Closed
<1>3. CASE Maintain
  <2>1. phase' = phase /\ UNCHANGED stage /\ old' = {} /\ status' = Pruned(status)
    BY <1>3 DEF Maintain, memory
  <2>. QED BY <1>2, <2>1 DEF EntryInv
<1>4. CASE Boot
  <2>1. phase' = "recovering" /\ old' = {} /\ status' = Pruned(status)
    BY <1>4 DEF Boot
  <2>. QED BY <1>2, <2>1 DEF EntryInv
<1>5. CASE DayPasses
  <2>1. /\ UNCHANGED <<phase, status, stage>>
        /\ old' = {m \in Message : Handled(m)}
    BY <1>5 DEF DayPasses, memory
  <2>. QED BY <2>1 DEF EntryInv, EntryKept, Handled
<1>. QED BY <1>3, <1>4, <1>5

\* Stopping, crashing and recovering.
LEMMA EntryLife ==
    ASSUME KeyInv, EntryInv, Life
    PROVE  EntryInv' /\ \A m \in Message : EntryKept(m)
<1>1. ReviewTypeOK /\ \A m \in Message : m \in Job
  BY KeyTypes DEF KeyInv
<1>2. old \subseteq Message
  BY <1>1 DEF ReviewTypeOK
<1>3. CASE StopRequested \/ EngineStops
  BY <1>3 DEF StopRequested, EngineStops, memory, EntryInv, EntryKept, Handled
<1>4. CASE StopEnds \/ Crash
  <2>1. /\ phase' = "down" /\ UNCHANGED <<status, old>>
        /\ \A m \in Message : stage'[m] = "idle"
    BY <1>1, <1>4 DEF StopEnds, Crash, Forget
  <2>. QED BY <1>2, <2>1 DEF EntryInv, EntryKept, Handled
<1>5. CASE Recovered
  <2>1. /\ UNCHANGED <<status, stage, old>>
        /\ \A m \in Message : status[m] \notin Open /\ stage[m] = "idle"
    BY <1>1, <1>5 DEF Recovered, Interrupted, memory, KeyInv, QuietInv
  <2>. QED BY <2>1 DEF EntryInv, EntryKept, Handled, Pending
<1>6. ASSUME NEW j \in Job, RecoverOne(j) PROVE EntryInv' /\ \A m \in Message : EntryKept(m)
  <2>1. /\ phase' = "recovering" /\ UNCHANGED stage /\ old' \subseteq old
        /\ \A m \in Message : status'[m] = IF m = j THEN "failed" ELSE status[m]
        /\ status[j] \in Open
    BY <1>1, <1>6 DEF RecoverOne, Interrupted, SetStatus, memory, ReviewTypeOK
  <2>2. \A m \in Message : EntryKept(m)
    BY <2>1 DEF EntryKept, Open, Closed
  <2>3. EntryInv'
    BY <1>2, <2>1 DEF EntryInv, Handled
  <2>. QED BY <2>2, <2>3
<1>7. ASSUME NEW j \in Job, OrphanEnds(j) PROVE EntryInv' /\ \A m \in Message : EntryKept(m)
  BY <1>7 DEF OrphanEnds, memory, EntryInv, EntryKept, Handled
<1>. QED BY <1>3, <1>4, <1>5, <1>6, <1>7, EntryAges DEF Life

LEMMA EntryInit == Init => EntryInv
BY DEF Init, EntryInv

LEMMA EntryNext ==
    ASSUME KeyInv, AheadInv, EntryInv, [Next]_vars
    PROVE  EntryInv' /\ \A m \in Message : EntryKept(m)
<1>1. CASE FlushTimer \/ UNCHANGED vars
  BY <1>1 DEF FlushTimer, vars, memory, EntryInv, EntryKept, Handled
<1>. QED BY <1>1, EntryEngine, EntryAges, EntryLife DEF Next

\* The outcome of a request is changed by nothing but the passing of a day.
THEOREM AnswersStand == Spec => AnsweredOnce
<1>1. KeyInv /\ AheadInv /\ EntryInv /\ [Next]_vars => KeyInv' /\ AheadInv' /\ EntryInv'
  BY KeyNext, AheadNext, EntryNext
<1>2. KeyInv /\ AheadInv /\ EntryInv /\ [Next]_vars
        => [\A m \in Message : status[m] \in Closed =>
              status'[m] = status[m] \/ (m \in old /\ status'[m] = "gone")]_vars
  BY EntryNext DEF EntryKept
<1>. QED BY <1>1, <1>2, KeyInit, AheadInit, EntryInit, PTL DEF Spec, AnsweredOnce

\* A request that stood unfinished for less than a day keeps its entry, so
\* recovery finds it.
THEOREM OnlyAgeLoses == Spec => LostByAge
<1>1. KeyInv /\ AheadInv /\ EntryInv /\ [Next]_vars => KeyInv' /\ AheadInv' /\ EntryInv'
  BY KeyNext, AheadNext, EntryNext
<1>2. KeyInv /\ AheadInv /\ EntryInv /\ [Next]_vars
        => [\A m \in Message : status'[m] = "lost" => status[m] = "lost" \/ m \in old]_vars
  BY EntryNext DEF EntryKept
<1>. QED BY <1>1, <1>2, KeyInit, AheadInit, EntryInit, PTL DEF Spec, LostByAge

-------------------------------------------------------------------------------
(***************************************************************************)
(* Cursors.                                                                *)
(***************************************************************************)
\* A cursor passes messages with an entry only, and what a pump awaits is the
\* message the cursor stands at.
CursorOf(c) ==
    /\ saved[c] =< cursor[c]
    /\ cursor[c] =< Len(Stream[c])
    /\ \A i \in 1 .. cursor[c] : status[Stream[c][i]] # "none"
    /\ handling[c] # Nobody =>
          /\ cursor[c] < Len(Stream[c])
          /\ handling[c] = NextIn(c)
          /\ status[handling[c]] # "none"

CursorInv == \A c \in Chat : CursorOf(c)

\* The cursor of chat c stays, moves on, or falls back to the saved one.
LEMMA CursorKept ==
    ASSUME ReviewTypeOK, NEW c \in Chat, CursorOf(c),
           \A m \in Message : EntryKept(m),
           cursor'[c] = cursor[c], saved'[c] \in {saved[c], cursor[c]},
           handling'[c] \in {handling[c], Nobody}
    PROVE  CursorOf(c)'
<1>1. cursor[c] \in Nat /\ saved[c] \in Nat
  BY DEF ReviewTypeOK
<1>2. \A i \in 1 .. cursor[c] : Stream[c][i] \in Message
  BY <1>1, StreamTypes DEF CursorOf
<1>3. handling[c] # Nobody => handling[c] \in Message
  BY DEF ReviewTypeOK
<1>4. \A i \in 1 .. cursor'[c] : status'[Stream[c][i]] # "none"
  BY <1>2 DEF CursorOf, EntryKept
<1>5. saved'[c] =< cursor'[c] /\ cursor'[c] =< Len(Stream[c])
  BY <1>1 DEF CursorOf
<1>6. ASSUME handling'[c] # Nobody
      PROVE  /\ cursor'[c] < Len(Stream[c])
             /\ handling'[c] = Stream[c][cursor'[c] + 1]
             /\ status'[handling'[c]] # "none"
  <2>1. handling'[c] = handling[c] /\ handling[c] \in Message
    BY <1>3, <1>6
  <2>. QED BY <2>1, <1>6 DEF CursorOf, EntryKept, NextIn
<1>. QED BY <1>4, <1>5, <1>6 DEF CursorOf, NextIn

LEMMA CursorMoved ==
    ASSUME ReviewTypeOK, NEW c \in Chat, CursorOf(c), cursor[c] < Len(Stream[c]),
           \A m \in Message : EntryKept(m), status'[NextIn(c)] # "none",
           cursor'[c] = cursor[c] + 1, saved'[c] \in {saved[c], cursor[c]},
           handling'[c] = Nobody
    PROVE  CursorOf(c)'
<1>1. cursor[c] \in Nat /\ saved[c] \in Nat /\ Len(Stream[c]) \in Nat
  BY StreamTypes DEF ReviewTypeOK
<1>2. \A i \in 1 .. cursor[c] : Stream[c][i] \in Message
  BY <1>1, StreamTypes DEF CursorOf
<1>3. ASSUME NEW i \in 1 .. cursor'[c] PROVE status'[Stream[c][i]] # "none"
  <2>1. i \in 1 .. cursor[c] \/ i = cursor[c] + 1
    BY <1>1
  <2>. QED BY <1>2, <2>1 DEF CursorOf, EntryKept, NextIn
<1>. QED BY <1>1, <1>3 DEF CursorOf

LEMMA CursorBack ==
    ASSUME ReviewTypeOK, NEW c \in Chat, CursorOf(c),
           \A m \in Message : EntryKept(m),
           cursor'[c] = saved[c], saved'[c] = saved[c], handling'[c] = Nobody
    PROVE  CursorOf(c)'
<1>1. cursor[c] \in Nat /\ saved[c] \in Nat /\ Len(Stream[c]) \in Nat
  BY StreamTypes DEF ReviewTypeOK
<1>2. \A i \in 1 .. saved[c] : i \in 1 .. cursor[c] /\ Stream[c][i] \in Message
  BY <1>1, StreamTypes DEF CursorOf
<1>. QED BY <1>1, <1>2 DEF CursorOf, EntryKept

LEMMA CursorReceive ==
    ASSUME ReviewTypeOK, CursorInv, \A m \in Message : EntryKept(m),
           NEW c \in Chat, Receive(c)
    PROVE  CursorInv'
<1>1. /\ NextIn(c) \in Message /\ NextIn(c) \in Job
      /\ handling[c] = Nobody /\ cursor[c] < Len(Stream[c])
  BY NextInIsMessage, KeyTypes DEF Receive
<1>2. CASE Repeated(c) \/ Duplicate(c)
  <2>1. /\ status'[NextIn(c)] # "none" /\ handling' = handling
        /\ cursor' = [cursor EXCEPT ![c] = @ + 1] /\ saved' \in {saved, cursor}
    BY <1>1, <1>2 DEF Repeated, Duplicate, Handled, MoveCursor, SetStatus, Save, memory, ReviewTypeOK
  <2>2. /\ cursor'[c] = cursor[c] + 1
        /\ \A d \in Chat : d # c => cursor'[d] = cursor[d]
        /\ \A d \in Chat : saved'[d] \in {saved[d], cursor[d]}
    BY <2>1 DEF ReviewTypeOK
  <2>3. CursorOf(c)'
    BY <1>1, <2>1, <2>2, CursorMoved DEF CursorInv
  <2>4. ASSUME NEW d \in Chat, d # c PROVE CursorOf(d)'
    BY <2>1, <2>2, <2>4, CursorKept DEF CursorInv
  <2>. QED BY <2>3, <2>4 DEF CursorInv
<1>3. CASE AnswerAtOnce(c) \/ Accept(c)
  <2>1. /\ status'[NextIn(c)] # "none"
        /\ handling' = [handling EXCEPT ![c] = NextIn(c)]
        /\ cursor' = cursor /\ saved' = cursor
    BY <1>1, <1>3 DEF AnswerAtOnce, Accept, SetStatus, Save, ReviewTypeOK, Closed
  <2>2. /\ handling'[c] = NextIn(c)
        /\ \A d \in Chat : d # c => handling'[d] = handling[d]
    BY <2>1 DEF ReviewTypeOK
  <2>3. ASSUME NEW d \in Chat, d # c PROVE CursorOf(d)'
    BY <2>1, <2>2, <2>3, CursorKept DEF CursorInv
  <2>4. CursorOf(c)'
    <3>1. cursor[c] \in Nat /\ \A i \in 1 .. cursor[c] : Stream[c][i] \in Message
      BY StreamTypes DEF CursorInv, CursorOf, ReviewTypeOK
    <3>2. \A i \in 1 .. cursor'[c] : status'[Stream[c][i]] # "none"
      BY <2>1, <3>1 DEF CursorInv, CursorOf, EntryKept
    <3>3. handling'[c] = NextIn(c)'
      BY <2>1, <2>2 DEF NextIn
    <3>4. status'[handling'[c]] # "none"
      BY <2>1, <2>2
    <3>5. /\ saved'[c] =< cursor'[c] /\ cursor'[c] =< Len(Stream[c])
          /\ cursor'[c] < Len(Stream[c])
      BY <1>1, <2>1, <3>1 DEF CursorInv, CursorOf
    <3>. QED BY <3>2, <3>3, <3>4, <3>5 DEF CursorOf
  <2>. QED BY <2>3, <2>4 DEF CursorInv
<1>. QED BY <1>2, <1>3 DEF Receive

LEMMA CursorDispatched ==
    ASSUME ReviewTypeOK, CursorInv, \A m \in Message : EntryKept(m),
           NEW c \in Chat, Dispatched(c)
    PROVE  CursorInv'
<1>1. /\ handling[c] # Nobody /\ saved' = saved /\ status' = status
      /\ cursor' = [cursor EXCEPT ![c] = @ + 1]
      /\ handling' = [handling EXCEPT ![c] = Nobody]
  BY DEF Dispatched, MoveCursor
<1>2. /\ cursor'[c] = cursor[c] + 1 /\ handling'[c] = Nobody
      /\ \A d \in Chat : d # c => cursor'[d] = cursor[d] /\ handling'[d] = handling[d]
  BY <1>1 DEF ReviewTypeOK
<1>3. CursorOf(c)'
  BY <1>1, <1>2, CursorMoved DEF CursorInv, CursorOf
<1>4. ASSUME NEW d \in Chat, d # c PROVE CursorOf(d)'
  BY <1>1, <1>2, <1>4, CursorKept DEF CursorInv
<1>. QED BY <1>3, <1>4 DEF CursorInv

LEMMA CursorRest ==
    ASSUME ReviewTypeOK, CursorInv, \A m \in Message : EntryKept(m),
           cursor' = cursor, saved' = saved \/ saved' = cursor,
           handling' = handling \/ handling' = [c \in Chat |-> Nobody]
    PROVE  CursorInv'
<1>1. ASSUME NEW c \in Chat PROVE CursorOf(c)'
  BY CursorKept DEF CursorInv
<1>. QED BY <1>1 DEF CursorInv

LEMMA CursorInit == Init => CursorInv
<1>1. ASSUME Init, NEW c \in Chat PROVE CursorOf(c)
  <2>1. cursor[c] = 0 /\ saved[c] = 0 /\ handling[c] = Nobody /\ Len(Stream[c]) \in Nat
    BY <1>1, StreamTypes DEF Init
  <2>. QED BY <2>1 DEF CursorOf
<1>. QED BY <1>1 DEF CursorInv

LEMMA CursorNext ==
    ASSUME KeyInv, AheadInv, EntryInv, CursorInv, [Next]_vars PROVE CursorInv'
<1>1. ReviewTypeOK /\ \A m \in Message : EntryKept(m)
  BY EntryNext DEF KeyInv
<1>2. CASE FlushTimer \/ Maintain \/ DayPasses \/ UNCHANGED vars
  BY <1>1, <1>2, CursorRest DEF FlushTimer, Maintain, DayPasses, Save, vars, memory
<1>3. CASE Tickers
  BY <1>1, <1>3, CursorRest DEF Tickers, Ask, HandOff, WindowOpens, Save
<1>4. CASE Work
  BY <1>1, <1>4, CursorRest
     DEF Work, Take, Drop, Start, Spawn, AgentExits, Settle, Finish, Save
<1>5. CASE Life
  <2>1. CASE Crash
    <3>1. ASSUME NEW c \in Chat PROVE CursorOf(c)'
      BY <1>1, <2>1, CursorBack DEF Crash, Forget, CursorInv
    <3>. QED BY <3>1 DEF CursorInv
  <2>2. CASE StopRequested \/ EngineStops \/ StopEnds \/ Boot \/ Recovered
    BY <1>1, <2>2, CursorRest
       DEF StopRequested, EngineStops, StopEnds, Boot, Recovered, Forget, Save, memory
  <2>3. ASSUME NEW j \in Job, RecoverOne(j) \/ OrphanEnds(j) PROVE CursorInv'
    BY <1>1, <2>3, CursorRest DEF RecoverOne, OrphanEnds, memory
  <2>. QED BY <1>5, <2>1, <2>2, <2>3 DEF Life
<1>. QED BY <1>1, <1>2, <1>3, <1>4, <1>5, CursorReceive, CursorDispatched DEF Next, Pump

LEMMA ForgottenImplies == ASSUME KeyInv, EntryInv, CursorInv PROVE NoRequestForgotten
<1>1. ASSUME NEW c \in Chat, NEW i \in 1 .. saved[c] PROVE status[Stream[c][i]] # "none"
  <2>1. saved[c] \in Nat /\ cursor[c] \in Nat /\ saved[c] =< cursor[c]
    BY DEF KeyInv, ReviewTypeOK, CursorInv, CursorOf
  <2>2. i \in 1 .. cursor[c]
    BY <2>1
  <2>. QED BY <2>2 DEF CursorInv, CursorOf
<1>. QED BY <1>1 DEF NoRequestForgotten, EntryInv, Pending

\* No request is passed without an entry, or left unfinished outside the
\* engine while the service runs.
THEOREM RequestsRemembered == Spec => []NoRequestForgotten
<1>1. Init => KeyInv /\ AheadInv /\ EntryInv /\ CursorInv
  BY KeyInit, AheadInit, EntryInit, CursorInit
<1>2. KeyInv /\ AheadInv /\ EntryInv /\ CursorInv /\ [Next]_vars
        => KeyInv' /\ AheadInv' /\ EntryInv' /\ CursorInv'
  BY KeyNext, AheadNext, EntryNext, CursorNext
<1>3. KeyInv /\ EntryInv /\ CursorInv => NoRequestForgotten
  BY ForgottenImplies
<1>. QED BY <1>1, <1>2, <1>3, PTL DEF Spec
===============================================================================
