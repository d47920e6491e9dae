--------------------------- MODULE ClaimQueueProofs ---------------------------
(***************************************************************************)
(* Proofs, for every value of the constants, of the safety properties of   *)
(* ClaimQueue and of ChatRecv, whose receivers use its queues.             *)
(***************************************************************************)
EXTENDS ChatRecv, WellFoundedInduction, TLAPS

USE MsgAssumption, SessionAssumption, BoundAssumption DEF Msg

-------------------------------------------------------------------------------
(***************************************************************************)
(* Lemmas about the operators.                                             *)
(***************************************************************************)
\* Keys are assigned once and never twice.
KeyInv ==
    /\ \A m \in Msg : seq[m] < nextSeq
    /\ \A m, n \in Msg : seq[m] # 0 /\ seq[m] = seq[n] => m = n
    /\ \A m \in stored \cup delivered \cup aged : seq[m] # 0

\* The oldest row of a set of stored rows is unique (the keys are distinct).
LEMMA OldestUnique ==
    ASSUME TypeOK, KeyInv, NEW R, R \subseteq stored,
           NEW m \in Oldest(R), NEW n \in Oldest(R)
    PROVE  m = n
<1>1. /\ m \in R /\ n \in R
      /\ seq[m] <= seq[n] /\ seq[n] <= seq[m]
  BY DEF Oldest
<1>2. seq[m] \in Nat /\ seq[n] \in Nat /\ seq[m] # 0
  BY <1>1 DEF TypeOK, KeyInv
<1>3. seq[m] = seq[n]
  BY <1>1, <1>2
<1>. QED
  BY <1>1, <1>2, <1>3 DEF TypeOK, KeyInv

\* What a receive takes is stored, undelivered, not under a running lease,
\* and fit for the session; at most one row of it is readable.
LEMMA TakenFacts ==
    ASSUME TypeOK, KeyInv, NEW s \in Session
    PROVE  /\ Taken(s) \subseteq stored \ delivered
           /\ \A m \in Taken(s) : claim[m] \notin leased /\ Entitled(m, s)
           /\ \A m, n \in Taken(s) \ Corrupt : m = n
<1> DEFINE H == Claimable(UserQueue(s))
           A == Claimable(AgentQueue(s))
<1>1. /\ H \subseteq stored \ delivered
      /\ A \subseteq stored \ delivered
      /\ \A m \in H \cup A : claim[m] \notin leased /\ Entitled(m, s)
  BY DEF Claimable, UserQueue, AgentQueue, Entitled, TypeOK
<1>2. Oldest(H) \subseteq H /\ Oldest(A) \subseteq A
  BY DEF Oldest
<1>3. Taken(s) \subseteq Oldest(H) \cup Oldest(A)
  BY DEF Taken, ClaimNext, ClaimNextAgentMessage
<1>4. ASSUME NEW m \in Taken(s) \ Corrupt, NEW n \in Taken(s) \ Corrupt
      PROVE  m = n
  <2>1. CASE Oldest(H) \subseteq Corrupt
    <3>1. m \in Oldest(A) /\ n \in Oldest(A)
      BY <1>3, <1>4, <2>1
    <3>. QED BY <1>1, <3>1, OldestUnique
  <2>2. CASE ~(Oldest(H) \subseteq Corrupt)
    <3>1. m \in Oldest(H) /\ n \in Oldest(H)
      BY <1>4, <2>2 DEF Taken, ClaimNext, ClaimNextAgentMessage
    <3>. QED BY <1>1, <3>1, OldestUnique
  <2>. QED BY <2>1, <2>2
<1>. QED BY <1>1, <1>2, <1>3, <1>4

-------------------------------------------------------------------------------
(***************************************************************************)
(* Type correctness.                                                       *)
(***************************************************************************)
LEMMA TypeStep == TypeOK /\ [Next]_vars => TypeOK'
<1> SUFFICES ASSUME TypeOK, [Next]_vars PROVE TypeOK'
  OBVIOUS
<1> USE DEF TypeOK
<1>1. ASSUME NEW m \in Msg, InsertMessage(m) \/ InsertAgentMessage(m)
      PROVE  TypeOK'
  <2>1. InsertRow(m)
    BY <1>1 DEF InsertMessage, InsertAgentMessage
  <2>2. seq' \in [Msg -> Nat] /\ nextSeq' \in Nat \ {0} /\ stored' \subseteq Msg
    BY <2>1 DEF InsertRow
  <2>. QED BY <2>1, <2>2 DEF InsertRow
<1>2. ASSUME NEW s \in Session, ClaimForSession(s) PROVE TypeOK'
  <2>1. Taken(s) \subseteq Msg
    BY DEF Taken, ClaimNext, ClaimNextAgentMessage, Oldest, Claimable, UserQueue, AgentQueue
  <2>2. calls' \in Nat \ {0} /\ leased' \subseteq 1..calls'
    BY <1>2 DEF ClaimForSession
  <2>3. issued' \subseteq Handout
    BY <1>2, <2>1, <2>2 DEF ClaimForSession, Handout
  <2>4. claim' \in [Msg -> Nat]
    BY <1>2, <2>2 DEF ClaimForSession
  <2>. QED BY <1>2, <2>1, <2>2, <2>3, <2>4 DEF ClaimForSession
<1>3. ASSUME NEW k \in leased, LeaseLapses(k) PROVE TypeOK'
  BY <1>3 DEF LeaseLapses, store
<1>4. ASSUME NEW i \in issued, AckHandout(i) PROVE TypeOK'
  <2>1. AckedRows(i.sess, i.call) \subseteq Msg
    BY DEF AckedRows, AckedMessages, AckedAgentMessages
  <2>2. i.call \in Nat \ {0} /\ i.sess \in Session
    BY DEF Handout
  <2>3. acked' \subseteq Handout
    BY <1>4, <2>1, <2>2 DEF AckHandout, Ack, Handout
  <2>. QED BY <1>4, <2>1, <2>3 DEF AckHandout, Ack
<1>5. CASE RecoverStaleClaims
  BY <1>5 DEF RecoverStaleClaims
<1>6. ASSUME NEW s \in Session, CloseSession(s) PROVE TypeOK'
  BY <1>6 DEF CloseSession, store
<1>7. ASSUME NEW m \in AgentMsg, AgentMessageAges(m) PROVE TypeOK'
  BY <1>7 DEF AgentMessageAges
<1>8. ASSUME NEW S \in SUBSET closed, NEW hourly \in BOOLEAN, Housekeeping(S, hourly)
      PROVE  TypeOK'
  BY <1>8 DEF Housekeeping
<1>9. CASE UNCHANGED vars
  BY <1>9 DEF vars
<1>. QED
  BY <1>1, <1>2, <1>3, <1>4, <1>5, <1>6, <1>7, <1>8, <1>9 DEF Next

\* Every reachable state of the queues is type correct.
THEOREM TypeCorrect == Spec => []TypeOK
<1>1. Init => TypeOK
  BY DEF Init, TypeOK
<1>. QED BY <1>1, TypeStep, PTL DEF Spec

-------------------------------------------------------------------------------
(***************************************************************************)
(* The inductive invariant.  The safety properties of ClaimQueue are not   *)
(* inductive: they need that claim numbers are fresh (HandoutInv), that a  *)
(* row's claim is the one some receive was told (ClaimInv), and that keys  *)
(* order the rows (KeyInv).                                                *)
(***************************************************************************)
HandoutInv ==
    /\ \A i \in issued :
          /\ i.call <= calls
          /\ i.msg \notin Corrupt
          /\ Entitled(i.msg, i.sess)
          /\ seq[i.msg] # 0
    /\ \A i, j \in issued : i.call = j.call => i = j

ClaimInv ==
    /\ \A m \in Msg : claim[m] <= calls
    /\ \A m \in Msg \ delivered :
          claim[m] # 0 => \E i \in issued : i.msg = m /\ i.call = claim[m]
    /\ \A i \in issued : i.call \in leased => claim[i.msg] = i.call

IInv ==
    /\ TypeOK
    /\ KeyInv
    /\ HandoutInv
    /\ ClaimInv
    /\ DeliveredByHolder
    /\ NoSilentLoss
    /\ NoOvertaking

LEMMA KeyStep == TypeOK /\ KeyInv /\ [Next]_vars => KeyInv'
<1> SUFFICES ASSUME TypeOK, KeyInv, [Next]_vars PROVE KeyInv'
  OBVIOUS
<1>1. ASSUME NEW m \in Msg, InsertMessage(m) \/ InsertAgentMessage(m)
      PROVE  KeyInv'
  <2>1. InsertRow(m)
    BY <1>1 DEF InsertMessage, InsertAgentMessage
  <2>. QED BY <2>1 DEF InsertRow, KeyInv, TypeOK
<1>2. ASSUME NEW s \in Session, ClaimForSession(s) PROVE KeyInv'
  BY <1>2, TakenFacts DEF ClaimForSession, KeyInv
<1>3. ASSUME NEW k \in leased, LeaseLapses(k) PROVE KeyInv'
  BY <1>3 DEF LeaseLapses, store, KeyInv
<1>4. ASSUME NEW i \in issued, AckHandout(i) PROVE KeyInv'
  BY <1>4 DEF AckHandout, Ack, AckedRows, AckedMessages, AckedAgentMessages, KeyInv
<1>5. CASE RecoverStaleClaims
  BY <1>5 DEF RecoverStaleClaims, KeyInv
<1>6. ASSUME NEW s \in Session, CloseSession(s) PROVE KeyInv'
  BY <1>6 DEF CloseSession, store, KeyInv
<1>7. ASSUME NEW m \in AgentMsg, AgentMessageAges(m) PROVE KeyInv'
  BY <1>7 DEF AgentMessageAges, KeyInv
<1>8. ASSUME NEW S \in SUBSET closed, NEW hourly \in BOOLEAN, Housekeeping(S, hourly)
      PROVE  KeyInv'
  BY <1>8 DEF Housekeeping, KeyInv
<1>9. CASE UNCHANGED vars
  BY <1>9 DEF vars, KeyInv
<1>. QED
  BY <1>1, <1>2, <1>3, <1>4, <1>5, <1>6, <1>7, <1>8, <1>9 DEF Next

\* A receive adds at most one handout, under the fresh number calls + 1.
LEMMA NewHandout ==
    ASSUME TypeOK, KeyInv, NEW s \in Session, ClaimForSession(s)
    PROVE  /\ issued \subseteq issued'
           /\ \A i \in issued' \ issued :
                 i.call = calls + 1 /\ i.msg \in Taken(s) \ Corrupt /\ i.sess = s
           /\ \A i, j \in issued' \ issued : i = j
           /\ \A m \in Taken(s) \ Corrupt :
                 \E i \in issued' : i.msg = m /\ i.call = calls + 1
<1> DEFINE New == [call : {calls'}, msg : Taken(s) \ Corrupt, sess : {s}]
<1>1. issued' = issued \cup New /\ calls' = calls + 1
  BY DEF ClaimForSession
<1>2. \A m, n \in Taken(s) \ Corrupt : m = n
  BY TakenFacts
<1>3. \A m \in Taken(s) \ Corrupt : [call |-> calls', msg |-> m, sess |-> s] \in New
  OBVIOUS
<1>4. \A i, j \in New : i = j
  BY <1>2
<1>. QED BY <1>1, <1>3, <1>4

LEMMA HandoutStep == TypeOK /\ KeyInv /\ HandoutInv /\ [Next]_vars => HandoutInv'
<1> SUFFICES ASSUME TypeOK, KeyInv, HandoutInv, [Next]_vars PROVE HandoutInv'
  OBVIOUS
<1> USE DEF Entitled
<1>1. ASSUME NEW m \in Msg, InsertMessage(m) \/ InsertAgentMessage(m)
      PROVE  HandoutInv'
  <2>1. InsertRow(m)
    BY <1>1 DEF InsertMessage, InsertAgentMessage
  <2>2. \A i \in issued : i.msg # m /\ i.msg \in Msg
    BY <2>1 DEF InsertRow, HandoutInv, TypeOK, Handout
  <2>. QED BY <2>1, <2>2 DEF InsertRow, HandoutInv, TypeOK
<1>2. ASSUME NEW s \in Session, ClaimForSession(s) PROVE HandoutInv'
  <2>1. calls' = calls + 1 /\ seq' = seq
    BY <1>2 DEF ClaimForSession
  <2>2. \A i \in issued : i.call \in Nat /\ i.call <= calls
    BY DEF HandoutInv, TypeOK, Handout
  <2>3. ASSUME NEW i \in issued'
        PROVE  i.call <= calls' /\ i.msg \notin Corrupt /\ Entitled(i.msg, i.sess)
                 /\ seq'[i.msg] # 0
    <3>1. CASE i \in issued
      BY <2>1, <2>2, <3>1 DEF HandoutInv, TypeOK
    <3>2. CASE i \in issued' \ issued
      <4>1. i.call = calls + 1 /\ i.msg \in Taken(s) \ Corrupt /\ i.sess = s
        BY <1>2, <3>2, NewHandout
      <4>. QED BY <2>1, <4>1, TakenFacts DEF KeyInv, TypeOK
    <3>. QED BY <2>3, <3>1, <3>2
  <2>4. ASSUME NEW i \in issued', NEW j \in issued', i.call = j.call PROVE i = j
    <3>1. CASE i \in issued /\ j \in issued
      BY <2>4, <3>1 DEF HandoutInv
    <3>2. CASE i \in issued' \ issued /\ j \in issued' \ issued
      BY <1>2, <3>2, NewHandout
    <3>3. CASE (i \in issued) # (j \in issued)
      BY <1>2, <2>2, <2>4, <3>3, NewHandout DEF TypeOK
    <3>. QED BY <3>1, <3>2, <3>3
  <2>. QED BY <2>3, <2>4 DEF HandoutInv
<1>3. ASSUME NEW k \in leased, LeaseLapses(k) PROVE HandoutInv'
  BY <1>3 DEF LeaseLapses, store, HandoutInv
<1>4. ASSUME NEW i \in issued, AckHandout(i) PROVE HandoutInv'
  BY <1>4 DEF AckHandout, Ack, HandoutInv
<1>5. CASE RecoverStaleClaims
  BY <1>5 DEF RecoverStaleClaims, HandoutInv
<1>6. ASSUME NEW s \in Session, CloseSession(s) PROVE HandoutInv'
  BY <1>6 DEF CloseSession, store, HandoutInv
<1>7. ASSUME NEW m \in AgentMsg, AgentMessageAges(m) PROVE HandoutInv'
  BY <1>7 DEF AgentMessageAges, HandoutInv
<1>8. ASSUME NEW S \in SUBSET closed, NEW hourly \in BOOLEAN, Housekeeping(S, hourly)
      PROVE  HandoutInv'
  BY <1>8 DEF Housekeeping, HandoutInv
<1>9. CASE UNCHANGED vars
  BY <1>9 DEF vars, HandoutInv
<1>. QED
  BY <1>1, <1>2, <1>3, <1>4, <1>5, <1>6, <1>7, <1>8, <1>9 DEF Next

LEMMA ClaimStep ==
    TypeOK /\ KeyInv /\ HandoutInv /\ ClaimInv /\ [Next]_vars => ClaimInv'
<1> SUFFICES ASSUME TypeOK, KeyInv, HandoutInv, ClaimInv, [Next]_vars PROVE ClaimInv'
  OBVIOUS
<1>0. \A i \in issued : i.call \in Nat /\ i.call <= calls /\ i.msg \in Msg
  BY DEF HandoutInv, TypeOK, Handout
<1>1. ASSUME NEW m \in Msg, InsertMessage(m) \/ InsertAgentMessage(m)
      PROVE  ClaimInv'
  BY <1>1 DEF InsertMessage, InsertAgentMessage, InsertRow, ClaimInv
<1>2. ASSUME NEW s \in Session, ClaimForSession(s) PROVE ClaimInv'
  <2>1. /\ calls' = calls + 1
        /\ calls \in Nat
        /\ claim' = [m \in Msg |-> IF m \in Taken(s) THEN calls + 1 ELSE claim[m]]
        /\ leased' = leased \cup {calls + 1}
        /\ delivered' = delivered \cup (Taken(s) \cap Corrupt)
    BY <1>2 DEF ClaimForSession, TypeOK
  <2>2. \A m \in Msg : claim'[m] <= calls'
    BY <2>1 DEF ClaimInv, TypeOK
  <2>3. ASSUME NEW m \in Msg \ delivered', claim'[m] # 0
        PROVE  \E i \in issued' : i.msg = m /\ i.call = claim'[m]
    <3>1. CASE m \in Taken(s)
      BY <1>2, <2>1, <2>3, <3>1, NewHandout
    <3>2. CASE m \notin Taken(s)
      <4>1. claim'[m] = claim[m] /\ m \notin delivered
        BY <2>1, <2>3, <3>2
      <4>. QED BY <1>2, <2>3, <4>1, NewHandout DEF ClaimInv
    <3>. QED BY <3>1, <3>2
  <2>4. ASSUME NEW i \in issued', i.call \in leased' PROVE claim'[i.msg] = i.call
    <3>1. CASE i \in issued
      <4>1. i.call \in leased
        BY <1>0, <2>1, <2>4, <3>1
      <4>2. claim[i.msg] = i.call /\ i.msg \in Msg
        BY <1>0, <3>1, <4>1 DEF ClaimInv
      <4>3. i.msg \notin Taken(s)
        BY <4>1, <4>2, TakenFacts
      <4>. QED BY <2>1, <4>2, <4>3
    <3>2. CASE i \in issued' \ issued
      <4>1. i.call = calls + 1 /\ i.msg \in Taken(s)
        BY <1>2, <3>2, NewHandout
      <4>2. i.msg \in Msg
        BY <4>1, TakenFacts DEF TypeOK
      <4>. QED BY <2>1, <4>1, <4>2
    <3>. QED BY <2>4, <3>1, <3>2
  <2>. QED BY <2>2, <2>3, <2>4 DEF ClaimInv
<1>3. ASSUME NEW k \in leased, LeaseLapses(k) PROVE ClaimInv'
  BY <1>3 DEF LeaseLapses, store, ClaimInv
<1>4. ASSUME NEW i \in issued, AckHandout(i) PROVE ClaimInv'
  BY <1>4 DEF AckHandout, Ack, ClaimInv
<1>5. CASE RecoverStaleClaims
  BY <1>5 DEF RecoverStaleClaims, ClaimInv, TypeOK
<1>6. ASSUME NEW s \in Session, CloseSession(s) PROVE ClaimInv'
  BY <1>6 DEF CloseSession, store, ClaimInv
<1>7. ASSUME NEW m \in AgentMsg, AgentMessageAges(m) PROVE ClaimInv'
  BY <1>7 DEF AgentMessageAges, ClaimInv
<1>8. ASSUME NEW S \in SUBSET closed, NEW hourly \in BOOLEAN, Housekeeping(S, hourly)
      PROVE  ClaimInv'
  BY <1>8 DEF Housekeeping, ClaimInv
<1>9. CASE UNCHANGED vars
  BY <1>9 DEF vars, ClaimInv
<1>. QED
  BY <1>1, <1>2, <1>3, <1>4, <1>5, <1>6, <1>7, <1>8, <1>9 DEF Next

\* An ack of a handout settles nothing but the row that handout was for.
LEMMA AckSettlesItsRow ==
    ASSUME TypeOK, HandoutInv, ClaimInv, NEW i \in issued, AckHandout(i),
           NEW m \in delivered' \ delivered
    PROVE  i.msg = m /\ i.call = claim[m] /\ Entitled(m, i.sess) /\ m \in stored
<1>1. m \in stored /\ claim[m] = i.call
  BY DEF AckHandout, Ack, AckedRows, AckedMessages, AckedAgentMessages
<1>2. i.call # 0 /\ m \in Msg
  BY <1>1 DEF TypeOK, Handout
<1>3. PICK j \in issued : j.msg = m /\ j.call = claim[m]
  BY <1>1, <1>2 DEF ClaimInv
<1>4. i = j
  BY <1>1, <1>3 DEF HandoutInv
<1>. QED BY <1>1, <1>3, <1>4 DEF HandoutInv

LEMMA HolderStep ==
    TypeOK /\ KeyInv /\ HandoutInv /\ ClaimInv /\ DeliveredByHolder /\ [Next]_vars
    => DeliveredByHolder'
<1> SUFFICES ASSUME TypeOK, KeyInv, HandoutInv, ClaimInv, DeliveredByHolder, [Next]_vars
             PROVE  DeliveredByHolder'
  OBVIOUS
<1> USE DEF Entitled
<1>1. ASSUME NEW m \in Msg, InsertMessage(m) \/ InsertAgentMessage(m)
      PROVE  DeliveredByHolder'
  BY <1>1 DEF InsertMessage, InsertAgentMessage, InsertRow, DeliveredByHolder
<1>2. ASSUME NEW s \in Session, ClaimForSession(s) PROVE DeliveredByHolder'
  <2>1. ASSUME NEW m \in delivered' \ Corrupt
        PROVE  \E i \in acked' : i.msg = m /\ i.call = claim'[m] /\ Entitled(m, i.sess)
    <3>1. m \in delivered /\ m \in Msg
      BY <1>2, <2>1 DEF ClaimForSession, TypeOK
    <3>2. claim'[m] = claim[m] /\ acked' = acked
      BY <1>2, <3>1, TakenFacts DEF ClaimForSession
    <3>. QED BY <1>2, <2>1, <3>1, <3>2 DEF DeliveredByHolder
  <2>2. acked' \subseteq issued'
    BY <1>2, NewHandout DEF ClaimForSession, DeliveredByHolder
  <2>. QED BY <2>1, <2>2 DEF DeliveredByHolder
<1>3. ASSUME NEW k \in leased, LeaseLapses(k) PROVE DeliveredByHolder'
  BY <1>3 DEF LeaseLapses, store, DeliveredByHolder
<1>4. ASSUME NEW i \in issued, AckHandout(i) PROVE DeliveredByHolder'
  <2>1. claim' = claim /\ issued' = issued
    BY <1>4 DEF AckHandout, Ack
  <2>2. CASE AckedRows(i.sess, i.call) = {}
    BY <1>4, <2>1, <2>2 DEF AckHandout, Ack, DeliveredByHolder
  <2>3. CASE AckedRows(i.sess, i.call) # {}
    <3>1. AckedRows(i.sess, i.call) = {i.msg}
      <4>1. AckedRows(i.sess, i.call) \subseteq delivered' \ delivered
        BY <1>4 DEF AckHandout, Ack, AckedRows, AckedMessages, AckedAgentMessages
      <4>2. \A m \in AckedRows(i.sess, i.call) : m = i.msg
        BY <1>4, <4>1, AckSettlesItsRow
      <4>. QED BY <2>3, <4>2
    <3>2. i \in Handout /\ claim[i.msg] = i.call /\ Entitled(i.msg, i.sess)
      <4>1. i.msg \in delivered' \ delivered
        BY <1>4, <3>1 DEF AckHandout, Ack, AckedRows, AckedMessages, AckedAgentMessages
      <4>. QED BY <1>4, <4>1, AckSettlesItsRow DEF TypeOK
    <3>3. acked' = acked \cup {i} /\ delivered' = delivered \cup {i.msg}
      BY <1>4, <3>1, <3>2 DEF AckHandout, Ack, Handout
    <3>. QED BY <1>4, <2>1, <3>2, <3>3 DEF DeliveredByHolder
  <2>. QED BY <2>2, <2>3
<1>5. CASE RecoverStaleClaims
  BY <1>5 DEF RecoverStaleClaims, DeliveredByHolder, TypeOK
<1>6. ASSUME NEW s \in Session, CloseSession(s) PROVE DeliveredByHolder'
  BY <1>6 DEF CloseSession, store, DeliveredByHolder
<1>7. ASSUME NEW m \in AgentMsg, AgentMessageAges(m) PROVE DeliveredByHolder'
  BY <1>7 DEF AgentMessageAges, DeliveredByHolder
<1>8. ASSUME NEW S \in SUBSET closed, NEW hourly \in BOOLEAN, Housekeeping(S, hourly)
      PROVE  DeliveredByHolder'
  BY <1>8 DEF Housekeeping, DeliveredByHolder
<1>9. CASE UNCHANGED vars
  BY <1>9 DEF vars, DeliveredByHolder
<1>. QED
  BY <1>1, <1>2, <1>3, <1>4, <1>5, <1>6, <1>7, <1>8, <1>9 DEF Next

LEMMA LossStep == TypeOK /\ NoSilentLoss /\ [Next]_vars => NoSilentLoss'
<1> SUFFICES ASSUME TypeOK, NoSilentLoss, [Next]_vars PROVE NoSilentLoss'
  OBVIOUS
<1>1. ASSUME NEW m \in Msg, InsertMessage(m) \/ InsertAgentMessage(m)
      PROVE  NoSilentLoss'
  BY <1>1 DEF InsertMessage, InsertAgentMessage, InsertRow, NoSilentLoss, TypeOK
<1>2. ASSUME NEW s \in Session, ClaimForSession(s) PROVE NoSilentLoss'
  BY <1>2 DEF ClaimForSession, NoSilentLoss
<1>3. ASSUME NEW k \in leased, LeaseLapses(k) PROVE NoSilentLoss'
  BY <1>3 DEF LeaseLapses, store, NoSilentLoss
<1>4. ASSUME NEW i \in issued, AckHandout(i) PROVE NoSilentLoss'
  BY <1>4 DEF AckHandout, Ack, NoSilentLoss
<1>5. CASE RecoverStaleClaims
  BY <1>5 DEF RecoverStaleClaims, NoSilentLoss
<1>6. ASSUME NEW s \in Session, CloseSession(s) PROVE NoSilentLoss'
  BY <1>6 DEF CloseSession, store, NoSilentLoss
<1>7. ASSUME NEW m \in AgentMsg, AgentMessageAges(m) PROVE NoSilentLoss'
  BY <1>7 DEF AgentMessageAges, NoSilentLoss
<1>8. ASSUME NEW S \in SUBSET closed, NEW hourly \in BOOLEAN, Housekeeping(S, hourly)
      PROVE  NoSilentLoss'
  <2>1. ASSUME NEW m \in Msg \ ReplyMsg, m \in stored, m \notin stored', m \notin delivered
        PROVE  SessionOf[m] \in closed \/ m \in aged
    <3>1. m \in ArchivedRows(S) \cup aged \cup Overflow
      BY <1>8, <2>1 DEF Housekeeping
    <3>2. m \notin Overflow
      BY <2>1 DEF Overflow
    <3>. QED BY <3>1, <3>2 DEF ArchivedRows
  <2>. QED BY <1>8, <2>1 DEF Housekeeping, NoSilentLoss
<1>9. CASE UNCHANGED vars
  BY <1>9 DEF vars, NoSilentLoss
<1>. QED
  BY <1>1, <1>2, <1>3, <1>4, <1>5, <1>6, <1>7, <1>8, <1>9 DEF Next

\* A receive takes the oldest row of the queue the row belongs to.
LEMMA TakenIsOldest ==
    ASSUME NEW s \in Session, NEW x \in Taken(s)
    PROVE  \/ x \in UserMsg /\ x \in Oldest(Claimable(UserQueue(s)))
           \/ x \in AgentMsg /\ x \in Oldest(Claimable(AgentQueue(s)))
BY DEF Taken, ClaimNext, ClaimNextAgentMessage, Oldest, Claimable, UserQueue, AgentQueue

LEMMA OrderStep ==
    TypeOK /\ KeyInv /\ HandoutInv /\ ClaimInv /\ NoOvertaking /\ [Next]_vars
    => NoOvertaking'
<1> SUFFICES ASSUME TypeOK, KeyInv, HandoutInv, ClaimInv, NoOvertaking, [Next]_vars
             PROVE  NoOvertaking'
  OBVIOUS
<1> DEFINE Before(m, i) ==
      /\ Entitled(m, i.sess)
      /\ {m, i.msg} \subseteq UserMsg \/ {m, i.msg} \subseteq AgentMsg
<1>0. \A i \in issued : i.msg \in Msg /\ seq[i.msg] # 0
  BY DEF HandoutInv, TypeOK, Handout
<1>1. ASSUME NEW m \in Msg, InsertMessage(m) \/ InsertAgentMessage(m)
      PROVE  NoOvertaking'
  <2>1. InsertRow(m)
    BY <1>1 DEF InsertMessage, InsertAgentMessage
  <2>2. ASSUME NEW n \in stored' \ delivered', NEW i \in issued',
               Before(n, i), seq'[n] < seq'[i.msg]
        PROVE  \E j \in issued' : j.msg = n
    <3>1. i \in issued /\ i.msg # m /\ seq'[i.msg] = seq[i.msg] /\ seq[i.msg] < nextSeq
      BY <1>0, <2>1, <2>2 DEF InsertRow, TypeOK, KeyInv
    <3>2. n # m
      BY <2>1, <2>2, <3>1 DEF InsertRow, TypeOK
    <3>3. n \in stored \ delivered /\ seq'[n] = seq[n]
      BY <2>1, <2>2, <3>2 DEF InsertRow, TypeOK
    <3>. QED BY <2>1, <2>2, <3>1, <3>3 DEF InsertRow, NoOvertaking
  <2>. QED BY <2>2 DEF NoOvertaking, Entitled
<1>2. ASSUME NEW s \in Session, ClaimForSession(s) PROVE NoOvertaking'
  <2>1. seq' = seq /\ stored' = stored /\ delivered \subseteq delivered'
    BY <1>2 DEF ClaimForSession
  <2>2. ASSUME NEW n \in stored' \ delivered', NEW i \in issued',
               Before(n, i), seq'[n] < seq'[i.msg]
        PROVE  \E j \in issued' : j.msg = n
    <3>1. CASE i \in issued
      BY <1>2, <2>1, <2>2, <3>1, NewHandout DEF NoOvertaking
    <3>2. CASE i \in issued' \ issued
      <4>1. i.msg \in Taken(s) /\ i.sess = s
        BY <1>2, <3>2, NewHandout
      <4>2. SUFFICES ASSUME ~ \E j \in issued : j.msg = n PROVE FALSE
        BY <1>2, NewHandout
      <4>3. n \in Msg /\ n \in stored /\ n \notin delivered /\ seq[n] < seq[i.msg]
        BY <2>1, <2>2 DEF TypeOK
      <4>4. claim[n] = 0 /\ 0 \notin leased
        BY <4>2, <4>3 DEF ClaimInv, TypeOK
      <4>5. seq[n] \in Nat /\ seq[i.msg] \in Nat
        BY <4>1, <4>3, TakenFacts DEF TypeOK
      <4>6. CASE n \in UserMsg /\ i.msg \in UserMsg
        <5>1. n \in Claimable(UserQueue(s))
          BY <2>2, <4>1, <4>3, <4>4, <4>6 DEF Claimable, UserQueue, Entitled
        <5>2. i.msg \in Oldest(Claimable(UserQueue(s)))
          BY <4>1, <4>6, TakenIsOldest
        <5>3. seq[i.msg] <= seq[n]
          BY <5>1, <5>2 DEF Oldest
        <5>. QED BY <4>3, <4>5, <5>3
      <4>7. CASE n \in AgentMsg /\ i.msg \in AgentMsg
        <5>1. n \in Claimable(AgentQueue(s))
          BY <2>2, <4>1, <4>3, <4>4, <4>7 DEF Claimable, AgentQueue, Entitled
        <5>2. i.msg \in Oldest(Claimable(AgentQueue(s)))
          BY <4>1, <4>7, TakenIsOldest
        <5>3. seq[i.msg] <= seq[n]
          BY <5>1, <5>2 DEF Oldest
        <5>. QED BY <4>3, <4>5, <5>3
      <4>. QED BY <2>2, <4>6, <4>7
    <3>. QED BY <2>2, <3>1, <3>2
  <2>. QED BY <2>2 DEF NoOvertaking, Entitled
<1>3. ASSUME NEW k \in leased, LeaseLapses(k) PROVE NoOvertaking'
  BY <1>3 DEF LeaseLapses, store, NoOvertaking, Entitled
<1>4. ASSUME NEW i \in issued, AckHandout(i) PROVE NoOvertaking'
  BY <1>4 DEF AckHandout, Ack, NoOvertaking, Entitled
<1>5. CASE RecoverStaleClaims
  BY <1>5 DEF RecoverStaleClaims, NoOvertaking, Entitled
<1>6. ASSUME NEW s \in Session, CloseSession(s) PROVE NoOvertaking'
  BY <1>6 DEF CloseSession, store, NoOvertaking, Entitled
<1>7. ASSUME NEW m \in AgentMsg, AgentMessageAges(m) PROVE NoOvertaking'
  BY <1>7 DEF AgentMessageAges, NoOvertaking, Entitled
<1>8. ASSUME NEW S \in SUBSET closed, NEW hourly \in BOOLEAN, Housekeeping(S, hourly)
      PROVE  NoOvertaking'
  BY <1>8 DEF Housekeeping, NoOvertaking, Entitled
<1>9. CASE UNCHANGED vars
  BY <1>9 DEF vars, NoOvertaking, Entitled
<1>. QED
  BY <1>1, <1>2, <1>3, <1>4, <1>5, <1>6, <1>7, <1>8, <1>9 DEF Next

-------------------------------------------------------------------------------
(***************************************************************************)
(* The theorems.                                                           *)
(***************************************************************************)
LEMMA IInvInit == Init => IInv
BY DEF Init, IInv, TypeOK, KeyInv, HandoutInv, ClaimInv, DeliveredByHolder,
       NoSilentLoss, NoOvertaking

LEMMA IInvStep == IInv /\ [Next]_vars => IInv'
BY TypeStep, KeyStep, HandoutStep, ClaimStep, HolderStep, LossStep, OrderStep DEF IInv

LEMMA IInvHolds == Spec => []IInv
BY IInvInit, IInvStep, PTL DEF Spec

\* While a claim's lease runs, and until the next boot, nobody else is handed
\* the row: claimSql's lease condition, for any number of sessions and sockets.
THEOREM LeaseIsExclusive == Spec => []ExclusiveLease
<1>1. IInv => ExclusiveLease
  BY DEF IInv, ClaimInv, HandoutInv, ExclusiveLease
<1>. QED BY <1>1, IInvHolds, PTL

\* A message is marked delivered only by the session that holds its last claim.
THEOREM DeliveryNeedsHolder == Spec => []DeliveredByHolder
<1>1. IInv => DeliveredByHolder
  BY DEF IInv
<1>. QED BY <1>1, IInvHolds, PTL

\* Undelivered messages leave the tables only by archive drop or by age.
THEOREM LossIsAccounted == Spec => []NoSilentLoss
<1>1. IInv => NoSilentLoss
  BY DEF IInv
<1>. QED BY <1>1, IInvHolds, PTL

\* First handouts of a queue follow insertion order.
THEOREM QueueIsFifo == Spec => []NoOvertaking
<1>1. IInv => NoOvertaking
  BY DEF IInv
<1>. QED BY <1>1, IInvHolds, PTL

\* A delivered row keeps its claim and is never handed out again.
THEOREM DeliveryIsFinal == Spec => SettledForGood
<1> DEFINE Final == \A m \in delivered :
              /\ m \in delivered'
              /\ claim'[m] = claim[m]
              /\ \A i \in issued' \ issued : i.msg # m
<1>1. IInv /\ [Next]_vars => [Final]_vars
  <2> SUFFICES ASSUME IInv, Next PROVE Final
    OBVIOUS
  <2> USE DEF IInv
  <2>1. ASSUME NEW m \in Msg, InsertMessage(m) \/ InsertAgentMessage(m) PROVE Final
    BY <2>1 DEF InsertMessage, InsertAgentMessage, InsertRow
  <2>2. ASSUME NEW s \in Session, ClaimForSession(s) PROVE Final
    <3>1. delivered \subseteq delivered'
      BY <2>2 DEF ClaimForSession
    <3>2. \A m \in delivered : m \in Msg /\ m \notin Taken(s)
      BY TakenFacts DEF TypeOK
    <3>3. \A m \in delivered : claim'[m] = claim[m]
      BY <2>2, <3>2 DEF ClaimForSession
    <3>. QED BY <2>2, <3>1, <3>2, <3>3, NewHandout
  <2>3. ASSUME NEW k \in leased, LeaseLapses(k) PROVE Final
    BY <2>3 DEF LeaseLapses, store
  <2>4. ASSUME NEW i \in issued, AckHandout(i) PROVE Final
    BY <2>4 DEF AckHandout, Ack
  <2>5. CASE RecoverStaleClaims
    BY <2>5 DEF RecoverStaleClaims, TypeOK
  <2>6. ASSUME NEW s \in Session, CloseSession(s) PROVE Final
    BY <2>6 DEF CloseSession, store
  <2>7. ASSUME NEW m \in AgentMsg, AgentMessageAges(m) PROVE Final
    BY <2>7 DEF AgentMessageAges
  <2>8. ASSUME NEW S \in SUBSET closed, NEW hourly \in BOOLEAN, Housekeeping(S, hourly)
        PROVE  Final
    BY <2>8 DEF Housekeeping
  <2>. QED BY <2>1, <2>2, <2>3, <2>4, <2>5, <2>6, <2>7, <2>8 DEF Next
<1>. QED BY <1>1, IInvHolds, PTL DEF Spec, SettledForGood

\* The claim-and-lease queues implement the abstract at-least-once queue.
THEOREM QueuesImplementAtLeastOnce == Spec => ImplementsAtLeastOnce
<1> USE DEF Accepted, Handed, Settled, Withdrawn
<1>1. Init => Abstract!Init
  BY DEF Init, Abstract!Init
<1>2. IInv /\ [Next]_vars => [Abstract!Next]_Abstract!vars
  <2> SUFFICES ASSUME IInv, [Next]_vars
               PROVE  Abstract!Next \/ UNCHANGED Abstract!vars
    OBVIOUS
  <2> USE DEF IInv
  <2>1. ASSUME NEW m \in Msg, InsertMessage(m) \/ InsertAgentMessage(m)
        PROVE  Abstract!Next
    <3>1. InsertRow(m)
      BY <2>1 DEF InsertMessage, InsertAgentMessage
    <3>2. /\ m \in Msg \ Accepted
          /\ Accepted' = Accepted \cup {m}
      BY <3>1 DEF InsertRow, TypeOK
    <3>3. Withdrawn' = Withdrawn
      BY <3>1, <3>2 DEF InsertRow
    <3>. QED BY <3>1, <3>2, <3>3 DEF InsertRow, Abstract!Accept, Abstract!Next
  <2>2. ASSUME NEW s \in Session, ClaimForSession(s)
        PROVE  Abstract!Next
    <3>1. Taken(s) \subseteq Abstract!Pending
      BY TakenFacts DEF Abstract!Pending, KeyInv, TypeOK
    <3>2. Accepted' = Accepted /\ Settled' = Settled
      BY <2>2 DEF ClaimForSession
    <3>3. Withdrawn' = Withdrawn \cup (Taken(s) \cap Corrupt)
      BY <2>2, TakenFacts DEF ClaimForSession
    <3>4. Handed' = Handed \cup [call : {calls + 1}, msg : Taken(s) \ Corrupt]
      <4>1. issued' = issued \cup [call : {calls + 1}, msg : Taken(s) \ Corrupt, sess : {s}]
        BY <2>2 DEF ClaimForSession
      <4> DEFINE Pair(i) == [call |-> i.call, msg |-> i.msg]
                 NewPairs == [call : {calls + 1}, msg : Taken(s) \ Corrupt]
      <4>2. ASSUME NEW i \in issued' PROVE Pair(i) \in Handed \cup NewPairs
        BY <4>1, <4>2
      <4>3. ASSUME NEW h \in NewPairs PROVE h \in Handed'
        <5>1. PICK m \in Taken(s) \ Corrupt : h = [call |-> calls + 1, msg |-> m]
          OBVIOUS
        <5>2. [call |-> calls + 1, msg |-> m, sess |-> s] \in issued'
          BY <4>1, <5>1
        <5>3. PICK i \in issued' : i = [call |-> calls + 1, msg |-> m, sess |-> s]
          BY <5>2
        <5>. QED BY <5>1, <5>3
      <4>4. Handed \subseteq Handed'
        BY <4>1
      <4>5. Handed' \subseteq Handed \cup NewPairs
        <5>1. SUFFICES ASSUME NEW h \in Handed' PROVE h \in Handed \cup NewPairs
          OBVIOUS
        <5>2. PICK i \in issued' : h = Pair(i)
          BY <5>1
        <5>. QED BY <4>2, <5>2
      <4>6. Handed \cup NewPairs \subseteq Handed'
        BY <4>3, <4>4
      <4>. QED BY ONLY <4>5, <4>6, Zenon
    <3>5. PICK lost \in SUBSET Msg, given \in SUBSET Msg :
            lost = Taken(s) \cap Corrupt /\ given = Taken(s) \ Corrupt
      BY TakenFacts DEF TypeOK
    <3>6. PICK k \in 1..MaxCalls : k = calls + 1
      BY <2>2 DEF ClaimForSession, TypeOK
    <3>7. \A h \in Handed : h.call # k
      BY <3>6 DEF HandoutInv, TypeOK, Handout
    <3>8. Abstract!Serve(k, lost, given)
      BY <3>1, <3>2, <3>3, <3>4, <3>5, <3>6, <3>7, TakenFacts DEF Abstract!Serve
    <3>9. lost \subseteq Abstract!Pending /\ given \subseteq Abstract!Pending \ lost
      BY <3>8 DEF Abstract!Serve
    <3>. QED BY <3>8, <3>9 DEF Abstract!Next
  <2>3. ASSUME NEW k \in leased, LeaseLapses(k) PROVE UNCHANGED Abstract!vars
    BY <2>3 DEF LeaseLapses, store, Abstract!vars
  <2>4. ASSUME NEW i \in issued, AckHandout(i)
        PROVE  Abstract!Next \/ UNCHANGED Abstract!vars
    <3>1. /\ seq' = seq /\ stored' = stored /\ issued' = issued
          /\ delivered \subseteq delivered'
      BY <2>4 DEF AckHandout, Ack
    <3>2. CASE delivered' = delivered
      BY <3>1, <3>2 DEF Abstract!vars
    <3>3. CASE delivered' # delivered
      <4>1. delivered' = delivered \cup {i.msg} /\ i.msg \notin delivered /\ i.msg \in stored
        <5>1. \A m \in delivered' \ delivered : m = i.msg /\ m \in stored
          BY <2>4, AckSettlesItsRow
        <5>2. PICK m : m \in delivered' \ delivered
          BY <3>1, <3>3
        <5>. QED BY <3>1, <5>1, <5>2
      <4>2. /\ i.msg \in Accepted /\ i.msg \notin Corrupt
            /\ \E h \in Handed : h.msg = i.msg
        <5>1. [call |-> i.call, msg |-> i.msg] \in Handed
          BY <2>4
        <5>2. \E h \in Handed : h.msg = i.msg
          BY <5>1, Zenon
        <5>. QED BY <2>4, <4>1, <5>2 DEF HandoutInv, KeyInv, TypeOK
      <4>3. i.msg \in Abstract!Pending
        BY <4>1, <4>2 DEF Abstract!Pending
      <4>4. Settled' = Settled \cup {i.msg} /\ Withdrawn' = Withdrawn
        BY <3>1, <4>1, <4>2
      <4>5. Abstract!Settle(i.msg)
        BY <3>1, <4>2, <4>3, <4>4 DEF Abstract!Settle
      <4>. QED BY <4>1, <4>5 DEF Abstract!Next, TypeOK
    <3>. QED BY <3>2, <3>3
  <2>5. CASE RecoverStaleClaims
    BY <2>5 DEF RecoverStaleClaims, Abstract!vars
  <2>6. ASSUME NEW s \in Session, CloseSession(s) PROVE UNCHANGED Abstract!vars
    BY <2>6 DEF CloseSession, store, Abstract!vars
  <2>7. ASSUME NEW m \in AgentMsg, AgentMessageAges(m) PROVE UNCHANGED Abstract!vars
    BY <2>7 DEF AgentMessageAges, Abstract!vars
  <2>8. ASSUME NEW S \in SUBSET closed, NEW hourly \in BOOLEAN, Housekeeping(S, hourly)
        PROVE  Abstract!Next
    <3>1. /\ seq' = seq /\ delivered' = delivered /\ issued' = issued
          /\ stored' \subseteq stored
      BY <2>8 DEF Housekeeping
    <3>2. (stored \ stored') \ delivered \subseteq Abstract!Pending
      BY DEF Abstract!Pending, KeyInv, TypeOK
    <3>3. Withdrawn' = Withdrawn \cup ((stored \ stored') \ delivered)
      BY <3>1 DEF KeyInv, TypeOK
    <3>4. PICK lost \in SUBSET Msg : lost = (stored \ stored') \ delivered
      BY DEF TypeOK
    <3>5. Abstract!Withdraw(lost)
      BY <3>1, <3>2, <3>3, <3>4 DEF Abstract!Withdraw
    <3>. QED BY <3>5 DEF Abstract!Next, Abstract!Withdraw
  <2>9. CASE UNCHANGED vars
    BY <2>9 DEF vars, Abstract!vars
  <2>. QED
    BY <2>1, <2>2, <2>3, <2>4, <2>5, <2>6, <2>7, <2>8, <2>9 DEF Next
<1>. QED BY <1>1, <1>2, IInvHolds, PTL DEF Spec, ImplementsAtLeastOnce, Abstract!Spec
-------------------------------------------------------------------------------
(***************************************************************************)
(* The receivers.  What a claim leaves behind.                             *)
(***************************************************************************)
\* A set of keys has a least one.
LEMMA LeastKey ==
    ASSUME NEW T, T \subseteq Nat, T # {}
    PROVE  \E x \in T : \A y \in T : x <= y
<1> DEFINE R == {ss \in Nat \X Nat : ss[1] < ss[2]}
<1>1. IsWellFoundedOn(R, Nat)
  BY NatLessThanWellFounded, Zenon DEF OpToRel
<1>2. ASSUME NEW x \in Nat, NEW y \in Nat, ~ (<<y, x>> \in R)
      PROVE  x <= y
  BY <1>2
<1> HIDE DEF R
<1>3. PICK x \in T : \A y \in T : ~ (<<y, x>> \in R)
  BY <1>1, WFMin, Zenon
<1>4. \A y \in T : x <= y
  BY <1>2, <1>3, Zenon
<1>. QED BY <1>4

\* So a queue with a claimable row has an oldest one.
LEMMA OldestExists ==
    ASSUME TypeOK, NEW R, R \subseteq Msg, R # {}
    PROVE  Oldest(R) # {}
<1> DEFINE T == {seq[m] : m \in R}
<1>1. T \subseteq Nat /\ T # {}
  BY DEF TypeOK
<1>2. PICK k \in T : \A j \in T : k <= j
  BY <1>1, LeastKey
<1>3. PICK m \in R : seq[m] = k
  BY <1>2
<1>4. \A n \in R : seq[m] <= seq[n]
  BY <1>2, <1>3
<1>. QED BY <1>4 DEF Oldest

\* What a session may claim.
Waiting(s) == Claimable(UserQueue(s) \cup AgentQueue(s))

\* A call that takes nothing leaves nothing.
LEMMA NothingTaken ==
    ASSUME TypeOK, NEW s \in Session, Taken(s) = {}
    PROVE  Waiting(s) = {}
<1>1. ClaimNext(s) = {} /\ ClaimNextAgentMessage(s) = {}
  BY DEF Taken
<1>2. Claimable(UserQueue(s)) \subseteq Msg /\ Claimable(AgentQueue(s)) \subseteq Msg
  BY DEF Claimable, UserQueue, AgentQueue
<1>3. Claimable(UserQueue(s)) = {} /\ Claimable(AgentQueue(s)) = {}
  BY <1>1, <1>2, OldestExists DEF ClaimNext, ClaimNextAgentMessage
<1>. QED BY <1>3 DEF Waiting, Claimable

\* A call that only drops rows leaves what stands behind them.
LEMMA OnlyDropped ==
    ASSUME IInv, NEW s \in Session, ClaimForSession(s), Taken(s) \subseteq Corrupt,
           NEW m \in Waiting(s)'
    PROVE  \E n \in Corrupt \cap delivered' : seq'[n] < seq'[m]
<1> USE DEF IInv
<1>1. /\ seq' = seq /\ stored' = stored
      /\ claim' = [n \in Msg |-> IF n \in Taken(s) THEN calls' ELSE claim[n]]
      /\ leased' = leased \cup {calls'}
      /\ delivered' = delivered \cup Taken(s)
  BY DEF ClaimForSession
<1>2. /\ m \in Msg /\ m \in stored /\ m \notin delivered' /\ claim'[m] \notin leased'
      /\ m \in UserQueue(s) \/ m \in AgentQueue(s)
  BY <1>1 DEF Waiting, Claimable, UserQueue, AgentQueue
<1>3. m \notin Taken(s) /\ m \notin delivered /\ claim[m] \notin leased
  BY <1>1, <1>2
<1>4. ASSUME NEW R, R \subseteq stored, m \in R, Oldest(R) \subseteq Taken(s)
      PROVE  \E n \in Corrupt \cap delivered' : seq'[n] < seq'[m]
  <2>1. PICK n : n \in Oldest(R)
    BY <1>4, OldestExists DEF TypeOK
  <2>2. n \in R /\ seq[n] <= seq[m] /\ n \in Taken(s) /\ n # m /\ n \in Msg
    BY <1>3, <1>4, <2>1 DEF Oldest, TypeOK
  <2>3. seq[n] # seq[m] /\ seq[n] \in Nat /\ seq[m] \in Nat
    BY <1>2, <1>4, <2>2 DEF KeyInv, TypeOK
  <2>. QED BY <1>1, <2>2, <2>3
<1>5. CASE m \in UserQueue(s)
  <2>1. m \in Claimable(UserQueue(s)) /\ Claimable(UserQueue(s)) \subseteq stored
    BY <1>3, <1>5 DEF Claimable, UserQueue
  <2>2. Oldest(Claimable(UserQueue(s))) \subseteq Taken(s)
    BY DEF Taken, ClaimNext
  <2>. QED BY <1>4, <2>1, <2>2
<1>6. CASE m \in AgentQueue(s)
  <2>1. m \in Claimable(AgentQueue(s)) /\ Claimable(AgentQueue(s)) \subseteq stored
    BY <1>3, <1>6 DEF Claimable, AgentQueue
  <2>2. Oldest(Claimable(AgentQueue(s))) \subseteq Taken(s)
    BY DEF Taken, ClaimNext, ClaimNextAgentMessage
  <2>. QED BY <1>4, <2>1, <2>2
<1>. QED BY <1>2, <1>5, <1>6

\* claimForSession for the receive of c: it yields a message, or none.
Hit(c) == ClaimForSession(ClientSession[c]) /\ ~(Taken(ClientSession[c]) \subseteq Corrupt)

Miss(c) ==
    \/ Taken(ClientSession[c]) = {} /\ UNCHANGED queue
    \/ ClaimForSession(ClientSession[c]) /\ Taken(ClientSession[c]) \subseteq Corrupt

\* A receive that got nothing has heard of everything.
LEMMA MissHears ==
    ASSUME IInv, ClientAssumption, NEW c \in Client, Miss(c)
    PROVE  /\ issued' = issued /\ closed' = closed /\ calls <= calls'
           /\ Heard(c)'
<1> DEFINE s == ClientSession[c]
<1>1. s \in Session
  BY DEF ClientAssumption
<1>2. CASE Taken(s) = {} /\ UNCHANGED queue
  <2>1. Waiting(s) = {} /\ UNCHANGED vars
    BY <1>1, <1>2, NothingTaken DEF IInv, queue
  <2>2. Waiting(s)' = {}
    BY <2>1 DEF vars, Waiting, Claimable, UserQueue, AgentQueue
  <2>3. issued' = issued /\ closed' = closed /\ calls <= calls'
    BY <2>1 DEF vars, IInv, TypeOK
  <2>4. Heard(c)'
    BY <2>2 DEF Heard, Waiting
  <2>. QED BY <2>3, <2>4
<1>3. CASE ClaimForSession(s) /\ Taken(s) \subseteq Corrupt
  <2>1. issued' = issued
    BY <1>3 DEF ClaimForSession
  <2>2. closed' = closed /\ calls' = calls + 1 /\ calls \in Nat
    BY <1>3 DEF ClaimForSession, IInv, TypeOK
  <2>. QED BY <1>1, <1>3, <2>1, <2>2, OnlyDropped DEF Heard, Waiting
<1>. QED BY <1>2, <1>3 DEF Miss

\* A receive that got a message holds the one new handout.
LEMMA HitHands ==
    ASSUME IInv, ClientAssumption, NEW c \in Client, Hit(c)
    PROVE  /\ closed' = closed /\ calls' = calls + 1 /\ calls \in Nat
           /\ issued \subseteq issued'
           /\ \A i \in issued' \ issued : i.call = calls'
           /\ \E i \in issued' : i.call = calls' /\ i.sess = ClientSession[c]
<1> DEFINE s == ClientSession[c]
<1>1. s \in Session
  BY DEF ClientAssumption
<1>2. closed' = closed /\ calls' = calls + 1 /\ calls \in Nat
  BY DEF Hit, ClaimForSession, IInv, TypeOK
<1>3. /\ issued \subseteq issued'
      /\ \A i \in issued' \ issued : i.call = calls + 1
  BY <1>1, NewHandout DEF Hit, IInv
<1>4. PICK m \in Taken(s) : m \notin Corrupt
  BY DEF Hit
<1>5. [call |-> calls', msg |-> m, sess |-> s] \in issued'
  BY <1>4 DEF Hit, ClaimForSession
<1>6. PICK i \in issued' : i = [call |-> calls', msg |-> m, sess |-> s]
  BY <1>5
<1>7. i.call = calls' /\ i.sess = s
  BY <1>6
<1>8. \A j \in issued' \ issued : j.call = calls'
  BY <1>2, <1>3
<1>. QED BY <1>2, <1>3, <1>7, <1>8
-------------------------------------------------------------------------------
(***************************************************************************)
(* The inductive invariant of the receivers.                               *)
(***************************************************************************)
Awaiting == {"asked", "askedToBlock", "parked"}

\* A receive under way has no answer yet; an answer that names a claim was made to a
\* receive of the session the claim was given to.
AnswerInv ==
    \A c \in Client :
        /\ conn[c] \in Awaiting => answer[c] = NoAnswer
        /\ conn[c] = "none" /\ side[c] \notin {"told", "printed"} => answer[c] = NoAnswer
        /\ answer[c].outcome = "delivered" <=> answer[c].call # 0
        /\ answer[c].call # 0 =>
             \E i \in issued : i.call = answer[c].call /\ i.sess = ClientSession[c]
        /\ side[c] \in {"told", "printed"} => answer[c].outcome = "delivered"

\* What is acknowledged was printed by the process the claim was given to.
AckInv ==
    /\ \A c \in Client : side[c] = "printed" => answer[c].call \in printed
    /\ \A a \in acks :
         /\ a.call \in printed
         /\ \E i \in issued : i.call = a.call /\ i.sess = ClientSession[a.client]
    /\ \A i \in acked : i.call \in printed

\* Without failures the daemon is up, and a process has its socket until it ends.
CalmInv ==
    failures = 0 =>
        /\ up
        /\ \A c \in Client :
             /\ side[c] # "off" => conn[c] # "none"
             /\ conn[c] \in Awaiting => side[c] = "asking"

\* A parked receive has heard of everything, or has still to run for the last insert.
ListenInv == \A c \in listeners \ ringing : Heard(c)

\* What was handed out is still in its table: no prune runs beside the receivers.
KeptInv == \A i \in issued : i.msg \in stored

RecvIInv ==
    /\ IInv /\ RecvTypeOK
    /\ AnswerInv /\ AckInv /\ CalmInv /\ ListenInv /\ KeptInv /\ NoClaimOrphaned

\* An ack on the wire names a handout of its session.
LEMMA AckOfHandout ==
    ASSUME AckInv, ClientAssumption, NEW a \in acks,
           Ack(ClientSession[a.client], a.call)
    PROVE  \E i \in issued : AckHandout(i) /\ i.call = a.call
BY DEF AckInv, AckHandout

\* What the receivers do to the queues, the queues allow.
LEMMA RecvStepIsQueueStep ==
    ASSUME RecvIInv, ClientAssumption, [RecvNext]_recvVars
    PROVE  [Next]_vars
<1> USE DEF queue
<1>1. ASSUME NEW c \in Client, HandleRecv(c) \/ Poll(c) \/ WakeUp(c)
      PROVE  [Next]_vars
  <2>1. ClientSession[c] \in Session
    BY DEF ClientAssumption
  <2>2. UNCHANGED vars \/ ClaimForSession(ClientSession[c])
    BY <1>1 DEF HandleRecv, Poll, WakeUp, TryClaim
  <2>. QED BY <2>1, <2>2 DEF Next
<1>2. CASE Ring
  <2>1. PICK c \in ringing : WakeUp(c)
    BY <1>2 DEF Ring
  <2>. QED BY <1>1, <2>1 DEF RecvIInv, RecvTypeOK
<1>3. ASSUME NEW a \in acks, HandleAck(a)
      PROVE  [Next]_vars
  <2>1. Ack(ClientSession[a.client], a.call) \/ UNCHANGED vars
    BY <1>3 DEF HandleAck
  <2>. QED BY <2>1, AckOfHandout DEF RecvIInv, Next
<1>4. ASSUME NEW m \in Msg, Insert(m)
      PROVE  [Next]_vars
  BY <1>4 DEF Insert, Next
<1>5. ASSUME NEW s \in Session, SessionCloses(s)
      PROVE  [Next]_vars
  BY <1>5 DEF SessionCloses, Next
<1>6. ASSUME NEW k \in leased, Lapse(k)
      PROVE  [Next]_vars
  BY <1>6 DEF Lapse, Next
<1>7. CASE Boot \/ RivalBoot
  BY <1>7 DEF Boot, RivalBoot, Next
<1>8. CASE Crash \/ UNCHANGED recvVars
  BY <1>8 DEF Crash, recvVars
<1>9. ASSUME NEW c \in Client,
             \/ RefuseRecv(c) \/ Timeout(c) \/ SocketCloses(c) \/ Read(c) \/ WriteOut(c)
             \/ SendAck(c) \/ Die(c) \/ GiveUp(c) \/ \E block \in BOOLEAN : Ask(c, block)
      PROVE  [Next]_vars
  BY <1>9 DEF RefuseRecv, Timeout, SocketCloses, Read, WriteOut, SendAck, Die, GiveUp, Ask
<1>. QED
  BY <1>1, <1>2, <1>3, <1>4, <1>5, <1>6, <1>7, <1>8, <1>9 DEF RecvNext

\* A step of the queues forgets no handout and undoes no delivery.
LEMMA QueueGrows ==
    ASSUME TypeOK, [Next]_vars
    PROVE  issued \subseteq issued' /\ calls <= calls' /\ delivered \subseteq delivered'
<1>1. ASSUME NEW s \in Session, ClaimForSession(s)
      PROVE  issued \subseteq issued' /\ calls <= calls' /\ delivered \subseteq delivered'
  BY <1>1 DEF ClaimForSession, TypeOK
<1>2. CASE ~ \E s \in Session : ClaimForSession(s)
  BY <1>2 DEF Next, InsertMessage, InsertAgentMessage, InsertRow, LeaseLapses, store,
     AckHandout, Ack, RecoverStaleClaims, CloseSession, AgentMessageAges, Housekeeping, vars, TypeOK
<1>. QED BY <1>1, <1>2

\* A receive that is handled: it was given a message, or none and it parks, or ends.
LEMMA Handled ==
    ASSUME ClientAssumption, NEW c \in Client, HandleRecv(c)
    PROVE  \/ Hit(c) /\ Delivered(c)
           \/ Miss(c) /\ Park(c)
           \/ Miss(c) /\ Finish(c, Silent("empty"))
BY DEF HandleRecv, TryClaim, Hit, Miss

\* A parked receive that is woken: it was given a message, or stays.
LEMMA Woken ==
    ASSUME NEW c \in Client, WakeUp(c), conn[c] = "parked"
    PROVE  \/ Hit(c) /\ Delivered(c)
           \/ Miss(c) /\ UNCHANGED <<conn, answer, listeners, ahead>>
BY DEF WakeUp, TryClaim, Hit, Miss

\* Whom a store event wakes, or the poll, is parked.
LEMMA RingsParked ==
    ASSUME RecvTypeOK, Ring
    PROVE  \E c \in Client :
             /\ conn[c] = "parked" /\ WakeUp(c) /\ ringing' = ringing \ {c} /\ c \in ringing
             /\ UNCHANGED <<up, side, acks, printed, failures, slow>>
BY DEF Ring, RecvTypeOK
\* Types.
LEMMA RecvTypeStep ==
    ASSUME RecvIInv, ClientAssumption, [RecvNext]_recvVars
    PROVE  RecvTypeOK'
<1>0. calls <= calls' /\ calls \in Nat /\ calls' \in Nat
  BY RecvStepIsQueueStep, QueueGrows, IInvStep DEF RecvIInv, IInv, TypeOK
<1>1. TypeOK'
  BY RecvStepIsQueueStep, IInvStep DEF RecvIInv, IInv
<1> USE DEF RecvTypeOK, RecvIInv
\* Answers, acks and prints that stay are still of their type.
<1>a. 0..calls \subseteq 0..calls' /\ 1..calls \subseteq 1..calls'
  BY <1>0
<1>b. /\ answer \in [Client -> [outcome : Outcome, call : 0..calls']]
      /\ acks \subseteq [client : Client, call : 1..calls']
      /\ printed \subseteq 1..calls'
  BY <1>a
<1>c. Silent("timeout") \in [outcome : Outcome, call : 0..calls']
      /\ Silent("closed") \in [outcome : Outcome, call : 0..calls']
      /\ Silent("refused") \in [outcome : Outcome, call : 0..calls']
      /\ Silent("empty") \in [outcome : Outcome, call : 0..calls']
      /\ NoAnswer \in [outcome : Outcome, call : 0..calls']
      /\ [outcome |-> "delivered", call |-> calls'] \in [outcome : Outcome, call : 0..calls']
  BY <1>0 DEF Silent, NoAnswer, Outcome
<1>2. ASSUME NEW c \in Client, NEW result \in [outcome : Outcome, call : 0..calls'],
             Finish(c, result), ringing' \subseteq ringing \ {c},
             UNCHANGED <<up, side, acks, printed, failures, slow>>
      PROVE  RecvTypeOK'
  <2>1. answer' \in [Client -> [outcome : Outcome, call : 0..calls']]
    BY <1>b, <1>2 DEF Finish
  <2>2. /\ listeners' = listeners \ {c} /\ ahead' \in [Client -> SUBSET Client]
        /\ conn' = [conn EXCEPT ![c] = "served"]
    BY <1>2 DEF Finish, Drop
  <2>3. listeners' = {d \in Client : conn'[d] = "parked"}
    BY <2>2
  <2>. QED BY <1>b, <1>2, <2>1, <2>2, <2>3
<1>3. ASSUME NEW c \in Client, HandleRecv(c)
      PROVE  RecvTypeOK'
  <2>1. ringing' = {} /\ UNCHANGED <<up, side, acks, printed, failures, slow>>
    BY <1>3 DEF HandleRecv, Turn
  <2>2. CASE Delivered(c) \/ Finish(c, Silent("empty"))
    BY <1>2, <1>c, <2>1, <2>2 DEF Delivered
  <2>3. CASE Park(c)
    <3>1. /\ conn' = [conn EXCEPT ![c] = "parked"] /\ listeners' = listeners \cup {c}
          /\ ahead' \in [Client -> SUBSET Client] /\ answer' = answer
      BY <2>3 DEF Park
    <3>2. listeners' = {d \in Client : conn'[d] = "parked"}
      BY <3>1
    <3>. QED BY <1>b, <2>1, <3>1, <3>2
  <2>. QED BY <1>3, <2>2, <2>3, Handled
<1>4. ASSUME NEW c \in Client, conn[c] = "parked", WakeUp(c), ringing' \subseteq ringing \ {c},
             UNCHANGED <<up, side, acks, printed, failures, slow>>
      PROVE  RecvTypeOK'
  <2>1. CASE Delivered(c)
    BY <1>2, <1>4, <1>c, <2>1 DEF Delivered
  <2>2. CASE UNCHANGED <<conn, answer, listeners, ahead>>
    BY <1>4, <1>b, <2>2
  <2>. QED BY <1>4, <2>1, <2>2, Woken
<1>5. CASE Ring
  BY <1>4, <1>5, RingsParked
<1>6. ASSUME NEW c \in Client, Poll(c)
      PROVE  RecvTypeOK'
  BY <1>4, <1>6 DEF Poll, Turn
<1>7. ASSUME NEW c \in Client, RefuseRecv(c) \/ Timeout(c)
      PROVE  RecvTypeOK'
  BY <1>2, <1>7, <1>c DEF RefuseRecv, Timeout, Turn
<1>8. ASSUME NEW a \in acks, HandleAck(a)
      PROVE  RecvTypeOK'
  BY <1>8, <1>b DEF HandleAck
<1>9. ASSUME NEW c \in Client, SocketCloses(c)
      PROVE  RecvTypeOK'
  <2>1. answer' \in [Client -> [outcome : Outcome, call : 0..calls']]
    BY <1>b, <1>c, <1>9 DEF SocketCloses
  <2>2. /\ listeners' = listeners \ {c} /\ ahead' \in [Client -> SUBSET Client]
        /\ conn' = [conn EXCEPT ![c] = "none"] /\ ringing' = {}
    BY <1>9 DEF SocketCloses, Drop, Turn
  <2>3. listeners' = {d \in Client : conn'[d] = "parked"}
    BY <2>2
  <2>. QED BY <1>9, <1>b, <2>1, <2>2, <2>3 DEF SocketCloses
<1>10. ASSUME NEW m \in Msg, Insert(m)
       PROVE  RecvTypeOK'
  BY <1>10, <1>b DEF Insert
<1>11. ASSUME NEW s \in Session, SessionCloses(s)
       PROVE  RecvTypeOK'
  <2> DEFINE parked == {c \in Client : conn[c] = "parked" /\ ClientSession[c] = s}
  <2>1. /\ conn' = [c \in Client |-> IF c \in parked THEN "served" ELSE conn[c]]
        /\ answer' = [c \in Client |-> IF c \in parked THEN Silent("closed") ELSE answer[c]]
        /\ listeners' = listeners \ parked /\ ahead' \in [Client -> SUBSET Client]
        /\ ringing' = {} /\ UNCHANGED <<up, side, acks, printed, failures, slow>>
    BY <1>11 DEF SessionCloses, Drop, Turn
  <2>2. answer' \in [Client -> [outcome : Outcome, call : 0..calls']]
    BY <1>b, <1>c, <2>1
  <2>3. listeners' = {d \in Client : conn'[d] = "parked"}
    BY <2>1
  <2>. QED BY <1>b, <2>1, <2>2, <2>3
<1>12. ASSUME NEW k \in leased, Lapse(k)
       PROVE  RecvTypeOK'
  BY <1>12, <1>b, ClientAssumption DEF Lapse, ClientAssumption
<1>13. CASE Crash
  <2>1. answer' \in [Client -> [outcome : Outcome, call : 0..calls']]
    BY <1>b, <1>c, <1>13 DEF Crash
  <2>2. failures' \in 0..MaxFailures
    BY <1>13 DEF Crash, Fail, ClientAssumption
  <2>. QED BY <1>13, <1>b, <2>1, <2>2 DEF Crash
<1>14. CASE Boot
  <2>1. /\ up' = TRUE /\ failures' \in 0..MaxFailures /\ slow' \in 0..MaxSlow
        /\ UNCHANGED <<side, conn, answer, listeners, ahead, ringing, acks, printed>>
    BY <1>14 DEF Boot
  <2>. QED BY <1>b, <2>1
<1>21. CASE RivalBoot
  <2>1. failures' \in 0..MaxFailures
    BY <1>21 DEF RivalBoot, Fail, ClientAssumption
  <2>. QED BY <1>21, <1>b, <2>1 DEF RivalBoot
<1>15. ASSUME NEW c \in Client, NEW block \in BOOLEAN, Ask(c, block)
       PROVE  RecvTypeOK'
  <2>1. conn' \in [Client -> {"none", "asked", "askedToBlock", "parked", "served"}]
        /\ listeners' = {d \in Client : conn'[d] = "parked"}
    BY <1>15 DEF Ask
  <2>. QED BY <1>15, <1>b, <2>1 DEF Ask
<1>16. ASSUME NEW c \in Client, Read(c) \/ GiveUp(c)
       PROVE  RecvTypeOK'
  BY <1>16, <1>b DEF Read, GiveUp
<1>17. ASSUME NEW c \in Client, WriteOut(c)
       PROVE  RecvTypeOK'
  <2>1. answer[c].call \in 1..calls'
    BY <1>17, <1>b DEF WriteOut, AnswerInv
  <2>. QED BY <1>17, <1>b, <2>1 DEF WriteOut
<1>18. ASSUME NEW c \in Client, SendAck(c)
       PROVE  RecvTypeOK'
  <2>1. answer[c].call \in 1..calls'
    BY <1>18, <1>b DEF SendAck, MaySendAck, AnswerInv
  <2>2. acks' \subseteq [client : Client, call : 1..calls']
    BY <1>18, <1>b, <2>1 DEF SendAck
  <2>3. answer' \in [Client -> [outcome : Outcome, call : 0..calls']]
    BY <1>18, <1>b, <1>c DEF SendAck
  <2>. QED BY <1>18, <1>b, <2>2, <2>3 DEF SendAck
<1>19. ASSUME NEW c \in Client, Die(c)
       PROVE  RecvTypeOK'
  <2>1. answer' \in [Client -> [outcome : Outcome, call : 0..calls']]
    BY <1>19, <1>b, <1>c DEF Die
  <2>. QED BY <1>19, <1>b, <2>1 DEF Die, Fail, ClientAssumption
<1>20. CASE UNCHANGED recvVars
  BY <1>20, <1>b DEF recvVars, processes
<1>. QED
  BY <1>3, <1>5, <1>6, <1>7, <1>8, <1>9, <1>10, <1>11, <1>12, <1>13, <1>14, <1>15, <1>16,
     <1>17, <1>18, <1>19, <1>20, <1>21 DEF RecvNext
\* A step of one receive's process leaves the answers of the others alone.
LEMMA AnswerStep ==
    ASSUME RecvIInv, ClientAssumption, [RecvNext]_recvVars
    PROVE  AnswerInv'
<1> DEFINE Good(c) ==
             /\ conn[c] \in Awaiting => answer[c] = NoAnswer
             /\ conn[c] = "none" /\ side[c] \notin {"told", "printed"} => answer[c] = NoAnswer
             /\ answer[c].outcome = "delivered" <=> answer[c].call # 0
             /\ answer[c].call # 0 =>
                  \E i \in issued : i.call = answer[c].call /\ i.sess = ClientSession[c]
             /\ side[c] \in {"told", "printed"} => answer[c].outcome = "delivered"
<1>0. issued \subseteq issued'
  BY RecvStepIsQueueStep, QueueGrows DEF RecvIInv, IInv
<1> USE DEF RecvIInv, RecvTypeOK
<1>1. SUFFICES ASSUME NEW c \in Client PROVE Good(c)'
  BY DEF AnswerInv
<1>a. Good(c)
  BY DEF AnswerInv
<1>b. ASSUME conn'[c] = conn[c], answer'[c] = answer[c], side'[c] = side[c]
      PROVE  Good(c)'
  BY <1>0, <1>a, <1>b
\* An answer without a message.
<1>c. ASSUME NEW o \in Outcome, o # "delivered", o # "none", answer'[c] = Silent(o),
             conn'[c] = "served", side'[c] \notin {"told", "printed"}
      PROVE  Good(c)'
  BY <1>c DEF Silent, NoAnswer, Awaiting
<1>d. conn[c] \in Awaiting => side[c] \notin {"told", "printed"}
  BY <1>a DEF NoAnswer
<1>e. ASSUME answer'[c] = NoAnswer, side'[c] \notin {"told", "printed"}
      PROVE  Good(c)'
  BY <1>e DEF NoAnswer
<1>2. ASSUME conn[c] \in Awaiting, side' = side, Hit(c), Delivered(c)
      PROVE  Good(c)'
  <2>1. answer'[c] = [outcome |-> "delivered", call |-> calls'] /\ conn'[c] = "served"
    BY <1>2 DEF Delivered, Finish
  <2>2. calls' # 0 /\ \E i \in issued' : i.call = calls' /\ i.sess = ClientSession[c]
    BY <1>2, HitHands
  <2>. QED BY <1>2, <2>1, <2>2, <1>d DEF Awaiting
<1>3. ASSUME NEW d \in Client, HandleRecv(d)
      PROVE  Good(c)'
  <2>0. side' = side /\ conn[d] \in Awaiting
    BY <1>3 DEF HandleRecv, Awaiting
  <2>1. CASE d # c
    <3>1. conn'[c] = conn[c] /\ answer'[c] = answer[c]
      <4>1. Delivered(d) \/ Park(d) \/ Finish(d, Silent("empty"))
        BY <1>3, Handled
      <4>. QED BY <2>1, <4>1 DEF Delivered, Finish, Park
    <3>. QED BY <1>b, <2>0, <3>1
  <2>2. CASE d = c
    <3>1. CASE Hit(c) /\ Delivered(c)
      BY <1>2, <2>0, <2>2, <3>1
    <3>2. CASE Park(c)
      <4>1. answer'[c] = NoAnswer
        BY <1>a, <2>0, <2>2, <3>2 DEF Park
      <4>. QED BY <1>d, <1>e, <2>0, <2>2, <4>1
    <3>3. CASE Finish(c, Silent("empty"))
      <4>1. answer'[c] = Silent("empty") /\ conn'[c] = "served"
        BY <3>3 DEF Finish
      <4>. QED BY <1>c, <1>d, <2>0, <2>2, <4>1 DEF Outcome
    <3>. QED BY <1>3, <2>2, <3>1, <3>2, <3>3, Handled
  <2>. QED BY <2>1, <2>2
<1>4. ASSUME NEW d \in Client, conn[d] = "parked", WakeUp(d), side' = side
      PROVE  Good(c)'
  <2>1. CASE Hit(d) /\ Delivered(d) /\ d # c
    <3>1. conn'[c] = conn[c] /\ answer'[c] = answer[c]
      BY <2>1 DEF Delivered, Finish
    <3>. QED BY <1>b, <1>4, <3>1
  <2>2. CASE Hit(d) /\ Delivered(d) /\ d = c
    BY <1>2, <1>4, <2>2 DEF Awaiting
  <2>3. CASE UNCHANGED <<conn, answer>>
    BY <1>b, <1>4, <2>3
  <2>. QED BY <1>4, <2>1, <2>2, <2>3, Woken
<1>5. CASE Ring
  BY <1>4, <1>5, RingsParked
<1>6. ASSUME NEW d \in Client, Poll(d)
      PROVE  Good(c)'
  BY <1>4, <1>6 DEF Poll
<1>7. ASSUME NEW d \in Client, NEW o \in {"refused", "timeout"}, conn[d] \in Awaiting,
             Finish(d, Silent(o)), side' = side
      PROVE  Good(c)'
  <2>1. CASE d # c
    <3>1. conn'[c] = conn[c] /\ answer'[c] = answer[c]
      BY <1>7, <2>1 DEF Finish
    <3>. QED BY <1>b, <1>7, <3>1
  <2>2. CASE d = c
    <3>1. answer'[c] = Silent(o) /\ conn'[c] = "served"
      BY <1>7, <2>2 DEF Finish
    <3>. QED BY <1>c, <1>d, <1>7, <2>2, <3>1 DEF Outcome
  <2>. QED BY <2>1, <2>2
<1>8. ASSUME NEW d \in Client, RefuseRecv(d) \/ Timeout(d)
      PROVE  Good(c)'
  BY <1>7, <1>8 DEF RefuseRecv, Timeout, Awaiting
<1>9. ASSUME NEW a \in acks, HandleAck(a)
      PROVE  Good(c)'
  BY <1>b, <1>9 DEF HandleAck
<1>10. ASSUME NEW d \in Client, SocketCloses(d)
       PROVE  Good(c)'
  <2>1. CASE d # c
    BY <1>b, <1>10, <2>1 DEF SocketCloses
  <2>2. CASE d = c
    BY <1>e, <1>10, <2>2 DEF SocketCloses
  <2>. QED BY <2>1, <2>2
<1>11. ASSUME NEW m \in Msg, Insert(m)
       PROVE  Good(c)'
  BY <1>b, <1>11 DEF Insert
<1>12. ASSUME NEW s \in Session, SessionCloses(s)
       PROVE  Good(c)'
  <2>1. CASE conn[c] = "parked" /\ ClientSession[c] = s
    <3>1. answer'[c] = Silent("closed") /\ conn'[c] = "served" /\ side' = side
      BY <1>12, <2>1 DEF SessionCloses
    <3>. QED BY <1>c, <1>d, <2>1, <3>1 DEF Outcome, Awaiting
  <2>2. CASE ~ (conn[c] = "parked" /\ ClientSession[c] = s)
    <3>1. answer'[c] = answer[c] /\ conn'[c] = conn[c] /\ side' = side
      BY <1>12, <2>2 DEF SessionCloses
    <3>. QED BY <1>b, <3>1
  <2>. QED BY <2>1, <2>2
<1>13. ASSUME NEW k \in leased, Lapse(k)
       PROVE  Good(c)'
  BY <1>b, <1>13 DEF Lapse
<1>14. CASE Crash
  <2>1. /\ conn'[c] = "none" /\ side' = side
        /\ answer'[c] = IF side[c] \in {"told", "printed"} THEN answer[c] ELSE NoAnswer
    BY <1>14 DEF Crash
  <2>2. CASE side[c] \in {"told", "printed"}
    BY <1>0, <1>a, <2>1, <2>2 DEF Awaiting
  <2>. QED BY <1>e, <2>1, <2>2
<1>15. CASE Boot \/ RivalBoot
  BY <1>b, <1>15 DEF Boot, RivalBoot
<1>16. ASSUME NEW d \in Client, NEW block \in BOOLEAN, Ask(d, block)
       PROVE  Good(c)'
  <2>1. CASE d # c
    BY <1>b, <1>16, <2>1 DEF Ask
  <2>2. CASE d = c
    BY <1>a, <1>e, <1>16, <2>2 DEF Ask
  <2>. QED BY <2>1, <2>2
<1>17. ASSUME NEW d \in Client, Read(d) \/ WriteOut(d) \/ GiveUp(d)
       PROVE  Good(c)'
  <2>1. UNCHANGED <<conn, answer>>
    BY <1>17 DEF Read, WriteOut, GiveUp
  <2>2. CASE side'[c] = side[c]
    BY <1>b, <2>1, <2>2
  <2>3. CASE side'[c] # side[c]
    <3>1. d = c
      BY <1>17, <2>3 DEF Read, WriteOut, GiveUp
    <3>2. /\ side'[c] \in {"told", "printed"} => answer[c].outcome = "delivered"
          /\ side[c] \in {"asking", "told"}
          /\ conn[c] = "none" /\ side'[c] \notin {"told", "printed"} => answer[c] = NoAnswer
      BY <1>a, <1>17, <3>1 DEF Read, WriteOut, GiveUp
    <3>. QED BY <1>0, <1>a, <2>1, <3>2
  <2>. QED BY <2>2, <2>3
<1>18. ASSUME NEW d \in Client, SendAck(d) \/ Die(d)
       PROVE  Good(c)'
  <2>1. CASE d # c
    BY <1>b, <1>18, <2>1 DEF SendAck, Die
  <2>2. CASE d = c /\ conn[c] = "none"
    BY <1>e, <1>18, <2>2 DEF SendAck, Die
  <2>3. CASE d = c /\ conn[c] # "none"
    <3>1. conn' = conn /\ answer' = answer /\ side'[c] = "off"
      BY <1>18, <2>3 DEF SendAck, Die
    <3>. QED BY <1>0, <1>a, <2>3, <3>1
  <2>. QED BY <2>1, <2>2, <2>3
<1>19. CASE UNCHANGED recvVars
  BY <1>b, <1>19 DEF recvVars, processes
<1>. QED
  BY <1>3, <1>5, <1>6, <1>8, <1>9, <1>10, <1>11, <1>12, <1>13, <1>14, <1>15, <1>16, <1>17,
     <1>18, <1>19 DEF RecvNext
\* Acknowledgements follow their message through stdout.
LEMMA AckStep ==
    ASSUME RecvIInv, ClientAssumption, [RecvNext]_recvVars
    PROVE  AckInv'
<1>0. issued \subseteq issued'
  BY RecvStepIsQueueStep, QueueGrows DEF RecvIInv, IInv
<1> USE DEF RecvIInv, RecvTypeOK
\* Most steps leave the printed claims and the acknowledgements alone.
<1>a. ASSUME printed' = printed, acks' \subseteq acks, acked' = acked,
             \A c \in Client : side'[c] = "printed" =>
                side[c] = "printed" /\ answer'[c] = answer[c]
      PROVE  AckInv'
  BY <1>0, <1>a DEF AckInv
<1>b. ASSUME NEW c \in Client, conn[c] \in Awaiting PROVE side[c] # "printed"
  BY <1>b DEF AnswerInv, NoAnswer
<1>1. ASSUME NEW c \in Client, HandleRecv(c)
      PROVE  AckInv'
  <2>1. side[c] # "printed"
    BY <1>b, <1>1 DEF HandleRecv, Awaiting
  <2>2. acked' = acked
    BY <1>1 DEF HandleRecv, TryClaim, queue, vars, ClaimForSession
  <2>3. Delivered(c) \/ Park(c) \/ Finish(c, Silent("empty"))
    BY <1>1, Handled
  <2>4. \A d \in Client : d # c => answer'[d] = answer[d]
    BY <2>3 DEF Delivered, Park, Finish
  <2>5. printed' = printed /\ acks' = acks /\ side' = side
    BY <1>1 DEF HandleRecv
  <2>. QED BY <1>a, <2>1, <2>2, <2>4, <2>5
<1>2. ASSUME NEW c \in Client, conn[c] = "parked", WakeUp(c),
             UNCHANGED <<side, acks, printed>>
      PROVE  AckInv'
  <2>1. side[c] # "printed"
    BY <1>b, <1>2 DEF Awaiting
  <2>2. acked' = acked
    BY <1>2 DEF WakeUp, TryClaim, queue, vars, ClaimForSession
  <2>3. \A d \in Client : d # c => answer'[d] = answer[d]
    BY <1>2, Woken DEF Delivered, Finish
  <2>. QED BY <1>2, <1>a, <2>1, <2>2, <2>3
<1>3. CASE Ring
  BY <1>2, <1>3, RingsParked
<1>4. ASSUME NEW c \in Client, Poll(c)
      PROVE  AckInv'
  BY <1>2, <1>4 DEF Poll
<1>5. ASSUME NEW c \in Client, RefuseRecv(c) \/ Timeout(c)
      PROVE  AckInv'
  <2>1. side[c] # "printed"
    BY <1>b, <1>5 DEF RefuseRecv, Timeout, Awaiting
  <2>2. acked' = acked /\ printed' = printed /\ acks' = acks /\ side' = side
    BY <1>5 DEF RefuseRecv, Timeout, queue, vars
  <2>3. \A d \in Client : d # c => answer'[d] = answer[d]
    BY <1>5 DEF RefuseRecv, Timeout, Finish
  <2>. QED BY <1>a, <2>1, <2>2, <2>3
<1>6. ASSUME NEW a \in acks, HandleAck(a)
      PROVE  AckInv'
  <2>1. /\ printed' = printed /\ acks' \subseteq acks /\ side' = side /\ answer' = answer
        /\ a.call \in printed
    BY <1>6 DEF HandleAck, AckInv
  <2>2. \A i \in acked' : i \in acked \/ i.call = a.call
    BY <1>6 DEF HandleAck, Ack, queue, vars
  <2>. QED BY <1>0, <2>1, <2>2 DEF AckInv
<1>7. ASSUME NEW c \in Client, SocketCloses(c)
      PROVE  AckInv'
  BY <1>a, <1>7 DEF SocketCloses, queue, vars
<1>8. ASSUME NEW m \in Msg, Insert(m)
      PROVE  AckInv'
  BY <1>a, <1>8 DEF Insert, InsertMessage, InsertAgentMessage, InsertRow
<1>9. ASSUME NEW s \in Session, SessionCloses(s)
      PROVE  AckInv'
  <2>1. \A d \in Client : conn[d] # "parked" => answer'[d] = answer[d]
    BY <1>9 DEF SessionCloses
  <2>2. acked' = acked /\ printed' = printed /\ acks' = acks /\ side' = side
    BY <1>9 DEF SessionCloses, CloseSession
  <2>. QED BY <1>a, <1>b, <2>1, <2>2 DEF Awaiting
<1>10. ASSUME NEW k \in leased, Lapse(k)
       PROVE  AckInv'
  BY <1>a, <1>10 DEF Lapse, LeaseLapses
<1>11. CASE Crash
  BY <1>a, <1>11 DEF Crash, queue, vars
<1>12. CASE Boot \/ RivalBoot
  BY <1>a, <1>12 DEF Boot, RivalBoot, RecoverStaleClaims
<1>13. ASSUME NEW c \in Client, \/ \E block \in BOOLEAN : Ask(c, block)
                                \/ Read(c) \/ GiveUp(c) \/ Die(c)
       PROVE  AckInv'
  <2>1. acked' = acked /\ printed' = printed /\ acks' = acks
    BY <1>13 DEF Ask, Read, GiveUp, Die, queue, vars
  <2>2. \A d \in Client : side'[d] = "printed" => d # c /\ side[d] = "printed"
    BY <1>13 DEF Ask, Read, GiveUp, Die
  <2>3. \A d \in Client : d # c => answer'[d] = answer[d]
    BY <1>13 DEF Ask, Read, GiveUp, Die
  <2>. QED BY <1>a, <2>1, <2>2, <2>3
<1>14. ASSUME NEW c \in Client, WriteOut(c)
       PROVE  AckInv'
  <2>1. /\ side' = [side EXCEPT ![c] = "printed"] /\ printed' = printed \cup {answer[c].call}
        /\ answer' = answer /\ acks' = acks /\ acked' = acked
    BY <1>14 DEF WriteOut, queue, vars
  <2>. QED BY <1>0, <2>1 DEF AckInv
<1>15. ASSUME NEW c \in Client, SendAck(c)
       PROVE  AckInv'
  <2>1. acked' = acked /\ printed' = printed /\ side[c] = "printed"
    BY <1>15 DEF SendAck, MaySendAck, queue, vars
  <2>2. \A d \in Client : side'[d] = "printed" => side[d] = "printed" /\ answer'[d] = answer[d]
    BY <1>15 DEF SendAck
  <2>3. \A a \in acks' : a \in acks \/ (a.client = c /\ a.call = answer[c].call)
    BY <1>15 DEF SendAck
  <2>4. /\ answer[c].call \in printed
        /\ \E i \in issued : i.call = answer[c].call /\ i.sess = ClientSession[c]
    BY <2>1 DEF AckInv, AnswerInv
  <2>. QED BY <1>0, <2>1, <2>2, <2>3, <2>4 DEF AckInv
<1>16. CASE UNCHANGED recvVars
  BY <1>a, <1>16 DEF recvVars, processes, queue, vars
<1>. QED
  BY <1>1, <1>3, <1>4, <1>5, <1>6, <1>7, <1>8, <1>9, <1>10, <1>11, <1>12, <1>13, <1>14,
     <1>15, <1>16 DEF RecvNext

\* Without failures the daemon stays up and keeps its sockets.
LEMMA CalmStep ==
    ASSUME RecvIInv, ClientAssumption, [RecvNext]_recvVars
    PROVE  CalmInv'
<1> USE DEF RecvIInv, RecvTypeOK
<1>0. SUFFICES ASSUME failures' = 0 PROVE CalmInv'
  BY DEF CalmInv
<1>a. ASSUME failures = 0, up' = up, side' = side,
             \A c \in Client : conn'[c] = "none" => conn[c] = "none" \/ side[c] = "off",
             \A c \in Client : conn'[c] \in Awaiting => conn[c] \in Awaiting
      PROVE  CalmInv'
  BY <1>a DEF CalmInv
<1>b. ASSUME NEW c \in Client, conn[c] \in Awaiting, failures' = failures,
             up' = up, side' = side,
             Delivered(c) \/ Park(c) \/ \E o \in Outcome : Finish(c, Silent(o))
      PROVE  CalmInv'
  <2>1. \A d \in Client : d # c => conn'[d] = conn[d]
    BY <1>b DEF Delivered, Park, Finish
  <2>2. conn'[c] \in {"served", "parked"}
    BY <1>b DEF Delivered, Park, Finish
  <2>. QED BY <1>0, <1>a, <1>b, <2>1, <2>2
<1>1. ASSUME NEW c \in Client, HandleRecv(c)
      PROVE  CalmInv'
  BY <1>b, <1>1, Handled DEF HandleRecv, Awaiting, Outcome
<1>2. ASSUME NEW c \in Client, conn[c] = "parked", WakeUp(c), UNCHANGED <<up, side, failures>>
      PROVE  CalmInv'
  <2>1. CASE Delivered(c)
    BY <1>2, <1>b, <2>1 DEF Awaiting
  <2>2. CASE conn' = conn
    BY <1>0, <1>2, <1>a, <2>2
  <2>. QED BY <1>2, <2>1, <2>2, Woken
<1>3. CASE Ring
  BY <1>2, <1>3, RingsParked
<1>4. ASSUME NEW c \in Client, Poll(c)
      PROVE  CalmInv'
  BY <1>2, <1>4 DEF Poll
<1>5. ASSUME NEW c \in Client, RefuseRecv(c) \/ Timeout(c)
      PROVE  CalmInv'
  BY <1>b, <1>5 DEF RefuseRecv, Timeout, Awaiting, Outcome
<1>6. ASSUME NEW c \in Client, SocketCloses(c)
      PROVE  CalmInv'
  <2>1. /\ conn' = [conn EXCEPT ![c] = "none"] /\ side[c] = "off"
        /\ failures' = failures /\ up' = up /\ side' = side
    BY <1>6 DEF SocketCloses
  <2>. QED BY <1>0, <1>a, <2>1 DEF Awaiting
<1>7. ASSUME NEW s \in Session, SessionCloses(s)
      PROVE  CalmInv'
  <2>1. /\ \A c \in Client : conn'[c] = conn[c] \/ conn'[c] = "served"
        /\ failures' = failures /\ up' = up /\ side' = side
    BY <1>7 DEF SessionCloses
  <2>. QED BY <1>0, <1>a, <2>1 DEF Awaiting
<1>8. CASE \/ \E a \in acks : HandleAck(a)
           \/ \E m \in Msg : Insert(m)
           \/ \E k \in leased : Lapse(k)
           \/ UNCHANGED recvVars
  <2>1. UNCHANGED <<up, side, conn, failures>>
    BY <1>8 DEF HandleAck, Insert, Lapse, recvVars, processes
  <2>. QED BY <1>0, <1>a, <2>1
<1>9. CASE Crash \/ RivalBoot \/ \E c \in Client : Die(c)
  <2>1. failures' = failures + 1
    BY <1>9 DEF Crash, RivalBoot, Die, Fail
  <2>. QED BY <1>0, <2>1
<1>10. CASE Boot
  <2>1. ~up /\ failures = 0
    BY <1>0, <1>10 DEF Boot
  <2>. QED BY <2>1 DEF CalmInv
<1>11. ASSUME NEW c \in Client, NEW block \in BOOLEAN, Ask(c, block)
       PROVE  CalmInv'
  <2>1. /\ side' = [side EXCEPT ![c] = "asking"]
        /\ conn' = [conn EXCEPT ![c] = IF block THEN "askedToBlock" ELSE "asked"]
        /\ failures' = failures /\ up' = up
    BY <1>11 DEF Ask
  <2>2. conn'[c] # "none" /\ \A d \in Client : d # c => conn'[d] = conn[d] /\ side'[d] = side[d]
    BY <2>1
  <2>. QED BY <1>0, <2>1, <2>2 DEF CalmInv
<1>12. ASSUME NEW c \in Client, Read(c) \/ WriteOut(c) \/ SendAck(c) \/ GiveUp(c)
       PROVE  CalmInv'
  <2>1. /\ failures' = failures /\ up' = up /\ conn' = conn
        /\ \A d \in Client : d # c => side'[d] = side[d]
        /\ side[c] # "off"
    BY <1>12 DEF Read, WriteOut, SendAck, MaySendAck, GiveUp
  <2>2. conn[c] \notin Awaiting
    <3>1. CASE Read(c)
      BY <3>1 DEF Read, AnswerInv, NoAnswer
    <3>2. CASE WriteOut(c) \/ SendAck(c)
      BY <3>2 DEF WriteOut, SendAck, MaySendAck, AnswerInv, NoAnswer
    <3>3. CASE GiveUp(c)
      BY <3>3 DEF GiveUp, AnswerInv, NoAnswer, Awaiting
    <3>. QED BY <1>12, <3>1, <3>2, <3>3
  <2>. QED BY <1>0, <2>1, <2>2 DEF CalmInv
<1>. QED
  BY <1>1, <1>3, <1>4, <1>5, <1>6, <1>7, <1>8, <1>9, <1>10, <1>11, <1>12 DEF RecvNext
\* Only an insert changes the rows.
LEMMA RowsStay ==
    ASSUME [RecvNext]_recvVars
    PROVE  (\E m \in Msg : Insert(m)) \/ (seq' = seq /\ stored' = stored)
<1> USE DEF queue, vars, store
<1>1. ASSUME NEW c \in Client, HandleRecv(c) \/ Poll(c) \/ WakeUp(c)
      PROVE  seq' = seq /\ stored' = stored
  BY <1>1 DEF HandleRecv, Poll, WakeUp, TryClaim, ClaimForSession
<1>2. CASE Ring
  <2>1. PICK c \in ringing : WakeUp(c)
    BY <1>2 DEF Ring
  <2>. QED BY <2>1 DEF WakeUp, TryClaim, ClaimForSession
<1>3. CASE Boot \/ RivalBoot \/ Crash \/ UNCHANGED recvVars
  BY <1>3 DEF Boot, RivalBoot, Crash, RecoverStaleClaims, recvVars
<1>4. ASSUME NEW a \in acks, HandleAck(a)
      PROVE  seq' = seq /\ stored' = stored
  BY <1>4 DEF HandleAck, Ack
<1>5. ASSUME NEW s \in Session, SessionCloses(s)
      PROVE  seq' = seq /\ stored' = stored
  BY <1>5 DEF SessionCloses, CloseSession
<1>6. ASSUME NEW k \in leased, Lapse(k)
      PROVE  seq' = seq /\ stored' = stored
  BY <1>6 DEF Lapse, LeaseLapses
<1>7. ASSUME NEW c \in Client,
             \/ RefuseRecv(c) \/ Timeout(c) \/ SocketCloses(c) \/ Read(c) \/ WriteOut(c)
             \/ SendAck(c) \/ Die(c) \/ GiveUp(c) \/ \E block \in BOOLEAN : Ask(c, block)
      PROVE  seq' = seq /\ stored' = stored
  BY <1>7 DEF RefuseRecv, Timeout, SocketCloses, Read, WriteOut, SendAck, Die, GiveUp, Ask
<1>. QED BY <1>1, <1>2, <1>3, <1>4, <1>5, <1>6, <1>7 DEF RecvNext

\* A row that was claimed before was handed out before, so nothing but an insert
\* brings a receive something unheard of.
LEMMA HeardStays ==
    ASSUME IInv, [Next]_vars, seq' = seq, stored' = stored, NEW c \in Client, Heard(c)
    PROVE  Heard(c)'
<1> DEFINE s == ClientSession[c]
<1> USE DEF IInv
<1>1. issued \subseteq issued' /\ delivered \subseteq delivered'
  BY QueueGrows
<1>2. ASSUME NEW m \in Waiting(s)'
      PROVE  \/ \E i \in issued' : i.msg = m
             \/ \E n \in Corrupt \cap delivered' : seq'[n] < seq'[m]
  <2>1. /\ m \in Msg /\ m \in UserQueue(s) \cup AgentQueue(s) /\ m \notin delivered
    BY <1>1, <1>2 DEF Waiting, Claimable, UserQueue, AgentQueue
  <2>2. CASE claim[m] \in leased
    <3>1. claim[m] # 0
      BY <2>2 DEF TypeOK
    <3>. QED BY <1>1, <2>1, <3>1 DEF ClaimInv
  <2>3. CASE claim[m] \notin leased
    <3>1. m \in Claimable(UserQueue(s) \cup AgentQueue(s))
      BY <2>1, <2>3 DEF Claimable
    <3>2. \/ \E i \in issued : i.msg = m
          \/ \E n \in Corrupt \cap delivered : seq[n] < seq[m]
      BY <3>1 DEF Heard
    <3>. QED BY <1>1, <3>2
  <2>. QED BY <2>2, <2>3
<1>. QED BY <1>2 DEF Heard, Waiting

\* Wake-ups.
LEMMA ListenStep ==
    ASSUME RecvIInv, ClientAssumption, [RecvNext]_recvVars
    PROVE  ListenInv'
<1> USE DEF RecvIInv, RecvTypeOK
<1>1. [Next]_vars
  BY RecvStepIsQueueStep
<1>2. ASSUME NEW m \in Msg, Insert(m) PROVE ListenInv'
  BY <1>2 DEF Insert, ListenInv
<1>3. ASSUME seq' = seq, stored' = stored, NEW c \in listeners' \ ringing',
             c \in listeners \ ringing
      PROVE  Heard(c)'
  BY <1>1, <1>3, HeardStays DEF ListenInv
\* Who starts to listen, or has run its listener, has just found nothing.
<1>4. ASSUME NEW c \in listeners' \ ringing', c \notin listeners \ ringing
      PROVE  c \in Client /\ Miss(c)
  <2>0. c \in Client
    BY <1>4, RecvTypeStep
  <2>1. ASSUME NEW d \in Client, HandleRecv(d) PROVE c = d /\ Miss(c)
    <3>1. CASE Miss(d) /\ Park(d)
      <4>1. listeners' = listeners \cup {d} /\ ringing' = {} /\ ringing = {}
        BY <2>1, <3>1 DEF HandleRecv, Turn, Park
      <4>. QED BY <1>4, <3>1, <4>1
    <3>2. CASE Delivered(d) \/ Finish(d, Silent("empty"))
      <4>1. listeners' \subseteq listeners /\ ringing = {} /\ ringing' = {}
        BY <2>1, <3>2 DEF HandleRecv, Turn, Delivered, Finish, Drop
      <4>. QED BY <1>4, <4>1
    <3>. QED BY <2>1, <3>1, <3>2, Handled
  <2>2. ASSUME Ring PROVE Miss(c)
    <3>1. PICK d \in Client : /\ conn[d] = "parked" /\ WakeUp(d) /\ ringing' = ringing \ {d}
                              /\ d \in ringing
      BY <2>2, RingsParked
    <3>2. CASE Hit(d) /\ Delivered(d)
      <4>1. listeners' = listeners \ {d}
        BY <3>2 DEF Delivered, Finish, Drop
      <4>. QED BY <1>4, <3>1, <4>1
    <3>3. CASE Miss(d) /\ listeners' = listeners
      BY <1>4, <3>1, <3>3
    <3>. QED BY <3>1, <3>2, <3>3, Woken
  <2>3. ASSUME NEW d \in Client, Poll(d) PROVE FALSE
    <3>1. listeners' \subseteq listeners /\ ringing = {} /\ ringing' = {}
      BY <2>3, Woken DEF Poll, Turn, Delivered, Finish, Drop
    <3>. QED BY <1>4, <3>1
  <2>4. ASSUME NEW d \in Client, RefuseRecv(d) \/ Timeout(d) \/ SocketCloses(d) PROVE FALSE
    <3>1. listeners' \subseteq listeners /\ ringing = {} /\ ringing' = {}
      BY <2>4 DEF RefuseRecv, Timeout, SocketCloses, Turn, Finish, Drop
    <3>. QED BY <1>4, <3>1
  <2>5. ASSUME NEW s \in Session, SessionCloses(s) PROVE FALSE
    <3>1. listeners' \subseteq listeners /\ ringing = {} /\ ringing' = {}
      BY <2>5 DEF SessionCloses, Turn, Drop
    <3>. QED BY <1>4, <3>1
  <2>6. ASSUME NEW m \in Msg, Insert(m) PROVE FALSE
    BY <1>4, <2>6 DEF Insert
  <2>7. CASE \/ \E a \in acks : HandleAck(a)
             \/ \E k \in leased : Lapse(k)
             \/ Boot \/ RivalBoot \/ UNCHANGED recvVars
    BY <1>4, <2>7 DEF HandleAck, Lapse, Boot, RivalBoot, recvVars, processes
  <2>8. CASE Crash
    BY <1>4, <2>8 DEF Crash
  <2>9. CASE \E d \in Client : \/ \E block \in BOOLEAN : Ask(d, block)
                               \/ Read(d) \/ WriteOut(d) \/ SendAck(d) \/ Die(d) \/ GiveUp(d)
    BY <1>4, <2>9 DEF Ask, Read, WriteOut, SendAck, Die, GiveUp
  <2>. QED
    BY <2>0, <2>1, <2>2, <2>3, <2>4, <2>5, <2>6, <2>7, <2>8, <2>9 DEF RecvNext
<1>5. ASSUME NEW c \in listeners' \ ringing', c \notin listeners \ ringing
      PROVE  Heard(c)'
  BY <1>4, <1>5, MissHears
<1>6. CASE seq' = seq /\ stored' = stored
  BY <1>3, <1>5, <1>6 DEF ListenInv
<1>. QED BY <1>2, <1>6, RowsStay

\* What is handed out stays in its table.
LEMMA KeptStep ==
    ASSUME RecvIInv, ClientAssumption, [RecvNext]_recvVars
    PROVE  KeptInv'
<1> USE DEF RecvIInv, IInv
<1>1. [Next]_vars /\ stored \subseteq stored'
  <2>1. ASSUME NEW m \in Msg, Insert(m) PROVE stored \subseteq stored'
    BY <2>1 DEF Insert, InsertMessage, InsertAgentMessage, InsertRow
  <2>. QED BY <2>1, RowsStay, RecvStepIsQueueStep
<1>2. ASSUME NEW s \in Session, ClaimForSession(s)
      PROVE  KeptInv'
  <2>1. \A i \in issued' \ issued : i.msg \in Taken(s)
    BY <1>2, NewHandout
  <2>2. Taken(s) \subseteq stored
    BY TakenFacts
  <2>. QED BY <1>1, <2>1, <2>2 DEF KeptInv
<1>3. CASE ~ \E s \in Session : ClaimForSession(s)
  <2>1. issued' = issued
    BY <1>1, <1>3 DEF Next, InsertMessage, InsertAgentMessage, InsertRow, LeaseLapses,
       AckHandout, Ack, RecoverStaleClaims, CloseSession, AgentMessageAges, Housekeeping, vars
  <2>. QED BY <1>1, <2>1 DEF KeptInv
<1>. QED BY <1>2, <1>3
\* An ack of a claim under a running lease settles the row it was given for.
LEMMA AckReaches ==
    ASSUME RecvIInv, NEW i \in issued, i.call \in leased, Ack(i.sess, i.call)
    PROVE  i.msg \in delivered'
<1> USE DEF RecvIInv, IInv
<1>1. /\ i.msg \in stored /\ i.msg \in Msg /\ claim[i.msg] = i.call /\ i.call # 0
      /\ Entitled(i.msg, i.sess)
  BY DEF KeptInv, HandoutInv, ClaimInv, TypeOK, Handout
<1>2. SUFFICES ASSUME i.msg \notin delivered PROVE i.msg \in AckedRows(i.sess, i.call)
  BY DEF Ack
<1>3. CASE i.msg \in UserMsg
  <2>1. i.msg \in AckedMessages(i.sess, i.call)
    BY <1>1, <1>2, <1>3 DEF AckedMessages, Entitled
  <2>. QED BY <2>1 DEF AckedRows
<1>4. CASE i.msg \in AgentMsg
  <2>1. i.msg \in AckedAgentMessages(i.sess, i.call)
    BY <1>1, <1>2, <1>4 DEF AckedAgentMessages, Entitled
  <2>2. ASSUME NEW m \in AckedMessages(i.sess, i.call) PROVE FALSE
    <3>1. m \in UserMsg \cup ReplyMsg /\ m \notin delivered /\ claim[m] = i.call
      BY DEF AckedMessages
    <3>2. PICK j \in issued : j.msg = m /\ j.call = i.call
      BY <1>1, <3>1 DEF ClaimInv
    <3>3. j = i
      BY <3>2 DEF HandoutInv
    <3>. QED BY <1>4, <3>1, <3>2, <3>3
  <2>. QED BY <2>1, <2>2 DEF AckedRows
<1>. QED BY <1>1, <1>3, <1>4 DEF Entitled

\* A lease that runs was running, or belongs to the claim just made.
LEMMA LeaseIsOld ==
    ASSUME IInv, [Next]_vars, NEW i \in issued, i.call \in leased'
    PROVE  i.call \in leased
<1> USE DEF IInv
<1>1. ASSUME NEW s \in Session, ClaimForSession(s)
      PROVE  i.call \in leased
  <2>1. i.call <= calls /\ i.call \in Nat /\ calls \in Nat
    BY DEF HandoutInv, TypeOK, Handout
  <2>2. leased' = leased \cup {calls + 1}
    BY <1>1 DEF ClaimForSession
  <2>. QED BY <2>1, <2>2
<1>2. CASE ~ \E s \in Session : ClaimForSession(s)
  BY <1>2 DEF Next, InsertMessage, InsertAgentMessage, InsertRow, LeaseLapses, store,
     AckHandout, Ack, RecoverStaleClaims, CloseSession, AgentMessageAges, Housekeeping, vars
<1>. QED BY <1>1, <1>2

\* Nobody waits out a lease.
LEMMA OrphanStep ==
    ASSUME RecvIInv, ClientAssumption, [RecvNext]_recvVars
    PROVE  NoClaimOrphaned'
<1> USE DEF RecvIInv, RecvTypeOK
<1>1. SUFFICES ASSUME failures' = 0, NEW i \in issued', i.call \in leased',
                      i.msg \notin delivered', i.sess \notin closed'
               PROVE  Held(i.call)'
  BY DEF NoClaimOrphaned
<1> DEFINE k == i.call
<1>2. [Next]_vars /\ issued \subseteq issued' /\ delivered \subseteq delivered'
  BY RecvStepIsQueueStep, QueueGrows DEF IInv
<1>3. k \in Nat \ {0}
  BY <1>1, <1>2, TypeStep DEF IInv, TypeOK, Handout
\* A claim that was made before is still held.
<1>4. ASSUME i \in issued, failures = 0, closed \subseteq closed', Held(k) PROVE Held(k)'
  <2>a. ASSUME acks \subseteq acks',
               \A d \in Client : side[d] # "off" /\ answer[d].call = k =>
                                    side'[d] # "off" /\ answer'[d] = answer[d]
        PROVE  Held(k)'
    BY <1>4, <2>a DEF Held
  <2>b. ASSUME NEW d \in Client, answer[d].call # k, acks' = acks,
               \A e \in Client : e # d => side'[e] = side[e] /\ answer'[e] = answer[e]
        PROVE  Held(k)'
    BY <2>a, <2>b
  <2>c. ASSUME NEW d \in Client, conn[d] \in Awaiting PROVE answer[d].call # k
    BY <1>3, <2>c DEF AnswerInv, NoAnswer
  <2>1. ASSUME NEW d \in Client, HandleRecv(d) PROVE Held(k)'
    <3>1. answer[d].call # k /\ acks' = acks /\ side' = side
      BY <2>c, <2>1 DEF HandleRecv, Awaiting
    <3>2. Delivered(d) \/ Park(d) \/ Finish(d, Silent("empty"))
      BY <2>1, Handled
    <3>3. \A e \in Client : e # d => answer'[e] = answer[e]
      BY <3>2 DEF Delivered, Park, Finish
    <3>. QED BY <2>b, <3>1, <3>3
  <2>2. ASSUME NEW d \in Client, conn[d] = "parked", WakeUp(d), UNCHANGED <<side, acks>>
        PROVE  Held(k)'
    <3>1. answer[d].call # k
      BY <2>2, <2>c DEF Awaiting
    <3>2. \A e \in Client : e # d => answer'[e] = answer[e]
      BY <2>2, Woken DEF Delivered, Finish
    <3>. QED BY <2>2, <2>b, <3>1, <3>2
  <2>3. CASE Ring
    BY <2>2, <2>3, RingsParked
  <2>4. ASSUME NEW d \in Client, Poll(d) PROVE Held(k)'
    BY <2>2, <2>4 DEF Poll
  <2>5. ASSUME NEW d \in Client, RefuseRecv(d) \/ Timeout(d) PROVE Held(k)'
    <3>1. answer[d].call # k
      BY <2>5, <2>c DEF RefuseRecv, Timeout, Awaiting
    <3>2. acks' = acks /\ side' = side /\ \A e \in Client : e # d => answer'[e] = answer[e]
      BY <2>5 DEF RefuseRecv, Timeout, Finish
    <3>. QED BY <2>b, <3>1, <3>2
  <2>6. ASSUME NEW a \in acks, HandleAck(a) PROVE Held(k)'
    <3>1. acks' = acks \ {a} /\ side' = side /\ answer' = answer
      BY <2>6 DEF HandleAck
    <3>2. a.call # k
      <4>1. SUFFICES ASSUME a.call = k PROVE FALSE
        OBVIOUS
      <4>2. PICK j \in issued : j.call = k /\ j.sess = ClientSession[a.client]
        BY <4>1 DEF AckInv
      <4>3. i.sess = ClientSession[a.client]
        BY <1>4, <4>2 DEF IInv, HandoutInv
      <4>4. Ack(i.sess, k)
        BY <1>1, <1>4, <2>6, <4>1, <4>3 DEF HandleAck
      <4>. QED BY <1>1, <1>2, <1>4, <4>4, LeaseIsOld, AckReaches
    <3>. QED BY <1>4, <3>1, <3>2 DEF Held
  <2>7. ASSUME NEW d \in Client, SocketCloses(d) PROVE Held(k)'
    BY <2>a, <2>7 DEF SocketCloses
  <2>8. ASSUME NEW s \in Session, SessionCloses(s) PROVE Held(k)'
    <3>1. \A d \in Client : conn[d] # "parked" => answer'[d] = answer[d]
      BY <2>8 DEF SessionCloses
    <3>2. acks' = acks /\ side' = side
      BY <2>8 DEF SessionCloses
    <3>. QED BY <2>a, <2>c, <3>1, <3>2 DEF Awaiting
  <2>9. CASE \/ \E m \in Msg : Insert(m)
             \/ \E l \in leased : Lapse(l)
             \/ UNCHANGED recvVars
    BY <2>a, <2>9 DEF Insert, Lapse, recvVars, processes
  <2>10. CASE Crash \/ RivalBoot \/ \E d \in Client : Die(d)
    BY <1>1, <1>4, <2>10 DEF Crash, RivalBoot, Die, Fail
  <2>11. CASE Boot
    BY <1>4, <2>11 DEF Boot, CalmInv
  <2>12. ASSUME NEW d \in Client, \/ \E block \in BOOLEAN : Ask(d, block)
                                  \/ WriteOut(d)
         PROVE  Held(k)'
    BY <2>a, <2>12 DEF Ask, WriteOut
  <2>13. ASSUME NEW d \in Client, Read(d) \/ GiveUp(d) PROVE Held(k)'
    <3>1. answer' = answer /\ acks' = acks /\ \A e \in Client : e # d => side'[e] = side[e]
      BY <2>13 DEF Read, GiveUp
    <3>2. CASE answer[d].outcome = "delivered"
      <4>1. conn[d] # "none"
        BY <1>4, <2>13 DEF Read, GiveUp, CalmInv
      <4>2. Read(d) /\ side'[d] = "told"
        BY <2>13, <3>2, <4>1 DEF Read, GiveUp
      <4>. QED BY <2>a, <3>1, <4>2
    <3>3. CASE answer[d].outcome # "delivered"
      <4>1. answer[d].call # k
        BY <1>3, <3>3 DEF AnswerInv
      <4>. QED BY <2>b, <3>1, <4>1
    <3>. QED BY <3>2, <3>3
  <2>14. ASSUME NEW d \in Client, SendAck(d) PROVE Held(k)'
    <3>1. conn[d] # "none"
      BY <1>4, <2>14 DEF SendAck, MaySendAck, CalmInv
    <3>2. /\ acks' = acks \cup {[client |-> d, call |-> answer[d].call]}
          /\ answer' = answer /\ \A e \in Client : e # d => side'[e] = side[e]
      BY <2>14, <3>1 DEF SendAck
    <3>3. CASE answer[d].call = k
      <4>1. PICK a \in acks' : a = [client |-> d, call |-> k]
        BY <3>2, <3>3
      <4>2. a.call = k
        BY <4>1
      <4>. QED BY <4>2 DEF Held
    <3>4. CASE answer[d].call # k
      BY <2>a, <3>2, <3>4
    <3>. QED BY <3>3, <3>4
  <2>. QED
    BY <2>1, <2>3, <2>4, <2>5, <2>6, <2>7, <2>8, <2>9, <2>10, <2>11, <2>12, <2>13, <2>14
       DEF RecvNext
\* A claim that is made now is held by the receive it was made for.
<1>5. ASSUME NEW c \in Client, conn[c] \in Awaiting, failures = 0, i \notin issued,
             side' = side, Hit(c), Delivered(c)
      PROVE  Held(k)'
  <2>1. k = calls' /\ side'[c] = "asking"
    BY <1>5, HitHands DEF CalmInv
  <2>2. answer'[c].call = calls'
    BY <1>5 DEF Delivered, Finish
  <2>. QED BY <2>1, <2>2 DEF Held
<1>6. failures = 0
  <2>1. CASE \E c \in Client : \/ HandleRecv(c) \/ RefuseRecv(c) \/ Poll(c) \/ Timeout(c)
                               \/ SocketCloses(c) \/ \E block \in BOOLEAN : Ask(c, block)
                               \/ Read(c) \/ WriteOut(c) \/ SendAck(c) \/ GiveUp(c)
    BY <1>1, <2>1 DEF HandleRecv, RefuseRecv, Poll, Timeout, SocketCloses, Ask, Read, WriteOut,
       SendAck, GiveUp
  <2>2. CASE \/ Ring \/ Boot \/ UNCHANGED recvVars
             \/ \E a \in acks : HandleAck(a)
             \/ \E m \in Msg : Insert(m)
             \/ \E s \in Session : SessionCloses(s)
             \/ \E l \in leased : Lapse(l)
    BY <1>1, <2>2 DEF Ring, Boot, HandleAck, Insert, SessionCloses, Lapse, recvVars, processes
  <2>3. CASE Crash \/ RivalBoot \/ \E c \in Client : Die(c)
    BY <1>1, <2>3 DEF Crash, RivalBoot, Die, Fail
  <2>. QED BY <2>1, <2>2, <2>3 DEF RecvNext
<1>7. CASE i \in issued
  <2>1. closed \subseteq closed'
    BY <1>2 DEF Next, InsertMessage, InsertAgentMessage, InsertRow, ClaimForSession, LeaseLapses,
       AckHandout, Ack, RecoverStaleClaims, CloseSession, AgentMessageAges, Housekeeping, vars
  <2>2. Held(k)
    BY <1>1, <1>2, <1>6, <1>7, <2>1, LeaseIsOld DEF NoClaimOrphaned
  <2>. QED BY <1>4, <1>6, <1>7, <2>1, <2>2
<1>8. CASE i \notin issued
  <2>1. ASSUME NEW c \in Client, HandleRecv(c) PROVE Held(k)'
    <3>1. conn[c] \in Awaiting /\ side' = side
      BY <2>1 DEF HandleRecv, Awaiting
    <3>. QED BY <1>5, <1>6, <1>8, <2>1, <3>1, Handled, MissHears
  <2>2. ASSUME NEW c \in Client, conn[c] = "parked", WakeUp(c), side' = side PROVE Held(k)'
    <3>1. conn[c] \in Awaiting
      BY <2>2 DEF Awaiting
    <3>. QED BY <1>5, <1>6, <1>8, <2>2, <3>1, Woken, MissHears
  <2>3. CASE Ring
    BY <2>2, <2>3, RingsParked
  <2>4. ASSUME NEW c \in Client, Poll(c) PROVE Held(k)'
    BY <2>2, <2>4 DEF Poll
  <2>5. CASE \/ \E c \in Client : \/ RefuseRecv(c) \/ Timeout(c) \/ SocketCloses(c)
                                  \/ \E block \in BOOLEAN : Ask(c, block)
                                  \/ Read(c) \/ WriteOut(c) \/ SendAck(c) \/ Die(c) \/ GiveUp(c)
             \/ Crash \/ UNCHANGED recvVars
    <3>1. issued' = issued
      BY <2>5 DEF RefuseRecv, Timeout, SocketCloses, Ask, Read, WriteOut, SendAck, Die, GiveUp, Crash,
         recvVars, queue, vars
    <3>. QED BY <1>8, <3>1
  <2>6. CASE \/ \E a \in acks : HandleAck(a)
             \/ \E m \in Msg : Insert(m)
             \/ \E s \in Session : SessionCloses(s)
             \/ \E l \in leased : Lapse(l)
             \/ Boot \/ RivalBoot
    <3>1. issued' = issued
      BY <2>6 DEF HandleAck, Ack, Insert, InsertMessage, InsertAgentMessage, InsertRow, SessionCloses,
         CloseSession, Lapse, LeaseLapses, Boot, RivalBoot, RecoverStaleClaims, queue, vars
    <3>. QED BY <1>8, <3>1
  <2>. QED BY <2>1, <2>3, <2>4, <2>5, <2>6 DEF RecvNext
<1>. QED BY <1>7, <1>8
LEMMA RecvIInvInit == ClientAssumption /\ RecvInit => RecvIInv
<1> SUFFICES ASSUME ClientAssumption, RecvInit PROVE RecvIInv
  OBVIOUS
<1>1. IInv
  BY IInvInit DEF RecvInit
<1>2. calls = 0 /\ issued = {} /\ acked = {}
  BY DEF RecvInit, Init
<1>3. RecvTypeOK
  BY <1>2 DEF RecvInit, RecvTypeOK, NoAnswer, Outcome, ClientAssumption
<1>4. AnswerInv
  BY DEF RecvInit, AnswerInv, NoAnswer, Awaiting
<1>5. AckInv
  BY <1>2 DEF RecvInit, AckInv
<1>6. CalmInv
  BY DEF RecvInit, CalmInv, Awaiting
<1>7. ListenInv /\ KeptInv /\ NoClaimOrphaned
  BY <1>2 DEF RecvInit, ListenInv, KeptInv, NoClaimOrphaned
<1>. QED BY <1>1, <1>3, <1>4, <1>5, <1>6, <1>7 DEF RecvIInv

LEMMA RecvIInvStep == ClientAssumption /\ RecvIInv /\ [RecvNext]_recvVars => RecvIInv'
<1> SUFFICES ASSUME ClientAssumption, RecvIInv, [RecvNext]_recvVars PROVE RecvIInv'
  OBVIOUS
<1>1. IInv'
  BY RecvStepIsQueueStep, IInvStep DEF RecvIInv
<1>. QED
  BY <1>1, RecvTypeStep, AnswerStep, AckStep, CalmStep, ListenStep, KeptStep, OrphanStep
     DEF RecvIInv

LEMMA RecvIInvHolds == RecvSpec => []RecvIInv
BY ClientAssumption, RecvIInvInit, RecvIInvStep, PTL DEF RecvSpec

\* Whatever recv processes and the daemon around them do, crash and kill included, is
\* a behaviour of the queues: every theorem about ClaimQueue holds of the receivers.
THEOREM ReceiversUseQueues == RecvSpec => Spec
<1>1. RecvInit => Init
  BY DEF RecvInit
<1>2. RecvIInv /\ [RecvNext]_recvVars => [Next]_vars
  BY ClientAssumption, RecvStepIsQueueStep
<1>. QED BY <1>1, <1>2, RecvIInvHolds, PTL DEF RecvSpec, Spec

\* Every state of the receivers is type correct: in particular the store's listeners are
\* the parked receives, so none is left behind by an answered or closed one.
THEOREM RecvTypeCorrect == RecvSpec => []RecvTypeOK
<1>1. RecvIInv => RecvTypeOK
  BY DEF RecvIInv
<1>. QED BY <1>1, RecvIInvHolds, PTL

\* No wake-up is missed: what a parked receive could claim was handed out before, or
\* stands behind a dropped undecryptable row.
THEOREM WakeUpsReachTheParked == RecvSpec => []NoMissedWakeup
<1>1. RecvIInv => NoMissedWakeup
  BY DEF RecvIInv, RecvTypeOK, ListenInv, NoMissedWakeup, Turn
<1>. QED BY <1>1, RecvIInvHolds, PTL

\* A message is marked delivered only after the process that claimed it wrote it out.
THEOREM DeliveryFollowsPrint == RecvSpec => []DeliveredWasPrinted
<1>1. RecvIInv => DeliveredWasPrinted
  BY DEF RecvIInv, IInv, DeliveredByHolder, AckInv, DeliveredWasPrinted
<1>. QED BY <1>1, RecvIInvHolds, PTL

\* Without failures, a running lease on an undelivered message is somebody's: a client
\* has the message, or its ack is on the wire.
THEOREM ClaimsAreHeld == RecvSpec => []NoClaimOrphaned
<1>1. RecvIInv => NoClaimOrphaned
  BY DEF RecvIInv
<1>. QED BY <1>1, RecvIInvHolds, PTL

\* Two unexpired leases never meet and no message overtakes an older one, for clients
\* that crash and are killed, and the daemon with its receivers delivers at least once.
THEOREM ReceiversKeepThePromise ==
    RecvSpec => []ExclusiveLease /\ []NoOvertaking /\ ImplementsAtLeastOnce
BY ReceiversUseQueues, LeaseIsExclusive, QueueIsFifo, QueuesImplementAtLeastOnce, PTL
===============================================================================
