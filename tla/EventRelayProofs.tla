-------------------------- MODULE EventRelayProofs --------------------------
(***************************************************************************)
(* Theorems about EventRelay, for every set of events, slots and faults    *)
(* and every value of the bounds.                                          *)
(***************************************************************************)
EXTENDS EventRelay, SequenceTheorems, TLAPS

USE OutboxAssumption, RelayAssumption

-----------------------------------------------------------------------------
(* The outbox methods keep the types of the table *)

LEMMA HeadTailType ==
    ASSUME NEW T, NEW s \in Seq(T), s # <<>>
    PROVE  Head(s) \in T /\ Tail(s) \in Seq(T)
  OBVIOUS

LEMMA PrefixType ==
    ASSUME NEW T, NEW s \in Seq(T), NEW n \in 0..Len(s)
    PROVE  SubSeq(s, 1, n) \in Seq(T)
  <1>1. \A i \in 1..n : s[i] \in T
    OBVIOUS
  <1> QED BY <1>1, SubSeqProperties

LEMMA BatchType ==
    ASSUME NEW q \in Batches PROVE q \in Seq(Events)
  BY DEF Batches, Claimable

LEMMA OutboxMethods ==
    ASSUME OutboxTypeOK,
           \/ UNCHANGED outboxVars
           \/ \E e \in Events : Enqueue(e) \/ Acknowledge(e) \/ Elapse(e)
           \/ \E e \in Events, p \in BOOLEAN : Reject(e, p)
           \/ \E q \in Batches : ClaimPending(q)
           \/ RequeueInflight
           \/ \E S \in SUBSET Events : Cleanup(S)
    PROVE  OutboxTypeOK'
  <1> USE DEF OutboxTypeOK, outboxVars, RowState
  <1>1. CASE UNCHANGED outboxVars
    BY <1>1
  <1>2. ASSUME NEW e \in Events, Enqueue(e) PROVE OutboxTypeOK'
    <2>1. CASE UNCHANGED outboxVars
      BY <2>1
    <2>2. CASE ~ UNCHANGED outboxVars
      <3>1. /\ state' = [state EXCEPT ![e] = "PENDING"]
            /\ attempts' = [attempts EXCEPT ![e] = 0]
            /\ seq' = [seq EXCEPT ![e] = nextSeq]
            /\ due' = [due EXCEPT ![e] = TRUE]
            /\ nextSeq' = nextSeq + 1
        BY <1>2, <2>2 DEF Enqueue
      <3> QED BY <3>1
    <2> QED BY <2>1, <2>2
  <1>3. ASSUME NEW e \in Events, Acknowledge(e) PROVE OutboxTypeOK'
    BY <1>3 DEF Acknowledge
  <1>4. ASSUME NEW e \in Events, Elapse(e) PROVE OutboxTypeOK'
    BY <1>4 DEF Elapse
  <1>5. ASSUME NEW e \in Events, NEW p \in BOOLEAN, Reject(e, p) PROVE OutboxTypeOK'
    BY <1>5 DEF Reject
  <1>6. ASSUME NEW q \in Batches, ClaimPending(q) PROVE OutboxTypeOK'
    BY <1>6 DEF ClaimPending
  <1>7. CASE RequeueInflight
    BY <1>7 DEF RequeueInflight
  <1>8. ASSUME NEW S \in SUBSET Events, Cleanup(S) PROVE OutboxTypeOK'
    BY <1>8 DEF Cleanup
  <1> QED BY <1>1, <1>2, <1>3, <1>4, <1>5, <1>6, <1>7, <1>8

-----------------------------------------------------------------------------
(* Type correctness *)

(* A busy worker holds an event. *)
LEMMA BusyHoldsEvent ==
    ASSUME TypeOK, NEW c \in Slots, job[c].phase # "idle"
    PROVE  /\ job[c] \in Jobs
           /\ job[c].ev \in Events
  BY DEF TypeOK, RelayTypeOK, Idle, Jobs

LEMMA GotoType ==
    ASSUME TypeOK, NEW c \in Slots, job[c].phase # "idle",
           NEW p \in Phase \ {"idle"}, Goto(c, p)
    PROVE  job' \in [Slots -> {Idle} \cup Jobs]
  BY BusyHoldsEvent DEF Goto, TypeOK, RelayTypeOK, Jobs

(* What a job becomes *)
LEMMA JobBecomes ==
    ASSUME TypeOK, NEW c \in Slots, NEW x, job' = [job EXCEPT ![c] = x]
    PROVE  job'[c] = x
  BY DEF TypeOK, RelayTypeOK

LEMMA GotoBecomes ==
    ASSUME TypeOK, NEW c \in Slots, job[c].phase # "idle", NEW p, Goto(c, p)
    PROVE  /\ job'[c].phase = p
           /\ job'[c].ev = job[c].ev
           /\ job'[c].outer = job[c].outer
  <1>1. job[c] \in Jobs
    BY BusyHoldsEvent
  <1>2. job'[c] = [job[c] EXCEPT !.phase = p]
    BY DEF Goto, TypeOK, RelayTypeOK
  <1> QED BY <1>1, <1>2 DEF Jobs

(* An event is counted in step by step; the other counts do not move. *)
LEMMA EffectCounts ==
    ASSUME TypeOK, NEW e \in Events, Effect(e)
    PROVE  /\ applied' \in [Events -> 0..2]
           /\ \A f \in Events : applied[f] <= applied'[f]
           /\ \A f \in Events \ {e} : applied'[f] = applied[f]
           /\ applied'[e] > 0
           /\ applied[e] = 0 => applied'[e] = 1
           /\ faults' \in 0..MaxFaults
  <1>1. applied \in [Events -> 0..2] /\ faults \in 0..MaxFaults
    BY DEF TypeOK, RelayTypeOK
  <1>2. CASE UNCHANGED applied /\ applied[e] > 0 /\ NoFault
    BY <1>1, <1>2 DEF NoFault
  <1>3. CASE applied' = [applied EXCEPT ![e] = IF @ < 2 THEN @ + 1 ELSE 2] /\ (NoFault \/ Fault("moved"))
    <2>1. faults' \in 0..MaxFaults
      BY <1>1, <1>3 DEF NoFault, Fault
    <2>2. /\ applied'[e] = IF applied[e] < 2 THEN applied[e] + 1 ELSE 2
          /\ \A f \in Events \ {e} : applied'[f] = applied[f]
      BY <1>1, <1>3
    <2>3. applied[e] \in 0..2 /\ applied'[e] \in 0..2 /\ applied[e] <= applied'[e]
      BY <1>1, <2>2
    <2>4. applied' \in [Events -> 0..2]
      BY <1>1, <1>3
    <2>5. \A f \in Events \ {e} : applied[f] <= applied'[f]
      BY <1>1, <2>2
    <2> QED BY <1>1, <2>1, <2>2, <2>3, <2>4, <2>5
  <1> QED BY <1>2, <1>3 DEF Effect

LEMMA FaultType ==
    ASSUME TypeOK, NEW f, Fault(f) \/ NoFault \/ UNCHANGED faults
    PROVE  faults' \in 0..MaxFaults
  BY DEF Fault, NoFault, TypeOK, RelayTypeOK

LEMMA GatewayTypes ==
    ASSUME TypeOK,
           \/ \E e \in Events : Emit(e) \/ WriteRow(e) \/ WriteFails(e) \/ WriteOrphaned(e) \/ RowElapse(e)
           \/ RequeueOnOpen \/ PumpClaim \/ PumpSend \/ GatewayCleanup
           \/ \E c \in Slots : Connect(c) \/ GatewayReceive(c)
    PROVE  TypeOK'
  <1> USE DEF relayVars, netVars, gatewayVars, dbVars, backendVars
  <1>0. OutboxTypeOK /\ RelayTypeOK
    BY DEF TypeOK
  <1>1. ASSUME NEW e \in Events, Emit(e) PROVE TypeOK'
    <2>1. OutboxTypeOK'
      BY <1>0, <1>1, OutboxMethods DEF Emit
    <2>2. emitted' \subseteq Events /\ writing' \subseteq Events
      BY <1>0, <1>1 DEF Emit, RelayTypeOK
    <2> QED BY <1>0, <1>1, <2>1, <2>2 DEF Emit, TypeOK, RelayTypeOK
  <1>2. ASSUME NEW e \in Events, WriteRow(e) PROVE TypeOK'
    <2>1. OutboxTypeOK'
      BY <1>0, <1>2, OutboxMethods DEF WriteRow
    <2> QED BY <1>0, <1>2, <2>1 DEF WriteRow, TypeOK, RelayTypeOK
  <1>3. ASSUME NEW e \in Events, WriteFails(e) PROVE TypeOK'
    <2>1. OutboxTypeOK'
      BY <1>0, <1>3, OutboxMethods DEF WriteFails
    <2>2. faults' \in 0..MaxFaults
      BY <1>3, FaultType DEF WriteFails
    <2>3. inbox' \in [Slots -> Seq(Events)]
      <3>1. CASE UNCHANGED inbox
        BY <1>0, <3>1 DEF RelayTypeOK
      <3>2. CASE \E c \in Slots : inbox' = [inbox EXCEPT ![c] = Append(@, e)]
        BY <1>0, <3>2 DEF RelayTypeOK
      <3> QED BY <1>3, <3>1, <3>2 DEF WriteFails
    <2>4. fallback' \subseteq Events /\ writing' \subseteq Events
      BY <1>0, <1>3 DEF WriteFails, RelayTypeOK
    <2> QED BY <1>0, <1>3, <2>1, <2>2, <2>3, <2>4 DEF WriteFails, TypeOK, RelayTypeOK
  <1>11. ASSUME NEW e \in Events, WriteOrphaned(e) PROVE TypeOK'
    <2>1. OutboxTypeOK' /\ faults' \in 0..MaxFaults
      BY <1>0, <1>11, OutboxMethods, FaultType DEF WriteOrphaned
    <2> QED BY <1>0, <1>11, <2>1 DEF WriteOrphaned, TypeOK, RelayTypeOK
  <1>4. ASSUME NEW e \in Events, RowElapse(e) PROVE TypeOK'
    <2>1. OutboxTypeOK'
      BY <1>0, <1>4, OutboxMethods DEF RowElapse
    <2> QED BY <1>0, <1>4, <2>1 DEF RowElapse, TypeOK, RelayTypeOK
  <1>5. CASE RequeueOnOpen
    <2>1. OutboxTypeOK'
      BY <1>0, <1>5, OutboxMethods DEF RequeueOnOpen
    <2>2. faults' \in 0..MaxFaults
      BY <1>5, FaultType DEF RequeueOnOpen
    <2> QED BY <1>0, <1>5, <2>1, <2>2 DEF RequeueOnOpen, TypeOK, RelayTypeOK
  <1>6. CASE PumpClaim
    <2>1. PICK q \in Batches : ClaimPending(q) /\ batch' \in {q, <<>>}
      BY <1>6 DEF PumpClaim
    <2>2. OutboxTypeOK'
      BY <1>0, <2>1, OutboxMethods
    <2>3. q \in Seq(Events) /\ <<>> \in Seq(Events)
      BY BatchType
    <2>4. batch' \in Seq(Events)
      BY <2>1, <2>3
    <2> QED BY <1>0, <1>6, <2>2, <2>4 DEF PumpClaim, TypeOK, RelayTypeOK
  <1>7. CASE PumpSend
    <2>1. OutboxTypeOK'
      BY <1>0, <1>7, OutboxMethods DEF PumpSend
    <2>2. inbox' \in [Slots -> Seq(Events)]
      BY <1>0, <1>7 DEF PumpSend, RelayTypeOK
    <2>3. batch' \in Seq(Events)
      BY <1>7 DEF PumpSend
    <2> QED BY <1>0, <1>7, <2>1, <2>2, <2>3 DEF PumpSend, TypeOK, RelayTypeOK
  <1>8. CASE GatewayCleanup
    <2>1. PICK S \in SUBSET {e \in Events : state[e] \in Terminal} : Cleanup(S)
      BY <1>8 DEF GatewayCleanup
    <2>2. OutboxTypeOK'
      BY <1>0, <2>1, OutboxMethods
    <2>3. processed' \subseteq Events /\ raced' \subseteq Events /\ unreadable' \subseteq Events
      BY <1>0, <1>8 DEF GatewayCleanup, RelayTypeOK
    <2> QED BY <1>0, <1>8, <2>2, <2>3 DEF GatewayCleanup, TypeOK, RelayTypeOK
  <1>9. ASSUME NEW c \in Slots, Connect(c) PROVE TypeOK'
    <2>1. OutboxTypeOK'
      BY <1>0, <1>9, OutboxMethods DEF Connect
    <2>2. slot' \in [Slots -> SlotState]
      BY <1>0, <1>9 DEF Connect, RelayTypeOK, SlotState
    <2> QED BY <1>0, <1>9, <2>1, <2>2 DEF Connect, TypeOK, RelayTypeOK
  <1>10. ASSUME NEW c \in Slots, GatewayReceive(c) PROVE TypeOK'
    <2>0. /\ reply[c] \in Seq([ev : Events, kind : Answer])
          /\ reply[c] # <<>>
          /\ reply' = [reply EXCEPT ![c] = Tail(@)]
      BY <1>0, <1>10 DEF GatewayReceive, RelayTypeOK
    <2>1. /\ Head(reply[c]) \in [ev : Events, kind : Answer]
          /\ Tail(reply[c]) \in Seq([ev : Events, kind : Answer])
      BY <2>0, HeadTailType
    <2>2. OutboxTypeOK'
      BY <1>0, <1>10, <2>1, OutboxMethods DEF GatewayReceive
    <2>3. reply' \in [Slots -> Seq([ev : Events, kind : Answer])]
      BY <1>0, <2>0, <2>1 DEF RelayTypeOK
    <2>4. faults' \in 0..MaxFaults
      BY <1>10, FaultType DEF GatewayReceive
    <2> QED BY <1>0, <1>10, <2>2, <2>3, <2>4 DEF GatewayReceive, TypeOK, RelayTypeOK
  <1> QED BY <1>1, <1>2, <1>3, <1>4, <1>5, <1>6, <1>7, <1>8, <1>9, <1>10, <1>11

LEMMA WorkerTypes ==
    ASSUME TypeOK, NEW c \in Slots, Worker(c)
    PROVE  TypeOK'
  <1> USE DEF netVars, gatewayVars, dbVars, backendVars
  <1>0. OutboxTypeOK /\ RelayTypeOK
    BY DEF TypeOK
  <1>1. ASSUME UNCHANGED outboxVars PROVE OutboxTypeOK'
    BY <1>0, <1>1, OutboxMethods
  <1>S. ASSUME NEW e \in Events, Start(e) PROVE recent' \subseteq Events /\ raced' \subseteq Events
    BY <1>0, <1>S DEF Start, RelayTypeOK
  <1>2. CASE Take(c)
    <2>1. inbox[c] \in Seq(Events) /\ inbox[c] # <<>>
      BY <1>0, <1>2 DEF Take, RelayTypeOK
    <2>2. Head(inbox[c]) \in Events /\ Tail(inbox[c]) \in Seq(Events)
      BY <2>1, HeadTailType
    <2>3. inbox' \in [Slots -> Seq(Events)]
      BY <1>0, <1>2, <2>2 DEF Take, RelayTypeOK
    <2>4. job' \in [Slots -> {Idle} \cup Jobs]
      <3>1. [Idle EXCEPT !.phase = AfterCheck(Head(inbox[c])), !.ev = Head(inbox[c])] \in Jobs
        BY <2>2 DEF Idle, Jobs, AfterCheck, Phase
      <3> QED BY <1>0, <1>2, <3>1 DEF Take, RelayTypeOK
    <2>5. recent' \subseteq Events /\ raced' \subseteq Events
      BY <1>2, <1>S, <2>2 DEF Take
    <2> QED BY <1>0, <1>1, <1>2, <2>3, <2>4, <2>5 DEF Take, TypeOK, RelayTypeOK
  <1>3. ASSUME NEW p \in Phase \ {"idle"}, Busy(c, p) PROVE job[c].ev \in Events /\ job[c].phase # "idle"
    BY <1>3, BusyHoldsEvent DEF Busy
  <1>4. ASSUME NEW p \in Phase \ {"idle"}, NEW q \in Phase \ {"idle"}, Busy(c, p), Goto(c, q)
        PROVE  job' \in [Slots -> {Idle} \cup Jobs]
    BY <1>3, <1>4, GotoType
  <1>5. CASE Commit(c)
    <2>1. job[c].ev \in Events
      BY <1>3, <1>5 DEF Commit, Phase
    <2>2. job' \in [Slots -> {Idle} \cup Jobs]
      BY <1>4, <1>5 DEF Commit, Phase
    <2>3. applied' \in [Events -> 0..2] /\ faults' \in 0..MaxFaults
      BY <1>5, <2>1, EffectCounts DEF Commit
    <2> QED BY <1>0, <1>1, <1>5, <2>1, <2>2, <2>3 DEF Commit, TypeOK, RelayTypeOK
  <1>6. CASE RecoverLostRace(c)
    <2>1. job[c].ev \in Events
      BY <1>3, <1>6 DEF RecoverLostRace, Phase
    <2>2. job' \in [Slots -> {Idle} \cup Jobs]
      BY <1>4, <1>6 DEF RecoverLostRace, Phase
    <2> QED BY <1>0, <1>1, <1>6, <2>1, <2>2 DEF RecoverLostRace, TypeOK, RelayTypeOK
  <1>7. CASE CommitEffect(c)
    <2>2. job' \in [Slots -> {Idle} \cup Jobs]
      BY <1>4, <1>7 DEF CommitEffect, Phase
    <2>1. job[c].ev \in Events
      BY <1>3, <1>7 DEF CommitEffect, Phase
    <2>3. applied' \in [Events -> 0..2] /\ faults' \in 0..MaxFaults
      BY <1>7, <2>1, EffectCounts DEF CommitEffect
    <2> QED BY <1>0, <1>1, <1>7, <2>2, <2>3 DEF CommitEffect, TypeOK, RelayTypeOK
  <1>8. CASE RecordProcessed(c)
    <2>1. job[c].ev \in Events
      BY <1>3, <1>8 DEF RecordProcessed, Phase
    <2>2. job' \in [Slots -> {Idle} \cup Jobs]
      BY <1>4, <1>8 DEF RecordProcessed, Phase
    <2> QED BY <1>0, <1>1, <1>8, <2>1, <2>2 DEF RecordProcessed, TypeOK, RelayTypeOK
  <1>9. CASE Skip(c)
    <2>1. job[c].ev \in Events
      BY <1>3, <1>9 DEF Skip, Phase
    <2>2. job' \in [Slots -> {Idle} \cup Jobs]
      BY <1>4, <1>9 DEF Skip, Phase
    <2>3. faults' \in 0..MaxFaults
      BY <1>9, FaultType DEF Skip
    <2>4. processed' \subseteq Events /\ recent' \subseteq Events /\ skipped' \subseteq Events
      BY <1>0, <1>9, <2>1 DEF Skip, RelayTypeOK
    <2> QED BY <1>0, <1>1, <1>9, <2>2, <2>3, <2>4 DEF Skip, TypeOK, RelayTypeOK
  <1>10. CASE Hold(c)
    <2>1. job[c].ev \in Events
      BY <1>3, <1>10 DEF Hold, Phase
    <2>2. job' \in [Slots -> {Idle} \cup Jobs]
      BY <1>4, <1>10 DEF Hold, Phase
    <2> QED BY <1>0, <1>1, <1>10, <2>1, <2>2 DEF Hold, TypeOK, RelayTypeOK
  <1>11. CASE Fail(c)
    <2>2. job' \in [Slots -> {Idle} \cup Jobs]
      BY <1>4, <1>11 DEF Fail, Phase
    <2> QED BY <1>0, <1>1, <1>11, <2>2 DEF Fail, TypeOK, RelayTypeOK
  <1>12. CASE Raise(c)
    <2>2. job' \in [Slots -> {Idle} \cup Jobs]
      BY <1>4, <1>12 DEF Raise, Phase
    <2>3. faults' \in 0..MaxFaults
      BY <1>12, FaultType DEF Raise
    <2> QED BY <1>0, <1>1, <1>12, <2>2, <2>3 DEF Raise, TypeOK, RelayTypeOK
  <1>13. CASE DrainStart(c)
    <2>1. job[c] \in Jobs /\ held \subseteq Events
      BY <1>0, <1>13, BusyHoldsEvent DEF DrainStart, Busy, RelayTypeOK
    <2>2. CASE Goto(c, "publish") /\ UNCHANGED held
      <3>1. job' \in [Slots -> {Idle} \cup Jobs]
        BY <1>4, <1>13, <2>2 DEF DrainStart, Phase
      <3> QED BY <1>0, <1>1, <1>13, <2>2, <3>1 DEF DrainStart, TypeOK, RelayTypeOK
    <2>3. CASE /\ job' = [job EXCEPT ![c] = [job[c] EXCEPT !.phase = "drain", !.outer = job[c].ev, !.todo = held]]
               /\ held' = {}
      <3>1. [job[c] EXCEPT !.phase = "drain", !.outer = job[c].ev, !.todo = held] \in Jobs
        BY <2>1 DEF Jobs, Phase
      <3>2. job' \in [Slots -> {Idle} \cup Jobs]
        BY <1>0, <2>3, <3>1 DEF RelayTypeOK
      <3> QED BY <1>0, <1>1, <1>13, <2>3, <3>2 DEF DrainStart, TypeOK, RelayTypeOK
    <2> QED BY <1>13, <2>2, <2>3 DEF DrainStart
  <1>15. CASE DrainTake(c)
    <2>1. job[c] \in Jobs
      BY <1>0, <1>15, BusyHoldsEvent DEF DrainTake, Busy, RelayTypeOK
    <2>2. PICK e \in job[c].todo :
             LET rest == [job[c] EXCEPT !.todo = @ \ {e}] IN
             \/ /\ job' = [job EXCEPT ![c] = rest]
                /\ UNCHANGED <<raced, backendVars>>
             \/ /\ Start(e)
                /\ job' = [job EXCEPT ![c] = IF Known(e) THEN rest
                                             ELSE [rest EXCEPT !.phase = "handling", !.ev = e]]
                /\ held' = IF Known(e) THEN held \cup {e} ELSE held
      BY <1>15 DEF DrainTake
    <2> DEFINE rest == [job[c] EXCEPT !.todo = @ \ {e}]
    <2>3. e \in Events
      BY <2>1 DEF Jobs
    <2>4. rest \in Jobs /\ [rest EXCEPT !.phase = "handling", !.ev = e] \in Jobs
      BY <2>1, <2>3 DEF Jobs, Phase
    <2>5. \E r \in Jobs : job' = [job EXCEPT ![c] = r]
      BY <2>2, <2>4
    <2>6. job' \in [Slots -> {Idle} \cup Jobs]
      BY <1>0, <2>5 DEF RelayTypeOK
    <2>7. recent' \subseteq Events /\ raced' \subseteq Events /\ held' \subseteq Events
      BY <1>0, <1>S, <2>2, <2>3 DEF RelayTypeOK
    <2> QED BY <1>0, <1>1, <1>15, <2>6, <2>7 DEF DrainTake, TypeOK, RelayTypeOK
  <1>16. CASE DrainReturn(c)
    <2>1. job[c] \in Jobs /\ job[c].outer \in Events
      <3>1. job[c].phase # "idle"
        BY <1>16 DEF DrainReturn, Busy
      <3> QED BY <1>0, <1>16, <3>1, BusyHoldsEvent DEF DrainReturn, RelayTypeOK, Jobs
    <2>2. [job[c] EXCEPT !.phase = "drain", !.ev = job[c].outer] \in Jobs
      BY <2>1 DEF Jobs, Phase
    <2>3. job' \in [Slots -> {Idle} \cup Jobs]
      BY <1>0, <1>16, <2>2 DEF DrainReturn, RelayTypeOK
    <2>4. held' \subseteq Events
      BY <1>0, <1>16, <2>1 DEF DrainReturn, RelayTypeOK, Jobs
    <2> QED BY <1>0, <1>1, <1>16, <2>3, <2>4 DEF DrainReturn, TypeOK, RelayTypeOK
  <1>17. CASE DrainEnd(c)
    <2>1. job[c] \in Jobs
      BY <1>0, <1>17, BusyHoldsEvent DEF DrainEnd, Busy, RelayTypeOK
    <2>2. [job[c] EXCEPT !.phase = "publish", !.outer = NoEvent] \in Jobs
      BY <2>1 DEF Jobs, Phase
    <2>3. job' \in [Slots -> {Idle} \cup Jobs]
      BY <1>0, <1>17, <2>2 DEF DrainEnd, RelayTypeOK
    <2> QED BY <1>0, <1>1, <1>17, <2>3 DEF DrainEnd, TypeOK, RelayTypeOK
  <1>14. CASE Respond(c)
    <2>1. job[c].ev \in Events
      BY <1>3, <1>14 DEF Respond, Phase
    <2>2. job' \in [Slots -> {Idle} \cup Jobs]
      BY <1>0, <1>14 DEF Respond, RelayTypeOK
    <2>3. reply' \in [Slots -> Seq([ev : Events, kind : Answer])]
      <3>1. CASE UNCHANGED reply
        BY <1>0, <3>1 DEF RelayTypeOK
      <3>2. ASSUME NEW k \in Answer, reply' = [reply EXCEPT ![c] = Append(@, [ev |-> job[c].ev, kind |-> k])]
            PROVE  reply' \in [Slots -> Seq([ev : Events, kind : Answer])]
        <4>1. reply[c] \in Seq([ev : Events, kind : Answer]) /\ [ev |-> job[c].ev, kind |-> k] \in [ev : Events, kind : Answer]
          BY <1>0, <2>1 DEF RelayTypeOK
        <4>2. Append(reply[c], [ev |-> job[c].ev, kind |-> k]) \in Seq([ev : Events, kind : Answer])
          BY <4>1
        <4> QED BY <1>0, <3>2, <4>2 DEF RelayTypeOK
      <3> QED BY <1>14, <3>1, <3>2 DEF Respond, Busy, Answer
    <2> QED BY <1>0, <1>1, <1>14, <2>2, <2>3 DEF Respond, TypeOK, RelayTypeOK
  <1> QED BY <1>2, <1>5, <1>6, <1>7, <1>8, <1>9, <1>10, <1>11, <1>12, <1>13, <1>14,
            <1>15, <1>16, <1>17 DEF Worker

LEMMA ConnectionTypes ==
    ASSUME TypeOK,
           \/ \E c \in Slots : Disconnect(c) \/ DrainDone(c) \/ DrainTimeout(c)
           \/ BackendCrash \/ GatewayCrash
    PROVE  TypeOK'
  <1> USE DEF netVars, gatewayVars, dbVars, backendVars
  <1>0. OutboxTypeOK /\ RelayTypeOK
    BY DEF TypeOK
  <1>1. ASSUME UNCHANGED outboxVars PROVE OutboxTypeOK'
    BY <1>0, <1>1, OutboxMethods
  <1>2. ASSUME NEW c \in Slots, Cut(c)
        PROVE  /\ slot' \in [Slots -> SlotState]
               /\ inbox' \in [Slots -> Seq(Events)]
               /\ reply' \in [Slots -> Seq([ev : Events, kind : Answer])]
               /\ job' = job
    <2>1. PICK n \in 0..Len(inbox[c]) : inbox' = [inbox EXCEPT ![c] = SubSeq(@, 1, n)]
      BY <1>2 DEF Cut
    <2>0. inbox[c] \in Seq(Events)
      BY <1>0 DEF RelayTypeOK
    <2>2. SubSeq(inbox[c], 1, n) \in Seq(Events)
      BY <2>0, <2>1, PrefixType
    <2>3. inbox' \in [Slots -> Seq(Events)]
      BY <1>0, <2>1, <2>2 DEF RelayTypeOK
    <2>4. reply' \in [Slots -> Seq([ev : Events, kind : Answer])]
      <3>1. reply' = [reply EXCEPT ![c] = <<>>] /\ <<>> \in Seq([ev : Events, kind : Answer])
        BY <1>2 DEF Cut
      <3> QED BY <1>0, <3>1 DEF RelayTypeOK
    <2> QED BY <1>0, <1>2, <2>3, <2>4 DEF RelayTypeOK, Cut, SlotState
  <1>3. ASSUME NEW c \in Slots, Disconnect(c) PROVE TypeOK'
    <2>1. faults' \in 0..MaxFaults
      BY <1>3, FaultType DEF Disconnect
    <2> QED BY <1>0, <1>1, <1>2, <1>3, <2>1 DEF Disconnect, TypeOK, RelayTypeOK
  <1>4. ASSUME NEW c \in Slots, DrainDone(c) PROVE TypeOK'
    BY <1>0, <1>1, <1>4 DEF DrainDone, TypeOK, RelayTypeOK, SlotState
  <1>5. ASSUME NEW c \in Slots, DrainTimeout(c) PROVE TypeOK'
    <2>1. inbox' \in [Slots -> Seq(Events)]
      BY <1>0, <1>5 DEF DrainTimeout, RelayTypeOK
    <2> QED BY <1>0, <1>1, <1>5, <2>1 DEF DrainTimeout, TypeOK, RelayTypeOK, SlotState
  <1>6. CASE BackendCrash
    <2>1. faults' \in 0..MaxFaults
      BY <1>6, FaultType DEF BackendCrash
    <2>2. inbox' \in [Slots -> Seq(Events)] /\ reply' \in [Slots -> Seq([ev : Events, kind : Answer])]
      BY <1>6 DEF BackendCrash
    <2> QED BY <1>0, <1>1, <1>6, <2>1, <2>2 DEF BackendCrash, TypeOK, RelayTypeOK, SlotState
  <1>7. CASE GatewayCrash
    <2>1. faults' \in 0..MaxFaults
      BY <1>7, FaultType DEF GatewayCrash
    <2>2. /\ slot' \in [Slots -> SlotState]
          /\ inbox' \in [Slots -> Seq(Events)]
          /\ reply' \in [Slots -> Seq([ev : Events, kind : Answer])]
          /\ job' = job
      BY <1>0, <1>2, <1>7 DEF GatewayCrash, RelayTypeOK
    <2>3. batch' \in Seq(Events) /\ unreadable' \subseteq Events
      BY <1>0, <1>7 DEF GatewayCrash, RelayTypeOK
    <2> QED BY <1>0, <1>1, <1>7, <2>1, <2>2, <2>3 DEF GatewayCrash, TypeOK, RelayTypeOK
  <1> QED BY <1>3, <1>4, <1>5, <1>6, <1>7

LEMMA NextTypes == ASSUME TypeOK, Next PROVE TypeOK'
  BY GatewayTypes, WorkerTypes, ConnectionTypes DEF Next

LEMMA InitTypes == ASSUME Init PROVE TypeOK
  <1>1. OutboxTypeOK
    BY DEF Init, OutboxInit, OutboxTypeOK, RowState
  <1>2. slot \in [Slots -> SlotState] /\ job \in [Slots -> {Idle} \cup Jobs]
    BY DEF Init, SlotState
  <1>3. /\ inbox \in [Slots -> Seq(Events)]
        /\ reply \in [Slots -> Seq([ev : Events, kind : Answer])]
        /\ batch \in Seq(Events)
    BY DEF Init
  <1>4. applied \in [Events -> 0..2] /\ faults \in 0..MaxFaults
    BY DEF Init
  <1> QED BY <1>1, <1>2, <1>3, <1>4 DEF Init, TypeOK, RelayTypeOK

(* The state of every part of the relay, the queue table and the two         *)
(* processes, stays within its type, for every number of events and          *)
(* connections.                                                              *)
THEOREM TypeCorrect == Spec => []TypeOK
  <1>1. Init => TypeOK
    BY InitTypes
  <1>2. TypeOK /\ [Next]_vars => TypeOK'
    <2> SUFFICES ASSUME TypeOK, [Next]_vars PROVE TypeOK'
      OBVIOUS
    <2>1. CASE UNCHANGED vars
      <3>1. OutboxTypeOK'
        BY <2>1, OutboxMethods DEF vars, TypeOK
      <3> QED BY <2>1, <3>1 DEF vars, relayVars, netVars, gatewayVars, dbVars, backendVars, TypeOK, RelayTypeOK
    <2>2. CASE Next
      BY <2>2, NextTypes
    <2> QED BY <2>1, <2>2
  <1> QED BY <1>1, <1>2, PTL DEF Spec

(* The event whose commit started a replay stays committed. *)
OuterSettled == \A c \in Slots : job[c].outer # NoEvent => applied[job[c].outer] > 0

-----------------------------------------------------------------------------
(* Nothing is acknowledged that the backend has not settled.                 *)
(*                                                                           *)
(* AckedIsSettled is not inductive alone: an ACK is decided either after a   *)
(* commit (BroadcastIsPersisted) or because the duplicate check found the    *)
(* event recorded (RecordedIsSettled).  The conjunction is inductive, since  *)
(* no step ever takes an event out of Settled.                               *)

Inv ==
    /\ TypeOK
    /\ AckedIsSettled
    /\ RecordedIsSettled
    /\ BroadcastIsPersisted
    /\ OuterSettled

JobsSettled ==
    \A c \in Slots :
        /\ job[c].phase = "ack" => job[c].ev \in Settled
        /\ job[c].phase \in {"committed", "replay", "drain", "publish"} => applied[job[c].ev] > 0

RepliesSettled ==
    \A c \in Slots : \A i \in 1..Len(reply[c]) :
        reply[c][i].kind = "ack" => reply[c][i].ev \in Settled

RowsSettled == \A e \in Events : state[e] = "DELIVERED" => e \in Settled

LEMMA InvSplit ==
    Inv <=> TypeOK /\ JobsSettled /\ OuterSettled /\ RepliesSettled /\ RowsSettled /\ RecordedIsSettled
  BY DEF Inv, AckedIsSettled, BroadcastIsPersisted, JobsSettled, RepliesSettled, RowsSettled

LEMMA SettledGrows ==
    ASSUME TypeOK, Next
    PROVE  /\ \A e \in Events : applied[e] <= applied'[e]
           /\ Settled \subseteq Settled'
  <1> USE DEF relayVars, netVars, gatewayVars, dbVars, backendVars
  <1>1. ASSUME \A e \in Events : applied[e] <= applied'[e], skipped \subseteq skipped',
               applied' \in [Events -> 0..2]
        PROVE  Settled \subseteq Settled'
    <2>1. ASSUME NEW e \in Events, applied[e] > 0 PROVE applied'[e] > 0
      <3>1. applied[e] \in 0..2 /\ applied'[e] \in 0..2 /\ applied[e] <= applied'[e]
        BY <1>1 DEF TypeOK, RelayTypeOK
      <3> QED BY <2>1, <3>1
    <2> QED BY <1>1, <2>1 DEF Settled
  <1>2. CASE UNCHANGED applied /\ skipped \subseteq skipped'
    <2>1. applied' \in [Events -> 0..2] /\ \A e \in Events : applied[e] \in 0..2 /\ applied[e] = applied'[e]
      BY <1>2 DEF TypeOK, RelayTypeOK
    <2>2. \A e \in Events : applied[e] <= applied'[e]
      BY <2>1
    <2> QED BY <1>1, <1>2, <2>1, <2>2
  <1>3. CASE skipped \subseteq skipped' /\ \E e \in Events : Effect(e)
    <2>1. \A e \in Events : applied[e] <= applied'[e]
      BY <1>3, EffectCounts
    <2>2. applied' \in [Events -> 0..2]
      BY <1>3, EffectCounts
    <2> QED BY <1>1, <1>3, <2>1, <2>2
  <1>4. ASSUME NEW c \in Slots, Worker(c)
        PROVE  \/ UNCHANGED applied /\ skipped \subseteq skipped'
               \/ skipped \subseteq skipped' /\ \E e \in Events : Effect(e)
    BY <1>4, BusyHoldsEvent DEF Worker, Busy, Take, Commit, RecoverLostRace, CommitEffect, RecordProcessed,
                Skip, Hold, Fail, Raise, DrainStart, DrainTake, DrainReturn, DrainEnd, Respond
  <1>5. CASE ~ \E c \in Slots : Worker(c)
    BY <1>2, <1>5 DEF Next, Emit, WriteRow, WriteFails, WriteOrphaned, RowElapse, RequeueOnOpen, PumpClaim,
                      PumpSend, GatewayCleanup, Connect, GatewayReceive, Disconnect,
                      DrainDone, DrainTimeout, BackendCrash, GatewayCrash
  <1> QED BY <1>2, <1>3, <1>4, <1>5

(* A step of one worker is no step of another, *)
LEMMA OnlyOneWorks ==
    ASSUME TypeOK, NEW c \in Slots, Worker(c), NEW d \in Slots, d # c PROVE job'[d] = job[d]
  BY DEF Worker, Take, Commit, RecoverLostRace, CommitEffect, RecordProcessed, Skip, Hold, Fail, Raise,
         DrainStart, DrainTake, DrainReturn, DrainEnd, Respond, Goto, TypeOK, RelayTypeOK

(* and a step of none takes a job away or leaves it. *)
LEMMA OthersKeepJobs ==
    ASSUME TypeOK, Next, NEW d \in Slots, ~ \E c \in Slots : Worker(c)
    PROVE  job'[d] = job[d] \/ job'[d] = Idle
  <1> USE DEF relayVars, netVars, gatewayVars, dbVars, backendVars
  <1>1. CASE UNCHANGED job
    BY <1>1
  <1>2. CASE BackendCrash
    BY <1>2 DEF BackendCrash
  <1>3. ASSUME NEW c \in Slots, DrainTimeout(c) PROVE job'[d] = job[d] \/ job'[d] = Idle
    BY <1>3 DEF DrainTimeout, TypeOK, RelayTypeOK
  <1> QED
    BY <1>1, <1>2, <1>3 DEF Next, Emit, WriteRow, WriteFails, WriteOrphaned, RowElapse, RequeueOnOpen,
          PumpClaim, PumpSend, GatewayCleanup, Connect, GatewayReceive, Disconnect, Cut,
          DrainDone, GatewayCrash

(* Taking a held event leaves the worker at the drain, or handling the event. *)
LEMMA DrainTakes ==
    ASSUME TypeOK, NEW c \in Slots, DrainTake(c)
    PROVE  \/ job'[c].phase = "drain" /\ job'[c].ev = job[c].ev /\ job'[c].outer = job[c].outer
           \/ /\ job'[c].phase = "handling" /\ job'[c].outer = job[c].outer
              /\ job'[c].ev \in Events /\ Start(job'[c].ev) /\ ~Known(job'[c].ev)
  <1>1. job[c].phase = "drain" /\ job[c] \in Jobs
    BY BusyHoldsEvent DEF DrainTake, Busy
  <1>2. PICK e \in job[c].todo :
          LET rest == [job[c] EXCEPT !.todo = @ \ {e}] IN
          \/ job' = [job EXCEPT ![c] = rest]
          \/ /\ Start(e)
             /\ job' = [job EXCEPT ![c] = IF Known(e) THEN rest
                                          ELSE [rest EXCEPT !.phase = "handling", !.ev = e]]
    BY DEF DrainTake
  <1>3. e \in Events
    BY <1>1 DEF Jobs
  <1> DEFINE rest == [job[c] EXCEPT !.todo = @ \ {e}]
             next == [rest EXCEPT !.phase = "handling", !.ev = e]
  <1>4. /\ rest.phase = "drain" /\ rest.ev = job[c].ev /\ rest.outer = job[c].outer
        /\ next.phase = "handling" /\ next.ev = e /\ next.outer = job[c].outer
    BY <1>1 DEF Jobs
  <1>5. \/ job' = [job EXCEPT ![c] = rest]
        \/ Start(e) /\ ~Known(e) /\ job' = [job EXCEPT ![c] = next]
    BY <1>2
  <1> HIDE DEF rest, next
  <1>6. \/ job'[c] = rest
        \/ Start(e) /\ ~Known(e) /\ job'[c] = next
    BY <1>5, JobBecomes
  <1> QED BY <1>3, <1>4, <1>6

LEMMA JobsStep ==
    ASSUME Inv, Next PROVE JobsSettled'
  <1> USE DEF relayVars, netVars, gatewayVars, dbVars, backendVars
  <1> DEFINE Fine(d) == /\ job'[d].phase = "ack" => job'[d].ev \in Settled'
                        /\ job'[d].phase \in {"committed", "replay", "drain", "publish"}
                             => applied'[job'[d].ev] > 0
  <1>0. TypeOK /\ JobsSettled /\ OuterSettled /\ RecordedIsSettled
    BY InvSplit
  <1>1. ASSUME NEW d \in Slots, job'[d] = job[d] PROVE Fine(d)
    <2>1. CASE job[d].phase \in {"ack", "committed", "replay", "drain", "publish"}
      <3>1. job[d].ev \in Events
        BY <1>0, <2>1, BusyHoldsEvent
      <3>2. applied[job[d].ev] <= applied'[job[d].ev]
        BY <1>0, <3>1, SettledGrows
      <3>3. Settled \subseteq Settled'
        BY <1>0, SettledGrows
      <3>4. applied[job[d].ev] \in 0..2 /\ applied'[job[d].ev] \in 0..2
        BY <1>0, <3>1, NextTypes DEF TypeOK, RelayTypeOK
      <3> QED BY <1>0, <1>1, <3>2, <3>3, <3>4 DEF JobsSettled
    <2> QED BY <1>1, <2>1
  <1>2. ASSUME NEW d \in Slots, job'[d] = Idle PROVE Fine(d)
    BY <1>2 DEF Idle
  <1>3. ASSUME NEW c \in Slots, Worker(c) PROVE Fine(c)
    <2>1. CASE Take(c)
      <3>1. Head(inbox[c]) \in recent \cup processed => Head(inbox[c]) \in Settled'
        BY <1>0, SettledGrows DEF RecordedIsSettled
      <3>2. /\ job'[c].phase = IF Known(Head(inbox[c])) THEN "ack" ELSE "handling"
            /\ job'[c].ev = Head(inbox[c])
        BY <1>0, <2>1 DEF Take, AfterCheck, Idle, TypeOK, RelayTypeOK
      <3> QED BY <3>1, <3>2 DEF Known
    <2>2. ASSUME NEW p \in Phase \ {"idle"}, Goto(c, p), job[c].phase # "idle"
          PROVE  job'[c].phase = p /\ job'[c].ev = job[c].ev /\ job[c].ev \in Events
      BY <1>0, <2>2, BusyHoldsEvent, GotoBecomes
    <2>3. CASE Commit(c) \/ CommitEffect(c)
      <3>1. /\ job'[c].phase \in {"replay", "committed"}
            /\ job'[c].ev = job[c].ev /\ job[c].ev \in Events
            /\ Effect(job[c].ev)
        BY <2>2, <2>3 DEF Commit, CommitEffect, Busy, Phase
      <3> QED BY <1>0, <3>1, EffectCounts
    <2>4. CASE RecoverLostRace(c)
      <3>1. /\ job'[c].phase = "publish"
            /\ job'[c].ev = job[c].ev
            /\ applied[job[c].ev] > 0 /\ UNCHANGED applied
        BY <2>2, <2>4 DEF RecoverLostRace, Busy, Phase
      <3> QED BY <3>1
    <2>5. CASE RecordProcessed(c)
      <3>1. /\ job'[c].phase = "replay"
            /\ job'[c].ev = job[c].ev
            /\ job[c].phase = "committed" /\ UNCHANGED applied
        BY <2>2, <2>5 DEF RecordProcessed, Busy, Phase
      <3> QED BY <1>0, <3>1 DEF JobsSettled
    <2>6. CASE Skip(c)
      <3>1. /\ job'[c].phase = "ack" /\ job'[c].ev = job[c].ev
            /\ job[c].ev \in skipped'
        BY <2>2, <2>6 DEF Skip, Busy, Phase
      <3> QED BY <3>1 DEF Settled
    <2>7. CASE Hold(c) \/ Fail(c) \/ Raise(c)
      BY <2>2, <2>7 DEF Hold, Fail, Raise, Busy, Phase
    <2>8. ASSUME NEW e \in Events, applied[e] > 0, job'[c].ev = e, job'[c].phase \in {"drain", "publish", "handling"}
          PROVE  Fine(c)
      <3>1. applied[e] <= applied'[e]
        BY <1>0, SettledGrows
      <3>2. applied[e] \in 0..2 /\ applied'[e] \in 0..2
        BY <1>0, NextTypes DEF TypeOK, RelayTypeOK
      <3> QED BY <2>8, <3>1, <3>2
    <2>10. CASE DrainStart(c)
      <3>1. job[c].phase = "replay" /\ job[c].ev \in Events /\ applied[job[c].ev] > 0
        BY <1>0, <2>10, BusyHoldsEvent DEF DrainStart, Busy, JobsSettled
      <3>2. job'[c].ev = job[c].ev /\ job'[c].phase \in {"publish", "drain"}
        <4>1. CASE Goto(c, "publish")
          BY <1>0, <3>1, <4>1, GotoBecomes
        <4>2. ASSUME job' = [job EXCEPT ![c] = [job[c] EXCEPT !.phase = "drain", !.outer = job[c].ev, !.todo = held]]
              PROVE  job'[c].ev = job[c].ev /\ job'[c].phase = "drain"
          <5>1. job'[c] = [job[c] EXCEPT !.phase = "drain", !.outer = job[c].ev, !.todo = held]
            BY <1>0, <4>2, JobBecomes
          <5>2. job[c] \in Jobs
            BY <1>0, <3>1, BusyHoldsEvent
          <5> QED BY <5>1, <5>2 DEF Jobs
        <4> QED BY <2>10, <4>1, <4>2 DEF DrainStart
      <3> QED BY <2>8, <3>1, <3>2
    <2>11. CASE DrainTake(c)
      <3>1. job[c].phase = "drain" /\ job[c].ev \in Events /\ applied[job[c].ev] > 0
        BY <1>0, <2>11, BusyHoldsEvent DEF DrainTake, Busy, JobsSettled
      <3>2. \/ job'[c].ev = job[c].ev /\ job'[c].phase = "drain"
            \/ job'[c].phase = "handling"
        BY <1>0, <2>11, DrainTakes
      <3>3. CASE job'[c].phase = "handling"
        BY <3>3
      <3> QED BY <2>8, <3>1, <3>2, <3>3
    <2>12. CASE DrainReturn(c)
      <3>1. job[c].outer # NoEvent /\ job[c].phase # "idle"
        BY <2>12 DEF DrainReturn, Busy
      <3>2. job[c].outer \in Events /\ applied[job[c].outer] > 0
        BY <1>0, <3>1, BusyHoldsEvent DEF OuterSettled, Jobs
      <3>3. job'[c].ev = job[c].outer /\ job'[c].phase = "drain"
        BY <1>0, <2>12, <3>1, BusyHoldsEvent DEF DrainReturn, Jobs, TypeOK, RelayTypeOK
      <3> QED BY <2>8, <3>2, <3>3
    <2>13. CASE DrainEnd(c)
      <3>1. job[c].phase = "drain" /\ job[c].ev \in Events /\ applied[job[c].ev] > 0
        BY <1>0, <2>13, BusyHoldsEvent DEF DrainEnd, Busy, JobsSettled
      <3>2. job'[c].ev = job[c].ev /\ job'[c].phase = "publish"
        BY <1>0, <2>13, <3>1, BusyHoldsEvent DEF DrainEnd, Jobs, TypeOK, RelayTypeOK
      <3> QED BY <2>8, <3>1, <3>2
    <2>9. CASE Respond(c)
      BY <1>0, <1>2, <2>9 DEF Respond, TypeOK, RelayTypeOK
    <2> QED BY <1>3, <2>1, <2>3, <2>4, <2>5, <2>6, <2>7, <2>9, <2>10, <2>11, <2>12, <2>13 DEF Worker
  <1>4. ASSUME NEW c \in Slots, Worker(c), NEW d \in Slots, d # c PROVE job'[d] = job[d]
    BY <1>0, <1>4, OnlyOneWorks
  <1>5. ASSUME NEW d \in Slots, ~ \E c \in Slots : Worker(c) PROVE job'[d] = job[d] \/ job'[d] = Idle
    BY <1>0, <1>5, OthersKeepJobs
  <1>6. ASSUME NEW d \in Slots PROVE Fine(d)
    BY <1>1, <1>2, <1>3, <1>4, <1>5
  <1> QED BY <1>6 DEF JobsSettled

LEMMA OutersStep ==
    ASSUME Inv, Next PROVE OuterSettled'
  <1> USE DEF relayVars, netVars, gatewayVars, dbVars, backendVars
  <1>0. TypeOK /\ JobsSettled /\ OuterSettled
    BY InvSplit
  <1>1. ASSUME NEW e \in Events, applied[e] > 0 PROVE applied'[e] > 0
    <2>1. applied[e] <= applied'[e]
      BY <1>0, SettledGrows
    <2>2. applied[e] \in 0..2 /\ applied'[e] \in 0..2
      BY <1>0, NextTypes DEF TypeOK, RelayTypeOK
    <2> QED BY <1>1, <2>1, <2>2
  <1>2. ASSUME NEW d \in Slots, job'[d].outer \in {NoEvent, job[d].outer}, job'[d].outer # NoEvent
        PROVE  applied'[job'[d].outer] > 0
    <2>1. job[d].outer \in Events /\ applied[job[d].outer] > 0
      BY <1>0, <1>2 DEF OuterSettled, Idle, Jobs, TypeOK, RelayTypeOK
    <2> QED BY <1>1, <1>2, <2>1
  <1>3. ASSUME NEW c \in Slots, DrainStart(c), job'[c].outer # NoEvent PROVE applied'[job'[c].outer] > 0
    <2>1. job[c].phase = "replay" /\ job[c].ev \in Events /\ applied[job[c].ev] > 0
      BY <1>0, <1>3, BusyHoldsEvent DEF DrainStart, Busy, JobsSettled
    <2>2. job'[c].outer \in {job[c].outer, job[c].ev}
      <3>1. CASE Goto(c, "publish")
        BY <1>0, <2>1, <3>1, GotoBecomes
      <3>2. ASSUME job' = [job EXCEPT ![c] = [job[c] EXCEPT !.phase = "drain", !.outer = job[c].ev, !.todo = held]]
            PROVE  job'[c].outer = job[c].ev
        <4>1. job'[c] = [job[c] EXCEPT !.phase = "drain", !.outer = job[c].ev, !.todo = held]
          BY <1>0, <3>2, JobBecomes
        <4>2. job[c] \in Jobs
          BY <1>0, <2>1, BusyHoldsEvent
        <4> QED BY <4>1, <4>2 DEF Jobs
      <3> QED BY <1>3, <3>1, <3>2 DEF DrainStart
    <2> QED BY <1>1, <1>2, <1>3, <2>1, <2>2
  <1>4. ASSUME NEW c \in Slots, Worker(c), ~DrainStart(c) PROVE job'[c].outer \in {NoEvent, job[c].outer}
    <2>1. ASSUME NEW p, Goto(c, p), job[c].phase # "idle" PROVE job'[c].outer = job[c].outer
      BY <1>0, <2>1, GotoBecomes
    <2>2. CASE Take(c)
      <3>1. job'[c] = [Idle EXCEPT !.phase = AfterCheck(Head(inbox[c])), !.ev = Head(inbox[c])]
        BY <1>0, <2>2 DEF Take, TypeOK, RelayTypeOK
      <3> QED BY <3>1 DEF Idle
    <2>5. CASE Respond(c)
      <3>1. job'[c] = Idle
        BY <1>0, <2>5 DEF Respond, TypeOK, RelayTypeOK
      <3> QED BY <3>1 DEF Idle
    <2>3. CASE DrainTake(c)
      BY <1>0, <2>3, DrainTakes
    <2>6. CASE DrainReturn(c)
      <3>1. job[c] \in Jobs
        BY <1>0, <2>6, BusyHoldsEvent DEF DrainReturn, Busy
      <3>2. job'[c] = [job[c] EXCEPT !.phase = "drain", !.ev = job[c].outer]
        BY <1>0, <2>6 DEF DrainReturn, TypeOK, RelayTypeOK
      <3> QED BY <3>1, <3>2 DEF Jobs
    <2>7. CASE DrainEnd(c)
      <3>1. job[c] \in Jobs
        BY <1>0, <2>7, BusyHoldsEvent DEF DrainEnd, Busy
      <3>2. job'[c] = [job[c] EXCEPT !.phase = "publish", !.outer = NoEvent]
        BY <1>0, <2>7 DEF DrainEnd, TypeOK, RelayTypeOK
      <3> QED BY <3>1, <3>2 DEF Jobs
    <2>4. CASE Commit(c) \/ RecoverLostRace(c) \/ CommitEffect(c) \/ RecordProcessed(c) \/ Skip(c)
               \/ Hold(c) \/ Fail(c) \/ Raise(c)
      BY <2>1, <2>4 DEF Commit, RecoverLostRace, CommitEffect, RecordProcessed, Skip, Hold, Fail, Raise, Busy
    <2> QED BY <1>4, <2>2, <2>3, <2>4, <2>5, <2>6, <2>7 DEF Worker
  <1>5. ASSUME NEW d \in Slots, job'[d].outer # NoEvent PROVE applied'[job'[d].outer] > 0
    <2>1. ASSUME NEW c \in Slots, Worker(c) PROVE applied'[job'[d].outer] > 0
      <3>1. CASE d # c
        BY <1>0, <1>2, <1>5, <2>1, <3>1, OnlyOneWorks
      <3>2. CASE d = c
        BY <1>2, <1>3, <1>4, <1>5, <2>1, <3>2
      <3> QED BY <3>1, <3>2
    <2>2. CASE ~ \E c \in Slots : Worker(c)
      <3>1. job'[d] = job[d] \/ job'[d] = Idle
        BY <1>0, <2>2, OthersKeepJobs
      <3> QED BY <1>2, <1>5, <3>1 DEF Idle
    <2> QED BY <2>1, <2>2
  <1> QED BY <1>5 DEF OuterSettled

LEMMA RepliesStep ==
    ASSUME Inv, Next PROVE RepliesSettled'
  <1> USE DEF relayVars, netVars, gatewayVars, dbVars, backendVars
  <1>0. /\ TypeOK /\ JobsSettled /\ RepliesSettled
        /\ Settled \subseteq Settled'
    BY InvSplit, SettledGrows
  <1> DEFINE Fine(s) == \A i \in 1..Len(s) : s[i].kind = "ack" => s[i].ev \in Settled'
  <1>1. ASSUME NEW d \in Slots PROVE Fine(reply[d]) /\ reply[d] \in Seq([ev : Events, kind : Answer])
    BY <1>0 DEF RepliesSettled, TypeOK, RelayTypeOK
  <1>2. ASSUME NEW c \in Slots, GatewayReceive(c), NEW d \in Slots PROVE Fine(reply'[d])
    <2>1. CASE d # c
      BY <1>0, <1>1, <1>2, <2>1 DEF GatewayReceive, TypeOK, RelayTypeOK
    <2>2. CASE d = c
      <3>1. reply'[c] = Tail(reply[c]) /\ reply[c] # <<>>
        BY <1>0, <1>2 DEF GatewayReceive, TypeOK, RelayTypeOK
      <3>2. \A i \in 1..Len(Tail(reply[c])) :
               i+1 \in 1..Len(reply[c]) /\ Tail(reply[c])[i] = reply[c][i+1]
        BY <1>1, <3>1
      <3> QED BY <1>1, <2>2, <3>1, <3>2
    <2> QED BY <2>1, <2>2
  <1>3. ASSUME NEW c \in Slots, Respond(c), NEW d \in Slots PROVE Fine(reply'[d])
    <2>1. CASE reply'[d] = reply[d]
      BY <1>1, <2>1
    <2>2. ASSUME NEW k \in Answer, reply' = [reply EXCEPT ![c] = Append(@, [ev |-> job[c].ev, kind |-> k])],
                 k = "ack" => job[c].phase \in {"ack", "publish"}, d = c
          PROVE  Fine(reply'[d])
      <3>1. k = "ack" => job[c].ev \in Settled
        <4>1. CASE job[c].phase = "ack"
          BY <1>0, <4>1 DEF JobsSettled
        <4>2. CASE job[c].phase = "publish"
          BY <1>0, <4>2, BusyHoldsEvent DEF JobsSettled, Settled
        <4> QED BY <2>2, <4>1, <4>2
      <3>2. reply'[c] = Append(reply[c], [ev |-> job[c].ev, kind |-> k])
        BY <1>0, <2>2 DEF TypeOK, RelayTypeOK
      <3>3. \A i \in 1..Len(reply'[c]) :
               \/ i \in 1..Len(reply[c]) /\ reply'[c][i] = reply[c][i]
               \/ reply'[c][i] = [ev |-> job[c].ev, kind |-> k]
        BY <1>1, <3>2
      <3> QED BY <1>0, <1>1, <2>2, <3>1, <3>3
    <2>3. CASE Open(c) /\ d = c
      <3> DEFINE k == IF job[c].phase = "publish" THEN "ack" ELSE job[c].phase
      <3>1. k \in Answer /\ (k = "ack" => job[c].phase \in {"ack", "publish"})
        BY <1>3 DEF Respond, Busy, Answer
      <3>2. reply' = [reply EXCEPT ![c] = Append(@, [ev |-> job[c].ev, kind |-> k])]
        BY <1>3, <2>3 DEF Respond
      <3> HIDE DEF k
      <3> QED BY <2>2, <2>3, <3>1, <3>2
    <2>4. CASE ~Open(c) \/ d # c
      BY <1>0, <1>3, <2>1, <2>4 DEF Respond, TypeOK, RelayTypeOK
    <2> QED BY <2>3, <2>4
  <1>4. ASSUME ~ \E c \in Slots : Respond(c) \/ GatewayReceive(c), NEW d \in Slots
        PROVE  reply'[d] = reply[d] \/ reply'[d] = <<>>
    <2>1. ASSUME NEW c \in Slots, Cut(c) PROVE reply'[d] = reply[d] \/ reply'[d] = <<>>
      BY <1>0, <2>1 DEF Cut, TypeOK, RelayTypeOK
    <2>2. CASE BackendCrash
      BY <2>2 DEF BackendCrash
    <2>3. CASE UNCHANGED reply
      BY <2>3
    <2> QED
      BY <1>4, <2>1, <2>2, <2>3 DEF Next, Emit, WriteRow, WriteFails, WriteOrphaned, RowElapse, RequeueOnOpen,
            PumpClaim, PumpSend, GatewayCleanup, Connect, Disconnect, DrainDone, DrainTimeout,
            GatewayCrash, Worker, Take, Commit, RecoverLostRace, CommitEffect, RecordProcessed,
            Skip, Hold, Fail, Raise, DrainStart, DrainTake, DrainReturn, DrainEnd
  <1>5. ASSUME NEW d \in Slots PROVE Fine(reply'[d])
    <2>1. CASE \E c \in Slots : Respond(c) \/ GatewayReceive(c)
      BY <1>2, <1>3, <2>1
    <2>2. CASE reply'[d] = reply[d]
      BY <1>1, <2>2
    <2>3. CASE reply'[d] = <<>>
      BY <2>3
    <2> QED BY <1>4, <2>1, <2>2, <2>3
  <1> QED BY <1>5 DEF RepliesSettled

(* The only step that makes a row DELIVERED handles an ACK of that event. *)
LEMMA RowsDelivered ==
    ASSUME Inv, Next, NEW e \in Events, state'[e] = "DELIVERED", state[e] # "DELIVERED"
    PROVE  e \in Settled
  <1> USE DEF relayVars, netVars, gatewayVars, dbVars, backendVars
  <1>0. TypeOK /\ OutboxTypeOK /\ RepliesSettled
    BY InvSplit DEF TypeOK
  <1>1. ASSUME NEW f \in Events, Enqueue(f) \/ Elapse(f) \/ (\E p \in BOOLEAN : Reject(f, p)) PROVE FALSE
    BY <1>0, <1>1 DEF Enqueue, Elapse, Reject, OutboxTypeOK, outboxVars
  <1>2. ASSUME RequeueInflight \/ (\E q \in Batches : ClaimPending(q)) \/ (\E S : Cleanup(S)) PROVE FALSE
    BY <1>0, <1>2 DEF RequeueInflight, ClaimPending, Cleanup, OutboxTypeOK
  <1>3. ASSUME UNCHANGED outboxVars PROVE FALSE
    BY <1>3 DEF outboxVars
  <1>4. ASSUME NEW c \in Slots, GatewayReceive(c) PROVE e \in Settled
    <2>1. /\ reply[c] \in Seq([ev : Events, kind : Answer]) /\ reply[c] # <<>>
          /\ Head(reply[c]) \in [ev : Events, kind : Answer]
      BY <1>0, <1>4, HeadTailType DEF GatewayReceive, TypeOK, RelayTypeOK
    <2>2. Head(reply[c]).kind = "ack" /\ Acknowledge(Head(reply[c]).ev)
      BY <1>1, <1>3, <1>4, <2>1 DEF GatewayReceive
    <2>3. Head(reply[c]).ev = e
      BY <1>0, <2>1, <2>2 DEF Acknowledge, OutboxTypeOK
    <2>4. 1 \in 1..Len(reply[c]) /\ Head(reply[c]) = reply[c][1]
      BY <2>1
    <2> QED BY <1>0, <2>2, <2>3, <2>4 DEF RepliesSettled
  <1>5. CASE ~ \E c \in Slots : GatewayReceive(c)
    BY <1>1, <1>2, <1>3, <1>5 DEF Next, Emit, WriteRow, WriteFails, WriteOrphaned, RowElapse, RequeueOnOpen,
          PumpClaim, PumpSend, GatewayCleanup, Connect, Disconnect, DrainDone, DrainTimeout,
          BackendCrash, GatewayCrash, Worker, Take, Commit, RecoverLostRace, CommitEffect,
          RecordProcessed, Skip, Hold, Fail, Raise, DrainStart, DrainTake, DrainReturn, DrainEnd, Respond
  <1> QED BY <1>4, <1>5

LEMMA RowsStep ==
    ASSUME Inv, Next PROVE RowsSettled'
  <1>1. RowsSettled /\ Settled \subseteq Settled'
    BY InvSplit, SettledGrows
  <1> QED BY <1>1, RowsDelivered DEF RowsSettled

LEMMA RecordedStep ==
    ASSUME Inv, Next PROVE RecordedIsSettled'
  <1> USE DEF relayVars, netVars, gatewayVars, dbVars, backendVars
  <1>0. /\ TypeOK /\ JobsSettled /\ RecordedIsSettled
        /\ Settled \subseteq Settled'
    BY InvSplit, SettledGrows
  <1>1. ASSUME NEW S \in SUBSET Events, S \subseteq Settled',
               processed' \subseteq processed \cup recent \cup S,
               recent' \subseteq processed \cup recent \cup S
        PROVE  RecordedIsSettled'
    BY <1>0, <1>1 DEF RecordedIsSettled
  <1>2. CASE processed' \subseteq processed /\ recent' \subseteq recent
    BY <1>0, <1>2 DEF RecordedIsSettled
  <1>3. ASSUME NEW c \in Slots, Worker(c) PROVE RecordedIsSettled'
    <2>1. ASSUME NEW e \in Events, Effect(e) PROVE e \in Settled'
      BY <1>0, <2>1, EffectCounts DEF Settled
    <2>10. ASSUME NEW e, Start(e) PROVE recent' \subseteq processed \cup recent
      BY <2>10 DEF Start, Known
    <2>2. ASSUME job[c].phase # "idle" PROVE job[c].ev \in Events
      BY <1>0, <2>2, BusyHoldsEvent
    <2>3. CASE Take(c)
      <3>1. recent' \subseteq processed \cup recent /\ processed' = processed
        BY <2>3, <2>10 DEF Take
      <3> QED BY <1>0, <3>1 DEF RecordedIsSettled
    <2>4. CASE Commit(c)
      <3>1. job[c].ev \in Events /\ Effect(job[c].ev)
        BY <2>2, <2>4 DEF Commit, Busy
      <3>2. {job[c].ev} \in SUBSET Events /\ {job[c].ev} \subseteq Settled'
        BY <2>1, <3>1
      <3>3. /\ processed' \subseteq processed \cup recent \cup {job[c].ev}
            /\ recent' \subseteq processed \cup recent \cup {job[c].ev}
        BY <2>4 DEF Commit
      <3> QED BY <1>1, <3>2, <3>3
    <2>5. CASE RecoverLostRace(c)
      <3>1. job[c].ev \in Settled' /\ job[c].ev \in Events
        BY <1>0, <2>2, <2>5 DEF RecoverLostRace, Busy, Settled
      <3>2. {job[c].ev} \in SUBSET Events /\ {job[c].ev} \subseteq Settled'
        BY <3>1
      <3>3. /\ processed' \subseteq processed \cup recent \cup {job[c].ev}
            /\ recent' \subseteq processed \cup recent \cup {job[c].ev}
        BY <2>5 DEF RecoverLostRace
      <3> QED BY <1>1, <3>2, <3>3
    <2>6. CASE RecordProcessed(c)
      <3>1. job[c].ev \in Settled /\ job[c].ev \in Events
        BY <1>0, <2>2, <2>6 DEF RecordProcessed, Busy, Settled, JobsSettled
      <3>2. {job[c].ev} \in SUBSET Events /\ {job[c].ev} \subseteq Settled'
        BY <1>0, <3>1
      <3>3. /\ processed' \subseteq processed \cup recent \cup {job[c].ev}
            /\ recent' \subseteq processed \cup recent \cup {job[c].ev}
        BY <2>6 DEF RecordProcessed
      <3> QED BY <1>1, <3>2, <3>3
    <2>7. CASE Skip(c)
      <3>1. job[c].ev \in Settled' /\ job[c].ev \in Events
        BY <2>2, <2>7 DEF Skip, Busy, Settled
      <3>2. processed' \subseteq processed \cup {job[c].ev} /\ recent' \subseteq recent \cup {job[c].ev}
        BY <2>7 DEF Skip
      <3>3. {job[c].ev} \in SUBSET Events /\ {job[c].ev} \subseteq Settled'
        BY <3>1
      <3> QED BY <1>1, <3>2, <3>3
    <2>8. CASE DrainTake(c)
      <3>1. recent' \subseteq processed \cup recent /\ processed' = processed
        BY <2>8, <2>10 DEF DrainTake
      <3> QED BY <1>0, <3>1 DEF RecordedIsSettled
    <2>9. CASE CommitEffect(c) \/ Hold(c) \/ Fail(c) \/ Raise(c) \/ Respond(c)
               \/ DrainStart(c) \/ DrainReturn(c) \/ DrainEnd(c)
      BY <1>2, <2>9 DEF CommitEffect, Hold, Fail, Raise, Respond, DrainStart, DrainReturn, DrainEnd
    <2> QED BY <1>3, <2>3, <2>4, <2>5, <2>6, <2>7, <2>8, <2>9 DEF Worker
  <1>4. CASE ~ \E c \in Slots : Worker(c)
    BY <1>2, <1>4 DEF Next, Emit, WriteRow, WriteFails, WriteOrphaned, RowElapse, RequeueOnOpen,
          PumpClaim, PumpSend, GatewayCleanup, Connect, GatewayReceive, Disconnect, DrainDone,
          DrainTimeout, BackendCrash, GatewayCrash
  <1> QED BY <1>3, <1>4

LEMMA InvStep ==
    ASSUME Inv, [Next]_vars PROVE Inv'
  <1>1. CASE Next
    <2>1. TypeOK /\ TypeOK'
      BY <1>1, NextTypes, InvSplit
    <2>2. JobsSettled' /\ OuterSettled' /\ RepliesSettled' /\ RowsSettled' /\ RecordedIsSettled'
      BY <1>1, JobsStep, OutersStep, RepliesStep, RowsStep, RecordedStep
    <2> QED
      BY <2>1, <2>2 DEF Inv, AckedIsSettled, BroadcastIsPersisted, JobsSettled, RepliesSettled, RowsSettled
  <1>2. CASE UNCHANGED vars
    BY <1>2 DEF Inv, TypeOK, OutboxTypeOK, RelayTypeOK, AckedIsSettled, RecordedIsSettled,
                BroadcastIsPersisted, OuterSettled, Settled, vars, relayVars, outboxVars, netVars, gatewayVars,
                dbVars, backendVars
  <1> QED BY <1>1, <1>2

LEMMA InitInv == Init => Inv
  <1> SUFFICES ASSUME Init PROVE Inv
    OBVIOUS
  <1>1. TypeOK
    BY InitTypes
  <1>2. AckedIsSettled /\ RecordedIsSettled /\ BroadcastIsPersisted /\ OuterSettled
    BY DEF Init, OutboxInit, Idle, AckedIsSettled, RecordedIsSettled, BroadcastIsPersisted, OuterSettled
  <1> QED BY <1>1, <1>2 DEF Inv

(* The acknowledgement discipline, for any number of events, connections and *)
(* faults: an ACK decided, in flight or applied to a row means the event is  *)
(* settled; an event recorded as processed is settled; and what a worker is  *)
(* about to broadcast is committed.  None of the three is inductive alone:   *)
(* an ACK may rest on processed_events (the duplicate check), the record on  *)
(* a worker's commit, and the row on an ACK in flight.                       *)
THEOREM Discipline == Spec => [](AckedIsSettled /\ RecordedIsSettled /\ BroadcastIsPersisted)
  <1>1. Init => Inv
    BY InitInv
  <1>2. Inv /\ [Next]_vars => Inv'
    BY InvStep
  <1>3. Inv => AckedIsSettled /\ RecordedIsSettled /\ BroadcastIsPersisted
    BY DEF Inv
  <1> QED BY <1>1, <1>2, <1>3, PTL DEF Spec

(* No event is acknowledged to the gateway, and so forgotten by its outbox, *)
(* before the backend has settled it.                                       *)
THEOREM AckedSafe == Spec => []AckedIsSettled
  BY Discipline, PTL

(* The duplicate check never swallows an event whose effect is missing. *)
THEOREM RecordedSafe == Spec => []RecordedIsSettled
  BY Discipline, PTL

(* Nothing is broadcast to the browser before it is committed. *)
THEOREM BroadcastSafe == Spec => []BroadcastIsPersisted
  BY Discipline, PTL

-----------------------------------------------------------------------------
(* One effect *)

Handling(c, e) == job[c].phase = "handling" /\ job[c].ev = e

(* The strengthening: while nobody has raced for an event, at most one       *)
(* worker handles it, and once its effect is there so is its record, and no  *)
(* worker handles it any more.                                               *)
OnceFor(e) ==
    /\ \A c, d \in Slots : Handling(c, e) /\ Handling(d, e) => c = d
    /\ applied[e] > 0 => e \in processed /\ \A c \in Slots : ~Handling(c, e)
    /\ applied[e] <= 1

Once == \A e \in Events \ (TwoStep \cup raced) : OnceFor(e)

(* raced only grows *)
LEMMA RacedGrows == ASSUME Next PROVE raced \subseteq raced'
  <1> USE DEF relayVars, netVars, gatewayVars, dbVars, backendVars
  <1>1. ASSUME NEW c \in Slots, Worker(c) PROVE raced \subseteq raced'
    BY <1>1 DEF Worker, Take, Commit, RecoverLostRace, CommitEffect, RecordProcessed, Skip, Hold, Fail,
                Raise, DrainStart, DrainTake, DrainReturn, DrainEnd, Respond, Start
  <1>2. CASE ~ \E c \in Slots : Worker(c)
    BY <1>2 DEF Next, Emit, WriteRow, WriteFails, WriteOrphaned, RowElapse, RequeueOnOpen, PumpClaim,
                PumpSend, GatewayCleanup, Connect, GatewayReceive, Disconnect,
                DrainDone, DrainTimeout, BackendCrash, GatewayCrash
  <1> QED BY <1>1, <1>2

(* A step that starts no work on an event, counts no effect of it and keeps *)
(* its record.                                                              *)
LEMMA OnceKept ==
    ASSUME NEW e, OnceFor(e), applied'[e] = applied[e], e \in processed => e \in processed',
           \A c \in Slots : Handling(c, e)' => Handling(c, e)
    PROVE  OnceFor(e)'
  BY DEF OnceFor

(* A worker starts on an event that nobody has in hand and that is not recorded. *)
LEMMA OnceStarted ==
    ASSUME TypeOK, NEW e \in Events, OnceFor(e), NEW c \in Slots, Start(e), ~Known(e), e \notin raced',
           UNCHANGED <<applied, processed>>,
           \A d \in Slots \ {c} : job'[d] = job[d]
    PROVE  OnceFor(e)'
  <1>1. \A d \in Slots : ~Handling(d, e)
    BY DEF Start, InHand, Handling
  <1>2. e \notin processed
    BY DEF Known
  <1>3. applied[e] \in 0..2 /\ ~(applied[e] > 0)
    BY <1>2 DEF OnceFor, TypeOK, RelayTypeOK
  <1>4. \A d \in Slots : Handling(d, e)' => d = c
    BY <1>1 DEF Handling
  <1> QED BY <1>3, <1>4 DEF OnceFor

LEMMA OnceWorker ==
    ASSUME TypeOK, NEW c \in Slots, Worker(c), NEW e \in Events, e \notin TwoStep, e \notin raced', OnceFor(e)
    PROVE  OnceFor(e)'
  <1> USE DEF relayVars, netVars, gatewayVars, dbVars, backendVars
  <1>1. \A d \in Slots \ {c} : job'[d] = job[d]
    BY OnlyOneWorks
  <1>2. ASSUME NEW p \in Phase \ {"idle", "handling"}, Goto(c, p) PROVE ~Handling(c, e)'
    BY <1>2 DEF Goto, Handling, TypeOK, RelayTypeOK, Jobs, Idle
  <1>3. ASSUME Handling(c, e)' => Handling(c, e) PROVE \A d \in Slots : Handling(d, e)' => Handling(d, e)
    BY <1>1, <1>3 DEF Handling
  <1>4. CASE Commit(c)
    <2>1. /\ job[c].phase = "handling" /\ job[c].ev \in Events
          /\ Effect(job[c].ev) /\ processed' = processed \cup {job[c].ev} /\ Goto(c, "replay")
      BY <1>4, BusyHoldsEvent DEF Commit, Busy
    <2>2. ~Handling(c, e)'
      BY <1>2, <2>1 DEF Phase
    <2>3. CASE job[c].ev # e
      <3>1. applied'[e] = applied[e]
        BY <2>1, <2>3, EffectCounts
      <3> QED BY <1>3, <2>1, <2>2, <3>1, OnceKept
    <2>4. CASE job[c].ev = e
      <3>1. Handling(c, e)
        BY <2>1, <2>4 DEF Handling
      <3>2. applied[e] = 0
        <4>1. applied[e] \in 0..2
          BY DEF TypeOK, RelayTypeOK
        <4> QED BY <3>1, <4>1 DEF OnceFor
      <3>3. applied'[e] = 1 /\ e \in processed'
        BY <2>1, <2>4, <3>2, EffectCounts
      <3>4. \A d \in Slots : ~Handling(d, e)'
        <4>1. \A d \in Slots \ {c} : ~Handling(d, e)
          BY <3>1 DEF OnceFor
        <4> QED BY <1>1, <2>2, <4>1 DEF Handling
      <3> QED BY <3>3, <3>4 DEF OnceFor
    <2> QED BY <2>3, <2>4
  <1>5. CASE CommitEffect(c)
    <2>1. /\ job[c].ev \in Events /\ job[c].ev # e
          /\ Effect(job[c].ev) /\ processed' = processed /\ Goto(c, "committed")
      BY <1>5, BusyHoldsEvent DEF CommitEffect, Busy
    <2>2. applied'[e] = applied[e]
      BY <2>1, EffectCounts
    <2>3. ~Handling(c, e)'
      BY <1>2, <2>1 DEF Phase
    <2> QED BY <1>3, <2>1, <2>2, <2>3, OnceKept
  <1>6. CASE RecoverLostRace(c) \/ RecordProcessed(c) \/ Skip(c) \/ Hold(c) \/ Fail(c) \/ Raise(c)
    <2>1. /\ applied' = applied /\ processed \subseteq processed'
          /\ \E p \in Phase \ {"idle", "handling"} : Goto(c, p)
      BY <1>6 DEF RecoverLostRace, RecordProcessed, Skip, Hold, Fail, Raise, Phase
    <2> QED BY <1>2, <1>3, <2>1, OnceKept
  <1>7. CASE Take(c)
    <2>1. /\ job'[c].ev = Head(inbox[c]) /\ Start(Head(inbox[c])) /\ UNCHANGED <<applied, processed>>
          /\ job'[c].phase = AfterCheck(Head(inbox[c]))
      BY <1>7 DEF Take, Idle, TypeOK, RelayTypeOK
    <2>2. CASE Handling(c, e)'
      <3>1. e = Head(inbox[c]) /\ ~Known(e)
        BY <2>1, <2>2 DEF Handling, AfterCheck
      <3> QED BY <1>1, <2>1, <3>1, OnceStarted
    <2>3. CASE ~Handling(c, e)'
      BY <1>3, <2>1, <2>3, OnceKept
    <2> QED BY <2>2, <2>3
  <1>8. CASE DrainTake(c)
    <2>1. job[c].phase = "drain" /\ job[c] \in Jobs /\ UNCHANGED <<applied, processed>>
      BY <1>8, BusyHoldsEvent DEF DrainTake, Busy
    <2>2. CASE Handling(c, e)'
      <3>1. Start(e) /\ ~Known(e)
        BY <1>8, <2>2, DrainTakes DEF Handling
      <3> QED BY <1>1, <2>1, <3>1, OnceStarted
    <2>3. CASE ~Handling(c, e)'
      BY <1>3, <2>1, <2>3, OnceKept
    <2> QED BY <2>2, <2>3
  <1>9. CASE DrainStart(c) \/ DrainReturn(c) \/ DrainEnd(c)
    <2>1. UNCHANGED <<applied, processed>> /\ job[c].phase # "idle"
      BY <1>9 DEF DrainStart, DrainReturn, DrainEnd, Busy
    <2>2. job[c] \in Jobs
      BY <2>1, BusyHoldsEvent
    <2>4. \/ Goto(c, "publish")
          \/ job' = [job EXCEPT ![c] = [job[c] EXCEPT !.phase = "drain", !.outer = job[c].ev, !.todo = held]]
          \/ job' = [job EXCEPT ![c] = [job[c] EXCEPT !.phase = "drain", !.ev = job[c].outer]]
          \/ job' = [job EXCEPT ![c] = [job[c] EXCEPT !.phase = "publish", !.outer = NoEvent]]
      BY <1>9 DEF DrainStart, DrainReturn, DrainEnd
    <2>5. job'[c].phase \in {"publish", "drain"}
      <3>1. CASE Goto(c, "publish")
        BY <2>1, <3>1, GotoBecomes
      <3>2. CASE job' = [job EXCEPT ![c] = [job[c] EXCEPT !.phase = "drain", !.outer = job[c].ev, !.todo = held]]
        <4>1. job'[c] = [job[c] EXCEPT !.phase = "drain", !.outer = job[c].ev, !.todo = held]
          BY <3>2, JobBecomes
        <4> QED BY <2>2, <4>1 DEF Jobs
      <3>3. CASE job' = [job EXCEPT ![c] = [job[c] EXCEPT !.phase = "drain", !.ev = job[c].outer]]
        <4>1. job'[c] = [job[c] EXCEPT !.phase = "drain", !.ev = job[c].outer]
          BY <3>3, JobBecomes
        <4> QED BY <2>2, <4>1 DEF Jobs
      <3>4. CASE job' = [job EXCEPT ![c] = [job[c] EXCEPT !.phase = "publish", !.outer = NoEvent]]
        <4>1. job'[c] = [job[c] EXCEPT !.phase = "publish", !.outer = NoEvent]
          BY <3>4, JobBecomes
        <4> QED BY <2>2, <4>1 DEF Jobs
      <3> QED BY <2>4, <3>1, <3>2, <3>3, <3>4
    <2>3. ~Handling(c, e)'
      BY <2>5 DEF Handling
    <2> QED BY <1>3, <2>1, <2>3, OnceKept
  <1>10. CASE Respond(c)
    <2>1. UNCHANGED <<applied, processed>> /\ ~Handling(c, e)'
      BY <1>10 DEF Respond, Handling, Idle, TypeOK, RelayTypeOK
    <2> QED BY <1>3, <2>1, OnceKept
  <1> QED BY <1>4, <1>5, <1>6, <1>7, <1>8, <1>9, <1>10 DEF Worker

LEMMA OnceStep ==
    ASSUME TypeOK, Once, [Next]_vars PROVE Once'
  <1> USE DEF relayVars, netVars, gatewayVars, dbVars, backendVars
  <1>1. CASE UNCHANGED vars
    BY <1>1 DEF vars, Once, OnceFor, Handling
  <1>2. ASSUME Next, NEW e \in Events, e \notin TwoStep, e \notin raced' PROVE OnceFor(e)'
    <2>1. OnceFor(e)
      BY <1>2, RacedGrows DEF Once
    <2>2. CASE \E c \in Slots : Worker(c)
      BY <1>2, <2>1, <2>2, OnceWorker
    <2>3. CASE ~ \E c \in Slots : Worker(c)
      <3>1. \A d \in Slots : job'[d] = job[d] \/ job'[d] = Idle
        BY <1>2, <2>3, OthersKeepJobs
      <3>2. \A d \in Slots : Handling(d, e)' => Handling(d, e)
        BY <3>1 DEF Handling, Idle
      <3>3. UNCHANGED applied /\ (e \in processed => e \in processed')
        BY <1>2, <2>3 DEF Next, Emit, WriteRow, WriteFails, WriteOrphaned, RowElapse, RequeueOnOpen, PumpClaim,
                      PumpSend, GatewayCleanup, Connect, GatewayReceive, Disconnect,
                      DrainDone, DrainTimeout, BackendCrash, GatewayCrash
      <3> QED BY <2>1, <3>2, <3>3, OnceKept
    <2> QED BY <2>2, <2>3
  <1>3. CASE Next
    BY <1>2, <1>3 DEF Once
  <1> QED BY <1>1, <1>3

(* The effect and the record of an event go together: a restart, a lost ACK  *)
(* or a replay never repeats an effect, for any number of copies and         *)
(* workers, as long as no two workers handle the event at once and its       *)
(* record has not been swept.                                                *)
THEOREM OneEffect == Spec => []OneEffectUnlessRaced
  <1>1. Init => Once
    <2>1. ASSUME Init, NEW e \in Events PROVE applied[e] = 0 /\ \A c \in Slots : ~Handling(c, e)
      BY <2>1 DEF Init, Handling, Idle
    <2>2. ASSUME Init, NEW e \in Events PROVE OnceFor(e)
      <3>1. applied[e] = 0
        BY <2>1, <2>2
      <3>2. \A c \in Slots : ~Handling(c, e)
        BY <2>1, <2>2
      <3> QED BY <3>1, <3>2 DEF OnceFor
    <2> QED BY <2>2 DEF Once
  <1>2. TypeOK /\ Once /\ [Next]_vars => Once'
    BY OnceStep
  <1>3. TypeOK /\ Once => OneEffectUnlessRaced
    <2>1. ASSUME TypeOK, NEW e \in Events, applied[e] <= 1 PROVE ~(applied[e] > 1)
      <3>1. applied[e] \in 0..2
        BY <2>1 DEF TypeOK, RelayTypeOK
      <3> QED BY <2>1, <3>1
    <2> QED BY <2>1 DEF Once, OnceFor, OneEffectUnlessRaced
  <1> QED BY <1>1, <1>2, <1>3, TypeCorrect, PTL DEF Spec

-----------------------------------------------------------------------------
(* The relay implements DurableDelivery *)

(* What a step does to the table: one method of the queue, an ACK only for a *)
(* settled event; and a step that touches the table settles nothing new.     *)
LEMMA OutboxStep ==
    ASSUME Inv, Next
    PROVE  \/ UNCHANGED outboxVars
           \/ /\ Settled' = Settled
              /\ \/ \E e \in Events : Enqueue(e) \/ Elapse(e)
                 \/ \E e \in Settled : Acknowledge(e)
                 \/ \E e \in Events, p \in BOOLEAN : Reject(e, p)
                 \/ \E q \in Batches : ClaimPending(q)
                 \/ RequeueInflight
                 \/ \E S \in SUBSET Events : Cleanup(S)
  <1> USE DEF relayVars, netVars, gatewayVars, dbVars, backendVars
  <1>1. TypeOK /\ RepliesSettled
    BY InvSplit
  <1>2. ASSUME NEW c \in Slots, GatewayReceive(c)
        PROVE  \/ UNCHANGED outboxVars
               \/ \E e \in Settled : Acknowledge(e)
               \/ \E e \in Events, p \in BOOLEAN : Reject(e, p)
    <2>1. /\ reply[c] \in Seq([ev : Events, kind : Answer]) /\ reply[c] # <<>>
          /\ Head(reply[c]) \in [ev : Events, kind : Answer]
      BY <1>1, <1>2, HeadTailType DEF GatewayReceive, TypeOK, RelayTypeOK
    <2>2. 1 \in 1..Len(reply[c]) /\ Head(reply[c]) = reply[c][1]
      BY <2>1
    <2>3. Head(reply[c]).kind = "ack" => Head(reply[c]).ev \in Settled
      BY <1>1, <2>2 DEF RepliesSettled
    <2>4. Head(reply[c]).ev \in Events /\ (Head(reply[c]).kind = "reject") \in BOOLEAN
      BY <2>1
    <2>5. \/ Head(reply[c]).kind = "ack" /\ Acknowledge(Head(reply[c]).ev)
          \/ Reject(Head(reply[c]).ev, Head(reply[c]).kind = "reject")
          \/ UNCHANGED outboxVars
      BY <1>2 DEF GatewayReceive
    <2> QED BY <2>3, <2>4, <2>5
  <1>3. ASSUME NEW c \in Slots, GatewayReceive(c) PROVE Settled' = Settled
    BY <1>3 DEF GatewayReceive, Settled
  <1>4. CASE ~ \E c \in Slots : GatewayReceive(c) \/ Worker(c)
    BY <1>4 DEF Next, Emit, WriteRow, WriteFails, WriteOrphaned, RowElapse, RequeueOnOpen, PumpClaim,
                PumpSend, GatewayCleanup, Connect, Disconnect, DrainDone, DrainTimeout,
                BackendCrash, GatewayCrash, Settled
  <1>5. ASSUME NEW c \in Slots, Worker(c) PROVE UNCHANGED outboxVars
    BY <1>5 DEF Worker, Take, Commit, RecoverLostRace, CommitEffect, RecordProcessed,
                Skip, Hold, Fail, Raise, DrainStart, DrainTake, DrainReturn, DrainEnd, Respond
  <1> QED BY <1>2, <1>3, <1>4, <1>5

LEMMA FinalStep ==
    ASSUME Inv, Next, NEW e \in Events, state[e] = "DELIVERED"
    PROVE  state'[e] \in {"DELIVERED", "ABSENT"}
  <1>1. OutboxTypeOK
    BY InvSplit DEF TypeOK
  <1> USE DEF OutboxTypeOK
  <1>2. CASE UNCHANGED outboxVars
    BY <1>2 DEF outboxVars
  <1>3. ASSUME NEW f \in Events, Enqueue(f) \/ Elapse(f) \/ Acknowledge(f) PROVE state'[e] = "DELIVERED"
    BY <1>1, <1>3 DEF Enqueue, Elapse, Acknowledge, outboxVars
  <1>4. ASSUME NEW f \in Events, NEW p \in BOOLEAN, Reject(f, p) PROVE state'[e] = "DELIVERED"
    BY <1>1, <1>4 DEF Reject
  <1>5. ASSUME NEW q \in Batches, ClaimPending(q) PROVE state'[e] = "DELIVERED"
    <2>1. Taken(q) \subseteq Claimable
      BY DEF Batches, Taken
    <2> QED BY <1>1, <1>5, <2>1 DEF ClaimPending, Claimable, Active
  <1>6. CASE RequeueInflight
    BY <1>1, <1>6 DEF RequeueInflight
  <1>7. ASSUME NEW S \in SUBSET Events, Cleanup(S) PROVE state'[e] \in {"DELIVERED", "ABSENT"}
    BY <1>1, <1>7 DEF Cleanup
  <1>8. Settled \subseteq Events
    BY InvSplit DEF Settled, TypeOK, RelayTypeOK
  <1> QED BY <1>2, <1>3, <1>4, <1>5, <1>6, <1>7, <1>8, OutboxStep

(* An acknowledged row is never put back in the queue by the refusal of a    *)
(* duplicate, by a claim, by the requeue of a new connection or by a timer.  *)
THEOREM Delivered == Spec => DeliveredIsFinal
  <1>1. Inv /\ [Next]_vars =>
            [\A e \in Events : state[e] = "DELIVERED" => state'[e] \in {"DELIVERED", "ABSENT"}]_vars
    BY FinalStep
  <1>2. Init => Inv
    BY InitInv
  <1>3. Inv /\ [Next]_vars => Inv'
    BY InvStep
  <1> QED BY <1>1, <1>2, <1>3, PTL DEF Spec, DeliveredIsFinal

LEMMA StageValues ==
    /\ Stage("ABSENT") = "none"
    /\ Stage("PENDING") = "waiting" /\ Stage("IN_FLIGHT") = "waiting"
    /\ Stage("DELIVERED") = "done" /\ Stage("DEAD_LETTER") = "dead"
  BY DEF Stage, Active

LEMMA ViewUpdate ==
    ASSUME OutboxTypeOK, NEW e \in Events, NEW s, state' = [state EXCEPT ![e] = s]
    PROVE  RowView' = [RowView EXCEPT ![e] = Stage(s)]
  BY DEF OutboxTypeOK, RowView

LEMMA RefinementStep ==
    ASSUME Inv, [Next]_vars
    PROVE  [Abstract!DNext]_(Abstract!dvars)
  <1> USE DEF Abstract!dvars
  <1>1. TypeOK /\ OutboxTypeOK
    BY InvSplit DEF TypeOK
  <1>2. \A e \in Events : RowView[e] = Stage(state[e]) /\ RowView'[e] = Stage(state'[e])
    BY DEF RowView
  <1>3. ASSUME \A e \in Events : Stage(state'[e]) = Stage(state[e]) PROVE RowView' = RowView
    BY <1>3 DEF RowView
  <1>4. CASE UNCHANGED vars
    <2>1. RowView' = RowView /\ Settled' = Settled
      BY <1>4 DEF vars, outboxVars, relayVars, dbVars, RowView, Settled
    <2> QED BY <2>1
  <1>5. CASE Next /\ UNCHANGED outboxVars
    <2>1. RowView' = RowView
      BY <1>5 DEF outboxVars, RowView
    <2>2. Settled \subseteq Settled' /\ Settled' \in SUBSET Events
      <3>1. TypeOK'
        BY <1>1, <1>5, NextTypes
      <3> QED BY <1>1, <1>5, <3>1, SettledGrows DEF Settled, TypeOK, RelayTypeOK
    <2>3. Abstract!Settle(Settled')
      BY <2>1, <2>2 DEF Abstract!Settle
    <2> QED BY <2>2, <2>3 DEF Abstract!DNext
  <1>6. ASSUME Settled' = Settled, NEW e \in Events, Enqueue(e) PROVE [Abstract!DNext]_(Abstract!dvars)
    <2>1. CASE UNCHANGED outboxVars
      BY <1>3, <1>6, <2>1 DEF outboxVars
    <2>2. CASE state[e] = "ABSENT" /\ state' = [state EXCEPT ![e] = "PENDING"]
      <3>1. RowView[e] = "none" /\ RowView' = [RowView EXCEPT ![e] = "waiting"]
        <4>1. RowView' = [RowView EXCEPT ![e] = Stage("PENDING")]
          BY <1>1, <2>2, ViewUpdate
        <4> QED BY <1>2, <2>2, <4>1, StageValues
      <3>2. Abstract!Offer(e)
        BY <1>6, <3>1 DEF Abstract!Offer
      <3> QED BY <3>2 DEF Abstract!DNext
    <2> QED BY <1>6, <2>1, <2>2 DEF Enqueue
  <1>7. ASSUME Settled' = Settled, NEW e \in Settled, Acknowledge(e) PROVE [Abstract!DNext]_(Abstract!dvars)
    <2>0. e \in Events
      BY <1>1 DEF Settled, TypeOK, RelayTypeOK
    <2>1. CASE state[e] \in {"ABSENT", "DELIVERED"}
      <3>1. state' = state
        BY <1>1, <1>7, <2>0, <2>1 DEF Acknowledge, OutboxTypeOK
      <3> QED BY <1>3, <1>7, <3>1
    <2>2. CASE state[e] \in {"PENDING", "IN_FLIGHT", "DEAD_LETTER"}
      <3>1. RowView[e] \in {"waiting", "dead"} /\ RowView' = [RowView EXCEPT ![e] = "done"]
        BY <1>1, <1>2, <1>7, <2>0, <2>2, StageValues, ViewUpdate DEF Acknowledge
      <3>2. Abstract!Complete(e)
        BY <1>7, <3>1 DEF Abstract!Complete
      <3> QED BY <2>0, <3>2 DEF Abstract!DNext
    <2> QED BY <1>1, <2>0, <2>1, <2>2 DEF OutboxTypeOK, RowState
  <1>8. ASSUME Settled' = Settled, NEW e \in Events, NEW p \in BOOLEAN, Reject(e, p)
        PROVE  [Abstract!DNext]_(Abstract!dvars)
    <2>1. CASE state' = state
      BY <1>3, <1>8, <2>1
    <2>2. CASE state[e] \in Active /\ state' = [state EXCEPT ![e] = "DEAD_LETTER"]
      <3>1. RowView[e] = "waiting" /\ RowView' = [RowView EXCEPT ![e] = "dead"]
        <4>1. RowView' = [RowView EXCEPT ![e] = Stage("DEAD_LETTER")]
          BY <1>1, <2>2, ViewUpdate
        <4> QED BY <1>2, <2>2, <4>1, StageValues DEF Active
      <3>2. Abstract!Refuse(e)
        BY <1>8, <3>1 DEF Abstract!Refuse
      <3> QED BY <3>2 DEF Abstract!DNext
    <2>3. CASE state[e] = "DEAD_LETTER" /\ state' = [state EXCEPT ![e] = "PENDING"]
      <3>1. RowView[e] = "dead" /\ RowView' = [RowView EXCEPT ![e] = "waiting"]
        <4>1. RowView' = [RowView EXCEPT ![e] = Stage("PENDING")]
          BY <1>1, <2>3, ViewUpdate
        <4> QED BY <1>2, <2>3, <4>1, StageValues
      <3>2. Abstract!Revive(e)
        BY <1>8, <3>1 DEF Abstract!Revive
      <3> QED BY <3>2 DEF Abstract!DNext
    <2>4. CASE state[e] \in Active /\ state' = [state EXCEPT ![e] = "PENDING"]
      <3>1. \A f \in Events : Stage(state'[f]) = Stage(state[f])
        BY <1>1, <2>4 DEF Stage, Active, OutboxTypeOK
      <3> QED BY <1>3, <1>8, <3>1
    <2>5. CASE state[e] = "DEAD_LETTER" /\ state' = [state EXCEPT ![e] = "DEAD_LETTER"]
      <3>1. state' = state
        BY <1>1, <2>5 DEF OutboxTypeOK
      <3> QED BY <2>1, <3>1
    <2>6. state[e] \in RowState
      BY <1>1 DEF OutboxTypeOK
    <2> QED BY <1>8, <2>1, <2>2, <2>3, <2>4, <2>5, <2>6 DEF Reject, RowState, Active
  <1>9. ASSUME Settled' = Settled,
               \/ \E e \in Events : Elapse(e)
               \/ \E q \in Batches : ClaimPending(q)
               \/ RequeueInflight
        PROVE  [Abstract!DNext]_(Abstract!dvars)
    <2>1. ASSUME NEW q \in Batches, ClaimPending(q), NEW e \in Events
          PROVE  Stage(state'[e]) = Stage(state[e])
      <3>1. Taken(q) \subseteq Claimable
        BY DEF Batches, Taken
      <3> QED BY <2>1, <3>1 DEF ClaimPending, Claimable, Stage, Active
    <2>2. ASSUME RequeueInflight, NEW e \in Events PROVE Stage(state'[e]) = Stage(state[e])
      BY <2>2 DEF RequeueInflight, Stage, Active
    <2>3. ASSUME NEW f \in Events, Elapse(f) PROVE state' = state
      BY <2>3 DEF Elapse
    <2> QED BY <1>3, <1>9, <2>1, <2>2, <2>3
  <1>10. ASSUME Settled' = Settled, NEW S \in SUBSET Events, Cleanup(S)
         PROVE  [Abstract!DNext]_(Abstract!dvars)
    <2>1. \A e \in S : RowView[e] \in {"done", "dead"}
      BY <1>10 DEF Cleanup, RowView, Stage, Active, Terminal
    <2>2. RowView' = [e \in Events |-> IF e \in S THEN "none" ELSE RowView[e]]
      <3>1. \A e \in Events : Stage(state'[e]) = IF e \in S THEN "none" ELSE Stage(state[e])
        BY <1>10, StageValues DEF Cleanup
      <3> QED BY <3>1 DEF RowView
    <2>3. Abstract!Forget(S)
      BY <1>10, <2>1, <2>2 DEF Abstract!Forget
    <2> QED BY <2>3 DEF Abstract!DNext
  <1> QED BY <1>4, <1>5, <1>6, <1>7, <1>8, <1>9, <1>10, OutboxStep

(* The relay, with its connections, duplicates, retries and restarts,        *)
(* implements the promise of DurableDelivery: a row is done only after the   *)
(* backend has settled its event.  The step that needs the invariant is      *)
(* Complete: the ACK that marks the row must be of a settled event.          *)
THEOREM Refinement == Spec => ImplementsDurableDelivery
  <1>1. Init => Abstract!DInit
    BY DEF Init, OutboxInit, Abstract!DInit, RowView, Stage, Settled, Active
  <1>2. Inv /\ [Next]_vars => [Abstract!DNext]_(Abstract!dvars)
    BY RefinementStep
  <1>3. Init => Inv
    BY InitInv
  <1>4. Inv /\ [Next]_vars => Inv'
    BY InvStep
  <1> QED BY <1>1, <1>2, <1>3, <1>4, PTL DEF Spec, ImplementsDurableDelivery, Abstract!DSpec
=============================================================================
