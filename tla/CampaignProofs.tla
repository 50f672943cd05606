--------------------------- MODULE CampaignProofs ---------------------------
(***************************************************************************)
(* Theorems about CampaignRunner, for every set of leads, workers and      *)
(* requests, every number of steps, launches and failures.                 *)
(***************************************************************************)
EXTENDS CampaignRunner, TLAPS

USE CampaignAssumption

-----------------------------------------------------------------------------
(* Types.  TypeOK is not inductive: a follow-up that is recorded moves its *)
(* row to the next step, which is within the range only because rows that  *)
(* are due have a step left.                                               *)

WorkerRecord == [pc : WorkerPhase, mem : CampaignStatus \cup {"NONE"},
                 count : Nat, todo : SUBSET Leads, old : SUBSET Leads,
                 cur : Leads \cup {NoLead}]

SeqRecord  == [status : SeqStatus, step : 0..Steps, due : BOOLEAN]
CallRecord == [pc : Pending, mem : CampaignStatus \cup {"NONE"}]
TickRecord == [pc : TickPhase, mem : CampaignStatus \cup {"NONE"}, count : Nat,
               rows : SUBSET Rows, cur : Leads \cup {NoLead}, step : 0..Steps]

Parts ==
    /\ status \in CampaignStatus
    /\ sentCount \in Nat
    /\ lead \in [Leads -> LeadStatus]
    /\ seq \in [Leads -> SeqRecord]
    /\ worker \in [Workers -> WorkerRecord]
    /\ task \in Workers \cup {NoWorker}
    /\ call \in [Calls -> CallRecord]
    /\ tick \in TickRecord
    /\ sent \in [Leads -> [1..Steps -> Nat]]
    /\ total \in Nat
    /\ late \in [Leads -> [1..Steps -> Nat]]
    /\ launches \in 0..MaxLaunches
    /\ faults \in 0..MaxFaults
    /\ halted \in BOOLEAN
    /\ replied \subseteq Leads

(* A task that is about to handle a lead has one, and only a sequence has  *)
(* rows to track.                                                          *)
HasLead(r) ==
    /\ r.pc \in {"send", "record", "track"} => r.cur \in Leads
    /\ r.pc = "track" => Steps > 1

(* What is due, or being followed up, has a step left. *)
RowHasStep(r) == r.status = "ACTIVE" => r.step \in 1..(Steps - 1)

TickHasStep(t) ==
    /\ \A r \in t.rows : r.step < Steps
    /\ t.pc \in {"send", "record"} => t.cur \in Leads /\ t.step \in 1..(Steps - 1)

Types ==
    /\ Parts
    /\ \A w \in Workers : HasLead(worker[w])
    /\ \A l \in Leads : RowHasStep(seq[l])
    /\ TickHasStep(tick)

RequestStep(c) ==
    \/ Launch(c) \/ Claim(c) \/ Spawn(c) \/ Pause(c) \/ PauseCommits(c) \/ PauseCancels(c)
    \/ CancelFirst(c) \/ Schedule(c) \/ Delete(c) \/ Unschedule(c) \/ Unscheduled(c)

WorkerStep(w) == Work(w) \/ SendUnconfirmed(w) \/ RecordFails(w) \/ Break(w)

TickStep == Tick \/ FetchOthers \/ BreakTick

LeadStep(l) == Elapse(l) \/ Reply(l) \/ StopLead(l)

LateStep == \E l \in Leads, k \in 1..Steps : SendLate(l, k)

LEMMA NextCases ==
    ASSUME Next
    PROVE  \/ \E c \in Calls : RequestStep(c)
           \/ \E w \in Workers : WorkerStep(w)
           \/ \E l \in Leads : LeadStep(l)
           \/ TickStep
           \/ LateStep
           \/ Restart
  BY DEF Next, RequestStep, Resume, WorkerStep, TickStep, LeadStep, LateStep

LEMMA PartsAreTypes == Parts => TypeOK
  BY DEF Parts, TypeOK, WorkerRecord, SeqRecord, CallRecord, TickRecord

(* The records that stand for nothing *)
LEMMA NoTaskType == NoTask \in WorkerRecord /\ HasLead(NoTask) /\ NoTask.pc = "none"
  BY DEF NoTask, WorkerRecord, WorkerPhase, HasLead

LEMMA NoRowType == NoRow \in SeqRecord /\ RowHasStep(NoRow) /\ NoRow.status = "NONE"
  BY DEF NoRow, SeqRecord, SeqStatus, RowHasStep

LEMMA NoCallType == NoCall \in CallRecord /\ NoCall.pc = "none"
  BY DEF NoCall, CallRecord, Pending

LEMMA NoTickType == NoTick \in TickRecord /\ TickHasStep(NoTick) /\ NoTick.rows = {} /\ NoTick.pc = "idle"
  BY DEF NoTick, TickRecord, TickPhase, TickHasStep

LEMMA TypesInit == Init => Types
  <1> SUFFICES ASSUME Init PROVE Types
    OBVIOUS
  <1>1. Parts
    <2>1. worker \in [Workers -> WorkerRecord]
      BY NoTaskType DEF Init
    <2>2. seq \in [Leads -> SeqRecord]
      BY NoRowType DEF Init
    <2>3. call \in [Calls -> CallRecord] /\ tick \in TickRecord
      BY NoCallType, NoTickType DEF Init
    <2>4. status \in CampaignStatus /\ lead \in [Leads -> LeadStatus]
      BY DEF Init, CampaignStatus, LeadStatus
    <2>5. sent \in [Leads -> [1..Steps -> Nat]] /\ late \in [Leads -> [1..Steps -> Nat]]
      BY DEF Init
    <2>6. launches \in 0..MaxLaunches /\ faults \in 0..MaxFaults
      BY DEF Init
    <2>7. /\ sentCount \in Nat /\ total \in Nat /\ halted \in BOOLEAN /\ replied \subseteq Leads
          /\ task \in Workers \cup {NoWorker}
      BY DEF Init
    <2> QED BY <2>1, <2>2, <2>3, <2>4, <2>5, <2>6, <2>7 DEF Parts
  <1> QED BY <1>1, NoTaskType, NoRowType, NoTickType DEF Init, Types

(* The parts that a helper changes *)
LEMMA RequestType ==
    ASSUME Parts, NEW c \in Calls, NEW from, NEW to \in Pending, Request(c, from, to)
    PROVE  call' \in [Calls -> CallRecord]
  <1>1. [NoCall EXCEPT !.pc = to] \in CallRecord
    BY DEF NoCall, CallRecord
  <1> QED BY <1>1 DEF Request, Parts

LEMMA LoadType ==
    ASSUME Parts, NEW c \in Calls, NEW to \in Pending, Load(c, to)
    PROVE  call' \in [Calls -> CallRecord]
  BY DEF Load, Parts, CallRecord

LEMMA WriteType ==
    ASSUME Parts, NEW c \in Calls, NEW s \in CampaignStatus, Write(c, s)
    PROVE  status' \in CampaignStatus
  BY DEF Write, Parts

LEMMA WorkerMoves ==
    ASSUME Types, NEW w \in Workers, NEW r \in WorkerRecord, HasLead(r),
           worker' = [worker EXCEPT ![w] = r]
    PROVE  worker' \in [Workers -> WorkerRecord] /\ \A v \in Workers : HasLead(worker'[v])
  BY DEF Types, Parts

(* A worker that changes its phase only *)
LEMMA PhaseMoves ==
    ASSUME Types, NEW w \in Workers, NEW p \in WorkerPhase,
           p \in {"send", "record", "track"} => worker[w].cur \in Leads,
           p = "track" => Steps > 1,
           Goto(w, p)
    PROVE  worker' \in [Workers -> WorkerRecord] /\ \A v \in Workers : HasLead(worker'[v])
  <1> DEFINE r == [worker[w] EXCEPT !.pc = p]
  <1>1. worker[w] \in WorkerRecord
    BY DEF Types, Parts
  <1>2. r \in WorkerRecord /\ r.pc = p /\ r.cur = worker[w].cur
    BY <1>1 DEF WorkerRecord
  <1>3. HasLead(r)
    BY <1>2 DEF HasLead
  <1>4. worker' = [worker EXCEPT ![w] = r]
    BY DEF Goto
  <1> QED BY <1>2, <1>3, <1>4, WorkerMoves

LEMMA AdriftType ==
    ASSUME Types, NEW S, Adrift(S) PROVE late' \in [Leads -> [1..Steps -> Nat]]
  <1>1. \A l \in Leads : \A k \in 1..Steps : late[l][k] + (IF <<l, k>> \in S THEN 1 ELSE 0) \in Nat
    BY DEF Types, Parts
  <1> QED BY <1>1 DEF Adrift

LEMMA CancelTaskType ==
    ASSUME Types, CancelTask
    PROVE  /\ worker' \in [Workers -> WorkerRecord]
           /\ task' \in Workers \cup {NoWorker}
           /\ \A v \in Workers : HasLead(worker'[v])
           /\ late' \in [Leads -> [1..Steps -> Nat]]
  <1>0. late' \in [Leads -> [1..Steps -> Nat]]
    BY AdriftType DEF CancelTask, Types, Parts
  <1>1. CASE UNCHANGED <<worker, task>>
    BY <1>0, <1>1 DEF Types, Parts
  <1>2. CASE Running /\ worker' = [worker EXCEPT ![task] = NoTask] /\ task' = NoWorker
    BY <1>0, <1>2, NoTaskType, WorkerMoves DEF Running, Types, Parts
  <1>3. CASE Running /\ worker' = [worker EXCEPT ![task].pc = "unwinding"] /\ UNCHANGED task
    <2>1. task \in Workers
      BY <1>3 DEF Running, Types, Parts
    <2>2. Goto(task, "unwinding") /\ "unwinding" \in WorkerPhase
      BY <1>3 DEF Goto, WorkerPhase, Unwinding
    <2> QED BY <1>0, <1>3, <2>1, <2>2, PhaseMoves DEF Types, Parts
  <1> QED BY <1>1, <1>2, <1>3 DEF CancelTask

LEMMA RequestTypes ==
    ASSUME Types, NEW c \in Calls, RequestStep(c) PROVE Types'
  <1> USE DEF Pending
  <1>1. CASE Launch(c)
    <2>1. call' \in [Calls -> CallRecord]
      BY <1>1, RequestType DEF Launch, Types
    <2> QED BY <1>1, <2>1 DEF Launch, dbVars, obsVars, Types, Parts
  <1>2. CASE Claim(c)
    <2>1. call' \in [Calls -> CallRecord]
      BY <1>2, RequestType DEF Claim, Types
    <2>2. status' \in CampaignStatus
      BY <1>2 DEF Claim, dbVars, CampaignStatus, Types, Parts
    <2>3. launches' \in 0..MaxLaunches
      BY <1>2 DEF Claim, obsVars, Types, Parts
    <2>4. halted' \in BOOLEAN
      BY <1>2 DEF Claim, obsVars, Types, Parts
    <2>5. UNCHANGED <<sentCount, lead, seq, worker, task, tick, sent, total, late, replied, faults>>
      BY <1>2 DEF Claim, dbVars, obsVars
    <2> QED BY <2>1, <2>2, <2>3, <2>4, <2>5 DEF Types, Parts
  <1>3. CASE Spawn(c)
    <2>1. call' \in [Calls -> CallRecord]
      BY <1>3, RequestType DEF Spawn, Types
    <2>2. PICK w \in Workers : worker' = [worker EXCEPT ![w].pc = "spawned"] /\ task' = w
      BY <1>3 DEF Spawn
    <2>3. worker' \in [Workers -> WorkerRecord] /\ \A v \in Workers : HasLead(worker'[v])
      <3>1. Goto(w, "spawned") /\ "spawned" \in WorkerPhase
        BY <2>2 DEF Goto, WorkerPhase
      <3> QED BY <3>1, PhaseMoves
    <2> QED BY <1>3, <2>1, <2>2, <2>3 DEF Spawn, dbVars, obsVars, Types, Parts
  <1>4. CASE Pause(c)
    <2>1. call' \in [Calls -> CallRecord]
      BY <1>4, LoadType DEF Pause, Types
    <2> QED BY <1>4, <2>1 DEF Pause, dbVars, obsVars, Types, Parts
  <1>5. CASE PauseCommits(c)
    <2>1. call' \in [Calls -> CallRecord]
      BY <1>5, RequestType DEF PauseCommits, Types
    <2>2. status' \in CampaignStatus
      BY <1>5, WriteType DEF PauseCommits, Types, CampaignStatus
    <2> QED BY <1>5, <2>1, <2>2 DEF PauseCommits, obsVars, Types, Parts
  <1>6. CASE PauseCancels(c)
    <2>1. call' \in [Calls -> CallRecord]
      BY <1>6, RequestType DEF PauseCancels, Types
    <2>2. /\ worker' \in [Workers -> WorkerRecord]
          /\ task' \in Workers \cup {NoWorker}
          /\ \A v \in Workers : HasLead(worker'[v])
          /\ late' \in [Leads -> [1..Steps -> Nat]]
      BY <1>6, CancelTaskType DEF PauseCancels
    <2> QED BY <1>6, <2>1, <2>2 DEF PauseCancels, dbVars, Types, Parts
  <1>7. CASE CancelFirst(c)
    <2>1. call' \in [Calls -> CallRecord]
      BY <1>7, LoadType DEF CancelFirst, Types
    <2>2. /\ worker' \in [Workers -> WorkerRecord]
          /\ task' \in Workers \cup {NoWorker}
          /\ \A v \in Workers : HasLead(worker'[v])
          /\ late' \in [Leads -> [1..Steps -> Nat]]
      BY <1>7, CancelTaskType DEF CancelFirst
    <2> QED BY <1>7, <2>1, <2>2 DEF CancelFirst, dbVars, Types, Parts
  <1>8. CASE Schedule(c) \/ Unscheduled(c)
    <2>1. call' \in [Calls -> CallRecord]
      BY <1>8, RequestType DEF Schedule, Unscheduled, Types
    <2>2. status' \in CampaignStatus
      BY <1>8, WriteType DEF Schedule, Unscheduled, Types, CampaignStatus
    <2> QED BY <1>8, <2>1, <2>2 DEF Schedule, Unscheduled, obsVars, Types, Parts
  <1>9. CASE Delete(c)
    <2>1. call' \in [Calls -> CallRecord]
      BY <1>9, RequestType DEF Delete, Types
    <2>2. seq' \in [Leads -> SeqRecord] /\ \A l \in Leads : RowHasStep(seq'[l])
      BY <1>9, NoRowType DEF Delete
    <2> QED BY <1>9, <2>1, <2>2 DEF Delete, obsVars, Types, Parts, CampaignStatus
  <1>10. CASE Unschedule(c)
    <2>1. call' \in [Calls -> CallRecord]
      BY <1>10, LoadType DEF Unschedule, Types
    <2> QED BY <1>10, <2>1 DEF Unschedule, dbVars, obsVars, Types, Parts
  <1> QED BY <1>1, <1>2, <1>3, <1>4, <1>5, <1>6, <1>7, <1>8, <1>9, <1>10 DEF RequestStep

LEMMA SeqMoves ==
    ASSUME Types, NEW l \in Leads, NEW r \in SeqRecord, RowHasStep(r),
           seq' = [seq EXCEPT ![l] = r]
    PROVE  seq' \in [Leads -> SeqRecord] /\ \A k \in Leads : RowHasStep(seq'[k])
  BY DEF Types, Parts

(* A row that leaves ACTIVE keeps its step. *)
LEMMA StopsRow ==
    ASSUME Types, NEW l \in Leads, NEW s \in SeqStatus \ {"ACTIVE"},
           seq' = [seq EXCEPT ![l].status = s, ![l].due = FALSE]
    PROVE  seq' \in [Leads -> SeqRecord] /\ \A k \in Leads : RowHasStep(seq'[k])
  <1> DEFINE r == [seq[l] EXCEPT !.status = s, !.due = FALSE]
  <1>1. seq[l] \in SeqRecord
    BY DEF Types, Parts
  <1>2. r \in SeqRecord /\ r.status = s
    BY <1>1 DEF SeqRecord
  <1>3. RowHasStep(r)
    BY <1>2 DEF RowHasStep
  <1>4. seq' = [seq EXCEPT ![l] = r]
    BY <1>1 DEF SeqRecord, Types, Parts
  <1> QED BY <1>2, <1>3, <1>4, SeqMoves

LEMMA OutType ==
    ASSUME Types, NEW l \in Leads, NEW k \in 1..Steps, Out(l, k)
    PROVE  sent' \in [Leads -> [1..Steps -> Nat]] /\ total' \in Nat
  BY DEF Types, Parts, Out

(* What follows the last thing a worker does for a lead *)
LEMMA NextLeadType ==
    ASSUME NEW w \in Workers
    PROVE  NextLead(w) \in WorkerPhase /\ NextLead(w) \in {"closing", "poll"}
  BY DEF NextLead, WorkerPhase

LEMMA RecordedType ==
    ASSUME Types, NEW w \in Workers, At(w, "record"), NEW next \in WorkerPhase,
           next \notin {"send", "record"}, next = "track" => Steps > 1,
           Recorded(w, next)
    PROVE  /\ worker' \in [Workers -> WorkerRecord]
           /\ \A v \in Workers : HasLead(worker'[v])
           /\ lead' \in [Leads -> LeadStatus]
           /\ sentCount' \in Nat
  <1>0. worker[w] \in WorkerRecord /\ worker[w].cur \in Leads
    BY DEF Types, Parts, HasLead, At
  <1>1. CASE status = "DELETED"
    <2>1. Goto(w, "unwinding") /\ "unwinding" \in WorkerPhase
      BY <1>1 DEF Recorded, WorkerPhase, Unwinding
    <2> QED BY <1>1, <2>1, PhaseMoves DEF Recorded, Types, Parts
  <1>2. CASE status # "DELETED"
    <2> DEFINE r == [worker[w] EXCEPT !.count = @ + 1, !.pc = next]
    <2>1. r \in WorkerRecord /\ r.pc = next /\ r.cur = worker[w].cur
      <3>1. worker[w].count + 1 \in Nat
        BY <1>0 DEF WorkerRecord
      <3> DEFINE n == worker[w].count + 1
      <3>2. r = [worker[w] EXCEPT !.count = n, !.pc = next]
        OBVIOUS
      <3> HIDE DEF n
      <3> QED BY <1>0, <3>1, <3>2 DEF WorkerRecord
    <2>2. HasLead(r)
      BY <1>0, <2>1 DEF HasLead
    <2>3. worker' = [worker EXCEPT ![w] = r]
      BY <1>2 DEF Recorded
    <2>4. lead' \in [Leads -> LeadStatus]
      BY <1>2 DEF Recorded, Types, Parts, LeadStatus
    <2>5. sentCount' \in Nat
      BY <1>0, <1>2 DEF Recorded, WorkerRecord
    <2> QED BY <2>1, <2>2, <2>3, <2>4, <2>5, WorkerMoves
  <1> QED BY <1>1, <1>2

(* The steps that change nothing of a worker but its phase *)
LEMMA PhaseTypes ==
    ASSUME Types, NEW w \in Workers, NEW p \in WorkerPhase \ {"send", "record", "track"},
           Goto(w, p)
    PROVE  worker' \in [Workers -> WorkerRecord] /\ \A v \in Workers : HasLead(worker'[v])
  BY PhaseMoves

LEMMA EndType ==
    ASSUME Types, NEW w \in Workers, End(w)
    PROVE  /\ worker' \in [Workers -> WorkerRecord]
           /\ \A v \in Workers : HasLead(worker'[v])
           /\ task' \in Workers \cup {NoWorker}
  BY NoTaskType, WorkerMoves DEF End

(* Every step of a worker leaves requests and the follow-up scheduler alone, *)
(* and each of the parts it can change keeps its type.                       *)
LEMMA WorkerTypes ==
    ASSUME Types, NEW w \in Workers, WorkerStep(w) PROVE Types'
  <1> DEFINE WorkersTyped == /\ worker' \in [Workers -> WorkerRecord]
                             /\ \A v \in Workers : HasLead(worker'[v])
             TaskTyped == task' \in Workers \cup {NoWorker}
  <1>t. task \in Workers \cup {NoWorker} /\ worker[w] \in WorkerRecord /\ HasLead(worker[w])
    BY DEF Types, Parts
  <1>p. {"closing", "poll", "counting", "finishing", "unwinding", "parking", "target", "record", "track", "send"}
            \subseteq WorkerPhase
    BY DEF WorkerPhase, Unwinding
  <1>u. Goto(w, "unwinding") => WorkersTyped
    BY <1>p, PhaseTypes
  <1>1. CASE Begin(w)
    <2>1. WorkersTyped /\ TaskTyped
      <3>1. CASE End(w)
        BY <3>1, EndType
      <3>2. CASE ~End(w)
        <4> DEFINE r == [worker[w] EXCEPT !.pc = "activate", !.mem = status, !.count = sentCount]
        <4>1. worker' = [worker EXCEPT ![w] = r] /\ UNCHANGED task
          BY <1>1, <3>2 DEF Begin
        <4>2. r \in WorkerRecord /\ r.pc = "activate"
          BY <1>t DEF WorkerRecord, WorkerPhase, Types, Parts
        <4>3. HasLead(r)
          BY <4>2 DEF HasLead
        <4> QED BY <1>t, <4>1, <4>2, <4>3, WorkerMoves
      <3> QED BY <3>1, <3>2
    <2> QED BY <1>1, <2>1 DEF Begin, dbVars, obsVars, Types, Parts
  <1>2. CASE ParkItself(w)
    <2>1. Commit(w, "PAUSED", End(w))
      BY <1>2 DEF ParkItself
    <2>2. WorkersTyped /\ TaskTyped
      BY <1>t, <1>u, <2>1, EndType DEF Commit
    <2>3. status' \in CampaignStatus
      BY <2>1 DEF Commit, Types, Parts, CampaignStatus
    <2> QED BY <1>2, <2>2, <2>3 DEF ParkItself, obsVars, Types, Parts
  <1>3. CASE Activate(w)
    <2>1. status' \in CampaignStatus
      BY <1>3 DEF Activate, Commit, Types, Parts, CampaignStatus
    <2>2. WorkersTyped /\ TaskTyped
      <3>1. CASE status = "DELETED"
        BY <1>t, <1>3, <1>u, <3>1 DEF Activate, Commit
      <3>2. CASE status # "DELETED"
        <4> DEFINE r == [worker[w] EXCEPT !.pc = "target", !.mem = "ACTIVE"]
        <4>1. worker' = [worker EXCEPT ![w] = r] /\ UNCHANGED task
          BY <1>3, <3>2 DEF Activate, Commit
        <4>2. r \in WorkerRecord /\ r.pc = "target"
          BY <1>t, <1>p DEF WorkerRecord, CampaignStatus
        <4>3. HasLead(r)
          BY <4>2 DEF HasLead
        <4> QED BY <1>t, <4>1, <4>2, <4>3, WorkerMoves
      <3> QED BY <3>1, <3>2
    <2> QED BY <1>3, <2>1, <2>2 DEF Activate, obsVars, Types, Parts
  <1>4. CASE Target(w)
    <2>1. WorkersTyped
      <3>1. CASE status = "DELETED"
        BY <1>4, <1>u, <3>1 DEF Target
      <3>2. CASE status # "DELETED"
        <4> DEFINE todo == IF Targeted THEN Leads ELSE {l \in Leads : lead[l] = "NEW"}
                   r == [worker[w] EXCEPT !.pc = "poll", !.todo = todo,
                                          !.old = {l \in todo : lead[l] = "CONTACTED"}]
        <4>1. worker' = [worker EXCEPT ![w] = r]
          BY <1>4, <3>2 DEF Target
        <4>2. r \in WorkerRecord /\ r.pc = "poll"
          BY <1>t, <1>p DEF WorkerRecord
        <4>3. HasLead(r)
          BY <4>2 DEF HasLead
        <4> QED BY <4>1, <4>2, <4>3, WorkerMoves
      <3> QED BY <3>1, <3>2
    <2> QED BY <1>4, <2>1 DEF Target, dbVars, obsVars, Types, Parts
  <1>5. CASE Poll(w)
    <2>1. WorkersTyped /\ TaskTyped
      <3>1. CASE status = "PAUSED"
        BY <1>5, <3>1, EndType DEF Poll
      <3>2. CASE status # "PAUSED"
        <4>1. PICK l \in worker[w].todo :
                 worker' = [worker EXCEPT ![w] = [worker[w] EXCEPT !.pc = "send", !.cur = l, !.todo = @ \ {l}]]
          BY <1>5, <3>2 DEF Poll
        <4> DEFINE r == [worker[w] EXCEPT !.pc = "send", !.cur = l, !.todo = @ \ {l}]
        <4>2. r \in WorkerRecord /\ r.pc = "send" /\ r.cur \in Leads
          BY <1>t, <1>p DEF WorkerRecord
        <4>3. HasLead(r)
          BY <4>2 DEF HasLead
        <4>4. UNCHANGED task
          BY <1>5, <3>2 DEF Poll
        <4> QED BY <1>t, <4>1, <4>2, <4>3, <4>4, WorkerMoves
      <3> QED BY <3>1, <3>2
    <2> QED BY <1>5, <2>1 DEF Poll, dbVars, obsVars, Types, Parts
  <1>6. CASE Send(w)
    <2>1. WorkersTyped
      <3>1. worker[w].cur \in Leads /\ Goto(w, "record")
        BY <1>6, <1>t DEF Send, At, HasLead
      <3> QED BY <1>p, <3>1, PhaseMoves
    <2>2. sent' \in [Leads -> [1..Steps -> Nat]] /\ total' \in Nat
      <3>1. worker[w].cur \in Leads /\ Out(worker[w].cur, 1)
        BY <1>6, <1>t DEF Send, At, HasLead
      <3> QED BY <3>1, OutType
    <2> QED BY <1>6, <2>1, <2>2 DEF Send, dbVars, Types, Parts
  <1>7. CASE Decline(w)
    <2>1. WorkersTyped
      BY <1>7, <1>p, <1>u, NextLeadType, PhaseTypes DEF Decline
    <2>2. lead' \in [Leads -> LeadStatus]
      BY <1>7 DEF Decline, Types, Parts, LeadStatus
    <2> QED BY <1>7, <2>1, <2>2 DEF Decline, obsVars, Types, Parts
  <1>8. CASE Record(w)
    <2> DEFINE next == IF Steps > 1 THEN "track" ELSE NextLead(w)
    <2>1. next \in WorkerPhase /\ next \notin {"send", "record"} /\ (next = "track" => Steps > 1)
      BY <1>p, NextLeadType
    <2>2. At(w, "record") /\ Recorded(w, next)
      BY <1>8 DEF Record
    <2>3. WorkersTyped /\ lead' \in [Leads -> LeadStatus] /\ sentCount' \in Nat
      BY <2>1, <2>2, RecordedType
    <2> QED BY <1>8, <2>3 DEF Record, obsVars, Types, Parts
  <1>9. CASE Track(w)
    <2>1. WorkersTyped
      BY <1>9, <1>u, NextLeadType, PhaseTypes DEF Track
    <2>2. seq' \in [Leads -> SeqRecord] /\ \A l \in Leads : RowHasStep(seq'[l])
      <3>1. worker[w].cur \in Leads /\ Steps > 1
        BY <1>9, <1>t DEF Track, At, HasLead
      <3> DEFINE r == [status |-> "ACTIVE", step |-> 1, due |-> FALSE]
      <3>2. r \in SeqRecord /\ RowHasStep(r)
        BY <3>1 DEF SeqRecord, SeqStatus, RowHasStep
      <3>3. UNCHANGED seq \/ seq' = [seq EXCEPT ![worker[w].cur] = r]
        BY <1>9 DEF Track
      <3> QED BY <3>1, <3>2, <3>3, SeqMoves DEF Types, Parts
    <2> QED BY <1>9, <2>1, <2>2 DEF Track, obsVars, Types, Parts
  <1>10. CASE Close(w) \/ CountFollowups(w) \/ Unwind(w)
    <2>1. WorkersTyped /\ TaskTyped
      BY <1>10, <1>p, <1>t, PhaseTypes, EndType DEF Close, CountFollowups, Unwind
    <2> QED BY <1>10, <2>1 DEF Close, CountFollowups, Unwind, dbVars, obsVars, Types, Parts
  <1>11. CASE Finish(w)
    <2>1. Commit(w, "COMPLETED", End(w))
      BY <1>11 DEF Finish
    <2>2. WorkersTyped /\ TaskTyped
      BY <1>t, <1>u, <2>1, EndType DEF Commit
    <2>3. status' \in CampaignStatus
      BY <2>1 DEF Commit, Types, Parts, CampaignStatus
    <2> QED BY <1>11, <2>2, <2>3 DEF Finish, obsVars, Types, Parts
  <1>12. CASE Park(w)
    <2>1. WorkersTyped /\ TaskTyped
      BY <1>12, EndType DEF Park
    <2> QED BY <1>12, <2>1 DEF Park, obsVars, Types, Parts, CampaignStatus
  <1>13. CASE SendUnconfirmed(w)
    <2>1. WorkersTyped
      BY <1>13, <1>u, NextLeadType, PhaseTypes DEF SendUnconfirmed
    <2>2. late' \in [Leads -> [1..Steps -> Nat]]
      BY <1>13, AdriftType DEF SendUnconfirmed
    <2>3. faults' \in 0..MaxFaults
      BY <1>13 DEF SendUnconfirmed, Types, Parts
    <2> QED BY <1>13, <2>1, <2>2, <2>3 DEF SendUnconfirmed, dbVars, Types, Parts
  <1>14. CASE RecordFails(w)
    <2>1. At(w, "record") /\ Recorded(w, NextLead(w))
      BY <1>14 DEF RecordFails
    <2>2. WorkersTyped /\ lead' \in [Leads -> LeadStatus] /\ sentCount' \in Nat
      BY <2>1, NextLeadType, RecordedType
    <2>3. faults' \in 0..MaxFaults
      BY <1>14 DEF RecordFails, Types, Parts
    <2> QED BY <1>14, <2>2, <2>3 DEF RecordFails, obsVars, Types, Parts
  <1>15. CASE Break(w)
    <2>1. WorkersTyped
      BY <1>15, <1>u DEF Break
    <2>2. faults' \in 0..MaxFaults
      BY <1>15 DEF Break, Types, Parts
    <2>3. late' \in [Leads -> [1..Steps -> Nat]]
      BY <1>15, AdriftType DEF Break
    <2> QED BY <1>15, <2>1, <2>2, <2>3 DEF Break, dbVars, Types, Parts
  <1> QED BY <1>1, <1>2, <1>3, <1>4, <1>5, <1>6, <1>7, <1>8, <1>9, <1>10, <1>11, <1>12, <1>13, <1>14, <1>15
      DEF WorkerStep, Work

(* What a row of the batch becomes when it is visited *)
LEMMA RowsType ==
    ASSUME Types PROVE DueRows \in SUBSET Rows /\ \A r \in DueRows : r.step < Steps
  <1>1. \A l \in Leads : seq[l].status = "ACTIVE" => seq[l].step < Steps
    BY DEF Types, Parts, SeqRecord, RowHasStep
  <1> QED BY <1>1 DEF DueRows, Rows

LEMMA VisitType ==
    ASSUME Types, NEW r \in Rows, Visit(r)
    PROVE  /\ tick' \in TickRecord
           /\ TickHasStep(tick')
           /\ seq' \in [Leads -> SeqRecord]
           /\ \A l \in Leads : RowHasStep(seq'[l])
  <1> DEFINE mem   == IF tick.mem = "NONE" THEN status ELSE tick.mem
             count == IF tick.mem = "NONE" THEN sentCount ELSE tick.count
             seen  == [tick EXCEPT !.mem = mem, !.count = count, !.rows = @ \ {r}]
             sending == [seen EXCEPT !.pc = "send", !.cur = r.lead, !.step = r.step]
             stopped(s) == [seq EXCEPT ![r.lead].status = s, ![r.lead].due = FALSE]
  <1>1. tick \in TickRecord /\ TickHasStep(tick) /\ tick.pc = "rows"
    BY DEF Types, Parts, Visit
  <1>2. r.lead \in Leads /\ r.step \in 1..Steps /\ r.step < Steps
    BY <1>1 DEF Visit, Rows, TickHasStep
  <1>3. mem \in CampaignStatus \cup {"NONE"} /\ count \in Nat
    BY <1>1 DEF Types, Parts, TickRecord
  <1>4. /\ seen \in TickRecord
        /\ seen.pc = "rows"
        /\ seen.rows = tick.rows \ {r}
    <2> HIDE DEF mem, count
    <2> QED BY <1>1, <1>3 DEF TickRecord
  <1>5. TickHasStep(seen)
    BY <1>1, <1>4 DEF TickHasStep
  <1>6. sending \in TickRecord /\ TickHasStep(sending)
    <2> HIDE DEF seen
    <2>1. sending \in TickRecord
      <3>1. r.step \in 0..Steps /\ r.lead \in Leads \cup {NoLead} /\ "send" \in TickPhase
        BY <1>2 DEF TickPhase
      <3> DEFINE l == r.lead
                 k == r.step
      <3>2. sending = [seen EXCEPT !.pc = "send", !.cur = l, !.step = k]
        OBVIOUS
      <3> HIDE DEF l, k
      <3> QED BY <1>4, <3>1, <3>2 DEF TickRecord
    <2>2. sending.rows = seen.rows /\ sending.cur = r.lead /\ sending.step = r.step
      BY <1>4 DEF TickRecord
    <2> QED BY <1>2, <1>4, <1>5, <2>1, <2>2 DEF TickHasStep
  <1>8. tick' \in {seen, sending, NoTick}
    BY DEF Visit
  <1>9. UNCHANGED seq \/ \E s \in {"STOPPED_ON_REPLY", "FAILED"} : seq' = stopped(s)
    BY DEF Visit
  <1>7. {"STOPPED_ON_REPLY", "FAILED"} \subseteq SeqStatus \ {"ACTIVE"}
    BY DEF SeqStatus
  <1> HIDE DEF seen, sending
  <1>10. tick' \in TickRecord /\ TickHasStep(tick')
    BY <1>4, <1>5, <1>6, <1>8, NoTickType
  <1>11. seq' \in [Leads -> SeqRecord] /\ \A l \in Leads : RowHasStep(seq'[l])
    BY <1>2, <1>7, <1>9, StopsRow DEF Types, Parts
  <1> QED BY <1>10, <1>11

LEMMA TickTypes ==
    ASSUME Types, TickStep PROVE Types'
  <1> DEFINE TickTyped == tick' \in TickRecord /\ TickHasStep(tick')
             SeqTyped  == seq' \in [Leads -> SeqRecord] /\ \A l \in Leads : RowHasStep(seq'[l])
  <1>t. tick \in TickRecord /\ TickHasStep(tick)
    BY DEF Types, Parts
  <1>1. CASE Fetch
    <2> DEFINE t == [NoTick EXCEPT !.pc = "rows", !.rows = DueRows]
    <2>1. t \in TickRecord /\ t.rows = DueRows /\ t.pc = "rows"
      BY RowsType, NoTickType DEF TickRecord, TickPhase
    <2>2. TickHasStep(t)
      BY <2>1, RowsType DEF TickHasStep
    <2>3. TickTyped
      BY <1>1, <2>1, <2>2 DEF Fetch
    <2> QED BY <1>1, <2>3 DEF Fetch, dbVars, obsVars, Types, Parts
  <1>2. ASSUME NEW r \in Rows, Visit(r) PROVE Types'
    <2>1. TickTyped /\ SeqTyped
      BY <1>2, VisitType
    <2> QED BY <1>2, <2>1 DEF Visit, obsVars, Types, Parts
  <1>3. CASE SendFollowup
    <2>1. tick.cur \in Leads /\ tick.step \in 1..(Steps - 1)
      BY <1>t, <1>3 DEF SendFollowup, TickHasStep
    <2>2. tick.step + 1 \in 1..Steps
      BY <2>1
    <2>3. sent' \in [Leads -> [1..Steps -> Nat]] /\ total' \in Nat
      BY <1>3, <2>1, <2>2, OutType DEF SendFollowup, Types, Parts
    <2>7. late' \in [Leads -> [1..Steps -> Nat]]
      BY <1>3, AdriftType DEF SendFollowup, Types, Parts
    <2>4. \E p \in {"record", "rows"} : tick' = [tick EXCEPT !.pc = p]
      BY <1>3 DEF SendFollowup
    <2>5. TickTyped
      BY <1>t, <2>1, <2>4 DEF TickRecord, TickPhase, TickHasStep
    <2>6. faults' \in 0..MaxFaults
      BY <1>3 DEF SendFollowup, Types, Parts
    <2> QED BY <1>3, <2>3, <2>5, <2>6, <2>7 DEF SendFollowup, dbVars, Types, Parts
  <1>4. CASE RecordFollowup
    <2>1. tick.cur \in Leads /\ tick.step \in 1..(Steps - 1)
      BY <1>t, <1>4 DEF RecordFollowup, TickHasStep
    <2>2. CASE status = "DELETED"
      BY <1>4, <2>2, NoTickType DEF RecordFollowup, obsVars, Types, Parts
    <2>3. CASE status # "DELETED"
      <3> DEFINE done == tick.step + 1
                 old  == seq[tick.cur].status
                 r    == [status |-> IF done < Steps THEN old ELSE "COMPLETED",
                          step |-> done, due |-> FALSE]
                 n    == tick.count + 1
                 t    == [tick EXCEPT !.pc = "rows", !.count = n]
      <3>1. done \in 2..Steps /\ n \in Nat /\ old \in SeqStatus
        BY <1>t, <2>1 DEF TickRecord, Types, Parts, SeqRecord
      <3>2. seq' = [seq EXCEPT ![tick.cur] = r]
        BY <1>4, <2>1, <2>3 DEF RecordFollowup, Types, Parts
      <3>3. tick' = t /\ sentCount' = n
        BY <1>4, <2>3 DEF RecordFollowup
      <3> HIDE DEF done, old, n
      <3>4. r \in SeqRecord /\ RowHasStep(r)
        BY <3>1 DEF SeqRecord, SeqStatus, RowHasStep
      <3>5. SeqTyped
        <4> HIDE DEF r
        <4> QED BY <2>1, <3>2, <3>4, SeqMoves
      <3>6. TickTyped
        BY <1>t, <3>1, <3>3 DEF TickRecord, TickPhase, TickHasStep
      <3> QED BY <1>4, <3>1, <3>3, <3>5, <3>6 DEF RecordFollowup, obsVars, Types, Parts
    <2> QED BY <2>2, <2>3
  <1>5. CASE CountActive
    <2>1. tick' = NoTick \/ tick' = [tick EXCEPT !.pc = "complete"]
      BY <1>5 DEF CountActive
    <2>2. TickTyped
      BY <1>t, <2>1, NoTickType DEF TickRecord, TickPhase, TickHasStep
    <2> QED BY <1>5, <2>2 DEF CountActive, dbVars, obsVars, Types, Parts
  <1>6. CASE CompleteCampaign
    BY <1>6, NoTickType DEF CompleteCampaign, obsVars, Types, Parts, CampaignStatus
  <1>7. CASE BreakTick
    <2>1. late' \in [Leads -> [1..Steps -> Nat]]
      BY <1>7, AdriftType DEF BreakTick
    <2> QED BY <1>7, <2>1, NoTickType DEF BreakTick, dbVars, Types, Parts
  <1>8. CASE FetchOthers
    <2>1. /\ tick' \in TickRecord
          /\ tick'.rows = {} /\ tick'.pc = "rows"
      BY <1>8, NoTickType DEF FetchOthers, TickRecord, TickPhase
    <2> QED BY <1>8, <2>1 DEF FetchOthers, dbVars, obsVars, Types, Parts, TickHasStep
  <1> QED BY <1>1, <1>2, <1>3, <1>4, <1>5, <1>6, <1>7, <1>8 DEF TickStep, Tick

LEMMA LeadTypes ==
    ASSUME Types, NEW l \in Leads, LeadStep(l) PROVE Types'
  <1> DEFINE SeqTyped == seq' \in [Leads -> SeqRecord] /\ \A k \in Leads : RowHasStep(seq'[k])
  <1>1. CASE Elapse(l)
    <2>1. SeqTyped
      <3> DEFINE r == [seq[l] EXCEPT !.due = TRUE]
      <3>1. seq[l] \in SeqRecord /\ RowHasStep(seq[l]) /\ seq' = [seq EXCEPT ![l] = r]
        BY <1>1 DEF Elapse, Types, Parts
      <3>2. r \in SeqRecord /\ r.status = seq[l].status /\ r.step = seq[l].step
        BY <3>1 DEF SeqRecord
      <3>3. RowHasStep(r)
        BY <3>1, <3>2 DEF RowHasStep
      <3> QED BY <3>1, <3>2, <3>3, SeqMoves
    <2> QED BY <1>1, <2>1 DEF Elapse, taskVars, obsVars, Types, Parts
  <1>2. CASE Reply(l)
    <2>1. SeqTyped
      <3>1. "STOPPED_ON_REPLY" \in SeqStatus \ {"ACTIVE"}
        BY DEF SeqStatus
      <3> QED BY <1>2, <3>1, StopsRow DEF Reply, Types, Parts
    <2>2. lead' \in [Leads -> LeadStatus]
      BY <1>2 DEF Reply, Types, Parts, LeadStatus
    <2> QED BY <1>2, <2>1, <2>2 DEF Reply, taskVars, Types, Parts
  <1>3. CASE StopLead(l)
    <2>1. SeqTyped
      <3>1. "STOPPED_MANUAL" \in SeqStatus \ {"ACTIVE"}
        BY DEF SeqStatus
      <3> QED BY <1>3, <3>1, StopsRow DEF StopLead
    <2> QED BY <1>3, <2>1 DEF StopLead, taskVars, obsVars, Types, Parts
  <1> QED BY <1>1, <1>2, <1>3 DEF LeadStep

LEMMA LateTypes == Types /\ LateStep => Types'
  <1> SUFFICES ASSUME Types, NEW l \in Leads, NEW k \in 1..Steps, SendLate(l, k) PROVE Types'
    BY DEF LateStep
  <1>1. late[l][k] - 1 \in Nat
    BY DEF SendLate, Types, Parts
  <1>2. late' \in [Leads -> [1..Steps -> Nat]]
    BY <1>1 DEF SendLate, Types, Parts
  <1>3. sent' \in [Leads -> [1..Steps -> Nat]] /\ total' \in Nat
    BY OutType DEF SendLate, Types, Parts
  <1> QED BY <1>2, <1>3 DEF SendLate, dbVars, taskVars, Types, Parts

LEMMA RestartTypes == Types /\ Restart => Types'
  <1> SUFFICES ASSUME Types, Restart PROVE Types'
    OBVIOUS
  <1>1. worker' \in [Workers -> WorkerRecord] /\ \A w \in Workers : HasLead(worker'[w])
    BY NoTaskType DEF Restart
  <1>2. call' \in [Calls -> CallRecord] /\ tick' \in TickRecord /\ TickHasStep(tick')
    BY NoCallType, NoTickType DEF Restart
  <1>3. faults' \in 0..MaxFaults /\ status' \in CampaignStatus
    BY DEF Restart, Types, Parts, CampaignStatus
  <1>4. late' \in [Leads -> [1..Steps -> Nat]]
    BY AdriftType DEF Restart
  <1> QED BY <1>1, <1>2, <1>3, <1>4 DEF Restart, Types, Parts

LEMMA TypesStep == Types /\ [Next]_vars => Types'
  <1> SUFFICES ASSUME Types, [Next]_vars PROVE Types'
    OBVIOUS
  <1>1. CASE UNCHANGED vars
    BY <1>1 DEF vars, dbVars, taskVars, obsVars, Types, Parts
  <1>2. CASE Next
    BY <1>2, NextCases, RequestTypes, WorkerTypes, LeadTypes, TickTypes, LateTypes, RestartTypes
  <1> QED BY <1>1, <1>2

LEMMA TypesHold == Spec => []Types
  BY TypesInit, TypesStep, PTL DEF Spec

(* The variables of a campaign keep their types, in particular no sequence *)
(* ever gets past its last step.                                           *)
THEOREM CampaignTypes == Spec => []TypeOK
  <1>1. Types => TypeOK
    BY PartsAreTypes DEF Types
  <1> QED BY <1>1, TypesHold, PTL

-----------------------------------------------------------------------------
(* What the groups of actions leave alone *)

LEMMA CancelTaskEffect ==
    ASSUME Types, CancelTask, NEW w \in Workers
    PROVE  \/ worker'[w] = worker[w]
           \/ /\ worker'[w].pc \in {"none", "unwinding"}
              /\ worker'[w].count \in {0, worker[w].count}
  <1>1. worker \in [Workers -> WorkerRecord]
    BY DEF Types, Parts
  <1>2. NoTask.pc = "none" /\ NoTask.count = 0
    BY DEF NoTask
  <1>3. CASE UNCHANGED worker
    BY <1>3
  <1>4. CASE worker' = [worker EXCEPT ![task] = NoTask]
    BY <1>1, <1>2, <1>4
  <1>5. CASE worker' = [worker EXCEPT ![task].pc = "unwinding"]
    BY <1>1, <1>5 DEF WorkerRecord
  <1> QED BY <1>3, <1>4, <1>5 DEF CancelTask

(* A request sends nothing and records nothing: it starts a worker, cancels *)
(* it, or forgets the sequence.                                             *)
LEMMA RequestEffects ==
    ASSUME Types, NEW c \in Calls, RequestStep(c)
    PROVE  /\ UNCHANGED <<sentCount, lead, tick, sent, total>>
           /\ UNCHANGED seq \/ seq' = [l \in Leads |-> NoRow]
           /\ \A w \in Workers :
                 \/ worker'[w] = worker[w]
                 \/ /\ worker'[w].pc \in {"none", "spawned", "unwinding"}
                    /\ worker'[w].count \in {0, worker[w].count}
  <1>1. CASE Launch(c) \/ Claim(c) \/ Pause(c) \/ PauseCommits(c) \/ Schedule(c) \/ Delete(c)
               \/ Unschedule(c) \/ Unscheduled(c)
    BY <1>1 DEF Launch, Claim, Pause, PauseCommits, Schedule, Delete, Unschedule, Unscheduled,
                dbVars, obsVars
  <1>2. CASE Spawn(c)
    <2>1. worker \in [Workers -> WorkerRecord]
      BY DEF Types, Parts
    <2>2. PICK w \in Workers : worker' = [worker EXCEPT ![w].pc = "spawned"]
      BY <1>2 DEF Spawn
    <2>3. \A v \in Workers : worker'[v] = worker[v] \/ worker'[v] = [worker[v] EXCEPT !.pc = "spawned"]
      BY <2>1, <2>2
    <2>4. \A v \in Workers : worker'[v] = worker[v]
             \/ (worker'[v].pc = "spawned" /\ worker'[v].count = worker[v].count)
      BY <2>1, <2>3 DEF WorkerRecord
    <2> QED BY <1>2, <2>4 DEF Spawn, dbVars, obsVars
  <1>3. CASE PauseCancels(c) \/ CancelFirst(c)
    BY <1>3, CancelTaskEffect DEF PauseCancels, CancelFirst, dbVars
  <1> QED BY <1>1, <1>2, <1>3 DEF RequestStep

(* The steps of a worker that neither send nor record *)
Handles(w) == Send(w) \/ SendUnconfirmed(w) \/ Record(w) \/ RecordFails(w) \/ Track(w)

LEMMA WorkerEffects ==
    ASSUME Types, NEW w \in Workers, WorkerStep(w), ~Handles(w)
    PROVE  /\ UNCHANGED <<sentCount, seq, tick, sent, total>>
           /\ \A v \in Workers :
                 \/ worker'[v] = worker[v]
                 \/ /\ worker'[v].pc \notin {"record", "track"}
                    /\ worker'[v].count \in {0, worker[v].count, sentCount}
  <1> DEFINE Settles == \A v \in Workers :
                          \/ worker'[v] = worker[v]
                          \/ /\ worker'[v].pc \notin {"record", "track"}
                             /\ worker'[v].count \in {0, worker[v].count, sentCount}
  <1>t. worker \in [Workers -> WorkerRecord]
    BY DEF Types, Parts
  <1>g. ASSUME NEW p, p \notin {"record", "track"}, Goto(w, p) PROVE Settles
    BY <1>t, <1>g DEF Goto, WorkerRecord
  <1>e. End(w) => Settles
    <2>1. NoTask.pc = "none" /\ NoTask.count = 0
      BY DEF NoTask
    <2> QED BY <1>t, <2>1 DEF End
  <1>n. NextLead(w) \notin {"record", "track"}
    BY DEF NextLead
  <1>1. CASE Begin(w)
    <2>1. CASE End(w)
      BY <1>1, <1>e, <2>1 DEF Begin, dbVars, obsVars
    <2>2. CASE ~End(w)
      <3>1. worker' = [worker EXCEPT ![w] = [worker[w] EXCEPT !.pc = "activate", !.mem = status, !.count = sentCount]]
        BY <1>1, <2>2 DEF Begin
      <3>2. Settles
        BY <1>t, <3>1 DEF WorkerRecord
      <3> QED BY <1>1, <3>2 DEF Begin, dbVars, obsVars
    <2> QED BY <2>1, <2>2
  <1>2. CASE ParkItself(w) \/ Finish(w)
    <2>1. Settles
      BY <1>2, <1>e, <1>g DEF ParkItself, Finish, Commit
    <2> QED BY <1>2, <2>1 DEF ParkItself, Finish, obsVars
  <1>3. CASE Activate(w)
    <2>1. CASE status = "DELETED"
      BY <1>3, <1>g, <2>1 DEF Activate, Commit, obsVars
    <2>2. CASE status # "DELETED"
      <3>1. worker' = [worker EXCEPT ![w] = [worker[w] EXCEPT !.pc = "target", !.mem = "ACTIVE"]]
        BY <1>3, <2>2 DEF Activate, Commit
      <3>2. Settles
        BY <1>t, <3>1 DEF WorkerRecord
      <3> QED BY <1>3, <3>2 DEF Activate, obsVars
    <2> QED BY <2>1, <2>2
  <1>4. CASE Target(w)
    <2>1. CASE status = "DELETED"
      BY <1>4, <1>g, <2>1 DEF Target, dbVars, obsVars
    <2>2. CASE status # "DELETED"
      <3> DEFINE t == IF Targeted THEN Leads ELSE {l \in Leads : lead[l] = "NEW"}
                 o == {l \in t : lead[l] = "CONTACTED"}
      <3>1. worker' = [worker EXCEPT ![w] = [worker[w] EXCEPT !.pc = "poll", !.todo = t, !.old = o]]
        BY <1>4, <2>2 DEF Target
      <3> HIDE DEF t, o
      <3>2. Settles
        BY <1>t, <3>1 DEF WorkerRecord
      <3> QED BY <1>4, <3>2 DEF Target, dbVars, obsVars
    <2> QED BY <2>1, <2>2
  <1>5. CASE Poll(w)
    <2>1. CASE status = "PAUSED"
      BY <1>5, <1>e, <2>1 DEF Poll, dbVars, obsVars
    <2>2. CASE status # "PAUSED"
      <3>1. PICK l \in worker[w].todo :
               worker' = [worker EXCEPT ![w] = [worker[w] EXCEPT !.pc = "send", !.cur = l, !.todo = @ \ {l}]]
        BY <1>5, <2>2 DEF Poll
      <3>2. Settles
        BY <1>t, <3>1 DEF WorkerRecord
      <3> QED BY <1>5, <3>2 DEF Poll, dbVars, obsVars
    <2> QED BY <2>1, <2>2
  <1>6. CASE Decline(w)
    <2>1. Settles
      BY <1>6, <1>g, <1>n DEF Decline
    <2> QED BY <1>6, <2>1 DEF Decline, obsVars
  <1>7. CASE Close(w) \/ CountFollowups(w) \/ Unwind(w)
    <2>1. Settles
      BY <1>7, <1>e, <1>g DEF Close, CountFollowups, Unwind
    <2> QED BY <1>7, <2>1 DEF Close, CountFollowups, Unwind, dbVars, obsVars
  <1>8. CASE Park(w)
    BY <1>8, <1>e DEF Park, obsVars
  <1>9. CASE Break(w)
    BY <1>9, <1>g DEF Break, dbVars
  <1> QED BY <1>1, <1>2, <1>3, <1>4, <1>5, <1>6, <1>7, <1>8, <1>9 DEF WorkerStep, Work, Handles

-----------------------------------------------------------------------------
(* Messages on their way *)

LEMMA AdriftAt ==
    ASSUME Types, NEW S, Adrift(S), NEW l \in Leads, NEW k \in 1..Steps, <<l, k>> \notin S
    PROVE  late'[l][k] = late[l][k]
  <1>1. late[l][k] \in Nat
    BY DEF Types, Parts
  <1> QED BY <1>1 DEF Adrift

(* A message is left with the gateway by the task that has it in hand, and by *)
(* the scheduler only when something fails.                                   *)
LEMMA LateGrows ==
    ASSUME Types, Next, NEW l \in Leads, NEW k \in 1..Steps, \A w \in Workers : <<l, k>> \notin InHand(w),
           faults' = faults \/ <<l, k>> \notin InHandOfTick
    PROVE  late'[l][k] <= late[l][k]
  <1>0. late[l][k] \in Nat /\ faults \in Nat
    BY DEF Types, Parts
  <1> SUFFICES ASSUME UNCHANGED late \/ (\E S : Adrift(S) /\ <<l, k>> \notin S) \/ LateStep
               PROVE  late'[l][k] <= late[l][k]
    <2>1. ASSUME NEW c \in Calls, RequestStep(c)
          PROVE  UNCHANGED late \/ \E S : Adrift(S) /\ <<l, k>> \notin S
      <3>1. CancelTask => UNCHANGED late \/ \E S : Adrift(S) /\ <<l, k>> \notin S
        <4>1. Running => task \in Workers
          BY DEF Running, Types, Parts
        <4> QED BY <4>1 DEF CancelTask
      <3> QED BY <2>1, <3>1 DEF RequestStep, Launch, Claim, Spawn, Pause, PauseCommits, PauseCancels,
                    CancelFirst, Schedule, Delete, Unschedule, Unscheduled, obsVars
    <2>2. ASSUME NEW w \in Workers, WorkerStep(w)
          PROVE  UNCHANGED late \/ \E S : Adrift(S) /\ <<l, k>> \notin S
      BY <2>2 DEF WorkerStep, Work, SendUnconfirmed, RecordFails, Break, Begin, ParkItself, Activate, Target,
                  Poll, Send, Decline, Record, Track, Close, CountFollowups, Finish, Unwind, Park, obsVars
    <2>3. ASSUME NEW m \in Leads, LeadStep(m) PROVE UNCHANGED late
      BY <2>3 DEF LeadStep, Elapse, Reply, StopLead, obsVars
    <2>4. ASSUME TickStep PROVE UNCHANGED late \/ \E S : Adrift(S) /\ <<l, k>> \notin S
      <3>1. CASE SendFollowup
        <4>1. CASE UNCHANGED late
          BY <4>1
        <4>2. CASE faults' = faults + 1 /\ Adrift(InHandOfTick)
          BY <1>0, <4>2
        <4> QED BY <3>1, <4>1, <4>2 DEF SendFollowup
      <3>2. CASE BreakTick
        <4>1. <<l, k>> \notin InHandOfTick
          BY <1>0, <3>2 DEF BreakTick
        <4> QED BY <3>2, <4>1 DEF BreakTick
      <3>3. CASE ~SendFollowup /\ ~BreakTick
        BY <2>4, <3>3 DEF TickStep, Tick, Fetch, FetchOthers, Visit, RecordFollowup, CountActive,
                          CompleteCampaign, obsVars
      <3> QED BY <3>1, <3>2, <3>3
    <2>5. ASSUME Restart PROVE \E S : Adrift(S) /\ <<l, k>> \notin S
      BY <1>0, <2>5 DEF Restart
    <2> QED BY <2>1, <2>2, <2>3, <2>4, <2>5, NextCases
  <1>1. CASE UNCHANGED late
    BY <1>0, <1>1
  <1>2. CASE \E S : Adrift(S) /\ <<l, k>> \notin S
    BY <1>0, <1>2, AdriftAt
  <1>3. CASE LateStep
    <2>1. PICK m \in Leads, j \in 1..Steps : SendLate(m, j)
      BY <1>3 DEF LateStep
    <2>2. late[m][j] \in Nat
      BY DEF Types, Parts
    <2>3. late'[l][k] \in {late[l][k], late[l][k] - 1}
      BY <2>1 DEF SendLate, Types, Parts
    <2> QED BY <1>0, <2>3
  <1> QED BY <1>1, <1>2, <1>3

(* What goes out was in hand or with the gateway. *)
LEMMA SentGrows ==
    ASSUME Types, Next, NEW l \in Leads, NEW k \in 1..Steps
    PROVE  \/ sent'[l][k] = sent[l][k]
           \/ /\ sent'[l][k] = sent[l][k] + 1
              /\ \/ \E w \in Workers : <<l, k>> \in InHand(w)
                 \/ <<l, k>> \in InHandOfTick
                 \/ late[l][k] > 0 /\ late'[l][k] = late[l][k] - 1
  <1>0. sent \in [Leads -> [1..Steps -> Nat]]
    BY DEF Types, Parts
  <1>1. ASSUME NEW m \in Leads, NEW j \in 1..Steps, Out(m, j)
        PROVE  sent'[l][k] = IF m = l /\ j = k THEN sent[l][k] + 1 ELSE sent[l][k]
    BY <1>0, <1>1 DEF Out
  <1>2. ASSUME NEW c \in Calls, RequestStep(c) PROVE UNCHANGED sent
    BY <1>2, RequestEffects
  <1>3. ASSUME NEW w \in Workers, WorkerStep(w)
        PROVE  UNCHANGED sent \/ \E m \in Leads, j \in 1..Steps : Out(m, j) /\ <<m, j>> \in InHand(w)
    <2>1. CASE Send(w)
      <3>1. worker[w].pc = "send" /\ Out(worker[w].cur, 1) /\ worker[w].cur \in Leads /\ 1 \in 1..Steps
        BY <2>1 DEF Send, At, Types, HasLead
      <3> QED BY <3>1 DEF InHand
    <2>2. CASE ~Send(w)
      BY <1>3, <2>2, WorkerEffects DEF Handles, SendUnconfirmed, Record, RecordFails, Track, obsVars
    <2> QED BY <2>1, <2>2
  <1>4. ASSUME NEW m \in Leads, LeadStep(m) PROVE UNCHANGED sent
    BY <1>4 DEF LeadStep, Elapse, Reply, StopLead, obsVars
  <1>5. ASSUME TickStep
        PROVE  UNCHANGED sent \/ \E m \in Leads, j \in 1..Steps : Out(m, j) /\ <<m, j>> \in InHandOfTick
    <2>1. CASE SendFollowup
      <3>1. tick.pc = "send" /\ tick.cur \in Leads /\ tick.step + 1 \in 1..Steps
        BY <2>1 DEF SendFollowup, Types, TickHasStep
      <3>2. <<tick.cur, tick.step + 1>> \in InHandOfTick
        BY <3>1 DEF InHandOfTick
      <3>3. UNCHANGED sent \/ Out(tick.cur, tick.step + 1)
        BY <2>1 DEF SendFollowup
      <3> QED BY <3>1, <3>2, <3>3
    <2>2. CASE ~SendFollowup
      BY <1>5, <2>2 DEF TickStep, Tick, Fetch, FetchOthers, Visit, RecordFollowup, CountActive,
                        CompleteCampaign, BreakTick, obsVars
    <2> QED BY <2>1, <2>2
  <1>6. ASSUME LateStep
        PROVE  \/ UNCHANGED sent
               \/ \E m \in Leads, j \in 1..Steps :
                     Out(m, j) /\ late[m][j] > 0 /\ late'[m][j] = late[m][j] - 1
    <2>1. PICK m \in Leads, j \in 1..Steps : SendLate(m, j)
      BY <1>6 DEF LateStep
    <2>2. late'[m][j] = late[m][j] - 1 /\ late[m][j] > 0
      BY <2>1 DEF SendLate, Types, Parts
    <2> QED BY <2>1, <2>2 DEF SendLate
  <1>7. Restart => UNCHANGED sent
    BY DEF Restart
  <1> QED BY <1>1, <1>2, <1>3, <1>4, <1>5, <1>6, <1>7, NextCases

-----------------------------------------------------------------------------
(* sent_count never runs ahead *)

(* Every copy of the counter is behind the messages that went out, and one *)
(* message further behind when its holder is about to count one.           *)
CopiesBehind ==
    /\ sentCount <= total
    /\ \A w \in Workers :
          /\ worker[w].count <= total
          /\ worker[w].pc = "record" => worker[w].count < total
    /\ tick.count <= total
    /\ tick.pc = "record" => tick.count < total

LEMMA CopiesInit == Init => CopiesBehind
  BY DEF Init, CopiesBehind, NoTask, NoTick

LEMMA CopiesWorker ==
    ASSUME Types, CopiesBehind, NEW w \in Workers, WorkerStep(w) PROVE CopiesBehind'
  <1>t. /\ worker \in [Workers -> WorkerRecord] /\ sentCount \in Nat /\ total \in Nat
        /\ \A v \in Workers : worker[v].count \in Nat
        /\ tick.count \in Nat
    BY DEF Types, Parts, WorkerRecord, TickRecord
  <1>g. ASSUME NEW p, Goto(w, p)
        PROVE  \A v \in Workers : /\ worker'[v].count = worker[v].count
                                  /\ v # w => worker'[v] = worker[v]
                                  /\ worker'[w].pc = p
    BY <1>t, <1>g DEF Goto, WorkerRecord
  <1>n. NextLead(w) # "record"
    BY DEF NextLead
  <1>1. CASE Send(w)
    <2>1. total' = total + 1 /\ UNCHANGED <<sentCount, tick>>
      BY <1>1 DEF Send, Out, dbVars
    <2>2. \A v \in Workers : worker'[v].count = worker[v].count
      BY <1>1, <1>g DEF Send
    <2> QED BY <1>t, <2>1, <2>2 DEF CopiesBehind
  <1>2. CASE SendUnconfirmed(w)
    <2>1. UNCHANGED <<total, sentCount, tick>> /\ worker'[w].pc # "record"
      BY <1>2, <1>g, <1>n DEF SendUnconfirmed, dbVars
    <2>2. \A v \in Workers : worker'[v].count = worker[v].count
      BY <1>2, <1>g DEF SendUnconfirmed
    <2>3. \A v \in Workers : v # w => worker'[v] = worker[v]
      BY <1>2, <1>g DEF SendUnconfirmed
    <2> QED BY <1>t, <2>1, <2>2, <2>3 DEF CopiesBehind
  <1>3. CASE Record(w) \/ RecordFails(w)
    <2>1. PICK next : next # "record" /\ Recorded(w, next)
      BY <1>3, <1>n DEF Record, RecordFails
    <2>2. At(w, "record") /\ UNCHANGED <<tick, total>>
      BY <1>3 DEF Record, RecordFails, obsVars
    <2>3. CASE status = "DELETED"
      <3>1. Goto(w, "unwinding") /\ UNCHANGED sentCount
        BY <2>1, <2>3 DEF Recorded
      <3> QED BY <1>t, <1>g, <2>2, <3>1 DEF CopiesBehind
    <2>4. CASE status # "DELETED"
      <3>1. /\ sentCount' = worker[w].count + 1
            /\ worker' = [worker EXCEPT ![w] = [worker[w] EXCEPT !.count = @ + 1, !.pc = next]]
        BY <2>1, <2>4 DEF Recorded
      <3>2. /\ \A v \in Workers \ {w} : worker'[v] = worker[v]
            /\ worker'[w].count = worker[w].count + 1
            /\ worker'[w].pc = next
        BY <1>t, <3>1 DEF WorkerRecord
      <3>3. worker[w].count < total
        BY <2>2 DEF CopiesBehind, At
      <3> QED BY <1>t, <2>1, <2>2, <3>1, <3>2, <3>3 DEF CopiesBehind
    <2> QED BY <2>3, <2>4
  <1>4. CASE Track(w)
    <2>1. \E p : p # "record" /\ Goto(w, p)
      BY <1>4, <1>n DEF Track
    <2>2. UNCHANGED <<sentCount, tick, total>>
      BY <1>4 DEF Track, obsVars
    <2> QED BY <1>t, <1>g, <2>1, <2>2 DEF CopiesBehind
  <1>5. CASE ~Handles(w)
    BY <1>t, <1>5, WorkerEffects DEF CopiesBehind
  <1> QED BY <1>1, <1>2, <1>3, <1>4, <1>5 DEF Handles

LEMMA CopiesTick ==
    ASSUME Types, CopiesBehind, TickStep PROVE CopiesBehind'
  <1>t. /\ sentCount \in Nat /\ total \in Nat /\ tick \in TickRecord /\ tick.count \in Nat
        /\ \A v \in Workers : worker[v].count \in Nat
    BY DEF Types, Parts, WorkerRecord, TickRecord
  <1>0. NoTick.count = 0 /\ NoTick.pc = "idle"
    BY DEF NoTick
  <1>1. CASE Fetch
    <2>1. tick'.count = 0 /\ tick'.pc = "rows"
      BY <1>1 DEF Fetch, NoTick
    <2> QED BY <1>t, <1>1, <2>1 DEF Fetch, dbVars, obsVars, CopiesBehind
  <1>2. ASSUME NEW r \in Rows, Visit(r) PROVE CopiesBehind'
    <2> DEFINE mem   == IF tick.mem = "NONE" THEN status ELSE tick.mem
               count == IF tick.mem = "NONE" THEN sentCount ELSE tick.count
               seen  == [tick EXCEPT !.mem = mem, !.count = count, !.rows = @ \ {r}]
               sending == [seen EXCEPT !.pc = "send", !.cur = r.lead, !.step = r.step]
    <2>1. tick' \in {seen, sending, NoTick} /\ tick.pc = "rows"
      BY <1>2 DEF Visit
    <2>2. count \in {sentCount, tick.count}
      OBVIOUS
    <2>3. seen.count = count /\ seen.pc = tick.pc /\ sending.count = count /\ sending.pc = "send"
      <3> HIDE DEF mem, count
      <3> QED BY <1>t DEF TickRecord
    <2>4. tick'.count \in {0, sentCount, tick.count} /\ tick'.pc # "record"
      <3> HIDE DEF seen, sending
      <3> QED BY <1>0, <2>1, <2>2, <2>3
    <2>5. UNCHANGED <<sentCount, worker, total>>
      BY <1>2 DEF Visit, obsVars
    <2> QED BY <1>t, <2>4, <2>5 DEF CopiesBehind
  <1>3. CASE SendFollowup
    <2>1. tick'.count = tick.count /\ tick'.pc \in {"record", "rows"}
      BY <1>t, <1>3 DEF SendFollowup, TickRecord
    <2>2. \/ total' = total + 1
          \/ UNCHANGED total /\ tick'.pc = "rows"
      BY <1>t, <1>3 DEF SendFollowup, Out, TickRecord
    <2>3. UNCHANGED <<sentCount, worker>>
      BY <1>3 DEF SendFollowup, dbVars
    <2> QED BY <1>t, <2>1, <2>2, <2>3 DEF CopiesBehind
  <1>4. CASE RecordFollowup
    <2>1. CASE status = "DELETED"
      BY <1>0, <1>t, <1>4, <2>1 DEF RecordFollowup, obsVars, CopiesBehind
    <2>2. CASE status # "DELETED"
      <3>1. /\ tick.pc = "record"
            /\ sentCount' = tick.count + 1
            /\ tick' = [tick EXCEPT !.pc = "rows", !.count = @ + 1]
            /\ UNCHANGED <<worker, total>>
        BY <1>4, <2>2 DEF RecordFollowup, obsVars
      <3>2. tick'.count = tick.count + 1 /\ tick'.pc = "rows"
        BY <1>t, <3>1 DEF TickRecord
      <3> QED BY <1>t, <3>1, <3>2 DEF CopiesBehind
    <2> QED BY <2>1, <2>2
  <1>5. CASE CountActive
    <2>1. tick'.count \in {0, tick.count} /\ tick'.pc # "record"
      BY <1>0, <1>t, <1>5 DEF CountActive, TickRecord
    <2> QED BY <1>t, <1>5, <2>1 DEF CountActive, dbVars, obsVars, CopiesBehind
  <1>6. CASE CompleteCampaign \/ BreakTick
    BY <1>0, <1>t, <1>6 DEF CompleteCampaign, BreakTick, dbVars, obsVars, CopiesBehind
  <1>7. CASE FetchOthers
    <2>1. tick'.count = 0 /\ tick'.pc = "rows"
      BY <1>7 DEF FetchOthers, NoTick
    <2> QED BY <1>t, <1>7, <2>1 DEF FetchOthers, dbVars, obsVars, CopiesBehind
  <1> QED BY <1>1, <1>2, <1>3, <1>4, <1>5, <1>6, <1>7 DEF TickStep, Tick

LEMMA CopiesStep == Types /\ CopiesBehind /\ [Next]_vars => CopiesBehind'
  <1> SUFFICES ASSUME Types, CopiesBehind, [Next]_vars PROVE CopiesBehind'
    OBVIOUS
  <1>t. sentCount \in Nat /\ total \in Nat /\ \A w \in Workers : worker[w].count \in Nat
    BY DEF Types, Parts, WorkerRecord
  <1>1. CASE UNCHANGED vars
    BY <1>1 DEF vars, dbVars, taskVars, obsVars, CopiesBehind
  <1>2. ASSUME NEW c \in Calls, RequestStep(c) PROVE CopiesBehind'
    BY <1>t, <1>2, RequestEffects DEF CopiesBehind
  <1>3. ASSUME NEW l \in Leads, LeadStep(l) PROVE CopiesBehind'
    BY <1>3 DEF LeadStep, Elapse, Reply, StopLead, taskVars, obsVars, CopiesBehind
  <1>4. CASE Restart
    <2>1. NoTask.count = 0 /\ NoTask.pc = "none" /\ NoTick.count = 0 /\ NoTick.pc = "idle"
      BY DEF NoTask, NoTick
    <2> QED BY <1>t, <1>4, <2>1 DEF Restart, CopiesBehind
  <1>5. CASE LateStep
    <2>1. total' \in {total, total + 1} /\ UNCHANGED <<sentCount, worker, tick>>
      BY <1>5 DEF LateStep, SendLate, Out, dbVars, taskVars
    <2> QED BY <1>t, <2>1 DEF CopiesBehind, Types, Parts, TickRecord
  <1> QED BY <1>1, <1>2, <1>3, <1>4, <1>5, CopiesWorker, CopiesTick, NextCases

(* The campaign's sent_count never exceeds the messages that went out, though *)
(* the worker and the follow-up scheduler write it from copies of the row     *)
(* that each of them keeps while the other one changes it.                    *)
THEOREM CountTruth == Spec => []CountIsTruthful
  <1>1. Spec => []CopiesBehind
    BY TypesHold, CopiesInit, CopiesStep, PTL DEF Spec
  <1>2. CopiesBehind => CountIsTruthful
    BY DEF CopiesBehind, CountIsTruthful
  <1> QED BY <1>1, <1>2, PTL

-----------------------------------------------------------------------------
(* A follow-up never overtakes the step before it *)

(* The step a row stands at, and the one the scheduler starts from, has been *)
(* sent.                                                                     *)
Gone(out, l, k) == k \in 1..Steps /\ out[l][k] > 0

StepsGone ==
    /\ FollowupsInOrder
    /\ \A l \in Leads : seq[l].status = "ACTIVE" => Gone(sent, l, seq[l].step)
    /\ \A r \in tick.rows : Gone(sent, r.lead, r.step)
    /\ tick.pc \in {"send", "record"} => Gone(sent, tick.cur, tick.step)
    /\ tick.pc = "record" => Gone(sent, tick.cur, tick.step + 1)
    /\ \A w \in Workers : worker[w].pc \in {"record", "track"} => Gone(sent, worker[w].cur, 1)

(* The same holds for a follow-up that was left with the gateway. *)
LateInOrder == \A l \in Leads : \A k \in 2..Steps : late[l][k] > 0 => Gone(sent, l, k - 1)

LEMMA StepsGoneInit == Init => StepsGone /\ LateInOrder
  BY DEF Init, StepsGone, LateInOrder, FollowupsInOrder, NoTask, NoTick, NoRow

(* A message that goes out is not forgotten, and keeps the order if it is a *)
(* first one or the step before it has gone out.                            *)
LEMMA OutGrows ==
    ASSUME Types, NEW l \in Leads, NEW k \in 1..Steps, Out(l, k)
    PROVE  /\ \A m \in Leads, j \in 1..Steps : sent'[m][j] >= sent[m][j]
           /\ \A m \in Leads : \A j : Gone(sent, m, j) => Gone(sent', m, j)
           /\ Gone(sent', l, k)
           /\ FollowupsInOrder /\ (k = 1 \/ Gone(sent, l, k - 1)) => FollowupsInOrder'
  <1>1. sent \in [Leads -> [1..Steps -> Nat]]
    BY DEF Types, Parts
  <1>2. sent' = [sent EXCEPT ![l] = [sent[l] EXCEPT ![k] = sent[l][k] + 1]]
    BY DEF Out
  <1>3. \A m \in Leads, j \in 1..Steps :
           sent'[m][j] = IF m = l /\ j = k THEN sent[m][j] + 1 ELSE sent[m][j]
    BY <1>1, <1>2
  <1>4. \A m \in Leads, j \in 1..Steps : sent[m][j] \in Nat
    BY <1>1
  <1>5. \A m \in Leads, j \in 1..Steps : sent'[m][j] >= sent[m][j]
    BY <1>3, <1>4
  <1>6. \A m \in Leads : \A j : Gone(sent, m, j) => Gone(sent', m, j)
    BY <1>4, <1>3 DEF Gone
  <1>7. Gone(sent', l, k)
    BY <1>3, <1>4 DEF Gone
  <1>8. ASSUME FollowupsInOrder, k = 1 \/ Gone(sent, l, k - 1) PROVE FollowupsInOrder'
    <2> SUFFICES ASSUME NEW m \in Leads, NEW j \in 2..Steps, sent'[m][j] > 0
                 PROVE  sent'[m][j-1] > 0
      BY DEF FollowupsInOrder
    <2>1. j \in 1..Steps /\ j - 1 \in 1..Steps
      OBVIOUS
    <2>2. sent[m][j-1] > 0
      <3>1. CASE m = l /\ j = k
        BY <1>8, <2>1, <3>1 DEF Gone
      <3>2. CASE ~(m = l /\ j = k)
        BY <1>3, <1>8, <2>1, <3>2 DEF FollowupsInOrder
      <3> QED BY <3>1, <3>2
    <2> QED BY <1>3, <1>4, <2>1, <2>2
  <1> QED BY <1>5, <1>6, <1>7, <1>8

LEMMA StepsGoneWorker ==
    ASSUME Types, StepsGone, NEW w \in Workers, WorkerStep(w) PROVE StepsGone'
  <1>t. /\ worker \in [Workers -> WorkerRecord] /\ seq \in [Leads -> SeqRecord]
        /\ 1 \in 1..Steps
        /\ tick \in TickRecord /\ TickHasStep(tick)
        /\ worker[w].pc \in {"send", "record", "track"} => worker[w].cur \in Leads
    BY DEF Types, Parts, HasLead
  <1>r. \A r \in tick.rows : r.lead \in Leads
    BY <1>t DEF TickRecord, Rows
  <1>g. ASSUME NEW p, Goto(w, p)
        PROVE  /\ \A v \in Workers \ {w} : worker'[v] = worker[v]
               /\ worker'[w].pc = p
               /\ worker'[w].cur = worker[w].cur
    BY <1>t, <1>g DEF Goto, WorkerRecord
  <1>n. NextLead(w) \notin {"record", "track"}
    BY DEF NextLead
  <1>l. \A v \in Workers : worker[v].pc \in {"record", "track"} => worker[v].cur \in Leads
    BY DEF Types, HasLead
  <1>1. CASE Send(w)
    <2>1. /\ worker[w].cur \in Leads /\ Out(worker[w].cur, 1)
          /\ UNCHANGED <<seq, tick>>
          /\ \E p : Goto(w, p)
      BY <1>1, <1>t DEF Send, At, dbVars
    <2>2. /\ \A m \in Leads : \A j : Gone(sent, m, j) => Gone(sent', m, j)
          /\ Gone(sent', worker[w].cur, 1)
          /\ FollowupsInOrder'
      BY <1>t, <2>1, OutGrows DEF StepsGone
    <2>3. worker'[w].cur = worker[w].cur /\ \A v \in Workers \ {w} : worker'[v] = worker[v]
      BY <2>1, <1>g
    <2>4. Gone(sent', worker'[w].cur, 1)
      BY <2>2, <2>3 DEF Gone
    <2>5. \A v \in Workers : worker'[v].pc \in {"record", "track"} => Gone(sent', worker'[v].cur, 1)
      BY <1>l, <2>2, <2>3, <2>4 DEF StepsGone
    <2>6. /\ \A l \in Leads : seq'[l].status = "ACTIVE" => Gone(sent', l, seq'[l].step)
          /\ \A r \in tick'.rows : Gone(sent', r.lead, r.step)
      BY <1>r, <2>1, <2>2 DEF StepsGone
    <2>7. /\ tick'.pc \in {"send", "record"} => Gone(sent', tick'.cur, tick'.step)
          /\ tick'.pc = "record" => Gone(sent', tick'.cur, tick'.step + 1)
      BY <1>t, <2>1, <2>2 DEF StepsGone, TickHasStep
    <2> QED BY <2>2, <2>5, <2>6, <2>7 DEF StepsGone
  <1>2. CASE Record(w) \/ RecordFails(w)
    <2>1. PICK next : Recorded(w, next)
      BY <1>2 DEF Record, RecordFails
    <2>2. At(w, "record") /\ UNCHANGED <<seq, tick, sent>>
      BY <1>2 DEF Record, RecordFails, obsVars
    <2>3. \A v \in Workers \ {w} : worker'[v] = worker[v]
      BY <1>g, <2>1, <1>t DEF Recorded
    <2>4. worker'[w].cur = worker[w].cur
      <3>1. CASE status = "DELETED"
        BY <1>g, <2>1, <3>1 DEF Recorded
      <3>2. CASE status # "DELETED"
        <4>1. worker' = [worker EXCEPT ![w] = [worker[w] EXCEPT !.count = @ + 1, !.pc = next]]
          BY <2>1, <3>2 DEF Recorded
        <4> QED BY <1>t, <4>1 DEF WorkerRecord
      <3> QED BY <3>1, <3>2
    <2>5. Gone(sent, worker[w].cur, 1)
      BY <2>2 DEF StepsGone, At
    <2> QED BY <2>2, <2>3, <2>4, <2>5 DEF StepsGone, Gone, FollowupsInOrder
  <1>3. CASE Track(w)
    <2>1. /\ At(w, "track") /\ worker[w].cur \in Leads /\ UNCHANGED <<tick, sent>>
          /\ \E p : p \notin {"record", "track"} /\ Goto(w, p)
      BY <1>3, <1>n, <1>t DEF Track, At, obsVars
    <2>2. \A v \in Workers : worker'[v].pc \in {"record", "track"} => worker'[v] = worker[v]
      BY <1>g, <2>1
    <2>3. Gone(sent, worker[w].cur, 1)
      BY <2>1 DEF StepsGone, At
    <2>4. \/ UNCHANGED seq
          \/ seq' = [seq EXCEPT ![worker[w].cur] = [status |-> "ACTIVE", step |-> 1, due |-> FALSE]]
      BY <1>3 DEF Track
    <2>5. \A l \in Leads : seq'[l].status = "ACTIVE" => Gone(sent, l, seq'[l].step)
      BY <1>t, <2>1, <2>3, <2>4 DEF StepsGone
    <2> QED BY <2>1, <2>2, <2>5 DEF StepsGone, Gone, FollowupsInOrder
  <1>4. CASE ~Handles(w)
    <2>1. /\ UNCHANGED <<seq, tick, sent>>
          /\ \A v \in Workers : worker'[v].pc \in {"record", "track"} => worker'[v] = worker[v]
      BY <1>4, WorkerEffects
    <2> QED BY <2>1 DEF StepsGone, Gone, FollowupsInOrder
  <1>5. CASE SendUnconfirmed(w)
    <2>1. UNCHANGED <<seq, tick, sent>>
      BY <1>5 DEF SendUnconfirmed, dbVars
    <2>2. \A v \in Workers : worker'[v].pc \in {"record", "track"} => worker'[v] = worker[v]
      BY <1>5, <1>g, <1>n DEF SendUnconfirmed
    <2> QED BY <2>1, <2>2 DEF StepsGone, Gone, FollowupsInOrder
  <1> QED BY <1>1, <1>2, <1>3, <1>4, <1>5 DEF Handles

LEMMA StepsGoneTick ==
    ASSUME Types, StepsGone, TickStep PROVE StepsGone'
  <1>t. tick \in TickRecord /\ TickHasStep(tick) /\ seq \in [Leads -> SeqRecord]
    BY DEF Types, Parts
  <1>0. NoTick.rows = {} /\ NoTick.pc = "idle"
    BY DEF NoTick
  <1>1. CASE Fetch
    <2>1. tick'.rows = DueRows /\ tick'.pc = "rows" /\ UNCHANGED <<seq, sent, worker>>
      BY <1>1 DEF Fetch, NoTick, dbVars, obsVars
    <2>2. \A r \in DueRows : Gone(sent, r.lead, r.step)
      BY DEF DueRows, Rows, StepsGone
    <2> QED BY <2>1, <2>2 DEF StepsGone, Gone, FollowupsInOrder
  <1>2. ASSUME NEW r \in Rows, Visit(r) PROVE StepsGone'
    <2> DEFINE mem   == IF tick.mem = "NONE" THEN status ELSE tick.mem
               count == IF tick.mem = "NONE" THEN sentCount ELSE tick.count
               seen  == [tick EXCEPT !.mem = mem, !.count = count, !.rows = @ \ {r}]
               sending == [seen EXCEPT !.pc = "send", !.cur = r.lead, !.step = r.step]
    <2>1. tick' \in {seen, sending, NoTick} /\ tick.pc = "rows" /\ r \in tick.rows
      BY <1>2 DEF Visit
    <2>2. /\ seen.rows = tick.rows \ {r} /\ seen.pc = tick.pc
          /\ sending.rows = tick.rows \ {r} /\ sending.pc = "send"
          /\ sending.cur = r.lead /\ sending.step = r.step
      <3> HIDE DEF mem, count
      <3> QED BY <1>t DEF TickRecord
    <2>3. /\ tick'.rows \subseteq tick.rows
          /\ tick'.pc # "record"
          /\ tick'.pc = "send" => tick'.cur = r.lead /\ tick'.step = r.step
      <3> HIDE DEF seen, sending
      <3> QED BY <1>0, <2>1, <2>2
    <2>4. \A l \in Leads : seq'[l].status = "ACTIVE" => seq'[l] = seq[l]
      <3>1. r.lead \in Leads
        BY DEF Rows
      <3>2. \/ UNCHANGED seq
            \/ \E s \in {"STOPPED_ON_REPLY", "FAILED"} :
                  seq' = [seq EXCEPT ![r.lead] = [seq[r.lead] EXCEPT !.status = s, !.due = FALSE]]
        BY <1>2, <1>t, <3>1 DEF Visit
      <3> QED BY <1>t, <3>1, <3>2 DEF SeqRecord
    <2>5. UNCHANGED <<sent, worker>>
      BY <1>2 DEF Visit, obsVars
    <2> QED BY <2>1, <2>3, <2>4, <2>5 DEF StepsGone, Gone, FollowupsInOrder
  <1>3. CASE SendFollowup
    <2>1. tick.cur \in Leads /\ tick.step \in 1..(Steps - 1) /\ tick.pc = "send"
      BY <1>t, <1>3 DEF SendFollowup, TickHasStep
    <2>2. tick.step + 1 \in 1..Steps /\ (tick.step + 1) - 1 = tick.step /\ Gone(sent, tick.cur, tick.step)
      BY <2>1 DEF StepsGone
    <2>3. UNCHANGED <<seq, worker>> /\ tick'.rows = tick.rows /\ tick'.cur = tick.cur /\ tick'.step = tick.step
          /\ tick'.pc \in {"record", "rows"}
      BY <1>t, <1>3 DEF SendFollowup, dbVars, TickRecord
    <2>4. CASE Out(tick.cur, tick.step + 1)
      <3>1. /\ \A m \in Leads : \A j : Gone(sent, m, j) => Gone(sent', m, j)
            /\ Gone(sent', tick.cur, tick.step + 1)
            /\ FollowupsInOrder'
        BY <2>1, <2>2, <2>4, OutGrows DEF StepsGone
      <3>2. \A r \in tick.rows : r.lead \in Leads
        BY <1>t DEF TickRecord, Rows
      <3>3. \A v \in Workers : worker[v].pc \in {"record", "track"} => worker[v].cur \in Leads
        BY DEF Types, HasLead
      <3>4. /\ \A l \in Leads : seq'[l].status = "ACTIVE" => Gone(sent', l, seq'[l].step)
            /\ \A r \in tick'.rows : Gone(sent', r.lead, r.step)
            /\ \A w \in Workers : worker'[w].pc \in {"record", "track"} => Gone(sent', worker'[w].cur, 1)
        BY <2>3, <3>1, <3>2, <3>3 DEF StepsGone
      <3>5. Gone(sent', tick'.cur, tick'.step) /\ Gone(sent', tick'.cur, tick'.step + 1)
        BY <2>1, <2>2, <2>3, <3>1
      <3> QED BY <3>1, <3>4, <3>5 DEF StepsGone
    <2>5. CASE UNCHANGED sent /\ tick'.pc = "rows"
      BY <2>3, <2>5 DEF StepsGone, Gone, FollowupsInOrder
    <2> QED BY <1>3, <1>t, <2>4, <2>5 DEF SendFollowup, TickRecord
  <1>4. CASE RecordFollowup
    <2>1. tick.cur \in Leads /\ tick.pc = "record" /\ Gone(sent, tick.cur, tick.step + 1)
          /\ UNCHANGED <<sent, worker>>
      BY <1>t, <1>4 DEF RecordFollowup, TickHasStep, StepsGone, obsVars
    <2>2. tick'.rows \subseteq tick.rows /\ tick'.pc \notin {"send", "record"}
      BY <1>0, <1>t, <1>4 DEF RecordFollowup, TickRecord
    <2>3. \A l \in Leads : seq'[l].status = "ACTIVE" => Gone(sent, l, seq'[l].step)
      <3>1. CASE UNCHANGED seq
        BY <3>1 DEF StepsGone
      <3>2. CASE ~ UNCHANGED seq
        <4> DEFINE done == tick.step + 1
                   s == IF done < Steps THEN seq[tick.cur].status ELSE "COMPLETED"
        <4>1. seq' = [seq EXCEPT ![tick.cur] = [status |-> s, step |-> done, due |-> FALSE]]
          BY <1>4, <1>t, <2>1, <3>2 DEF RecordFollowup
        <4>2. Gone(sent, tick.cur, done)
          BY <2>1
        <4> HIDE DEF done, s
        <4> QED BY <1>t, <2>1, <4>1, <4>2 DEF StepsGone
      <3> QED BY <3>1, <3>2
    <2> QED BY <2>1, <2>2, <2>3 DEF StepsGone, Gone, FollowupsInOrder
  <1>5. CASE CountActive \/ CompleteCampaign \/ BreakTick
    <2>1. tick'.rows \subseteq tick.rows /\ tick'.pc \notin {"send", "record"}
      BY <1>0, <1>t, <1>5 DEF CountActive, CompleteCampaign, BreakTick, TickRecord
    <2>2. UNCHANGED <<seq, sent, worker>>
      BY <1>5 DEF CountActive, CompleteCampaign, BreakTick, dbVars, obsVars
    <2> QED BY <2>1, <2>2 DEF StepsGone, Gone, FollowupsInOrder
  <1>6. CASE FetchOthers
    <2>1. tick'.rows = {} /\ tick'.pc = "rows" /\ UNCHANGED <<seq, sent, worker>>
      BY <1>6 DEF FetchOthers, NoTick, dbVars, obsVars
    <2> QED BY <2>1 DEF StepsGone, Gone, FollowupsInOrder
  <1> QED BY <1>1, <1>2, <1>3, <1>4, <1>5, <1>6 DEF TickStep, Tick

(* A message sent late keeps the order, too. *)
LEMMA StepsGoneLate ==
    ASSUME Types, StepsGone, LateInOrder, LateStep PROVE StepsGone'
  <1>1. PICK l \in Leads, k \in 1..Steps : SendLate(l, k)
    BY DEF LateStep
  <1>2. UNCHANGED <<seq, worker, tick>>
    BY <1>1 DEF SendLate, dbVars, taskVars
  <1>3. CASE UNCHANGED sent
    BY <1>2, <1>3 DEF StepsGone, Gone, FollowupsInOrder
  <1>4. CASE Out(l, k)
    <2>1. k = 1 \/ Gone(sent, l, k - 1)
      <3>1. k # 1 => k \in 2..Steps
        OBVIOUS
      <3> QED BY <1>1, <3>1 DEF LateInOrder, SendLate
    <2>2. FollowupsInOrder' /\ \A m \in Leads : \A j : Gone(sent, m, j) => Gone(sent', m, j)
      BY <1>4, <2>1, OutGrows DEF StepsGone
    <2>3. /\ \A r \in tick.rows : r.lead \in Leads
          /\ tick.pc \in {"send", "record"} => tick.cur \in Leads
          /\ \A v \in Workers : worker[v].pc \in {"record", "track"} => worker[v].cur \in Leads
      BY DEF Types, Parts, HasLead, TickHasStep, TickRecord, Rows
    <2> QED BY <1>2, <2>2, <2>3 DEF StepsGone
  <1> QED BY <1>1, <1>3, <1>4 DEF SendLate

LEMMA LateInOrderStep ==
    ASSUME Types, StepsGone, LateInOrder, [Next]_vars PROVE LateInOrder'
  <1> SUFFICES ASSUME NEW l \in Leads, NEW k \in 2..Steps, late'[l][k] > 0 PROVE Gone(sent', l, k - 1)
    BY DEF LateInOrder
  <1>0. k \in 1..Steps /\ k - 1 \in 1..Steps /\ k # 1
    OBVIOUS
  <1>1. CASE UNCHANGED vars
    BY <1>1 DEF vars, obsVars, LateInOrder, Gone
  <1>2. CASE Next
    <2>1. Gone(sent, l, k - 1)
      <3>1. CASE late[l][k] > 0
        BY <3>1 DEF LateInOrder
      <3>2. CASE ~(late[l][k] > 0)
        <4>1. late[l][k] \in Nat /\ late[l][k] = 0
          BY <1>0, <3>2 DEF Types, Parts
        <4>2. \A w \in Workers : <<l, k>> \notin InHand(w)
          BY <1>0 DEF InHand
        <4>3. late'[l][k] \in Nat
          <5>1. Types'
            BY <1>2, TypesStep
          <5> QED BY <1>0, <5>1 DEF Types, Parts
        <4>4. <<l, k>> \in InHandOfTick
          <5> SUFFICES ASSUME <<l, k>> \notin InHandOfTick PROVE FALSE
            OBVIOUS
          <5>1. late'[l][k] <= late[l][k]
            BY <1>0, <1>2, <4>2, LateGrows
          <5> QED BY <4>1, <4>3, <5>1
        <4>5. tick.pc = "send" /\ tick.cur = l /\ k = tick.step + 1
          BY <4>4 DEF InHandOfTick
        <4>6. tick.step = k - 1
          BY <4>5 DEF Types, Parts, TickRecord
        <4> QED BY <4>5, <4>6 DEF StepsGone
      <3> QED BY <3>1, <3>2
    <2>2. sent[l][k-1] \in Nat
      BY <1>0 DEF Types, Parts
    <2>3. sent'[l][k-1] \in {sent[l][k-1], sent[l][k-1] + 1}
      BY <1>0, <1>2, SentGrows
    <2> QED BY <1>0, <2>1, <2>2, <2>3 DEF Gone
  <1> QED BY <1>1, <1>2

LEMMA StepsGoneStep == Types /\ StepsGone /\ LateInOrder /\ [Next]_vars => StepsGone' /\ LateInOrder'
  <1> SUFFICES ASSUME Types, StepsGone, LateInOrder, [Next]_vars PROVE StepsGone'
    BY LateInOrderStep
  <1>t. seq \in [Leads -> SeqRecord]
    BY DEF Types, Parts
  <1> USE DEF StepsGone, Gone, FollowupsInOrder
  <1>1. CASE UNCHANGED vars
    BY <1>1 DEF vars, dbVars, taskVars, obsVars
  <1>2. ASSUME NEW c \in Calls, RequestStep(c) PROVE StepsGone'
    BY <1>2, RequestEffects, NoRowType
  <1>3. ASSUME NEW l \in Leads, LeadStep(l) PROVE StepsGone'
    <2>1. \A k \in Leads : seq'[k].status = "ACTIVE" => seq[k].status = "ACTIVE" /\ seq'[k].step = seq[k].step
      BY <1>3, <1>t DEF LeadStep, Elapse, Reply, StopLead, SeqRecord
    <2>2. UNCHANGED <<sent, tick, worker>>
      BY <1>3 DEF LeadStep, Elapse, Reply, StopLead, taskVars, obsVars
    <2> QED BY <2>1, <2>2
  <1>4. CASE Restart
    BY <1>4, NoTaskType, NoTickType DEF Restart
  <1> QED BY <1>1, <1>2, <1>3, <1>4, StepsGoneWorker, StepsGoneTick, StepsGoneLate, NextCases

(* No step of a sequence is sent before the one in front of it, though the   *)
(* scheduler decides from a batch that was loaded before replies, stops,     *)
(* relaunches and other batches changed the rows.                            *)
THEOREM FollowupOrder == Spec => []FollowupsInOrder
  <1>1. Spec => [](StepsGone /\ LateInOrder)
    BY TypesHold, StepsGoneInit, StepsGoneStep, PTL DEF Spec
  <1>2. StepsGone => FollowupsInOrder
    BY DEF StepsGone
  <1> QED BY <1>1, <1>2, PTL

-----------------------------------------------------------------------------
(* A sequence that was stopped *)

LEMMA StopsStep ==
    ASSUME Types, [Next]_vars, NEW l \in Leads,
           seq[l].status \in Stopped, seq'[l].status = "ACTIVE"
    PROVE  \E w \in Workers : At(w, "track") /\ worker[w].cur = l
  <1>t. seq \in [Leads -> SeqRecord] /\ seq[l].status # "ACTIVE" /\ ~UNCHANGED seq
    BY DEF Types, Parts, Stopped
  <1>1. CASE UNCHANGED vars
    BY <1>1, <1>t DEF vars, dbVars
  <1>2. ASSUME NEW c \in Calls, RequestStep(c) PROVE FALSE
    BY <1>2, <1>t, RequestEffects, NoRowType
  <1>3. ASSUME NEW w \in Workers, WorkerStep(w) PROVE At(w, "track") /\ worker[w].cur = l
    <2>1. CASE Track(w)
      <3>1. seq' = [seq EXCEPT ![worker[w].cur] = [status |-> "ACTIVE", step |-> 1, due |-> FALSE]]
        BY <1>t, <2>1 DEF Track
      <3> QED BY <1>t, <2>1, <3>1 DEF Track
    <2>2. CASE ~Track(w)
      BY <1>3, <1>t, <2>2, WorkerEffects DEF Handles, Send, SendUnconfirmed, Record, RecordFails, dbVars
    <2> QED BY <2>1, <2>2
  <1>4. ASSUME NEW k \in Leads, LeadStep(k) PROVE FALSE
    BY <1>4, <1>t DEF LeadStep, Elapse, Reply, StopLead, SeqRecord
  <1>5. CASE TickStep
    <2>1. ASSUME NEW r \in Rows, Visit(r) PROVE FALSE
      <3>1. r.lead \in Leads
        BY DEF Rows
      <3>2. \E s \in {"STOPPED_ON_REPLY", "FAILED"} :
               seq' = [seq EXCEPT ![r.lead] = [seq[r.lead] EXCEPT !.status = s, !.due = FALSE]]
        BY <1>t, <2>1, <3>1 DEF Visit
      <3> QED BY <1>t, <3>1, <3>2 DEF SeqRecord
    <2>2. CASE RecordFollowup
      <3> DEFINE done == tick.step + 1
      <3>1. seq' = [seq EXCEPT ![tick.cur] =
               [status |-> IF done < Steps THEN seq[tick.cur].status ELSE "COMPLETED",
                step |-> done, due |-> FALSE]]
        BY <1>t, <2>2 DEF RecordFollowup, Types, TickHasStep
      <3> HIDE DEF done
      <3> QED BY <1>t, <3>1
    <2> QED BY <1>5, <1>t, <2>1, <2>2
            DEF TickStep, Tick, Fetch, FetchOthers, SendFollowup, CountActive, CompleteCampaign, BreakTick, dbVars
  <1>6. CASE Restart
    BY <1>6, <1>t DEF Restart
  <1>7. CASE LateStep
    BY <1>7, <1>t DEF LateStep, SendLate, dbVars
  <1> QED BY <1>1, <1>2, <1>3, <1>4, <1>5, <1>6, <1>7, NextCases

(* A sequence stopped by a reply or by the user is opened again by nothing   *)
(* but a worker that has sent this lead its first message again.             *)
THEOREM StaysStopped == Spec => StoppedStaysStopped
  <1>1. Types /\ [Next]_vars =>
           [\A l \in Leads : seq[l].status \in Stopped /\ seq'[l].status = "ACTIVE"
               => \E w \in Workers : At(w, "track") /\ worker[w].cur = l]_vars
    BY StopsStep
  <1> QED BY <1>1, TypesHold, PTL DEF Spec, StoppedStaysStopped

-----------------------------------------------------------------------------
(* One request at a time *)

OneRequest == \A c, d \in Calls : c = d

(* Between the question whether a worker is registered and the registration  *)
(* of the new one there is none.  Once a pause has been answered every       *)
(* worker is on its way out, and no request is about to start another.       *)
OneWorker ==
    /\ WorkerIsRegistered
    /\ \A c \in Calls : call[c].pc \in {"claim", "spawn"} => task = NoWorker
    /\ halted => \A w \in Workers : ~Alive(w)
    /\ halted => \A c \in Calls : call[c].pc # "spawn"

LEMMA OneWorkerInit == Init => OneWorker
  BY DEF Init, OneWorker, WorkerIsRegistered, NoTask, NoCall

(* What a step of a worker does to the registry *)
LEMMA WorkerFrame ==
    ASSUME Types, NEW w \in Workers, WorkerStep(w)
    PROVE  /\ UNCHANGED <<call, halted>>
           /\ worker[w].pc # "none"
           /\ \A v \in Workers \ {w} : worker'[v] = worker[v]
           /\ UNCHANGED task \/ (task' = NoWorker /\ worker'[w].pc = "none")
           /\ ~Alive(w) => worker'[w].pc \in {"none", "parking"}
  <1>t. worker \in [Workers -> WorkerRecord]
    BY DEF Types, Parts
  <1> DEFINE Frame == /\ \A v \in Workers \ {w} : worker'[v] = worker[v]
                      /\ UNCHANGED task \/ (task' = NoWorker /\ worker'[w].pc = "none")
  <1>g. ASSUME NEW p, Goto(w, p), UNCHANGED task PROVE Frame /\ worker'[w].pc = p
    BY <1>t, <1>g DEF Goto, WorkerRecord
  <1>e. End(w) => Frame /\ worker'[w].pc = "none"
    BY <1>t DEF End, NoTask
  <1>1. CASE Begin(w) \/ Activate(w) \/ Target(w) \/ Poll(w) \/ ParkItself(w) \/ Finish(w)
    <2>1. Frame
      BY <1>1, <1>e, <1>g, <1>t DEF Begin, Activate, Target, Poll, ParkItself, Finish, Commit
    <2> QED BY <1>1, <2>1 DEF Begin, Activate, Target, Poll, ParkItself, Finish, At, Alive, Unwinding, obsVars
  <1>2. CASE Send(w) \/ Decline(w) \/ SendUnconfirmed(w) \/ Track(w) \/ Break(w)
    <2>1. Frame
      BY <1>2, <1>g DEF Send, Decline, SendUnconfirmed, Track, Break
    <2> QED BY <1>2, <2>1 DEF Send, Decline, SendUnconfirmed, Track, Break, At, Alive, Unwinding, obsVars
  <1>3. CASE Record(w) \/ RecordFails(w)
    <2>1. Frame
      BY <1>3, <1>g, <1>t DEF Record, RecordFails, Recorded
    <2> QED BY <1>3, <2>1 DEF Record, RecordFails, At, Alive, Unwinding, obsVars
  <1>4. CASE Close(w) \/ CountFollowups(w)
    <2>1. Frame
      BY <1>4, <1>e, <1>g DEF Close, CountFollowups
    <2> QED BY <1>4, <2>1 DEF Close, CountFollowups, At, Alive, Unwinding, obsVars
  <1>5. CASE Unwind(w) \/ Park(w)
    <2>1. Frame /\ worker'[w].pc \in {"none", "parking"}
      BY <1>5, <1>e, <1>g DEF Unwind, Park
    <2> QED BY <1>5, <2>1 DEF Unwind, Park, At, obsVars
  <1> QED BY <1>1, <1>2, <1>3, <1>4, <1>5 DEF WorkerStep, Work

(* Cancelling takes the registered worker out of service, at once or through *)
(* its handler.                                                              *)
LEMMA CancelTaskFrame ==
    ASSUME Types, WorkerIsRegistered, CancelTask
    PROVE  /\ WorkerIsRegistered'
           /\ \A w \in Workers : ~Alive(w)'
           /\ task = NoWorker => task' = NoWorker
  <1>t. worker \in [Workers -> WorkerRecord]
    BY DEF Types, Parts
  <1>1. CASE ~Running
    BY <1>1 DEF CancelTask, Running, WorkerIsRegistered, Alive
  <1>2. CASE Running /\ worker' = [worker EXCEPT ![task] = NoTask] /\ task' = NoWorker
    BY <1>2, <1>t DEF WorkerIsRegistered, Alive, NoTask, Running
  <1>3. CASE Running /\ worker' = [worker EXCEPT ![task].pc = "unwinding"] /\ UNCHANGED task
    <2>1. \A w \in Workers : IF w = task THEN worker'[w].pc = "unwinding" ELSE worker'[w] = worker[w]
      BY <1>3, <1>t DEF WorkerRecord
    <2> QED BY <1>3, <2>1 DEF WorkerIsRegistered, Alive, Unwinding, Running
  <1> QED BY <1>1, <1>2, <1>3 DEF CancelTask

LEMMA OneWorkerRequest ==
    ASSUME OneRequest, Types, OneWorker, NEW c \in Calls, RequestStep(c) PROVE OneWorker'
  <1>t. /\ call \in [Calls -> CallRecord] /\ worker \in [Workers -> WorkerRecord]
        /\ \A d \in Calls : d = c
    BY DEF Types, Parts, OneRequest
  <1>r. ASSUME NEW from, NEW to, Request(c, from, to)
        PROVE  call[c].pc = from /\ \A d \in Calls : call'[d].pc = to
    BY <1>r, <1>t DEF Request, NoCall
  <1>l. ASSUME NEW to, Load(c, to) PROVE \A d \in Calls : call'[d].pc = to
    BY <1>l, <1>t DEF Load
  <1> USE DEF OneWorker
  <1>1. CASE Launch(c)
    <2>1. task = NoWorker /\ UNCHANGED <<worker, task, halted>> /\ \A d \in Calls : call'[d].pc = "claim"
      BY <1>1, <1>r DEF Launch, Running, obsVars
    <2> QED BY <2>1 DEF WorkerIsRegistered, Alive
  <1>2. CASE Claim(c)
    <2>1. /\ task = NoWorker /\ UNCHANGED <<worker, task>>
          /\ halted' = FALSE \/ (UNCHANGED halted /\ \A d \in Calls : call'[d].pc = "none")
      BY <1>2, <1>r DEF Claim, obsVars
    <2> QED BY <2>1 DEF WorkerIsRegistered, Alive
  <1>3. CASE Spawn(c)
    <2>1. call[c].pc = "spawn" /\ UNCHANGED halted /\ \A d \in Calls : call'[d].pc = "none"
      BY <1>3, <1>r DEF Spawn, obsVars
    <2>2. task = NoWorker /\ ~halted
      BY <2>1
    <2>3. PICK w \in Workers : worker' = [worker EXCEPT ![w].pc = "spawned"] /\ task' = w
      BY <1>3 DEF Spawn
    <2>4. \A v \in Workers : worker[v].pc = "none"
      BY <2>2 DEF WorkerIsRegistered, CampaignAssumption
    <2> QED BY <1>t, <2>1, <2>2, <2>3, <2>4 DEF WorkerIsRegistered
  <1>4. CASE PauseCancels(c)
    <2>1. CancelTask /\ \A d \in Calls : call'[d].pc = "none"
      BY <1>4, <1>r DEF PauseCancels
    <2> QED BY <2>1, CancelTaskFrame
  <1>5. CASE CancelFirst(c)
    <2>1. CancelTask /\ UNCHANGED halted /\ \A d \in Calls : call'[d].pc \in {"schedule", "delete"}
      BY <1>5, <1>l DEF CancelFirst, obsVars
    <2> QED BY <2>1, CancelTaskFrame
  <1>6. CASE Pause(c) \/ PauseCommits(c) \/ Schedule(c) \/ Delete(c) \/ Unschedule(c) \/ Unscheduled(c)
    <2>1. UNCHANGED <<worker, task, halted>>
      BY <1>6 DEF Pause, PauseCommits, Schedule, Delete, Unschedule, Unscheduled, obsVars
    <2>2. \A d \in Calls : call'[d].pc \notin {"claim", "spawn"}
      BY <1>6, <1>r, <1>l DEF Pause, PauseCommits, Schedule, Delete, Unschedule, Unscheduled
    <2> QED BY <2>1, <2>2 DEF WorkerIsRegistered, Alive
  <1> QED BY <1>1, <1>2, <1>3, <1>4, <1>5, <1>6 DEF RequestStep

LEMMA OneWorkerStep == OneRequest /\ Types /\ OneWorker /\ [Next]_vars => OneWorker'
  <1> SUFFICES ASSUME OneRequest, Types, OneWorker, [Next]_vars PROVE OneWorker'
    OBVIOUS
  <1>1. CASE UNCHANGED vars
    BY <1>1 DEF vars, taskVars, obsVars, OneWorker, WorkerIsRegistered, Alive
  <1>2. ASSUME NEW w \in Workers, WorkerStep(w) PROVE OneWorker'
    <2>1. task = w
      BY <1>2, WorkerFrame DEF OneWorker, WorkerIsRegistered
    <2>2. WorkerIsRegistered'
      BY <1>2, <2>1, WorkerFrame DEF OneWorker, WorkerIsRegistered
    <2>3. \A c \in Calls : call'[c].pc \in {"claim", "spawn"} => task' = NoWorker
      BY <1>2, WorkerFrame DEF OneWorker
    <2>4. halted' => \A v \in Workers : ~Alive(v)'
      BY <1>2, WorkerFrame DEF OneWorker, Alive, Unwinding
    <2> QED BY <1>2, <2>2, <2>3, <2>4, WorkerFrame DEF OneWorker
  <1>3. ASSUME NEW l \in Leads, LeadStep(l) PROVE OneWorker'
    BY <1>3 DEF LeadStep, Elapse, Reply, StopLead, taskVars, obsVars, OneWorker, WorkerIsRegistered, Alive
  <1>4. CASE TickStep
    <2>1. UNCHANGED <<worker, task, call, halted>>
      BY <1>4 DEF TickStep, Tick, Fetch, Visit, SendFollowup, RecordFollowup, FetchOthers, CountActive,
                  CompleteCampaign, BreakTick, obsVars
    <2> QED BY <2>1 DEF OneWorker, WorkerIsRegistered, Alive
  <1>5. CASE Restart
    BY <1>5 DEF Restart, OneWorker, WorkerIsRegistered, Alive, NoTask, NoCall
  <1>6. CASE LateStep
    BY <1>6 DEF LateStep, SendLate, taskVars, OneWorker, WorkerIsRegistered, Alive
  <1> QED BY <1>1, <1>2, <1>3, <1>4, <1>5, <1>6, OneWorkerRequest, NextCases

LEMMA OneWorkerHolds == OneRequest => (Spec => []OneWorker)
  <1> SUFFICES ASSUME OneRequest PROVE Spec => []OneWorker
    OBVIOUS
  <1>1. Types /\ OneWorker /\ [Next]_vars => OneWorker'
    BY OneWorkerStep
  <1> QED BY <1>1, TypesHold, OneWorkerInit, PTL DEF Spec

(* With requests one at a time a campaign has at most one worker, and it is  *)
(* the registered one, whatever crashes or exceptions happen.                *)
THEOREM RegisteredWorker == OneRequest => (Spec => []WorkerIsRegistered)
  <1> SUFFICES ASSUME OneRequest PROVE Spec => []WorkerIsRegistered
    OBVIOUS
  <1>1. OneWorker => WorkerIsRegistered
    BY DEF OneWorker
  <1> QED BY <1>1, OneWorkerHolds, PTL

(* After an answered pause no worker has a message in hand, and none is       *)
(* started: only a follow-up the scheduler has chosen before can still be     *)
(* handed to the gateway.  Messages left there by a cancelled worker do not   *)
(* count, since sending one takes it off the others.                          *)
THEOREM PauseStopsTheWorker ==
    OneRequest => (Spec => [][halted => \A l \in Leads : \A k \in 1..Steps :
        HandedOver(l, k)' <= HandedOver(l, k) \/ <<l, k>> \in InHandOfTick]_vars)
  <1> SUFFICES ASSUME OneRequest
               PROVE  Spec => [][halted => \A l \in Leads : \A k \in 1..Steps :
                          HandedOver(l, k)' <= HandedOver(l, k) \/ <<l, k>> \in InHandOfTick]_vars
    OBVIOUS
  <1>1. ASSUME Types, OneWorker, Next, halted, NEW l \in Leads, NEW k \in 1..Steps, <<l, k>> \notin InHandOfTick
        PROVE  HandedOver(l, k)' <= HandedOver(l, k)
    <2>1. \A w \in Workers : <<l, k>> \notin InHand(w)
      BY <1>1 DEF OneWorker, Alive, Unwinding, InHand
    <2>2. late'[l][k] <= late[l][k]
      BY <1>1, <2>1, LateGrows
    <2>3. \/ sent'[l][k] = sent[l][k]
          \/ sent'[l][k] = sent[l][k] + 1 /\ late'[l][k] = late[l][k] - 1
      BY <1>1, <2>1, SentGrows
    <2>4. sent[l][k] \in Nat /\ late[l][k] \in Nat /\ late'[l][k] \in Nat
      <3>1. Types'
        BY <1>1, TypesStep
      <3> QED BY <1>1, <3>1 DEF Types, Parts
    <2> QED BY <2>2, <2>3, <2>4 DEF HandedOver
  <1>2. Types /\ OneWorker /\ [Next]_vars =>
            [halted => \A l \in Leads : \A k \in 1..Steps :
                HandedOver(l, k)' <= HandedOver(l, k) \/ <<l, k>> \in InHandOfTick]_vars
    BY <1>1
  <1> QED BY <1>2, OneWorkerHolds, TypesHold, PTL DEF Spec

(* With requests one at a time and no follow-ups, what still goes out between *)
(* the answer to a pause and the next launch had been handed to the gateway   *)
(* before the pause was answered.                                             *)
THEOREM PauseLetsNothingStart == OneRequest /\ Steps = 1 => (Spec => PauseStartsNothing)
  <1> SUFFICES ASSUME OneRequest, Steps = 1 PROVE Spec => PauseStartsNothing
    OBVIOUS
  <1>1. Types => InHandOfTick = {}
    BY DEF Types, TickHasStep, InHandOfTick
  <1>2. /\ Types
        /\ [halted => \A l \in Leads : \A k \in 1..Steps :
               HandedOver(l, k)' <= HandedOver(l, k) \/ <<l, k>> \in InHandOfTick]_vars
        => [halted => \A l \in Leads : \A k \in 1..Steps : HandedOver(l, k)' <= HandedOver(l, k)]_vars
    BY <1>1
  <1> QED BY <1>2, PauseStopsTheWorker, TypesHold, PTL DEF PauseStartsNothing

-----------------------------------------------------------------------------
(* An ACTIVE campaign without follow-ups, while nothing fails *)

(* A step that leaves the count of faults at 0 is no failure. *)
LEMMA FaultsStay ==
    ASSUME Types, [Next]_vars, faults' = 0
    PROVE  faults = 0 /\ ~Restart
  <1> DEFINE Counts == UNCHANGED faults \/ faults' = faults + 1
  <1>1. faults \in Nat
    BY DEF Types, Parts
  <1>2. CASE UNCHANGED vars
    BY <1>2 DEF vars, Restart
  <1>3. ASSUME NEW c \in Calls, RequestStep(c) PROVE Counts
    BY <1>3 DEF RequestStep, Launch, Claim, Spawn, Pause, PauseCommits, PauseCancels, CancelFirst,
                Schedule, Delete, Unschedule, Unscheduled
  <1>4. ASSUME NEW w \in Workers, WorkerStep(w) PROVE Counts
    BY <1>4 DEF WorkerStep, Work, SendUnconfirmed, RecordFails, Break, Begin, ParkItself, Activate,
                Target, Poll, Send, Decline, Record, Track, Close, CountFollowups, Finish, Unwind, Park
  <1>5. ASSUME NEW l \in Leads, LeadStep(l) PROVE Counts
    BY <1>5 DEF LeadStep, Elapse, Reply, StopLead
  <1>6. ASSUME TickStep PROVE Counts
    BY <1>6 DEF TickStep, Tick, Fetch, FetchOthers, Visit, SendFollowup, RecordFollowup, CountActive,
                CompleteCampaign, BreakTick
  <1>9. ASSUME LateStep PROVE Counts
    BY <1>9 DEF LateStep, SendLate
  <1>7. Restart => faults' = faults + 1
    BY DEF Restart
  <1>8. Counts
    BY <1>2, <1>3, <1>4, <1>5, <1>6, <1>7, <1>9, NextCases DEF vars
  <1> QED BY <1>1, <1>7, <1>8

(* The worker has begun to work on an ACTIVE campaign and is not on its way  *)
(* out: what its copy of the row says ACTIVE of, it can park or complete.    *)
Started == {"target", "poll", "send", "record", "closing", "finishing"}

(* What a copy of the row has to say for its next write to reach the row *)
CopyFits(r, s) ==
    /\ r.pc \in Started => r.mem = "ACTIVE"
    /\ r.pc = "activate" /\ s = "ACTIVE" => r.mem = "ACTIVE"
    /\ r.pc \notin {"track", "counting"}

Driven == status = "ACTIVE" => Running \/ \E c \in Calls : call[c].pc \in {"spawn", "schedule", "delete"}

(* A pause whose commit writes nothing, or has been overtaken by the worker's *)
(* own, finds a worker to cancel.  A request that has cancelled before it     *)
(* commits has left nobody to write ACTIVE in between.                        *)
WillStop(c) ==
    /\ (call[c].pc = "cancel" \/ (call[c].pc = "pause" /\ call[c].mem = "PAUSED")) /\ status = "ACTIVE"
           => \E w \in Workers : worker[w].pc \in Started
    /\ call[c].pc = "schedule" /\ call[c].mem = "SCHEDULED" => status # "ACTIVE"
    /\ call[c].pc \in {"schedule", "delete"} => \A w \in Workers : ~Alive(w)
    /\ call[c].pc = "unschedule" => call[c].mem = "SCHEDULED"
    /\ call[c].pc = "claim" => status # "ACTIVE"

Attended ==
    /\ Driven
    /\ \A w \in Workers : CopyFits(worker[w], status)
    /\ \A c \in Calls : WillStop(c)

LEMMA AttendedInit == Init => Attended
  BY DEF Init, Attended, Driven, CopyFits, WillStop, Started, NoTask, NoCall

(* A step of a worker that is not a failure *)
LEMMA AttendedEffects ==
    ASSUME Steps = 1, Types, NEW w \in Workers, WorkerStep(w), UNCHANGED faults,
           CopyFits(worker[w], status)
    PROVE  /\ CopyFits(worker'[w], status')
           /\ status' = "ACTIVE" => UNCHANGED task
           /\ status' = "ACTIVE" /\ status # "ACTIVE" => worker[w].pc = "activate" /\ worker'[w].pc \in Started
           /\ status' = "ACTIVE" /\ worker[w].pc \in Started => worker'[w].pc \in Started
  <1> DEFINE Fine == /\ CopyFits(worker'[w], status')
                     /\ status' = "ACTIVE" => UNCHANGED task
                     /\ status' = "ACTIVE" /\ status # "ACTIVE"
                          => worker[w].pc = "activate" /\ worker'[w].pc \in Started
                     /\ status' = "ACTIVE" /\ worker[w].pc \in Started => worker'[w].pc \in Started
  <1>t. worker \in [Workers -> WorkerRecord] /\ worker[w] \in WorkerRecord /\ faults \in Nat
    BY DEF Types, Parts
  <1>g. ASSUME NEW p, Goto(w, p) PROVE worker'[w].pc = p /\ worker'[w].mem = worker[w].mem
    BY <1>t, <1>g DEF Goto, WorkerRecord
  <1>e. End(w) => worker'[w].pc = "none"
    BY <1>t, NoTaskType DEF End
  <1> USE DEF CopyFits, Started
  <1>1. CASE Begin(w)
    <2>1. CASE End(w)
      BY <1>1, <2>1, <1>e DEF Begin, At, dbVars
    <2>2. CASE ~End(w)
      <3>1. /\ worker' = [worker EXCEPT ![w].pc = "activate", ![w].mem = status, ![w].count = sentCount]
            /\ UNCHANGED <<task, status>>
        BY <1>1, <2>2 DEF Begin, dbVars
      <3>2. worker'[w].pc = "activate" /\ worker'[w].mem = status
        BY <1>t, <3>1 DEF WorkerRecord
      <3> QED BY <1>1, <3>1, <3>2 DEF Begin, At
    <2> QED BY <2>1, <2>2
  <1>2. CASE ParkItself(w)
    <2>1. worker[w].pc \in {"activate", "target", "poll", "send"}
      BY <1>2 DEF ParkItself, At
    <2>2. status' # "ACTIVE" /\ worker'[w].pc \in {"none", "unwinding"}
      BY <1>2, <2>1, <1>g, <1>e DEF ParkItself, Commit
    <2> QED BY <2>2
  <1>3. CASE Activate(w)
    <2>1. CASE status = "DELETED"
      BY <1>3, <2>1, <1>g DEF Activate, Commit, At
    <2>2. CASE status # "DELETED"
      <3>1. /\ worker' = [worker EXCEPT ![w].pc = "target", ![w].mem = "ACTIVE"]
            /\ UNCHANGED task
            /\ worker[w].pc = "activate"
        BY <1>3, <2>2 DEF Activate, Commit, At
      <3>2. worker'[w].pc = "target" /\ worker'[w].mem = "ACTIVE"
        BY <1>t, <3>1 DEF WorkerRecord
      <3> QED BY <3>1, <3>2
    <2> QED BY <2>1, <2>2
  <1>4. CASE Target(w)
    <2>1. UNCHANGED <<status, task>> /\ worker[w].pc = "target"
      BY <1>4 DEF Target, At, dbVars
    <2>2. CASE status = "DELETED"
      BY <1>4, <2>1, <2>2, <1>g DEF Target
    <2>3. CASE status # "DELETED"
      <3>1. \E todo, old : worker' = [worker EXCEPT ![w].pc = "poll", ![w].todo = todo, ![w].old = old]
        BY <1>4, <2>3, Zenon DEF Target
      <3>2. worker'[w].pc = "poll" /\ worker'[w].mem = worker[w].mem
        BY <1>t, <3>1 DEF WorkerRecord
      <3> QED BY <2>1, <3>2
    <2> QED BY <2>2, <2>3
  <1>5. CASE Poll(w)
    <2>1. UNCHANGED status /\ worker[w].pc = "poll"
      BY <1>5 DEF Poll, At, dbVars
    <2>2. CASE status = "PAUSED"
      BY <1>5, <2>1, <2>2, <1>e DEF Poll
    <2>3. CASE status # "PAUSED"
      <3>1. PICK l \in worker[w].todo :
                worker' = [worker EXCEPT ![w].pc = "send", ![w].cur = l, ![w].todo = @ \ {l}]
        BY <1>5, <2>3 DEF Poll
      <3>2. worker'[w].pc = "send" /\ worker'[w].mem = worker[w].mem
        BY <1>t, <3>1 DEF WorkerRecord
      <3> QED BY <1>5, <2>1, <2>3, <3>2 DEF Poll
    <2> QED BY <2>2, <2>3
  <1>6. CASE Send(w) \/ Decline(w)
    <2>1. UNCHANGED task /\ status' = status /\ worker[w].pc = "send"
      BY <1>6 DEF Send, Decline, At, dbVars
    <2>2. \/ Goto(w, "record") \/ Goto(w, NextLead(w))
          \/ Goto(w, "unwinding") /\ status = "DELETED"
      BY <1>6 DEF Send, Decline
    <2> QED BY <2>1, <2>2, <1>g, NextLeadType
  <1>7. CASE Record(w)
    <2>1. UNCHANGED <<task, status>> /\ worker[w].pc = "record"
      BY <1>7 DEF Record, At
    <2>2. CASE status = "DELETED"
      BY <1>7, <2>1, <2>2, <1>g DEF Record, Recorded
    <2>3. CASE status # "DELETED"
      <3>1. worker' = [worker EXCEPT ![w].count = @ + 1, ![w].pc = NextLead(w)]
        BY <1>7, <2>3 DEF Record, Recorded
      <3>2. worker'[w].pc = NextLead(w) /\ worker'[w].mem = worker[w].mem
        BY <1>t, <3>1 DEF WorkerRecord
      <3> QED BY <2>1, <3>2, NextLeadType
    <2> QED BY <2>2, <2>3
  <1>8. CASE Track(w) \/ CountFollowups(w)
    BY <1>8 DEF Track, CountFollowups, At
  <1>9. CASE Close(w)
    <2>1. UNCHANGED status /\ worker[w].pc = "closing"
      BY <1>9 DEF Close, At, dbVars
    <2>2. CASE status = "ACTIVE"
      BY <1>9, <2>1, <2>2, <1>g DEF Close
    <2>3. CASE status # "ACTIVE"
      BY <1>9, <2>1, <2>3, <1>e DEF Close
    <2> QED BY <2>2, <2>3
  <1>10. CASE Finish(w)
    <2>1. worker[w].mem = "ACTIVE"
      BY <1>10 DEF Finish, At
    <2>2. status' # "ACTIVE" /\ worker'[w].pc \in {"none", "unwinding"}
      BY <1>10, <2>1, <1>g, <1>e DEF Finish, Commit
    <2> QED BY <2>2
  <1>11. CASE Unwind(w)
    <2>1. UNCHANGED status /\ worker[w].pc = "unwinding"
      BY <1>11 DEF Unwind, At, dbVars
    <2>2. CASE status = "ACTIVE"
      BY <1>11, <2>1, <2>2, <1>g DEF Unwind
    <2>3. CASE status # "ACTIVE"
      BY <1>11, <2>1, <2>3, <1>e DEF Unwind
    <2> QED BY <2>2, <2>3
  <1>12. CASE Park(w)
    BY <1>12, <1>e DEF Park
  <1>13. CASE SendUnconfirmed(w) \/ RecordFails(w) \/ Break(w)
    BY <1>13, <1>t DEF SendUnconfirmed, RecordFails, Break
  <1> QED BY <1>1, <1>2, <1>3, <1>4, <1>5, <1>6, <1>7, <1>8, <1>9, <1>10, <1>11, <1>12, <1>13
          DEF WorkerStep, Work

LEMMA AttendedWorker ==
    ASSUME Steps = 1, Types, OneWorker, Attended, NEW w \in Workers, WorkerStep(w), UNCHANGED faults
    PROVE  Attended'
  <1>1. /\ UNCHANGED call
        /\ task = w
        /\ \A v \in Workers \ {w} : worker'[v] = worker[v] /\ worker[v].pc = "none"
    BY WorkerFrame DEF OneWorker, WorkerIsRegistered
  <1>2. /\ CopyFits(worker'[w], status')
        /\ status' = "ACTIVE" => UNCHANGED task
        /\ status' = "ACTIVE" /\ status # "ACTIVE" => worker[w].pc = "activate" /\ worker'[w].pc \in Started
        /\ status' = "ACTIVE" /\ worker[w].pc \in Started => worker'[w].pc \in Started
    BY AttendedEffects DEF Attended
  <1>3. Driven'
    BY <1>1, <1>2, CampaignAssumption DEF Driven, Running
  <1>4. \A v \in Workers : CopyFits(worker'[v], status')
    BY <1>1, <1>2 DEF CopyFits, Started
  <1>5. ASSUME NEW c \in Calls PROVE WillStop(c)'
    <2>1. WillStop(c) /\ call'[c] = call[c]
      BY <1>1 DEF Attended
    <2>2. call[c].pc # "claim"
      BY <1>1, CampaignAssumption DEF OneWorker
    <2>3. (call[c].pc = "cancel" \/ (call[c].pc = "pause" /\ call[c].mem = "PAUSED")) /\ status' = "ACTIVE"
             => \E v \in Workers : worker'[v].pc \in Started
      <3>1. SUFFICES ASSUME call[c].pc = "cancel" \/ (call[c].pc = "pause" /\ call[c].mem = "PAUSED"),
                            status' = "ACTIVE"
                     PROVE  worker'[w].pc \in Started
        OBVIOUS
      <3>2. CASE status = "ACTIVE"
        <4>1. PICK v \in Workers : worker[v].pc \in Started
          BY <2>1, <3>1, <3>2 DEF WillStop
        <4>2. v = w
          BY <1>1, <4>1 DEF Started
        <4> QED BY <1>2, <3>1, <4>1, <4>2
      <3>3. CASE status # "ACTIVE"
        BY <1>2, <3>1, <3>3
      <3> QED BY <3>2, <3>3
    <2>4. ASSUME call[c].pc \in {"schedule", "delete"}
          PROVE  (\A v \in Workers : ~Alive(v)') /\ (status' = "ACTIVE" => status = "ACTIVE")
      <3>1. \A v \in Workers : ~Alive(v)
        BY <2>1, <2>4 DEF WillStop
      <3>2. worker[w].pc # "activate"
        BY <3>1 DEF Alive, Unwinding
      <3>3. worker'[w].pc \in {"none", "parking"}
        BY <3>1, WorkerFrame
      <3> QED BY <1>1, <1>2, <3>1, <3>2, <3>3 DEF Alive, Unwinding
    <2> QED BY <2>1, <2>2, <2>3, <2>4 DEF WillStop
  <1> QED BY <1>3, <1>4, <1>5 DEF Attended

LEMMA AttendedRequest ==
    ASSUME OneRequest, Types, OneWorker, Attended, NEW c \in Calls, RequestStep(c)
    PROVE  Attended'
  <1>t. /\ call \in [Calls -> CallRecord] /\ worker \in [Workers -> WorkerRecord]
        /\ \A d \in Calls : d = c
        /\ \A d \in Calls : WillStop(d)
        /\ Driven
        /\ \A w \in Workers : CopyFits(worker[w], status)
    BY DEF Types, Parts, OneRequest, Attended
  <1>r. ASSUME NEW from, NEW to, Request(c, from, to)
        PROVE  call[c].pc = from /\ \A d \in Calls : call'[d].pc = to /\ call'[d].mem = "NONE"
    BY <1>r, <1>t DEF Request, NoCall
  <1>l. ASSUME NEW to, Load(c, to)
        PROVE  call[c].pc = "none" /\ \A d \in Calls : call'[d].pc = to /\ call'[d].mem = status
    BY <1>l, <1>t DEF Load, NoCall
  <1>n. call[c].pc \notin {"spawn", "schedule", "delete"} /\ status = "ACTIVE" => Running
    BY <1>t DEF Driven
  <1> USE DEF Attended
  <1>1. CASE Launch(c)
    <2>1. /\ UNCHANGED <<worker, task, status>> /\ ~Running
          /\ call[c].pc = "none" /\ \A d \in Calls : call'[d].pc = "claim"
      BY <1>1, <1>r DEF Launch, dbVars
    <2>2. status # "ACTIVE"
      BY <2>1, <1>n
    <2> QED BY <1>t, <2>1, <2>2 DEF Driven, WillStop
  <1>2. CASE Claim(c)
    <2>1. call[c].pc = "claim" /\ UNCHANGED <<worker, task>>
      BY <1>2, <1>r DEF Claim
    <2>2. status # "ACTIVE" /\ \A w \in Workers : worker[w].pc = "none"
      BY <1>t, <2>1 DEF WillStop, OneWorker, WorkerIsRegistered
    <2>3. \A d \in Calls : call'[d].pc = "spawn" \/ (call'[d].pc = "none" /\ UNCHANGED status)
      BY <1>2, <1>r DEF Claim, dbVars
    <2> QED BY <2>1, <2>2, <2>3 DEF Driven, WillStop, CopyFits, Started
  <1>3. CASE Spawn(c)
    <2>1. call[c].pc = "spawn" /\ UNCHANGED status /\ \A d \in Calls : call'[d].pc = "none"
      BY <1>3, <1>r DEF Spawn, dbVars
    <2>2. PICK w \in Workers : worker' = [worker EXCEPT ![w].pc = "spawned"] /\ task' = w
      BY <1>3 DEF Spawn
    <2>3. \A v \in Workers : IF v = w THEN worker'[v].pc = "spawned" ELSE worker'[v] = worker[v]
      BY <1>t, <2>2 DEF WorkerRecord
    <2> QED BY <1>t, <2>1, <2>2, <2>3 DEF Driven, Running, WillStop, CopyFits, Started
  <1>4. CASE Pause(c)
    <2>1. /\ UNCHANGED <<worker, task, status>>
          /\ call[c].pc = "none" /\ \A d \in Calls : call'[d].pc = "pause" /\ call'[d].mem = status
      BY <1>4, <1>l DEF Pause, dbVars
    <2> QED BY <1>t, <1>n, <2>1 DEF Driven, Running, WillStop
  <1>5. CASE PauseCommits(c)
    <2>1. /\ UNCHANGED <<worker, task>> /\ call[c].pc = "pause"
          /\ \A d \in Calls : call'[d].pc \in {"none", "cancel"}
      BY <1>5, <1>r DEF PauseCommits
    <2>2. status' = "ACTIVE" => status = "ACTIVE" /\ call[c].mem = "PAUSED"
      BY <1>5 DEF PauseCommits, Write
    <2>3. status' = "ACTIVE" => Running
      BY <1>n, <2>1, <2>2
    <2>4. status' = "ACTIVE" => \E w \in Workers : worker[w].pc \in Started
      BY <1>t, <2>1, <2>2 DEF WillStop
    <2> QED BY <1>t, <2>1, <2>2, <2>3, <2>4 DEF Driven, Running, WillStop, CopyFits
  <1>6. CASE PauseCancels(c)
    <2>1. /\ CancelTask /\ UNCHANGED status /\ call[c].pc = "cancel"
          /\ \A d \in Calls : call'[d].pc = "none"
      BY <1>6, <1>r DEF PauseCancels, dbVars
    <2>2. \A w \in Workers : worker'[w] = worker[w] \/ worker'[w].pc \in {"none", "spawned", "unwinding"}
      BY RequestEffects
    <2>3. \A w \in Workers : CopyFits(worker'[w], status')
      BY <1>t, <2>1, <2>2 DEF CopyFits, Started
    <2>4. ASSUME status' = "ACTIVE" PROVE task' # NoWorker
      <3>1. PICK w \in Workers : worker[w].pc \in Started
        BY <1>t, <2>1, <2>4 DEF WillStop
      <3>2. task = w
        BY <3>1 DEF OneWorker, WorkerIsRegistered, Started
      <3> QED BY <2>1, <3>1, <3>2, CampaignAssumption DEF CancelTask, Running, Started, Unwinding
    <2> QED BY <2>1, <2>3, <2>4 DEF Driven, Running, WillStop
  <1>7. CASE CancelFirst(c)
    <2>1. CancelTask /\ UNCHANGED status
      BY <1>7 DEF CancelFirst, dbVars
    <2>2. \A d \in Calls : call'[d].pc \in {"schedule", "delete"} /\ call'[d].mem = status
      BY <1>7, <1>l DEF CancelFirst
    <2>3. \A w \in Workers : worker'[w] = worker[w] \/ worker'[w].pc \in {"none", "spawned", "unwinding"}
      BY RequestEffects
    <2>4. \A w \in Workers : CopyFits(worker'[w], status')
      BY <1>t, <2>1, <2>3 DEF CopyFits, Started
    <2>5. \A w \in Workers : ~Alive(w)'
      BY <2>1, CancelTaskFrame DEF OneWorker
    <2> QED BY <2>1, <2>2, <2>4, <2>5 DEF Driven, WillStop
  <1>8. CASE Schedule(c) \/ Delete(c) \/ Unscheduled(c)
    <2>1. UNCHANGED <<worker, task>> /\ \A d \in Calls : call'[d].pc = "none"
      BY <1>8, <1>r DEF Schedule, Delete, Unscheduled
    <2>2. status' # "ACTIVE"
      BY <1>8, <1>t, <1>r DEF Schedule, Delete, Unscheduled, Write, WillStop
    <2> QED BY <1>t, <2>1, <2>2 DEF Driven, WillStop, CopyFits
  <1>9. CASE Unschedule(c)
    <2>1. /\ UNCHANGED <<worker, task, status>> /\ status = "SCHEDULED"
          /\ \A d \in Calls : call'[d].pc = "unschedule" /\ call'[d].mem = status
      BY <1>9, <1>l DEF Unschedule, dbVars
    <2> QED BY <1>t, <2>1 DEF Driven, WillStop
  <1> QED BY <1>1, <1>2, <1>3, <1>4, <1>5, <1>6, <1>7, <1>8, <1>9 DEF RequestStep

LEMMA AttendedStep ==
    ASSUME OneRequest, Steps = 1, Types, OneWorker, faults = 0 => Attended, [Next]_vars
    PROVE  faults' = 0 => Attended'
  <1> SUFFICES ASSUME faults' = 0 PROVE Attended'
    OBVIOUS
  <1>1. faults = 0 /\ ~Restart /\ Attended
    BY FaultsStay
  <1>2. ASSUME UNCHANGED <<worker, task, call>>, status' = "ACTIVE" => status = "ACTIVE"
        PROVE  Attended'
    BY <1>1, <1>2 DEF Attended, Driven, Running, WillStop, CopyFits, Alive
  <1>3. CASE UNCHANGED vars
    BY <1>2, <1>3 DEF vars, dbVars, taskVars
  <1>4. ASSUME NEW l \in Leads, LeadStep(l) PROVE Attended'
    BY <1>2, <1>4 DEF LeadStep, Elapse, Reply, StopLead, taskVars
  <1>5. CASE TickStep
    <2>1. UNCHANGED <<worker, task, call>> /\ (status' = "ACTIVE" => status = "ACTIVE")
      BY <1>5 DEF TickStep, Tick, Fetch, Visit, SendFollowup, RecordFollowup, FetchOthers, CountActive,
                  CompleteCampaign, BreakTick, dbVars
    <2> QED BY <1>2, <2>1
  <1>6. ASSUME NEW w \in Workers, WorkerStep(w) PROVE Attended'
    BY <1>1, <1>6, AttendedWorker
  <1>7. ASSUME NEW c \in Calls, RequestStep(c) PROVE Attended'
    BY <1>1, <1>7, AttendedRequest
  <1>8. CASE LateStep
    BY <1>2, <1>8 DEF LateStep, SendLate, dbVars, taskVars
  <1> QED BY <1>1, <1>3, <1>4, <1>5, <1>6, <1>7, <1>8, NextCases

(* With requests one at a time, no follow-ups and no failure, a campaign that *)
(* is ACTIVE has a worker, or a request about to give it one or take the      *)
(* status away: no pause, schedule or stop leaves it ACTIVE with nobody on it. *)
THEOREM ActiveIsAttended == OneRequest /\ Steps = 1 => (Spec => []ActiveHasWorker)
  <1> SUFFICES ASSUME OneRequest, Steps = 1 PROVE Spec => []ActiveHasWorker
    OBVIOUS
  <1> DEFINE Inv == faults = 0 => Attended
  <1>1. Init => Inv
    BY AttendedInit
  <1>2. Types /\ OneWorker /\ Inv /\ [Next]_vars => Inv'
    BY AttendedStep
  <1>3. Inv => ActiveHasWorker
    BY DEF Attended, Driven, ActiveHasWorker
  <1> HIDE DEF Inv
  <1> QED BY <1>1, <1>2, <1>3, OneWorkerHolds, TypesHold, PTL DEF Spec
=============================================================================
