----------------------- MODULE CampaignFollowupProofs -----------------------
(***************************************************************************)
(* No follow-up of a campaign to NEW leads is sent twice, for every set of *)
(* leads and workers and every number of steps and launches, while         *)
(* requests come one at a time and nothing fails.                          *)
(***************************************************************************)
EXTENDS CampaignProofs

USE CampaignAssumption

-----------------------------------------------------------------------------
(* The inductive invariant *)

Handling(w, l) == worker[w].pc \in {"send", "record", "track"} /\ worker[w].cur = l
Listed(w, l)   == worker[w].pc \in {"poll", "send", "record", "track"} /\ l \in worker[w].todo

(* A worker may still start the sequence of l: the lead is NEW, in the list *)
(* of a worker, or the one that a worker is about.                          *)
Fresh(l) == lead[l] = "NEW" \/ \E w \in Workers : Listed(w, l) \/ Handling(w, l)

Following == tick.pc \in {"send", "record"}

(* The scheduler has loaded a row of l. *)
Scheduled(l) == (\E r \in tick.rows : r.lead = l) \/ (Following /\ tick.cur = l)

(* Of a lead whose sequence may start there is no row and no follow-up yet. *)
Untouched ==
    \A l \in Leads : Fresh(l) =>
        /\ seq[l].status = "NONE" /\ ~Scheduled(l)
        /\ \A k \in 2..Steps : sent[l][k] = 0

(* A follow-up that has gone out is behind the step of the row, or is about *)
(* to be recorded there.  The rows of a deleted campaign are gone.          *)
Past ==
    \A l \in Leads : \A k \in 2..Steps : sent[l][k] > 0 =>
        \/ status = "DELETED"
        \/ k <= seq[l].step
        \/ (tick.pc = "record" /\ tick.cur = l /\ k = tick.step + 1)

(* What the scheduler has loaded is still ahead of the row, one row to a    *)
(* lead: replies, stops and requests since then moved no row.               *)
Ahead ==
    /\ \A r \in tick.rows :
          /\ sent[r.lead][r.step + 1] = 0
          /\ status = "DELETED" \/ seq[r.lead].step = r.step
          /\ Following => tick.cur # r.lead
          /\ \A q \in tick.rows : q.lead = r.lead => q = r
    /\ tick.pc = "send" => sent[tick.cur][tick.step + 1] = 0
    /\ Following => status = "DELETED" \/ seq[tick.cur].step = tick.step

Dead == status = "DELETED" => \A l \in Leads : seq[l].status # "ACTIVE"

Handled ==
    \A w \in Workers :
        /\ worker[w].old = {}
        /\ worker[w].pc = "track" => lead[worker[w].cur] # "NEW"
        /\ worker[w].pc \in {"send", "record", "track"} => worker[w].cur \notin worker[w].todo

Once == \A l \in Leads : \A k \in 2..Steps : sent[l][k] <= 1

(* A follow-up goes out while the scheduler waits for it. *)
Prompt == \A l \in Leads : \A k \in 2..Steps : late[l][k] = 0

Drip == Untouched /\ Past /\ Ahead /\ Dead /\ Handled /\ Once

(* No lead becomes one whose sequence may start. *)
FreshKept == \A l \in Leads : Fresh(l)' => Fresh(l)

LEMMA DripInit == Init => Drip
  <1> SUFFICES ASSUME Init PROVE Drip
    OBVIOUS
  <1>1. tick.rows = {} /\ tick.pc = "idle" /\ \A w \in Workers : worker[w].pc = "none" /\ worker[w].old = {}
    BY DEF Init, NoTick, NoTask
  <1>2. \A l \in Leads : seq[l].status = "NONE" /\ \A k \in 2..Steps : sent[l][k] = 0
    BY DEF Init, NoRow
  <1>3. status = "DRAFT"
    BY DEF Init
  <1> QED BY <1>1, <1>2, <1>3 DEF Drip, Untouched, Past, Ahead, Dead, Handled, Once, Scheduled, Following

(* What is loaded has a next step. *)
LEMMA NextStep ==
    ASSUME Types
    PROVE  /\ \A r \in tick.rows : r.lead \in Leads /\ r.step + 1 \in 2..Steps /\ r.step \in Nat
           /\ Following => tick.cur \in Leads /\ tick.step + 1 \in 2..Steps /\ tick.step \in Nat
  <1>1. Steps \in Nat /\ tick.rows \subseteq Rows /\ TickHasStep(tick)
    BY DEF Types, Parts, TickRecord
  <1>2. ASSUME NEW r \in tick.rows PROVE r.lead \in Leads /\ r.step \in 1..Steps /\ r.step < Steps
    BY <1>1 DEF Rows, TickHasStep
  <1>3. ASSUME Following PROVE tick.cur \in Leads /\ tick.step \in 1..(Steps - 1)
    BY <1>1, <1>3 DEF Following, TickHasStep
  <1> QED BY <1>1, <1>2, <1>3

(* A step that leaves the follow-ups, their rows and the scheduler alone *)
LEMMA DripFrame ==
    ASSUME Types, Drip, UNCHANGED <<seq, tick>>, FreshKept, Handled',
           \A l \in Leads : \A k \in 2..Steps : sent'[l][k] = sent[l][k],
           status' = "DELETED" <=> status = "DELETED"
    PROVE  Drip'
  <1>1. Untouched'
    BY DEF Drip, Untouched, FreshKept, Scheduled, Following
  <1>2. Past'
    BY DEF Drip, Past, Following
  <1>4. Ahead'
    BY NextStep DEF Drip, Ahead, Following
  <1>3. Dead' /\ Once'
    BY DEF Drip, Dead, Once
  <1> QED BY <1>1, <1>2, <1>3, <1>4 DEF Drip

-----------------------------------------------------------------------------
(* The steps of a worker *)

(* A worker that changes its phase only goes on with the same lead. *)
LEMMA SameLead ==
    ASSUME Types, Handled, NEW w \in Workers, NEW p, Goto(w, p),
           p \in {"poll", "send", "record", "track"} => worker[w].pc \in {"send", "record", "track"},
           p = "track" => lead'[worker[w].cur] # "NEW",
           \A l \in Leads : lead'[l] = "NEW" => lead[l] = "NEW"
    PROVE  FreshKept /\ Handled'
  <1>1. worker \in [Workers -> WorkerRecord]
    BY DEF Types, Parts
  <1>2. \A v \in Workers \ {w} : worker'[v] = worker[v]
    BY <1>1 DEF Goto
  <1>3. /\ worker'[w].pc = p /\ worker'[w].cur = worker[w].cur
        /\ worker'[w].todo = worker[w].todo /\ worker'[w].old = worker[w].old
    BY <1>1 DEF Goto, WorkerRecord
  <1>4. \A l \in Leads : \A v \in Workers :
           Listed(v, l)' \/ Handling(v, l)' => Listed(v, l) \/ Handling(v, l)
    BY <1>2, <1>3 DEF Listed, Handling
  <1>5. FreshKept
    BY <1>4 DEF FreshKept, Fresh
  <1>6. ASSUME NEW v \in Workers \ {w}
        PROVE  /\ worker'[v].old = {}
               /\ worker'[v].pc = "track" => lead'[worker'[v].cur] # "NEW"
               /\ worker'[v].pc \in {"send", "record", "track"} => worker'[v].cur \notin worker'[v].todo
    <2>1. worker[v].pc = "track" => worker[v].cur \in Leads
      BY DEF Types, HasLead
    <2> QED BY <1>2, <2>1 DEF Handled
  <1>7. /\ worker'[w].old = {}
        /\ worker'[w].pc = "track" => lead'[worker'[w].cur] # "NEW"
        /\ worker'[w].pc \in {"send", "record", "track"} => worker'[w].cur \notin worker'[w].todo
    BY <1>3 DEF Handled
  <1> QED BY <1>5, <1>6, <1>7 DEF Handled

(* A worker that handles no lead after the step *)
LEMMA Idle ==
    ASSUME Types, Handled, NEW w \in Workers, NEW r, worker' = [worker EXCEPT ![w] = r],
           r.old = {}, r.pc \notin {"poll", "send", "record", "track"}, UNCHANGED lead
    PROVE  FreshKept /\ Handled'
  <1>1. worker'[w] = r /\ \A v \in Workers \ {w} : worker'[v] = worker[v]
    BY DEF Types, Parts
  <1>2. \A l \in Leads : \A v \in Workers : Listed(v, l)' \/ Handling(v, l)' => Listed(v, l) \/ Handling(v, l)
    BY <1>1 DEF Listed, Handling
  <1> QED BY <1>1, <1>2 DEF FreshKept, Fresh, Handled

LEMMA EndIdle ==
    ASSUME Types, Handled, NEW w \in Workers, End(w), UNCHANGED lead
    PROVE  FreshKept /\ Handled'
  <1>1. NoTask.old = {} /\ NoTask.pc = "none"
    BY DEF NoTask
  <1> QED BY <1>1, Idle DEF End

LEMMA GotoIdle ==
    ASSUME Types, Handled, NEW w \in Workers, NEW p, Goto(w, p), UNCHANGED lead,
           p \notin {"poll", "send", "record", "track"}
    PROVE  FreshKept /\ Handled'
  BY SameLead DEF Handled

LEMMA WorkerDeleted ==
    ASSUME NEW w \in Workers, WorkerStep(w)
    PROVE  status' = "DELETED" <=> status = "DELETED"
  BY DEF WorkerStep, Work, SendUnconfirmed, RecordFails, Break, Begin, ParkItself, Activate, Target,
         Poll, Send, Decline, Record, Track, Close, CountFollowups, Finish, Unwind, Park, Commit,
         dbVars, obsVars

(* The steps that send and record nothing *)
LEMMA DripQuiet ==
    ASSUME Types, Drip, ~Targeted, NEW w \in Workers, WorkerStep(w), ~Handles(w), faults' = 0, faults = 0
    PROVE  Drip'
  <1>t. worker \in [Workers -> WorkerRecord] /\ lead \in [Leads -> LeadStatus] /\ Handled
    BY DEF Types, Parts, Drip
  <1>d. status' = "DELETED" <=> status = "DELETED"
    BY WorkerDeleted
  <1>u. UNCHANGED <<seq, tick, sent>>
    BY WorkerEffects
  <1> SUFFICES FreshKept /\ Handled'
    BY <1>d, <1>u, DripFrame
  <1>o. worker[w].old = {} /\ worker[w] \in WorkerRecord
    BY <1>t DEF Handled
  <1>1. CASE Begin(w)
    <2> DEFINE r == [worker[w] EXCEPT !.pc = "activate", !.mem = status, !.count = sentCount]
    <2>1. r.old = {} /\ r.pc = "activate"
      BY <1>o DEF WorkerRecord
    <2>2. UNCHANGED lead /\ (End(w) \/ worker' = [worker EXCEPT ![w] = r])
      BY <1>1 DEF Begin, dbVars
    <2> HIDE DEF r
    <2> QED BY <1>t, <2>1, <2>2, Idle, EndIdle
  <1>2. CASE ParkItself(w) \/ Finish(w) \/ Close(w) \/ CountFollowups(w) \/ Unwind(w) \/ Park(w)
    <2>1. UNCHANGED lead
      BY <1>2 DEF ParkItself, Finish, Close, CountFollowups, Unwind, Park, dbVars
    <2>2. \/ End(w)
          \/ \E p \in {"unwinding", "counting", "finishing", "parking"} : Goto(w, p)
      BY <1>2 DEF ParkItself, Finish, Close, CountFollowups, Unwind, Park, Commit
    <2> QED BY <1>t, <2>1, <2>2, EndIdle, GotoIdle
  <1>3. CASE Activate(w)
    <2> DEFINE r == [worker[w] EXCEPT !.pc = "target", !.mem = "ACTIVE"]
    <2>1. r.old = {} /\ r.pc = "target"
      BY <1>o DEF WorkerRecord
    <2>2. UNCHANGED lead /\ (Goto(w, "unwinding") \/ worker' = [worker EXCEPT ![w] = r])
      BY <1>3 DEF Activate, Commit
    <2> HIDE DEF r
    <2> QED BY <1>t, <2>1, <2>2, Idle, GotoIdle
  <1>4. CASE Target(w)
    <2> DEFINE todo == {l \in Leads : lead[l] = "NEW"}
               r == [worker[w] EXCEPT !.pc = "poll", !.todo = todo, !.old = {l \in todo : lead[l] = "CONTACTED"}]
    <2>1. UNCHANGED lead
      BY <1>4 DEF Target, dbVars
    <2>2. CASE Goto(w, "unwinding")
      BY <1>t, <2>1, <2>2, GotoIdle
    <2>3. CASE worker' = [worker EXCEPT ![w] = r]
      <3>1. r.pc = "poll" /\ r.todo = todo /\ r.old = {}
        BY <1>o DEF WorkerRecord
      <3> HIDE DEF r
      <3>2. worker'[w] = r /\ \A v \in Workers \ {w} : worker'[v] = worker[v]
        BY <1>t, <2>3
      <3>3. \A l \in Leads : \A v \in Workers : Listed(v, l)' \/ Handling(v, l)' => Fresh(l)
        BY <3>1, <3>2 DEF Listed, Handling, Fresh
      <3> QED BY <1>t, <2>1, <3>1, <3>2, <3>3 DEF FreshKept, Fresh, Handled
    <2> QED BY <1>4, <2>2, <2>3 DEF Target
  <1>5. CASE Poll(w)
    <2>1. UNCHANGED lead
      BY <1>5 DEF Poll, dbVars
    <2>2. CASE End(w)
      BY <1>t, <2>1, <2>2, EndIdle
    <2>3. ASSUME NEW l \in worker[w].todo,
                 worker' = [worker EXCEPT ![w] = [worker[w] EXCEPT !.pc = "send", !.cur = l, !.todo = @ \ {l}]]
          PROVE  FreshKept /\ Handled'
      <3> DEFINE r == [worker[w] EXCEPT !.pc = "send", !.cur = l, !.todo = @ \ {l}]
      <3>1. r.pc = "send" /\ r.cur = l /\ r.todo = worker[w].todo \ {l} /\ r.old = {}
        BY <1>o DEF WorkerRecord
      <3>2. worker' = [worker EXCEPT ![w] = r]
        BY <2>3
      <3> HIDE DEF r
      <3>3. worker'[w] = r /\ \A v \in Workers \ {w} : worker'[v] = worker[v]
        BY <1>t, <3>2
      <3>4. \A m \in Leads : Listed(w, m)' \/ Handling(w, m)' => Listed(w, m)
        BY <1>5, <3>1, <3>3 DEF Listed, Handling, Poll, At
      <3>5. \A m \in Leads : \A v \in Workers : Listed(v, m)' \/ Handling(v, m)' => Fresh(m)
        BY <3>3, <3>4 DEF Listed, Handling, Fresh
      <3> QED BY <1>t, <2>1, <3>1, <3>3, <3>5 DEF FreshKept, Fresh, Handled
    <2> QED BY <1>5, <2>2, <2>3 DEF Poll
  <1>6. CASE Decline(w)
    <2>1. \E p \in {"poll", "closing", "unwinding"} : Goto(w, p)
      BY <1>6 DEF Decline, NextLead
    <2>2. \A l \in Leads : lead'[l] = "NEW" => lead[l] = "NEW"
      BY <1>6, <1>t DEF Decline
    <2>3. worker[w].pc = "send"
      BY <1>6 DEF Decline, At
    <2> QED BY <1>t, <2>1, <2>2, <2>3, SameLead
  <1>7. CASE Break(w)
    BY <1>7 DEF Break
  <1> QED BY <1>1, <1>2, <1>3, <1>4, <1>5, <1>6, <1>7 DEF WorkerStep, Work, Handles

(* The steps about one lead: the first message goes out and is recorded, *)
(* the row of the sequence starts.                                       *)
LEMMA DripHandles ==
    ASSUME Types, OneWorker, Drip, NEW w \in Workers, WorkerStep(w), Handles(w), faults' = 0, faults = 0
    PROVE  Drip'
  <1>t. /\ worker \in [Workers -> WorkerRecord] /\ lead \in [Leads -> LeadStatus] /\ Handled
        /\ seq \in [Leads -> SeqRecord] /\ sent \in [Leads -> [1..Steps -> Nat]]
    BY DEF Types, Parts, Drip
  <1>o. worker[w].old = {} /\ worker[w] \in WorkerRecord
    BY <1>t DEF Handled
  <1>d. status' = "DELETED" <=> status = "DELETED"
    BY WorkerDeleted
  <1>1. CASE Send(w)
    <2>1. /\ worker[w].pc = "send" /\ worker[w].cur \in Leads /\ Goto(w, "record")
          /\ Out(worker[w].cur, 1) /\ UNCHANGED <<lead, seq, tick>>
      BY <1>1 DEF Send, At, dbVars, Types, HasLead
    <2>2. FreshKept /\ Handled'
      BY <1>t, <2>1, SameLead
    <2>3. \A l \in Leads : \A k \in 2..Steps : sent'[l][k] = sent[l][k]
      BY <1>t, <2>1 DEF Out
    <2> QED BY <1>d, <2>1, <2>2, <2>3, DripFrame
  <1>2. CASE Record(w)
    <2> DEFINE next == IF Steps > 1 THEN "track" ELSE NextLead(w)
    <2>1. /\ worker[w].pc = "record" /\ worker[w].cur \in Leads /\ Recorded(w, next)
          /\ UNCHANGED <<seq, tick, sent>>
      BY <1>2 DEF Record, At, obsVars, Types, HasLead
    <2>2. FreshKept /\ Handled'
      <3>1. CASE status = "DELETED"
        BY <1>t, <2>1, <3>1, GotoIdle DEF Recorded
      <3>2. CASE status # "DELETED"
        <4> DEFINE r == [worker[w] EXCEPT !.count = @ + 1, !.pc = next]
        <4>1. /\ r.pc = next /\ r.cur = worker[w].cur /\ r.todo = worker[w].todo /\ r.old = {}
              /\ worker' = [worker EXCEPT ![w] = r]
          BY <1>o, <2>1, <3>2 DEF Recorded, WorkerRecord
        <4>2. lead' = [lead EXCEPT ![worker[w].cur] = "CONTACTED"]
          BY <1>o, <2>1, <3>2 DEF Recorded
        <4> HIDE DEF r, next
        <4>3. worker'[w] = r /\ \A v \in Workers \ {w} : worker'[v] = worker[v]
          BY <1>t, <4>1
        <4>4. /\ \A l \in Leads : lead'[l] = "NEW" => lead[l] = "NEW"
              /\ lead'[worker[w].cur] # "NEW"
          BY <1>t, <2>1, <4>2
        <4>5. \A l \in Leads : \A v \in Workers :
                 Listed(v, l)' \/ Handling(v, l)' => Listed(v, l) \/ Handling(v, l)
          BY <2>1, <4>1, <4>3 DEF Listed, Handling
        <4>6. FreshKept
          BY <4>4, <4>5 DEF FreshKept, Fresh
        <4>7. ASSUME NEW v \in Workers \ {w}
              PROVE  /\ worker'[v].old = {}
                     /\ worker'[v].pc = "track" => lead'[worker'[v].cur] # "NEW"
                     /\ worker'[v].pc \in {"send", "record", "track"} => worker'[v].cur \notin worker'[v].todo
          <5>1. worker[v].pc = "track" => worker[v].cur \in Leads
            BY DEF Types, HasLead
          <5> QED BY <1>t, <4>3, <4>4, <5>1 DEF Handled
        <4>8. worker[w].cur \notin worker[w].todo
          BY <1>t, <2>1 DEF Handled
        <4> QED BY <4>1, <4>3, <4>4, <4>6, <4>7, <4>8 DEF Handled
      <3> QED BY <3>1, <3>2
    <2> QED BY <1>d, <2>1, <2>2, DripFrame
  <1>3. CASE Track(w)
    <2>0. PICK c \in Leads : c = worker[w].cur
      BY <1>3 DEF Track, At, Types, HasLead
    <2>1. /\ worker[w].pc = "track" /\ c = worker[w].cur /\ UNCHANGED <<status, lead, tick, sent>>
          /\ lead[c] # "NEW" /\ c \notin worker[w].todo
      BY <1>3, <1>t, <2>0 DEF Track, At, obsVars, Handled
    <2>2. CASE status = "DELETED"
      <3>1. Goto(w, "unwinding") /\ UNCHANGED seq
        BY <1>3, <2>2 DEF Track
      <3> QED BY <1>d, <1>t, <2>1, <3>1, GotoIdle, DripFrame
    <2>3. CASE status # "DELETED"
      <3>1. /\ \E p \in {"poll", "closing"} : Goto(w, p)
            /\ seq' = [seq EXCEPT ![c] = [status |-> "ACTIVE", step |-> 1, due |-> FALSE]]
        BY <1>3, <2>1, <2>3 DEF Track, NextLead
      <3>2. FreshKept /\ Handled'
        BY <1>t, <2>1, <3>1, SameLead
      <3>3. seq'[c].step = 1 /\ \A l \in Leads \ {c} : seq'[l] = seq[l]
        BY <1>t, <2>1, <3>1
      <3>4. /\ worker'[w].todo = worker[w].todo /\ worker'[w].pc \in {"poll", "closing"}
            /\ \A v \in Workers \ {w} : worker'[v].pc = "none"
        <4>1. \A v \in Workers \ {w} : worker[v].pc = "none"
          BY <2>1 DEF OneWorker, WorkerIsRegistered
        <4> QED BY <1>t, <3>1, <4>1 DEF Goto, WorkerRecord
      <3>5. ~Fresh(c)'
        BY <2>1, <3>4 DEF Fresh, Listed, Handling
      <3>6. Fresh(c)
        BY <2>1 DEF Fresh, Handling
      <3>7. ~Scheduled(c) /\ \A k \in 2..Steps : sent[c][k] = 0
        BY <2>1, <3>6 DEF Drip, Untouched
      <3>8. Untouched'
        BY <2>1, <3>2, <3>3, <3>5 DEF Drip, Untouched, FreshKept, Scheduled, Following
      <3>9. Past'
        BY <2>1, <3>3, <3>7 DEF Drip, Past
      <3>10. Ahead'
        BY <2>1, <3>3, <3>7, NextStep DEF Drip, Ahead, Scheduled, Following
      <3> QED BY <2>1, <2>3, <3>2, <3>8, <3>9, <3>10 DEF Drip, Dead, Once
    <2> QED BY <2>2, <2>3
  <1>4. CASE SendUnconfirmed(w) \/ RecordFails(w)
    BY <1>4 DEF SendUnconfirmed, RecordFails
  <1> QED BY <1>1, <1>2, <1>3, <1>4 DEF Handles

-----------------------------------------------------------------------------
(* Requests: a worker is started or cancelled, the campaign deleted *)

LEMMA DripRequest ==
    ASSUME Types, Drip, NEW c \in Calls, RequestStep(c)
    PROVE  Drip'
  <1>t. worker \in [Workers -> WorkerRecord] /\ Handled
    BY DEF Types, Parts, Drip
  <1>u. UNCHANGED <<lead, tick, sent>>
    BY RequestEffects
  <1>1. FreshKept /\ Handled'
    <2>1. CASE Spawn(c)
      <3>1. PICK w \in Workers : Goto(w, "spawned")
        BY <2>1 DEF Spawn, Goto
      <3> QED BY <1>t, <1>u, <3>1, GotoIdle
    <2>2. CASE PauseCancels(c) \/ CancelFirst(c)
      <3>1. CancelTask
        BY <2>2 DEF PauseCancels, CancelFirst
      <3>2. CASE UNCHANGED worker
        BY <1>t, <1>u, <3>2 DEF FreshKept, Fresh, Listed, Handling, Handled
      <3>3. CASE task \in Workers /\ worker' = [worker EXCEPT ![task] = NoTask]
        <4>1. NoTask.old = {} /\ NoTask.pc = "none"
          BY DEF NoTask
        <4> QED BY <1>t, <1>u, <3>3, <4>1, Idle
      <3>4. CASE task \in Workers /\ Goto(task, "unwinding")
        BY <1>t, <1>u, <3>4, GotoIdle
      <3> QED BY <3>1, <3>2, <3>3, <3>4 DEF CancelTask, Goto, Running, Types, Parts
    <2>3. CASE ~Spawn(c) /\ ~PauseCancels(c) /\ ~CancelFirst(c)
      <3>1. UNCHANGED worker
        BY <2>3 DEF RequestStep, Launch, Claim, Pause, PauseCommits, Schedule, Delete, Unschedule, Unscheduled
      <3> QED BY <1>t, <1>u, <3>1 DEF FreshKept, Fresh, Listed, Handling, Handled
    <2> QED BY <2>1, <2>2, <2>3
  <1>2. CASE Delete(c)
    <2>1. status' = "DELETED" /\ \A l \in Leads : seq'[l].status = "NONE"
      BY <1>2, NoRowType DEF Delete
    <2>2. Untouched'
      BY <1>1, <1>u, <2>1 DEF Drip, Untouched, FreshKept, Scheduled, Following
    <2>3. Past' /\ Ahead'
      BY <1>u, <2>1 DEF Drip, Past, Ahead, Following
    <2> QED BY <1>1, <1>u, <2>1, <2>2, <2>3 DEF Drip, Dead, Once
  <1>3. CASE ~Delete(c)
    <2>1. UNCHANGED seq
      BY <1>3 DEF RequestStep, Launch, Claim, Spawn, Pause, PauseCommits, PauseCancels, CancelFirst,
                  Schedule, Unschedule, Unscheduled, dbVars
    <2>2. status' = "DELETED" <=> status = "DELETED"
      BY <1>3 DEF RequestStep, Launch, Claim, Spawn, Pause, PauseCommits, PauseCancels, CancelFirst,
                  Schedule, Unschedule, Unscheduled, Write, dbVars
    <2> QED BY <1>1, <1>u, <2>1, <2>2, DripFrame
  <1> QED BY <1>2, <1>3

-----------------------------------------------------------------------------
(* Leads: a row becomes due, a recipient writes back, a user stops a lead *)

LEMMA DripLead ==
    ASSUME Types, Drip, NEW l \in Leads, LeadStep(l)
    PROVE  Drip'
  <1>t. seq \in [Leads -> SeqRecord] /\ lead \in [Leads -> LeadStatus] /\ Handled
    BY DEF Types, Parts, Drip
  <1>1. UNCHANGED <<status, worker, tick, sent>>
    BY DEF LeadStep, Elapse, Reply, StopLead, taskVars, obsVars
  <1>2. /\ \A m \in Leads : seq'[m].step = seq[m].step
        /\ \A m \in Leads : seq[m].status = "NONE" => seq'[m].status = "NONE"
        /\ \A m \in Leads : seq'[m].status = "ACTIVE" => seq[m].status = "ACTIVE"
    BY <1>t DEF LeadStep, Elapse, Reply, StopLead, SeqRecord
  <1>3. \A m \in Leads : lead'[m] = "NEW" => lead[m] = "NEW"
    BY <1>t DEF LeadStep, Elapse, Reply, StopLead
  <1>4. FreshKept
    BY <1>1, <1>3 DEF FreshKept, Fresh, Listed, Handling
  <1>5. Handled'
    <2>1. \A w \in Workers : worker[w].pc = "track" => worker[w].cur \in Leads
      BY DEF Types, HasLead
    <2> QED BY <1>t, <1>1, <1>3, <2>1 DEF Handled
  <1>6. Untouched'
    BY <1>1, <1>2, <1>4 DEF Drip, Untouched, FreshKept, Scheduled, Following
  <1>7. Past'
    BY <1>1, <1>2 DEF Drip, Past
  <1>8. Ahead'
    BY <1>1, <1>2, NextStep DEF Drip, Ahead, Following
  <1>9. Dead' /\ Once'
    BY <1>1, <1>2 DEF Drip, Dead, Once
  <1> QED BY <1>5, <1>6, <1>7, <1>8, <1>9 DEF Drip

-----------------------------------------------------------------------------
(* The follow-up scheduler *)

(* The scheduler drops rows it has loaded, or the batch. *)
LEMMA DripDrops ==
    ASSUME Types, Drip, UNCHANGED <<lead, worker, sent>>,
           status' = "DELETED" <=> status = "DELETED",
           tick'.rows \subseteq tick.rows, tick.pc # "record", ~Following',
           \A l \in Leads : seq'[l].step = seq[l].step,
           \A l \in Leads : seq[l].status = "NONE" => seq'[l].status = "NONE",
           \A l \in Leads : seq'[l].status = "ACTIVE" => seq[l].status = "ACTIVE"
    PROVE  Drip'
  <1>1. Untouched'
    BY DEF Drip, Untouched, Fresh, Listed, Handling, Scheduled
  <1>2. Past'
    BY DEF Drip, Past
  <1>3. Ahead'
    BY NextStep DEF Drip, Ahead, Following
  <1>4. Dead' /\ Once' /\ Handled'
    BY DEF Drip, Dead, Once, Handled
  <1> QED BY <1>1, <1>2, <1>3, <1>4 DEF Drip

LEMMA DripFetch ==
    ASSUME Types, Drip, Fetch
    PROVE  Drip'
  <1>t. seq \in [Leads -> SeqRecord] /\ sent \in [Leads -> [1..Steps -> Nat]]
        /\ \A l \in Leads : RowHasStep(seq[l])
    BY DEF Types, Parts
  <1>1. /\ tick'.rows = DueRows /\ tick'.pc = "rows" /\ tick.pc = "idle"
        /\ UNCHANGED <<status, lead, seq, worker, sent>>
    BY DEF Fetch, NoTick, dbVars, obsVars
  <1>2. ASSUME NEW r \in DueRows
        PROVE  /\ r.lead \in Leads /\ seq[r.lead].status = "ACTIVE" /\ seq[r.lead].step = r.step
               /\ r.step \in Nat /\ r.step + 1 \in 2..Steps /\ status # "DELETED"
    <2>1. r.lead \in Leads /\ seq[r.lead].status = "ACTIVE" /\ seq[r.lead].step = r.step
      BY DEF DueRows, Rows
    <2>2. r.step \in 1..(Steps - 1)
      BY <1>t, <2>1 DEF RowHasStep
    <2>3. status # "DELETED"
      BY <2>1 DEF Drip, Dead
    <2> QED BY <2>1, <2>2, <2>3
  <1>3. Untouched'
    BY <1>1, <1>2 DEF Drip, Untouched, Fresh, Listed, Handling, Scheduled, Following
  <1>4. Past'
    BY <1>1 DEF Drip, Past
  <1>5. Ahead'
    <2>1. ASSUME NEW r \in DueRows PROVE sent[r.lead][r.step + 1] = 0
      <3>1. ~(r.step + 1 <= seq[r.lead].step)
        BY <1>2
      <3>2. ~(sent[r.lead][r.step + 1] > 0)
        BY <1>1, <1>2, <3>1 DEF Drip, Past
      <3>3. sent[r.lead][r.step + 1] \in Nat
        BY <1>t, <1>2
      <3> QED BY <3>2, <3>3
    <2>2. ASSUME NEW r \in DueRows, NEW q \in DueRows, q.lead = r.lead PROVE q = r
      BY <1>2, <2>2 DEF DueRows, Rows
    <2> QED BY <1>1, <1>2, <2>1, <2>2 DEF Ahead, Following
  <1>6. Dead' /\ Once' /\ Handled'
    BY <1>1 DEF Drip, Dead, Once, Handled
  <1> QED BY <1>3, <1>4, <1>5, <1>6 DEF Drip

LEMMA DripVisit ==
    ASSUME Types, Drip, NEW r \in Rows, Visit(r)
    PROVE  Drip'
  <1> DEFINE mem   == IF tick.mem = "NONE" THEN status ELSE tick.mem
             count == IF tick.mem = "NONE" THEN sentCount ELSE tick.count
             seen  == [tick EXCEPT !.mem = mem, !.count = count, !.rows = @ \ {r}]
             sending == [seen EXCEPT !.pc = "send", !.cur = r.lead, !.step = r.step]
  <1>t. seq \in [Leads -> SeqRecord] /\ tick \in TickRecord /\ r.lead \in Leads
    BY DEF Types, Parts, Rows
  <1>1. /\ tick.pc = "rows" /\ r \in tick.rows
        /\ UNCHANGED <<status, lead, worker, sent>>
        /\ tick' \in {seen, NoTick} \/ (tick' = sending /\ UNCHANGED seq)
    BY DEF Visit, obsVars
  <1>2. /\ seen.rows = tick.rows \ {r} /\ seen.pc = "rows"
        /\ sending.rows = tick.rows \ {r} /\ sending.pc = "send"
        /\ sending.cur = r.lead /\ sending.step = r.step
    <2> HIDE DEF mem, count
    <2> QED BY <1>t, <1>1 DEF TickRecord
  <1>3. \/ UNCHANGED seq
        \/ \E s \in {"STOPPED_ON_REPLY", "FAILED"} :
              seq' = [seq EXCEPT ![r.lead] = [seq[r.lead] EXCEPT !.status = s, !.due = FALSE]]
    BY <1>t DEF Visit
  <1> HIDE DEF seen, sending
  <1>5. CASE tick' \in {seen, NoTick}
    <2>1. tick'.rows \subseteq tick.rows /\ ~Following'
      BY <1>2, <1>5, NoTickType DEF Following
    <2>2. Untouched'
      <3>1. \A l \in Leads : Fresh(l)' <=> Fresh(l)
        BY <1>1 DEF Fresh, Listed, Handling
      <3>2. ~Fresh(r.lead)
        BY <1>1, <1>t DEF Drip, Untouched, Scheduled
      <3>3. \A l \in Leads \ {r.lead} : seq'[l] = seq[l]
        BY <1>t, <1>3
      <3> QED BY <1>1, <2>1, <3>1, <3>2, <3>3 DEF Drip, Untouched, Scheduled
    <2>3. /\ \A l \in Leads : seq'[l].step = seq[l].step
          /\ \A l \in Leads : seq'[l].status = "ACTIVE" => seq[l].status = "ACTIVE"
      <3>1. CASE UNCHANGED seq
        BY <3>1
      <3>2. ASSUME NEW s \in {"STOPPED_ON_REPLY", "FAILED"},
                   seq' = [seq EXCEPT ![r.lead] = [seq[r.lead] EXCEPT !.status = s, !.due = FALSE]]
            PROVE  /\ \A l \in Leads : seq'[l].step = seq[l].step
                   /\ \A l \in Leads : seq'[l].status = "ACTIVE" => seq[l].status = "ACTIVE"
        <4>1. seq[r.lead] \in SeqRecord
          BY <1>t
        <4>2. seq'[r.lead].step = seq[r.lead].step /\ seq'[r.lead].status = s
          BY <1>t, <3>2, <4>1 DEF SeqRecord
        <4>3. \A l \in Leads \ {r.lead} : seq'[l] = seq[l]
          BY <1>t, <3>2
        <4> QED BY <4>2, <4>3
      <3> QED BY <1>3, <3>1, <3>2
    <2>4. Past' /\ Ahead'
      BY <1>1, <2>1, <2>3, NextStep DEF Drip, Past, Ahead, Following
    <2>5. Dead' /\ Once' /\ Handled'
      BY <1>1, <2>3 DEF Drip, Dead, Once, Handled
    <2> QED BY <2>2, <2>4, <2>5 DEF Drip
  <1>6. CASE tick' = sending /\ UNCHANGED seq
    <2>1. /\ tick'.rows = tick.rows \ {r} /\ tick'.pc = "send" /\ tick'.cur = r.lead
          /\ tick'.step = r.step
      BY <1>2, <1>6
    <2>2. Untouched'
      BY <1>1, <1>6, <2>1 DEF Drip, Untouched, Fresh, Listed, Handling, Scheduled, Following
    <2>3. Past'
      BY <1>1, <1>6 DEF Drip, Past
    <2>4. Ahead'
      BY <1>1, <1>6, <2>1 DEF Drip, Ahead, Following
    <2>5. Dead' /\ Once' /\ Handled'
      BY <1>1, <1>6 DEF Drip, Dead, Once, Handled
    <2> QED BY <2>2, <2>3, <2>4, <2>5 DEF Drip
  <1> QED BY <1>1, <1>5, <1>6

(* The follow-up goes out for the first time, because its row was loaded *)
(* before it and nobody else sends it.                                   *)
LEMMA DripSend ==
    ASSUME Types, Drip, SendFollowup, faults' = 0, faults = 0
    PROVE  Drip'
  <1>t. sent \in [Leads -> [1..Steps -> Nat]] /\ tick \in TickRecord
    BY DEF Types, Parts
  <1>1. /\ tick.pc = "send" /\ tick.cur \in Leads /\ tick.step \in Nat /\ tick.step + 1 \in 2..Steps
        /\ UNCHANGED <<status, lead, seq, worker>>
    BY NextStep DEF SendFollowup, Following, dbVars
  <1>2. CASE UNCHANGED sent /\ tick' = [tick EXCEPT !.pc = "rows"]
    <2>1. tick'.rows = tick.rows /\ tick'.pc = "rows"
      BY <1>t, <1>2 DEF TickRecord
    <2> QED BY <1>1, <1>2, <2>1, DripDrops DEF Following
  <1>3. CASE Out(tick.cur, tick.step + 1) /\ tick' = [tick EXCEPT !.pc = "record"]
    <2>1. tick'.rows = tick.rows /\ tick'.pc = "record" /\ tick'.cur = tick.cur /\ tick'.step = tick.step
      BY <1>t, <1>3 DEF TickRecord
    <2>2. \A l \in Leads, k \in 1..Steps :
             sent'[l][k] = IF l = tick.cur /\ k = tick.step + 1 THEN 1 ELSE sent[l][k]
      <3>1. sent[tick.cur][tick.step + 1] = 0
        BY <1>1 DEF Drip, Ahead
      <3>2. sent' = [sent EXCEPT ![tick.cur] = [sent[tick.cur] EXCEPT ![tick.step + 1] = 0 + 1]]
        BY <1>3, <3>1 DEF Out
      <3> QED BY <1>t, <1>1, <3>2
    <2>3. Untouched'
      <3>1. ~Fresh(tick.cur)
        BY <1>1 DEF Drip, Untouched, Scheduled, Following
      <3>2. \A l \in Leads : Fresh(l)' <=> Fresh(l)
        BY <1>1 DEF Fresh, Listed, Handling
      <3>3. \A l \in Leads : Scheduled(l)' <=> Scheduled(l)
        BY <1>1, <2>1 DEF Scheduled, Following
      <3>4. \A k \in 2..Steps : k \in 1..Steps
        OBVIOUS
      <3> QED BY <1>1, <2>2, <3>1, <3>2, <3>3, <3>4 DEF Drip, Untouched
    <2>4. Past'
      BY <1>1, <2>1, <2>2 DEF Drip, Past
    <2>5. Ahead'
      <3>1. ASSUME NEW r \in tick.rows PROVE sent'[r.lead][r.step + 1] = 0
        <4>1. r.lead \in Leads /\ r.step + 1 \in 1..Steps /\ r.lead # tick.cur
          BY <1>1, NextStep DEF Drip, Ahead, Following
        <4> QED BY <2>2, <4>1 DEF Drip, Ahead
      <3> QED BY <1>1, <2>1, <3>1 DEF Drip, Ahead, Following
    <2>6. Once'
      BY <2>2 DEF Drip, Once
    <2>7. Dead' /\ Handled'
      BY <1>1 DEF Drip, Dead, Handled
    <2> QED BY <2>3, <2>4, <2>5, <2>6, <2>7 DEF Drip
  <1> QED BY <1>2, <1>3 DEF SendFollowup

LEMMA DripRecord ==
    ASSUME Types, Drip, RecordFollowup
    PROVE  Drip'
  <1>t. seq \in [Leads -> SeqRecord] /\ tick \in TickRecord
    BY DEF Types, Parts
  <1>1. /\ tick.pc = "record" /\ tick.cur \in Leads /\ tick.step \in Nat /\ tick.step + 1 \in 2..Steps
        /\ UNCHANGED <<status, lead, sent, worker>>
    BY NextStep DEF RecordFollowup, Following, obsVars
  <1>2. tick'.rows \subseteq tick.rows /\ ~Following'
    BY <1>t, NoTickType DEF RecordFollowup, TickRecord, Following
  <1>3. \A l \in Leads : Fresh(l)' <=> Fresh(l)
    BY <1>1 DEF Fresh, Listed, Handling
  <1>4. ~Fresh(tick.cur)
    BY <1>1 DEF Drip, Untouched, Scheduled, Following
  <1>5. CASE status = "DELETED"
    <2>1. UNCHANGED seq /\ tick'.rows = {}
      BY <1>5, NoTickType DEF RecordFollowup
    <2>2. Untouched'
      BY <1>1, <1>2, <1>3, <2>1 DEF Drip, Untouched, Scheduled
    <2>3. Past' /\ Ahead'
      BY <1>1, <1>2, <1>5, <2>1 DEF Past, Ahead, Following
    <2> QED BY <1>1, <2>1, <2>2, <2>3 DEF Drip, Dead, Once, Handled
  <1>6. CASE status # "DELETED"
    <2> DEFINE done == tick.step + 1
               s == IF done < Steps THEN seq[tick.cur].status ELSE "COMPLETED"
    <2>1. seq' = [seq EXCEPT ![tick.cur] = [status |-> s, step |-> done, due |-> FALSE]]
      BY <1>6 DEF RecordFollowup
    <2> HIDE DEF s
    <2>2. seq'[tick.cur].step = done /\ \A l \in Leads \ {tick.cur} : seq'[l] = seq[l]
      BY <1>t, <1>1, <2>1
    <2>3. seq[tick.cur].step = tick.step
      BY <1>1, <1>6 DEF Drip, Ahead, Following
    <2>4. Untouched'
      BY <1>1, <1>2, <1>3, <1>4, <2>2 DEF Drip, Untouched, Scheduled
    <2>5. Past'
      <3> SUFFICES ASSUME NEW l \in Leads, NEW k \in 2..Steps, sent[l][k] > 0
                   PROVE  k <= seq'[l].step
        BY <1>1 DEF Past
      <3>1. k <= seq[l].step \/ (l = tick.cur /\ k = tick.step + 1)
        BY <1>1, <1>6 DEF Drip, Past
      <3> QED BY <1>1, <2>2, <2>3, <3>1
    <2>6. Ahead'
      <3>1. \A r \in tick.rows : r.lead \in Leads /\ r.lead # tick.cur
        BY <1>1, NextStep DEF Drip, Ahead, Following
      <3> QED BY <1>1, <1>2, <2>2, <3>1 DEF Drip, Ahead, Following
    <2> QED BY <1>1, <1>6, <2>4, <2>5, <2>6 DEF Drip, Dead, Once, Handled
  <1> QED BY <1>5, <1>6

LEMMA DripTick ==
    ASSUME Types, Drip, TickStep, faults' = 0, faults = 0
    PROVE  Drip'
  <1>1. CASE CountActive \/ CompleteCampaign
    <2>1. /\ tick.pc \in {"rows", "complete"} /\ tick'.rows \subseteq tick.rows /\ ~Following'
          /\ UNCHANGED <<lead, seq, worker, sent>>
      BY <1>1, NoTickType DEF CountActive, CompleteCampaign, Following, dbVars, obsVars, Types, Parts, TickRecord
    <2>2. status' = "DELETED" <=> status = "DELETED"
      BY <1>1 DEF CountActive, CompleteCampaign, dbVars
    <2> QED BY <2>1, <2>2, DripDrops
  <1>2. CASE BreakTick
    BY <1>2 DEF BreakTick
  <1>3. CASE FetchOthers
    <2>1. tick.pc = "idle" /\ tick'.rows = {} /\ tick'.pc = "rows"
      BY <1>3 DEF FetchOthers, NoTick
    <2> QED BY <1>3, <2>1, DripDrops DEF FetchOthers, dbVars, obsVars, Following
  <1> QED BY <1>1, <1>2, <1>3, DripFetch, DripVisit, DripSend, DripRecord DEF TickStep, Tick

-----------------------------------------------------------------------------
(* Only a first message is left with the gateway: nothing fails, and the *)
(* scheduler is not cancelled.                                           *)
LEMMA PromptStep ==
    ASSUME Types, faults = 0 => Prompt, [Next]_vars
    PROVE  faults' = 0 => Prompt'
  <1> SUFFICES ASSUME faults' = 0, NEW l \in Leads, NEW k \in 2..Steps PROVE late'[l][k] = 0
    BY DEF Prompt
  <1>1. faults = 0 /\ late[l][k] = 0 /\ k \in 1..Steps /\ k # 1
    BY FaultsStay DEF Prompt
  <1>2. CASE UNCHANGED vars
    BY <1>1, <1>2 DEF vars, obsVars
  <1>3. CASE Next
    <2>1. \A w \in Workers : <<l, k>> \notin InHand(w)
      BY <1>1 DEF InHand
    <2>2. late'[l][k] <= late[l][k]
      BY <1>1, <1>3, <2>1, LateGrows
    <2>3. Types'
      BY <1>3, TypesStep
    <2>4. late'[l][k] \in Nat
      BY <1>1, <2>3 DEF Types, Parts
    <2> QED BY <1>1, <2>2, <2>4
  <1> QED BY <1>2, <1>3

LEMMA DripLate ==
    ASSUME Types, Drip, Prompt, LateStep
    PROVE  Drip'
  <1>1. PICK m \in Leads, j \in 1..Steps : SendLate(m, j)
    BY DEF LateStep
  <1>2. j = 1
    <2>1. j # 1 => j \in 2..Steps
      OBVIOUS
    <2> QED BY <1>1, <2>1 DEF SendLate, Prompt
  <1>3. \A l \in Leads : \A k \in 2..Steps : sent'[l][k] = sent[l][k]
    <2>1. sent \in [Leads -> [1..Steps -> Nat]]
      BY DEF Types, Parts
    <2>2. UNCHANGED sent \/ sent' = [sent EXCEPT ![m][1] = @ + 1]
      BY <1>1, <1>2 DEF SendLate, Out
    <2>3. ASSUME NEW l \in Leads, sent' = [sent EXCEPT ![m] = [sent[m] EXCEPT ![1] = @ + 1]]
          PROVE  \A k \in 2..Steps : sent'[l][k] = sent[l][k]
      BY <2>1, <2>3
    <2> QED BY <2>2, <2>3
  <1>4. FreshKept /\ Handled'
    BY <1>1 DEF SendLate, dbVars, taskVars, FreshKept, Fresh, Listed, Handling, Drip, Handled
  <1> QED BY <1>1, <1>3, <1>4, DripFrame DEF SendLate, dbVars, taskVars

LEMMA DripStep ==
    ASSUME ~Targeted, Types, OneWorker, faults = 0 => Drip /\ Prompt, [Next]_vars
    PROVE  faults' = 0 => Drip'
  <1> SUFFICES ASSUME faults' = 0 PROVE Drip'
    OBVIOUS
  <1>1. faults = 0 /\ ~Restart /\ Drip /\ Prompt
    BY FaultsStay
  <1>2. CASE UNCHANGED vars
    <2>1. FreshKept /\ Handled'
      BY <1>1, <1>2 DEF vars, dbVars, taskVars, FreshKept, Fresh, Listed, Handling, Drip, Handled
    <2> QED BY <1>1, <1>2, <2>1, DripFrame DEF vars, dbVars, taskVars, obsVars
  <1>3. ASSUME NEW w \in Workers, WorkerStep(w) PROVE Drip'
    BY <1>1, <1>3, DripQuiet, DripHandles
  <1> QED BY <1>1, <1>2, <1>3, DripRequest, DripLead, DripTick, DripLate, NextCases

(* While requests come one at a time and nothing fails, no follow-up of a    *)
(* campaign to NEW leads is sent twice: pausing, stopping, replying and      *)
(* launching again never let a sequence start over once a lead was recorded, *)
(* and never move the row under a batch the scheduler has loaded.            *)
THEOREM FollowupsAreSentOnce == OneRequest /\ ~Targeted => (Spec => []FollowupOnce)
  <1> SUFFICES ASSUME OneRequest, ~Targeted PROVE Spec => []FollowupOnce
    OBVIOUS
  <1> DEFINE Inv == (faults = 0 => Drip) /\ (faults = 0 => Prompt)
  <1>1. Init => Inv
    BY DripInit DEF Init, Prompt
  <1>2. Types /\ OneWorker /\ Inv /\ [Next]_vars => Inv'
    BY DripStep, PromptStep
  <1>3. Inv => FollowupOnce
    BY DEF Drip, Once, FollowupOnce
  <1> HIDE DEF Inv
  <1> QED BY <1>1, <1>2, <1>3, TypesHold, OneWorkerHolds, PTL DEF Spec
=============================================================================
