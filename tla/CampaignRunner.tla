--------------------------- MODULE CampaignRunner ---------------------------
(***************************************************************************)
(* One outreach campaign: backend/app/services/campaign_runner.py, the     *)
(* requests of api/v1/endpoints/campaigns.py that drive it and the         *)
(* auto-stop of an inbound reply.                                          *)
(*                                                                         *)
(* The backend is one asyncio process (start.py starts one uvicorn worker).*)
(* Everything below is cut at an await: requests, campaign workers, the    *)
(* follow-up scheduler and the ingestion of a reply interleave there.      *)
(*                                                                         *)
(* Every task has a database session of its own, with expire_on_commit     *)
(* off: the campaign row a worker has loaded is never read again.  mem and *)
(* count are the status and sent_count of that copy.  Setting a column to  *)
(* the value the copy already has writes nothing.                          *)
(***************************************************************************)
EXTENDS Naturals, FiniteSets

CONSTANTS
    Leads,        \* the eligible leads of the campaign's owner
    Workers,      \* worker tasks that can exist at the same time
    Calls,        \* API requests that can be in progress at the same time
    Steps,        \* steps of the sequence; 1: a campaign without follow-ups
    Targeted,     \* TRUE: launched with lead_ids (a group), FALSE: NEW leads
    MaxLaunches,  \* bound on successful launches
    MaxFaults,    \* bound on crashes and exceptions
    NoLead, NoWorker

ASSUME CampaignAssumption ==
    /\ Steps \in Nat \ {0}
    /\ Targeted \in BOOLEAN
    /\ MaxLaunches \in Nat
    /\ MaxFaults \in Nat
    /\ NoLead \notin Leads
    /\ NoWorker \notin Workers

VARIABLES
    status,     \* campaigns.status
    sentCount,  \* campaigns.sent_count
    lead,       \* leads.status
    seq,        \* campaign_sequence_leads: status, current_step, "is it due"
    worker,     \* the running workers
    task,       \* active_campaign_tasks
    call,       \* what each request still has to do
    tick,       \* the follow-up scheduler
    sent,       \* messages that went out, per lead and step
    total,      \* messages that went out
    late,       \* messages the gateway still has, whose sender waits no more
    launches,   \* successful claims so far
    faults,
    halted,     \* a pause was answered and nothing launched since
    replied     \* leads that have written back

dbVars   == <<status, sentCount, lead, seq>>
taskVars == <<worker, task, call, tick>>
obsVars  == <<sent, total, late, launches, halted, replied>>
vars     == <<dbVars, taskVars, obsVars, faults>>

CampaignStatus == {"DRAFT", "SCHEDULED", "ACTIVE", "PAUSED", "COMPLETED", "DELETED"}
LeadStatus     == {"NEW", "CONTACTED", "REPLIED", "UNSUBSCRIBED"}
SeqStatus      == {"NONE", "ACTIVE", "COMPLETED", "FAILED", "STOPPED_ON_REPLY", "STOPPED_MANUAL"}
Stopped        == {"STOPPED_ON_REPLY", "STOPPED_MANUAL"}
Unwinding      == {"unwinding", "parking"}
WorkerPhase    == {"none", "spawned", "activate", "target", "poll", "send", "record", "track",
                   "closing", "counting", "finishing"} \cup Unwinding
Pending        == {"none", "claim", "spawn", "pause", "cancel", "schedule", "unschedule", "delete"}
TickPhase      == {"idle", "rows", "send", "record", "count", "complete"}

NoRow  == [status |-> "NONE", step |-> 0, due |-> FALSE]
NoCall == [pc |-> "none", mem |-> "NONE"]
NoTask == [pc |-> "none", mem |-> "NONE", count |-> 0, todo |-> {}, old |-> {}, cur |-> NoLead]
NoTick == [pc |-> "idle", mem |-> "NONE", count |-> 0, rows |-> {}, cur |-> NoLead, step |-> 0]

Rows == [lead : Leads, step : 1..Steps]

TypeOK ==
    /\ status \in CampaignStatus
    /\ sentCount \in Nat
    /\ lead \in [Leads -> LeadStatus]
    /\ seq \in [Leads -> [status : SeqStatus, step : 0..Steps, due : BOOLEAN]]
    /\ worker \in [Workers -> [pc : WorkerPhase, mem : CampaignStatus \cup {"NONE"},
                               count : Nat, todo : SUBSET Leads, old : SUBSET Leads,
                               cur : Leads \cup {NoLead}]]
    /\ task \in Workers \cup {NoWorker}
    /\ call \in [Calls -> [pc : Pending, mem : CampaignStatus \cup {"NONE"}]]
    /\ tick \in [pc : TickPhase, mem : CampaignStatus \cup {"NONE"}, count : Nat,
                 rows : SUBSET Rows, cur : Leads \cup {NoLead}, step : 0..Steps]
    /\ sent \in [Leads -> [1..Steps -> Nat]]
    /\ total \in Nat
    /\ late \in [Leads -> [1..Steps -> Nat]]
    /\ launches \in 0..MaxLaunches
    /\ faults \in 0..MaxFaults
    /\ halted \in BOOLEAN
    /\ replied \subseteq Leads

Init ==
    /\ status = "DRAFT"
    /\ sentCount = 0
    /\ lead = [l \in Leads |-> "NEW"]
    /\ seq = [l \in Leads |-> NoRow]
    /\ worker = [w \in Workers |-> NoTask]
    /\ task = NoWorker
    /\ call = [c \in Calls |-> NoCall]
    /\ tick = NoTick
    /\ sent = [l \in Leads |-> [k \in 1..Steps |-> 0]]
    /\ total = 0
    /\ late = [l \in Leads |-> [k \in 1..Steps |-> 0]]
    /\ launches = 0
    /\ faults = 0
    /\ halted = FALSE
    /\ replied = {}

Running == task # NoWorker
Alive(w) == worker[w].pc \notin {"none"} \cup Unwinding
Request(c, from, to) ==
    call[c].pc = from /\ call' = [call EXCEPT ![c] = [NoCall EXCEPT !.pc = to]]

(* A request that keeps the campaign row it has loaded *)
Load(c, to) == call[c] = NoCall /\ call' = [call EXCEPT ![c] = [pc |-> to, mem |-> status]]

(* Its commit of the status s *)
Write(c, s) == status' = IF status = "DELETED" \/ call[c].mem = s THEN status ELSE s

-----------------------------------------------------------------------------
(* Requests *)

(* Mutant: the registry is not asked. *)
LaunchUnasked(c) ==
    /\ Request(c, "none", "claim")
    /\ UNCHANGED <<dbVars, worker, task, tick, obsVars, faults>>

(* launch_campaign, or the scheduler for a SCHEDULED campaign that has become *)
(* due, up to the conditional UPDATE of start_campaign, which asks for the    *)
(* status once more                                                           *)
Launch(c) ==
    /\ ~Running
    /\ Request(c, "none", "claim")
    /\ UNCHANGED <<dbVars, worker, task, tick, obsVars, faults>>

(* UPDATE campaigns SET status = 'ACTIVE' WHERE status <> 'ACTIVE' *)
Claim(c) ==
    \/ /\ status \notin {"ACTIVE", "DELETED"}
       /\ launches < MaxLaunches
       /\ Request(c, "claim", "spawn")
       /\ status' = "ACTIVE"
       /\ launches' = launches + 1
       /\ halted' = FALSE
       /\ UNCHANGED <<sentCount, lead, seq, worker, task, tick, sent, total, late, replied, faults>>
    \/ /\ status \in {"ACTIVE", "DELETED"} \/ launches = MaxLaunches
       /\ Request(c, "claim", "none")
       /\ UNCHANGED <<dbVars, worker, task, tick, obsVars, faults>>

Spawn(c) ==
    /\ Request(c, "spawn", "none")
    /\ \E w \in Workers :
          /\ worker[w].pc = "none"
          /\ worker' = [worker EXCEPT ![w].pc = "spawned"]
          /\ task' = w
    /\ UNCHANGED <<dbVars, tick, obsVars, faults>>

(* Messages are handed to the gateway by an HTTP POST.  A task that stops     *)
(* waiting for the answer closes its side of it; the gateway sends the        *)
(* message all the same, later than anything the task does.  "send" is both   *)
(* sides of the hand-over, so the message of such a task may be there or not. *)
Adrift(S) ==
    late' = [l \in Leads |-> [k \in 1..Steps |-> late[l][k] + IF <<l, k>> \in S THEN 1 ELSE 0]]

InHand(w)    == IF worker[w].pc = "send" THEN {<<worker[w].cur, 1>>} ELSE {}
InHandOfTick == IF tick.pc = "send" THEN {<<tick.cur, tick.step + 1>>} ELSE {}

(* Mutant: the worker is left to notice the new status at its next poll. *)
CancelNothing == UNCHANGED <<worker, task, late>>

(* cancel_campaign.  A task that has not run yet never runs its handlers; one *)
(* that is cancelled again while it unwinds leaves its handler, too.          *)
CancelTask ==
    IF ~Running THEN UNCHANGED <<worker, task, late>>
    ELSE /\ IF worker[task].pc \in {"spawned"} \cup Unwinding
            THEN worker' = [worker EXCEPT ![task] = NoTask] /\ task' = NoWorker
            ELSE worker' = [worker EXCEPT ![task].pc = "unwinding"] /\ UNCHANGED task
         /\ \E S \in SUBSET InHand(task) : Adrift(S)

(* pause_campaign loads the row, commits, then cancels *)
Pause(c) ==
    /\ status # "DELETED"
    /\ Load(c, "pause")
    /\ UNCHANGED <<dbVars, worker, task, tick, obsVars, faults>>

PauseCommits(c) ==
    /\ Request(c, "pause", IF status = "DELETED" THEN "none" ELSE "cancel")
    /\ Write(c, "PAUSED")
    /\ UNCHANGED <<sentCount, lead, seq, worker, task, tick, obsVars, faults>>

PauseCancels(c) ==
    /\ Request(c, "cancel", "none")
    /\ CancelTask
    /\ halted' = (status = "PAUSED")
    /\ UNCHANGED <<dbVars, tick, sent, total, launches, replied, faults>>

(* schedule_campaign and delete_campaign cancel first *)
CancelFirst(c) ==
    /\ status # "DELETED"
    /\ Load(c, "schedule") \/ Load(c, "delete")
    /\ CancelTask
    /\ UNCHANGED <<dbVars, tick, sent, total, launches, halted, replied, faults>>

Schedule(c) ==
    /\ Request(c, "schedule", "none")
    /\ Write(c, "SCHEDULED")
    /\ UNCHANGED <<sentCount, lead, seq, worker, task, tick, obsVars, faults>>

Delete(c) ==
    /\ Request(c, "delete", "none")
    /\ status' = "DELETED"
    /\ seq' = [l \in Leads |-> NoRow]
    /\ UNCHANGED <<sentCount, lead, worker, task, tick, obsVars, faults>>

(* unschedule_campaign reads, decides, and commits *)
Unschedule(c) ==
    /\ status = "SCHEDULED"
    /\ Load(c, "unschedule")
    /\ UNCHANGED <<dbVars, worker, task, tick, obsVars, faults>>

(* Mutant: a status the enum does not have *)
UnscheduledBlank(c) ==
    /\ Request(c, "unschedule", "none")
    /\ status' = "NONE"
    /\ UNCHANGED <<sentCount, lead, seq, worker, task, tick, obsVars, faults>>

Unscheduled(c) ==
    /\ Request(c, "unschedule", "none")
    /\ Write(c, "DRAFT")
    /\ UNCHANGED <<sentCount, lead, seq, worker, task, tick, obsVars, faults>>

-----------------------------------------------------------------------------
(* A worker: _execute_campaign_worker *)

At(w, p) == worker[w].pc = p
Goto(w, p) == worker' = [worker EXCEPT ![w].pc = p]

(* finally: active_campaign_tasks.pop, whoever is registered *)
End(w) == worker' = [worker EXCEPT ![w] = NoTask] /\ task' = NoWorker

(* A commit that changes the campaign row; of a deleted row it raises. *)
Commit(w, s, next) ==
    IF status = "DELETED" THEN Goto(w, "unwinding") /\ UNCHANGED <<status, task>>
    ELSE /\ status' = IF worker[w].mem = s THEN status ELSE s
         /\ next

Begin(w) ==
    /\ At(w, "spawned")
    /\ IF status = "DELETED" THEN End(w)
       ELSE /\ worker' = [worker EXCEPT ![w].pc = "activate", ![w].mem = status, ![w].count = sentCount]
            /\ UNCHANGED task
    /\ UNCHANGED <<dbVars, call, tick, obsVars, faults>>

(* no connected line; no lead, or every line at its limit; a message refused *)
(* because no line is left or outside working hours                          *)
ParkItself(w) ==
    /\ \E p \in {"activate", "target", "poll", "send"} : At(w, p)
    /\ Commit(w, "PAUSED", End(w))
    /\ UNCHANGED <<sentCount, lead, seq, call, tick, obsVars, faults>>

Activate(w) ==
    /\ At(w, "activate")
    /\ Commit(w, "ACTIVE",
              worker' = [worker EXCEPT ![w].pc = "target", ![w].mem = "ACTIVE"] /\ UNCHANGED task)
    /\ UNCHANGED <<sentCount, lead, seq, call, tick, obsVars, faults>>

(* Mutant: every eligible lead is loaded, contacted or not. *)
TargetAll(w) ==
    /\ At(w, "target")
    /\ worker' = [worker EXCEPT ![w].pc = "poll", ![w].todo = Leads]
    /\ UNCHANGED <<dbVars, task, call, tick, obsVars, faults>>

Target(w) ==
    /\ At(w, "target")
    /\ LET todo == IF Targeted THEN Leads ELSE {l \in Leads : lead[l] = "NEW"} IN
       IF status = "DELETED" THEN Goto(w, "unwinding")
       ELSE /\ todo # {}
            /\ worker' = [worker EXCEPT ![w].pc = "poll", ![w].todo = todo,
                             ![w].old = {l \in todo : lead[l] = "CONTACTED"}]
    /\ UNCHANGED <<dbVars, task, call, tick, obsVars, faults>>

(* "was paused/stopped by user" *)
Poll(w) ==
    /\ At(w, "poll")
    /\ IF status = "PAUSED" THEN End(w)
       ELSE /\ \E l \in worker[w].todo :
                  worker' = [worker EXCEPT ![w].pc = "send", ![w].cur = l, ![w].todo = @ \ {l}]
            /\ UNCHANGED task
    /\ UNCHANGED <<dbVars, call, tick, obsVars, faults>>

(* A message of step k goes out to lead l. *)
Out(l, k) == sent' = [sent EXCEPT ![l][k] = @ + 1] /\ total' = total + 1

NextLead(w) == IF worker[w].todo = {} THEN "closing" ELSE "poll"

(* Mutant: a message that was not sent is recorded as sent. *)
SendOrNot(w) ==
    /\ At(w, "send")
    /\ \/ Out(worker[w].cur, 1)
       \/ UNCHANGED <<sent, total>>
    /\ Goto(w, "record")
    /\ UNCHANGED <<dbVars, task, call, tick, late, launches, halted, replied, faults>>

(* process_single_outreach: the message goes out and the gateway says so ... *)
Send(w) ==
    /\ At(w, "send")
    /\ Out(worker[w].cur, 1)
    /\ Goto(w, "record")
    /\ UNCHANGED <<dbVars, task, call, tick, late, launches, halted, replied, faults>>

(* Mutant: the sequence starts whether or not the first message went out. *)
DeclineTracks(w) ==
    /\ At(w, "send")
    /\ Goto(w, IF Steps > 1 THEN "track" ELSE NextLead(w))
    /\ UNCHANGED <<dbVars, task, call, tick, obsVars, faults>>

(* ... or does not: blacklisted, refused by the gateway (which counts as     *)
(* failed on the campaign row) ...                                           *)
Decline(w) ==
    /\ At(w, "send")
    /\ \/ /\ lead' \in {lead, [lead EXCEPT ![worker[w].cur] = "UNSUBSCRIBED"]}
          /\ Goto(w, NextLead(w))
       \/ /\ status = "DELETED"
          /\ Goto(w, "unwinding")
          /\ UNCHANGED lead
    /\ UNCHANGED <<status, sentCount, seq, task, call, tick, obsVars, faults>>

(* ... or the gateway's answer is lost or too late: DELIVERY_UNCONFIRMED *)
SendUnconfirmed(w) ==
    /\ faults < MaxFaults
    /\ At(w, "send")
    /\ faults' = faults + 1
    /\ Adrift(InHand(w))
    /\ Goto(w, IF status = "DELETED" THEN "unwinding" ELSE NextLead(w))
    /\ UNCHANGED <<dbVars, task, call, tick, sent, total, launches, halted, replied>>

(* The gateway sends a message nobody waits for any more, or fails to. *)
SendLate(l, k) ==
    /\ late[l][k] > 0
    /\ late' = [late EXCEPT ![l][k] = @ - 1]
    /\ Out(l, k) \/ UNCHANGED <<sent, total>>
    /\ UNCHANGED <<dbVars, taskVars, launches, halted, replied, faults>>

(* A message that went out is recorded.  A lead loaded as CONTACTED is not *)
(* written.                                                                *)
Recorded(w, next) ==
    IF status = "DELETED" THEN Goto(w, "unwinding") /\ UNCHANGED <<lead, sentCount>>
    ELSE /\ lead' = [lead EXCEPT ![worker[w].cur] = IF worker[w].cur \in worker[w].old
                                                    THEN @ ELSE "CONTACTED"]
         /\ sentCount' = worker[w].count + 1
         /\ worker' = [worker EXCEPT ![w].count = @ + 1, ![w].pc = next]

Record(w) ==
    /\ At(w, "record")
    /\ Recorded(w, IF Steps > 1 THEN "track" ELSE NextLead(w))
    /\ UNCHANGED <<status, seq, task, call, tick, obsVars, faults>>

(* An exception after the assignments: the handler's own commit writes them, *)
(* and the message counts as failed.                                         *)
RecordFails(w) ==
    /\ faults < MaxFaults
    /\ At(w, "record")
    /\ faults' = faults + 1
    /\ Recorded(w, NextLead(w))
    /\ UNCHANGED <<status, seq, task, call, tick, obsVars>>

(* The lead's row in the sequence, new or started over *)
Track(w) ==
    /\ At(w, "track")
    /\ IF status = "DELETED" THEN Goto(w, "unwinding") /\ UNCHANGED seq
       ELSE /\ seq' = [seq EXCEPT ![worker[w].cur] = [status |-> "ACTIVE", step |-> 1, due |-> FALSE]]
            /\ Goto(w, NextLead(w))
    /\ UNCHANGED <<status, sentCount, lead, task, call, tick, obsVars, faults>>

(* After the last lead: COMPLETED, unless the status has changed or follow-ups *)
(* are due                                                                     *)
Close(w) ==
    /\ At(w, "closing")
    /\ IF status = "ACTIVE"
       THEN Goto(w, IF Steps > 1 THEN "counting" ELSE "finishing") /\ UNCHANGED task
       ELSE End(w)
    /\ UNCHANGED <<dbVars, call, tick, obsVars, faults>>

CountFollowups(w) ==
    /\ At(w, "counting")
    /\ IF \E l \in Leads : seq[l].status = "ACTIVE" THEN End(w)
       ELSE Goto(w, "finishing") /\ UNCHANGED task
    /\ UNCHANGED <<dbVars, call, tick, obsVars, faults>>

Finish(w) ==
    /\ At(w, "finishing")
    /\ Commit(w, "COMPLETED", End(w))
    /\ UNCHANGED <<sentCount, lead, seq, call, tick, obsVars, faults>>

(* An exception anywhere in the body is handled like a cancellation: a new   *)
(* session reads the status and parks the campaign if it is ACTIVE.          *)
Break(w) ==
    /\ faults < MaxFaults
    /\ Alive(w) /\ ~At(w, "spawned")
    /\ faults' = faults + 1
    /\ Goto(w, "unwinding")
    /\ \E S \in SUBSET InHand(w) : Adrift(S)
    /\ UNCHANGED <<dbVars, task, call, tick, sent, total, launches, halted, replied>>

(* Mutant: the cancelled worker leaves the status as it finds it. *)
UnwindSilently(w) ==
    /\ At(w, "unwinding")
    /\ End(w)
    /\ UNCHANGED <<dbVars, call, tick, obsVars, faults>>

Unwind(w) ==
    /\ At(w, "unwinding")
    /\ IF status = "ACTIVE" THEN Goto(w, "parking") /\ UNCHANGED task ELSE End(w)
    /\ UNCHANGED <<dbVars, call, tick, obsVars, faults>>

Park(w) ==
    /\ At(w, "parking")
    /\ status' = IF status = "DELETED" THEN status ELSE "PAUSED"
    /\ End(w)
    /\ UNCHANGED <<sentCount, lead, seq, call, tick, obsVars, faults>>

Work(w) ==
    \/ Begin(w) \/ ParkItself(w) \/ Activate(w) \/ Target(w) \/ Poll(w) \/ Send(w) \/ Decline(w)
    \/ Record(w) \/ Track(w) \/ Close(w) \/ CountFollowups(w) \/ Finish(w) \/ Unwind(w) \/ Park(w)

-----------------------------------------------------------------------------
(* The follow-up scheduler: process_due_sequence_followups *)

Elapse(l) ==
    /\ seq[l].status = "ACTIVE" /\ ~seq[l].due
    /\ seq' = [seq EXCEPT ![l].due = TRUE]
    /\ UNCHANGED <<status, sentCount, lead, taskVars, obsVars, faults>>

DueRows == {r \in Rows : /\ seq[r.lead].status = "ACTIVE"
                         /\ seq[r.lead].due
                         /\ seq[r.lead].step = r.step}

Fetch ==
    /\ tick.pc = "idle"
    /\ DueRows # {}
    /\ tick' = [NoTick EXCEPT !.pc = "rows", !.rows = DueRows]
    /\ UNCHANGED <<dbVars, worker, task, call, obsVars, faults>>

(* The rows that are due are another campaign's; the check behind the batch *)
(* looks at this one all the same.                                          *)
FetchOthers ==
    /\ tick.pc = "idle"
    /\ DueRows = {}
    /\ tick' = [NoTick EXCEPT !.pc = "rows"]
    /\ UNCHANGED <<dbVars, worker, task, call, obsVars, faults>>

(* One row of the batch.  The campaign is read for the first row only. *)
Visit(r) ==
    LET mem   == IF tick.mem = "NONE" THEN status ELSE tick.mem
        count == IF tick.mem = "NONE" THEN sentCount ELSE tick.count
        seen  == [tick EXCEPT !.mem = mem, !.count = count, !.rows = @ \ {r}]
    IN
    /\ tick.pc = "rows"
    /\ r \in tick.rows
    /\ \/ /\ tick' = seen      \* not ACTIVE, outside working hours, or no line
          /\ UNCHANGED seq
       \/ /\ mem = "ACTIVE"
          /\ lead[r.lead] = "REPLIED"
          /\ IF status = "DELETED" THEN tick' = NoTick /\ UNCHANGED seq
             ELSE /\ tick' = seen
                  /\ seq' = [seq EXCEPT ![r.lead].status = "STOPPED_ON_REPLY", ![r.lead].due = FALSE]
       \/ /\ mem = "ACTIVE"      \* ineligible, unsubscribed, blacklisted, media refused
          /\ IF status = "DELETED" THEN tick' = NoTick /\ UNCHANGED seq
             ELSE /\ tick' = seen
                  /\ seq' = [seq EXCEPT ![r.lead].status = "FAILED", ![r.lead].due = FALSE]
       \/ /\ mem = "ACTIVE"
          /\ lead[r.lead] \notin {"REPLIED", "UNSUBSCRIBED"}
          /\ tick' = [seen EXCEPT !.pc = "send", !.cur = r.lead, !.step = r.step]
          /\ UNCHANGED seq
    /\ UNCHANGED <<status, sentCount, lead, worker, task, call, obsVars, faults>>

SendFollowup ==
    /\ tick.pc = "send"
    /\ \/ /\ Out(tick.cur, tick.step + 1)
          /\ tick' = [tick EXCEPT !.pc = "record"]
          /\ UNCHANGED <<late, faults>>
       \/ /\ tick' = [tick EXCEPT !.pc = "rows"]   \* refused: due again next time
          /\ UNCHANGED <<sent, total, late, faults>>
       \/ /\ faults < MaxFaults                    \* the answer is lost
          /\ faults' = faults + 1
          /\ Adrift(InHandOfTick)
          /\ tick' = [tick EXCEPT !.pc = "rows"]
          /\ UNCHANGED <<sent, total>>
    /\ UNCHANGED <<dbVars, worker, task, call, launches, halted, replied>>

(* Mutant: the status is written back with the step. *)
RecordAndReopen ==
    /\ tick.pc = "record"
    /\ LET done == tick.step + 1 IN
       seq' = [seq EXCEPT ![tick.cur] =
                 [status |-> IF done < Steps THEN "ACTIVE" ELSE "COMPLETED", step |-> done, due |-> FALSE]]
    /\ sentCount' = tick.count + 1
    /\ tick' = [tick EXCEPT !.pc = "rows", !.count = @ + 1]
    /\ UNCHANGED <<status, lead, worker, task, call, obsVars, faults>>

(* The status column is written only when it changes from ACTIVE, the value *)
(* the row was loaded with.                                                 *)
RecordFollowup ==
    /\ tick.pc = "record"
    /\ IF status = "DELETED" THEN tick' = NoTick /\ UNCHANGED <<seq, sentCount>>
       ELSE LET done == tick.step + 1 IN
            /\ seq' = [seq EXCEPT ![tick.cur] =
                   [status |-> IF done < Steps THEN @.status ELSE "COMPLETED",
                    step |-> done, due |-> FALSE]]
            /\ sentCount' = tick.count + 1
            /\ tick' = [tick EXCEPT !.pc = "rows", !.count = @ + 1]
    /\ UNCHANGED <<status, lead, worker, task, call, obsVars, faults>>

(* "Check if all sequence leads for active campaigns are completed" *)
CountActive ==
    /\ tick.pc = "rows"
    /\ tick.rows = {}
    /\ tick' = IF Steps > 1 /\ status = "ACTIVE" /\ \A l \in Leads : seq[l].status # "ACTIVE"
               THEN [tick EXCEPT !.pc = "complete"] ELSE NoTick
    /\ UNCHANGED <<dbVars, worker, task, call, obsVars, faults>>

CompleteCampaign ==
    /\ tick.pc = "complete"
    /\ status' = IF status = "DELETED" \/ tick.mem = "COMPLETED" THEN status ELSE "COMPLETED"
    /\ tick' = NoTick
    /\ UNCHANGED <<sentCount, lead, seq, worker, task, call, obsVars, faults>>

(* An exception ends the batch; campaign_scheduler_loop goes on with the next. *)
BreakTick ==
    /\ faults < MaxFaults
    /\ tick.pc # "idle"
    /\ faults' = faults + 1
    /\ tick' = NoTick
    /\ \E S \in SUBSET InHandOfTick : Adrift(S)
    /\ UNCHANGED <<dbVars, worker, task, call, sent, total, launches, halted, replied>>

Tick == Fetch \/ (\E r \in Rows : Visit(r)) \/ SendFollowup \/ RecordFollowup \/ CountActive \/ CompleteCampaign

-----------------------------------------------------------------------------
(* The recipient writes back, the user stops a lead, the process restarts *)

Reply(l) ==
    /\ replied' = replied \cup {l}
    /\ lead' = [lead EXCEPT ![l] = IF @ = "UNSUBSCRIBED" THEN @ ELSE "REPLIED"]
    /\ seq' = IF seq[l].status = "ACTIVE"
              THEN [seq EXCEPT ![l].status = "STOPPED_ON_REPLY", ![l].due = FALSE] ELSE seq
    /\ UNCHANGED <<status, sentCount, taskVars, sent, total, late, launches, halted, faults>>

StopLead(l) ==
    /\ seq[l].status # "NONE"
    /\ seq' = [seq EXCEPT ![l].status = "STOPPED_MANUAL", ![l].due = FALSE]
    /\ UNCHANGED <<status, sentCount, lead, taskVars, obsVars, faults>>

(* The process dies; the next one parks every ACTIVE campaign before it *)
(* serves requests (recover_stuck_jobs).                                *)
Restart ==
    /\ faults < MaxFaults
    /\ faults' = faults + 1
    /\ worker' = [w \in Workers |-> NoTask]
    /\ task' = NoWorker
    /\ call' = [c \in Calls |-> NoCall]
    /\ tick' = NoTick
    /\ status' = IF status = "ACTIVE" THEN "PAUSED" ELSE status
    /\ \E S \in SUBSET (InHandOfTick \cup UNION {InHand(w) : w \in Workers}) : Adrift(S)
    /\ UNCHANGED <<sentCount, lead, seq, sent, total, launches, halted, replied>>

Resume(c) ==
    \/ Claim(c) \/ Spawn(c) \/ PauseCommits(c) \/ PauseCancels(c)
    \/ Schedule(c) \/ Delete(c) \/ Unscheduled(c)

Next ==
    \/ \E c \in Calls : Launch(c) \/ Pause(c) \/ CancelFirst(c) \/ Unschedule(c) \/ Resume(c)
    \/ \E w \in Workers : Work(w) \/ SendUnconfirmed(w) \/ RecordFails(w) \/ Break(w)
    \/ \E l \in Leads : Elapse(l) \/ Reply(l) \/ StopLead(l)
    \/ \E l \in Leads, k \in 1..Steps : SendLate(l, k)
    \/ Tick \/ FetchOthers \/ BreakTick \/ Restart

Spec == Init /\ [][Next]_vars

(* The event loop runs every task that is ready: a request that has begun is *)
(* finished, a worker goes on.                                               *)
Fairness ==
    /\ \A c \in Calls : WF_vars(Resume(c))
    /\ \A w \in Workers : WF_vars(Work(w))
    /\ WF_vars(Tick)
    /\ \A l \in Leads : WF_vars(Elapse(l))

FairSpec == Spec /\ Fairness

-----------------------------------------------------------------------------
(* Properties *)

(* "No counter is bumped for a send that never happened": sent_count, written *)
(* from copies of the row that two tasks hold at the same time, may fall      *)
(* behind the messages that went out and never runs ahead of them.            *)
CountIsTruthful == sentCount <= total

(* A follow-up never overtakes the step before it, whatever is paused,        *)
(* stopped, resumed or retried in between.                                    *)
FollowupsInOrder ==
    \A l \in Leads : \A k \in 2..Steps : sent[l][k] > 0 => sent[l][k-1] > 0

(* While requests come one at a time and nothing fails, no follow-up of a     *)
(* campaign to NEW leads is sent twice: pausing and launching again repeats   *)
(* no step after the first.                                                   *)
FollowupOnce == faults = 0 => \A l \in Leads : \A k \in 2..Steps : sent[l][k] <= 1

(* Only a worker that has just sent the first message again reopens a lead's  *)
(* sequence; a follow-up in flight when the lead is stopped does not.         *)
StoppedStaysStopped ==
    [][\A l \in Leads : seq[l].status \in Stopped /\ seq'[l].status = "ACTIVE"
          => \E w \in Workers : At(w, "track") /\ worker[w].cur = l]_vars

(* While requests come one at a time, the registry knows the one worker there *)
(* is, also while it unwinds: a second launch is refused until it is gone.    *)
WorkerIsRegistered == \A w \in Workers : worker[w].pc # "none" => task = w

(* While requests come one at a time, a campaign without follow-ups hands     *)
(* nothing to the gateway between the answer to a pause and the next launch:  *)
(* what still goes out is the message the gateway had when its worker was     *)
(* cancelled.                                                                 *)
HandedOver(l, k) == sent[l][k] + late[l][k]

PauseStartsNothing ==
    [][halted => \A l \in Leads : \A k \in 1..Steps : HandedOver(l, k)' <= HandedOver(l, k)]_vars

(* While requests come one at a time and nothing fails, an ACTIVE campaign    *)
(* without follow-ups has a worker, or the request that is about to start or  *)
(* to end it: no cancelled or finished worker leaves the status behind.       *)
ActiveHasWorker ==
    faults = 0 /\ status = "ACTIVE" =>
        Running \/ \E c \in Calls : call[c].pc \in {"spawn", "schedule", "delete"}

(* A campaign without follow-ups does not stay ACTIVE: its worker completes   *)
(* or parks it, however it is paused, scheduled, deleted or launched again.   *)
ActiveEnds == status = "ACTIVE" ~> status # "ACTIVE"

(* campaign_runner.py: "exactly one worker owns a campaign" *)
ExactlyOneWorker == Cardinality({w \in Workers : Alive(w)}) <= 1

(* process_due_sequence_followups: "Lead status (if replied, opt-out,         *)
(* blacklisted -> auto-stop)".  No follow-up is chosen for a lead that has    *)
(* written back.                                                              *)
RepliedIsStopped ==
    [][\A l \in replied : ~(tick.pc = "rows" /\ tick'.pc = "send" /\ tick'.cur = l)]_vars

(* campaign_runner.py: "never leave a campaign stuck ACTIVE" *)
NotStuckActive ==
    status = "ACTIVE" /\ ~Running /\ (\A l \in Leads : seq[l].status # "ACTIVE")
        ~> \/ status # "ACTIVE"
           \/ Running
           \/ \E l \in Leads : seq[l].status = "ACTIVE"
=============================================================================
