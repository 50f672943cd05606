# Tezlify: formal models

Tezlify is an outreach CRM. A Node.js *gateway* (`src/whatsapp-gateway`) keeps
the WhatsApp sockets, a Python *backend* (`src/backend`, FastAPI on one asyncio
loop) keeps the database and runs campaigns, and a React frontend shows both.
This directory holds TLA+ models of the parts in which order, failure and
concurrency decide whether the program is right, TLC configurations for small
instances, and proofs for all instances.

Source paths below are relative to the repository (`src/` in `PROJECT.json`).

## 1. Inventory

| component | state | operations | interacts with | what is hard | what makes it correct | here |
|---|---|---|---|---|---|---|
| event outbox, `whatsapp-gateway/src/outbox/postgres-event-outbox.js` | a row per event: state, attempts, sequence, `next_attempt_at` | enqueue, claimPending, acknowledge, reject, requeueInflight, cleanup | event bridge | a claim outliving its socket; answers to several copies of one row | a DELIVERED row was persisted by the backend; every row ends | `EventOutbox` |
| event bridge, `events.js` | socket, `pumpRunning`, fallback buffer, pairing buffers | publish, pump, connect, answer handler | outbox, backend socket | the socket changes during an await; the outbox write fails | nothing is forgotten silently | `EventRelay`; pairing buffer not modelled |
| ingest, `main.py` WebSocket endpoint, `orchestration/events.py` | per-connection queue and worker, `processed_events`, recent set, held (orphan) events, deferred status ACKs | receive, duplicate check, handler, commit, replay, broadcast, ACK/NACK, drain | outbox rows, database, browser hub | two workers after a reconnect; crash between commit and ACK; unique-index race | at least once, one effect unless two workers had the event, recorded implies done, never broadcast uncommitted | `EventRelay`; outbound statuses in `OutboundMessage` |
| campaign runner, `campaign_runner.py`, `outreach_manager.py`, `endpoints/campaigns.py` | campaign status and counters, sequence rows, lead status, `active_campaign_tasks` | launch, pause, schedule, unschedule, delete, worker, follow-up tick, auto-stop, restart recovery | gateway (send), ingest (reply) | copies of rows kept over awaits; cancel during unwind; claim before register | one worker, nothing started after a pause, each follow-up once and in order, never stuck ACTIVE | `CampaignRunner` |
| socket lease, `lease/*.js`, `domain/socket-lifecycle.js` | a lease row, renewal and retry timers, generation | acquire, renew, release, beginAttempt, invalidate | session manager | two gateway processes; superseded attempts that release; expiry | one owner of the socket; a lost lease is noticed; a standby takes over | `SocketLease` |
| session manager, `session-manager.js`, `socket/*.js` | sessions, generations, reconnect timers, pairing buffers | start, connect, refresh, log out, delete, promote | lease, bridge | superseded attempts; promotion during traffic | a stopped session stays stopped; a stale attempt changes nothing | `SocketLease`; promotion planned |
| LID and pending LID messages, `lid/*.js`, `session-manager.js` | mappings, held rows, in-memory records, retry queue, claims | hold, migrate, release, retry, delete when durable | bridge | release racing the mapping and a live delivery; failed INSERT | a row is deleted only once its event is in the outbox; a held message is not lost | `PendingLid` |
| auth store, `auth/*.js` | credentials and keys | serialised writes, load | session manager | write order, crash between writes | the last write wins | planned |
| pairing registry and promotion, `orchestration/pairing_registry.py`, `promotion.py` | pairing rows, session rows | pair, promote, relink | ingest | events of a session that is not durable yet | one durable session per number | planned |
| history and contact sync, `orchestration/sync.py` | jobs per session and user | start, coalesce, finish | gateway | coalescing, cancellation | one job at a time, none lost | planned |
| outbound messages, `orchestration/messaging.py`, `status_policy.py`, send and ack paths of `session-manager.js` | message row, gateway records, deferred statuses | send, retry, confirm, reject, ack, echo, time out | gateway, status events, provider | timeout against a late answer; two requests; key change when a number is learned | no tick for a message that was not accepted; one record; status never moves back; nothing stays PENDING | `OutboundMessage` |
| identity, preview, unread, `whatsapp/*.py` | conversations | reconcile, merge | ingest | merge order | nothing lost in a merge | planned in part |
| quota and warm-up | counters per day and line | check, count, level up | campaign | day boundary, stale counts | limits hold | planned; `CampaignRunner` sees only the verdict |
| task queue | task rows | claim, retry, recover | workers | stranded tasks | each task ends | planned |
| scraping, matching, billing, admin, browser hub, frontend views, media | request-local or heuristic | - | - | - | - | not modelled |

`PROJECT.json` lists every component with its status, and under `hazards` the
places in the code where things are hard to test, with the properties that
cover them or the reason why none does yet.

## 2. Modules

| module | role |
|---|---|
| `EventOutbox` | the outbox table and its methods; one action each, usable from another module |
| `EventRelay` | composes `EventOutbox` with the bridge, the connections, the ingest workers and the database |
| `DurableDelivery` | the abstract promise: a row is done only when its event is settled |
| `MCEventRelay` | model values and symmetry for TLC |
| `EventRelayProofs` | theorems about `EventRelay` |
| `CampaignRunner` | one campaign: requests, worker, follow-up scheduler, replies, restart |
| `MCCampaign` | model values and symmetry for TLC |
| `CampaignProofs`, `CampaignFollowupProofs` | theorems about `CampaignRunner`; the second one about its follow-ups |
| `SocketLease` | one session, its lease row and the gateway processes that compete for its socket |
| `PendingLid` | the messages of one sender whose phone number is not known yet |
| `OutboundMessage` | one message the user sends: backend row, gateway record, events, provider |
| `MCSocketLease`, `MCPendingLid`, `MCOutbound` | model values and symmetry for TLC |
| `SocketLeaseProofs`, `PendingLidProofs` | theorems about the first two |
| `OutboundProofs`, `OutboundSettlingProofs` | theorems about `OutboundMessage`: what the user is shown; types, records and settling |

`EventRelay` composes the outbox with bridge and ingest. The last three modules
rest on it: the events of `PendingLid` end in the outbox, those of
`OutboundMessage` reach the backend in order and once, and what happens when
they do not is `EventRelay`'s subject.

### EventRelay

A *slot* is one WebSocket connection with the queue and the worker the backend
gives it: `open`, then `draining` (the socket is gone, the worker has at most
five seconds to finish), then `free`. Two slots are enough for the overlap that
a reconnect causes. The code is cut where it awaits something another task or
process can change:

* `publish` is `Emit` (fire and forget) and `WriteRow`, `WriteFails` or
  `WriteOrphaned` (the INSERT done, failed, or refused by the foreign key);
* `pumpOutbox` is `PumpClaim` and `PumpSend`: the socket that gets the frames is
  the one that is open *after* the claim;
* `ingest_gateway_event` is `Take` (duplicate check), then `Commit` for handlers
  that leave the commit to the caller, `CommitEffect` and `RecordProcessed` for
  those that commit by themselves (`TwoStep`), `Skip`, `Hold`, `RecoverLostRace`
  (a unique-index violation), `Fail` or `Raise`, then the replay of the held
  events and `Respond`;
* `_drain_orphan_queue` is `DrainStart`, `DrainTake`, `DrainReturn` and `DrainEnd`:
  each held event goes through `ingest_gateway_event` again, one at a time, while
  other workers go on; a second drain that meets one in flight does nothing;
* `Disconnect`, `DrainDone`, `DrainTimeout`, `BackendCrash`, `GatewayCrash` end
  things. The database and the outbox survive crashes, nothing else does.

What a handler writes is reduced to `applied[e]`, the number of times the
effect of event `e` was committed (two stands for more). `Keyed` events are
messages: a second application finds the row of the first by its provider id, or
meets the unique index; both look in one conversation only, so the chat may have
moved to another key in between (the fault "moved") and the row is stored again.
A message's handler can be in `TwoStep` too. `raced` is a history variable:
events two workers had in hand at a time, or whose record was swept.

`unreadable` rows were written under an encryption key the gateway no longer has
(the fault "rekey" of a restart). `claimPending` claims and then throws, so the
rows claimed with one stay `IN_FLIGHT` and are claimed together again later.

### CampaignRunner

The backend is one event loop, so a step is everything between two awaits that
another task can observe. Every task has its own database session with
`expire_on_commit` off: the model keeps the copy of the campaign row that the
worker, the follow-up scheduler and each request hold (`mem`, `count`), and a
write of the value a copy already has writes nothing, as the ORM does.

* requests: `Launch`, `Claim`, `Spawn`; `Pause`, `PauseCommits`, `PauseCancels`;
  `CancelFirst` then `Schedule` or `Delete`; `Unschedule`, `Unscheduled`;
* the worker `_execute_campaign_worker`: `Begin`, `Activate`, `Target`, then per
  lead `Poll`, `Send` / `Decline` / `SendUnconfirmed`, `Record` / `RecordFails`,
  `Track`; then `Close`, `CountFollowups`, `Finish`; `ParkItself` when a limit is
  met; `Break` (an exception) or `CancelTask` lead to `Unwind` and `Park`;
* `process_due_sequence_followups`: `Fetch`, `Visit`, `SendFollowup`,
  `RecordFollowup`, `CountActive`, `CompleteCampaign`, `BreakTick`;
* `Reply` (inbound auto-stop), `StopLead`, `Elapse` (a step becomes due),
  `Restart` (the process dies, `recover_stuck_jobs` parks ACTIVE campaigns).

A worker or the scheduler waits for the gateway in phase `send`. Cancelling it
closes the HTTP request, which the gateway does not notice: what had been handed
over is counted in `late` and goes out at any later time, unrecorded
(`SendLate`). The same happens when an answer is lost or the process restarts.
The completion check behind a batch runs over every ACTIVE campaign, so another
campaign's due row is enough to reach it (`FetchOthers`).

A deleted campaign keeps its in-flight tasks: their next commit raises, which
the model turns into the unwinding of the worker or the end of the tick.

### SocketLease

An instance is one run of a gateway process, with a random id; a restarted
gateway is another one. `pending[i]` holds the awaits of process `i` that have
not returned: `acquire` and `create` (the two of `_connectSocket`), the
`releaseLease` of an aborted attempt, of `refreshQr`, logout, delete, close and
shutdown, `renew`, the registration of `refreshQr` (`register`), the steps of a
logout after its release (`provider`, `clear`, `inactive`), and the start-retry
timer (`again`). The statement and the code after it are one action (`Acquire`,
`Attach`, `Aborted`, `RefreshRegistered`, `RefreshReleased`, `LogoutDone`, ...); the code before it belongs to
the action that created the await. The timers are `RetryFires` (the row was
taken), `StartAgain` (the store failed), `Reconnect` and `RenewTick`. A
generation is a number that only has to differ from the ones in use, so a small
set of them is reused. A `DELETE` or a renewal may fail, creation,
acquisition and registration too; `Expire` is time passing `expires_at`. How often
what may fail or be asked is the constant operator `Bound`, which gets the process,
the kind and the bag of what has happened so far (`happened`).

`OneOwner` names its two exceptions instead of assuming them away: `lapsed` (the
row of a running process ran out) and `overlapped` (a process began an attempt
while another statement of the session was under way). So does
`TakeoverAfterCrash` (`Retried`, and section 5). `OneSocketPerSession`
without exceptions is what the design document promises and `lease_overlap`
refutes.

### PendingLid

A job is one message on its way through `_ingestUpsertMessage`, from a live
delivery or from the release sweep, waiting at one of the function's awaits:
the INSERT of its row (`Persisted`), the media download (`Stored`), the outbox
INSERT (`Emitted`), the DELETE of the row (`Marked`). `Learn` is
`_applyLidMapping`, which migrates the in-memory records without a row and
triggers the sweep; `List`, `ReleaseRow` and `SweepEnds` are
`_releasePendingLidMessages`, where the rows a sweep reads may lack those that cannot
be decrypted; `FlushStarts`, `Retry` and `Retried` its retry queue, whose timer is
free again while a flush awaits, so that flushes overlap (`flush` is what all of
them have still to look at); `ClaimExpires` the one-minute timer of a claim. The history variables
`kept`, `held`, `dropped`, `owed` only record what happened.

### OutboundMessage

`Submit`, `Insert`, `Claim`, `Poll`, `GiveUp`, `Answered` and `Failed` are
`send_text_message` of the backend, cut at its awaits: what it reads and what
it writes are different steps, and the UPDATE writes only changed columns
(`Written`, `Changed`). The calls are of different processes. `Called`,
`Transcoded`, `Record`, `Confirm` and `Reject` are the gateway's send, `Ack` and
`Echo` what the provider reports, `EchoAwaits` and `EchoStored` an echo whose media
is downloaded between the lookup of the record and the new one (`echoes`), `Learn` the move of the chat from its LID to
its number, which changes the id that is hashed from the chat key. `ReadEvent`
and `WriteEvent` are the ingest of `message_new` and `message_status_updated`,
with the deferred statuses in `early`. `Reach` and `Progress` are the provider
and are the only external actions of the project. `crashed` (the gateway died
and forgot its records), `learned` (the number was learned during the run) and
`overtaken` (a retry's `Claim` fell between the read and the write of an event or
an answer) are history variables that no guard reads; `Settles` names them.

## 3. Runs

`CHECK_DEADLOCK FALSE` throughout: every one of these systems comes to rest when
its events are delivered, its campaign is done or its requests are answered.

| run | instance | what it shows |
|---|---|---|
| `relay_overlap` | one message event that may be emitted again under its own id, two connections, two disconnects, crashes, database errors, moved chats, retention sweeps, handlers that may fail, hold or drop the event at any time | `TypeOK`; an ACK is decided only for settled events (`AckedIsSettled`); `RecordedIsSettled`; `BroadcastIsPersisted`; `OneEffectUnlessRaced`; `DeliveredIsFinal` |
| `relay_refines` | a message and a self-committing event in two rows, one connection at a time, batches of up to two, one gateway restart (with another encryption key or not), refusals without end, fair timers | `ImplementsDurableDelivery`, `EventuallyFinal` |
| `campaign_requests` | two leads, no follow-ups, two launches of a group campaign, requests one at a time | `TypeOK`, `WorkerIsRegistered`, `ActiveHasWorker`, `PauseStartsNothing`, `ActiveEnds` |
| `campaign_drip` | one lead, three steps, two launches, a crash, exception or lost answer anywhere | `FollowupOnce` (of a campaign to NEW leads, on the behaviours without a fault), `CountIsTruthful`, `FollowupsInOrder`, `StoppedStaysStopped` |
| `lease_takeover` | two processes, six generations, one failure or expiry and one request at any moment, and a second one of each around the shutdown of the owner (`Mixed`) | `TypeOK`, `OneOwner`, `StoppedStaysStopped`, `LostLeaseIsNoticed`, `TakeoverAfterCrash` |
| `lid_pending` | two messages, one with media, three deliveries, one failed statement, expired claim, restart or sweep that cannot read some rows | `LidTypeOK`, `RowUntilStored`, `HeldIsKept`, `TriggerReachesRows` |
| `outbound` | two requests for one message, one timeout, error or restart, two events under way, one media echo at a time, the number known from the start or learned | `OutTypeOK`, `SentIsAccepted`, `OneRecord`, `Settles`, `RecordNeverBack` |
| `relay_fallback`, `campaign_workers`, `lease_overlap`, `lid_retry`, `outbound_retry` | the smallest instances that show it, the last three those of the passing run | what a comment or document says and the code does not do (section 5) |

**Bounds.** `MaxAttempts` is 10 in the code and 2 here, since only "reached or
not" is asked; `BatchSize` 50 is 1 or 2. Two connections are the most that overlap
while a drain lasts; a third would need a second disconnect within five seconds and
adds another worker of the same kind, which the proofs cover. `MaxSeq` is 3, so two
rows are inserted: in `relay_refines` those of the two events, which are claimed
together, one readable and one not, one message and one that commits by itself; in
`relay_overlap` a row and, after a retention sweep of an event that is emitted
again, its second one. `relay_refines` has one connection slot and no disconnect but
that of a restart, because its two rows and its fairness fill a run; overlapping
workers with two events are left to the theorems. `MaxFaults` bounds disconnects,
crashes, moved chats, database errors and permanent refusals; an exception in a
handler, an owner that is not known yet and a dropped event are not counted and can
happen every time. `InboxBound` and `ReplyBound` bound frames under way. Two failures
in `relay_overlap` let one hit the recovery from another.

In the campaign two leads are enough for a batch in which one lead is handled
while the other waits, two workers for a worker and its successor, three steps
for a step that is neither first nor last, and two launches for a campaign that
is resumed; the sequence of one lead does not read that of another, so
`campaign_drip` has one.

Two processes are an owner and a standby; one request and one failure
(`OneOfEach`) reach every pair of "an await is under way" and "something else
happens", and the safety results are proved for any number. A standby that never
starts needs more: `Standbys` adds a second failure and request where one process
has the owner's shutdown behind or before it, which is where the three exceptions of
`TakeoverAfterCrash` come from; all pairs of two would exceed the time of a run. Six generations are
never exhausted at these bounds: an action that needs a fresh one and finds none
would be disabled, and eight give the same states. One LID has no effect on
another but through the sweep, which serves all of them alike; a second message
lets a sweep be busy with one row while another changes. Two requests are a
request and its retry or competitor. In `outbound` one failure is enough for a
retry, and `MaxQueue` delays an event past any other step; one echo is downloaded
at a time, and none once the number was learned on the way (`Downloads`), since
nothing but types and `SentIsAccepted` is promised then; a second failure
exceeds the time of a run. Two calls and one failure do not reach `overtaken`:
that takes three calls and three failures, and was met while `Settles` was
proved, for any number of both.

**Fairness.** Relay: `Connect`, `RequeueOnOpen`, `PumpClaim`, `PumpSend` and the
end of a claim's lease are driven by timers that are armed again after every
run (`events.js` 171-175, 400-408); a worker that is not cancelled goes on, and a
drain ends by itself or after five seconds (`main.py` 843-850). Campaign: asyncio
runs every ready task, so a begun request, a worker and the scheduler go on;
requests, replies and stops need not come. Lease: queries return or fail, the
renewal and retry timers fire, and the row of a dead process runs out. LID:
statements and downloads return and the sweep goes on. Failures are never fair.

## 4. Proofs

`EventRelayProofs` proves, for every set of events and connections and every
bound, from `OutboxAssumption` and `RelayAssumption` alone:

| theorem | result |
|---|---|
| `TypeCorrect` | `Spec => []TypeOK` |
| `AckedSafe`, `RecordedSafe`, `BroadcastSafe` | the invariants of `relay_overlap` |
| `OneEffect` | `Spec => []OneEffectUnlessRaced` |
| `Delivered` | `Spec => DeliveredIsFinal` |
| `Refinement` | `Spec => ImplementsDurableDelivery` |

*Why an inductive invariant.* `AckedIsSettled` speaks of the outbox row, of
answers under way and of workers that have decided on an ACK. None of the three
is inductive alone: a row becomes DELIVERED because of an answer, an answer is
written because of a worker's phase, and that phase comes from a commit or from
the duplicate check. So `Inv` has one part per place the promise passes
through: `RecordedIsSettled` (what the duplicate check believes),
`JobsSettled` (what a worker past its commit has done), `RepliesSettled`
(answers), `RowsSettled` (rows), and `OuterSettled` (the event whose commit started
a replay, which the worker answers after it has handled the held ones). `Discipline` proves `Spec => []Inv`; the others
follow from it. `Settled` only grows, which is why an answer delayed for any time
stays true. For the refinement every action of `EventRelay` maps to one action of
`DurableDelivery` or to a stutter; the two that change a row because of an ACK
need `RepliesSettled`.

`OneEffect` does not rest on the lookup by provider id, which a moved chat defeats.
An event outside `TwoStep` and `raced` is in hand of one worker at a time, and once
its effect is committed it is in `processed`, which only a sweep takes away: so nobody
gets past the duplicate check any more, whether it is delivered or replayed.

`CampaignProofs` proves, for every set of leads, workers and requests, every
number of steps and every bound, from `CampaignAssumption`:

| theorem | result |
|---|---|
| `CampaignTypes` | `Spec => []TypeOK` |
| `CountTruth` | `Spec => []CountIsTruthful` |
| `FollowupOrder` | `Spec => []FollowupsInOrder` |
| `StaysStopped` | `Spec => StoppedStaysStopped` |
| `RegisteredWorker` | `OneRequest => (Spec => []WorkerIsRegistered)` |
| `PauseStopsTheWorker` | `OneRequest`: after an answered pause only a follow-up the scheduler had chosen before is handed to the gateway, until the next launch |
| `PauseLetsNothingStart` | `OneRequest /\ Steps = 1 => (Spec => PauseStartsNothing)` |
| `ActiveIsAttended` | `OneRequest /\ Steps = 1 => (Spec => []ActiveHasWorker)` |

*Inductive invariants.* `Types` adds to the types that a row which is due, or
being followed up, has a step left; without it the scheduler could record a step
past the last one. `CopiesBehind` says that every copy of `sent_count` (the
worker's, the scheduler's) is behind the messages that went out, and strictly
behind while its holder is between the send and the record: that is what makes
`count + 1` truthful although the copy is stale. `StepsGone` says that the step
each row, each fetched row and each worker stands at has gone out.  `OneWorker`
adds to `WorkerIsRegistered` that no worker is registered between the registry
check of a launch and `create_task`, and that after an answered pause every
worker is on its way out. `OneRequest` (at most one request in progress) is an
hypothesis, not a claim about the code: `campaign_workers` shows what happens
without it. What is promised of a pause is about the hand-over (`HandedOver`, what went
out and what the gateway still has): a message handed over before the pause may go
out long after its answer. `Steps = 1` in `PauseLetsNothingStart` is needed because a
follow-up that is already chosen is still sent after a pause, which is what `PauseStopsTheWorker`
says; in `ActiveIsAttended`, because a campaign that waits for follow-ups is ACTIVE
without a worker. For the latter, `Attended` says why each write of a status reaches
the row: a worker that has started holds a copy that says ACTIVE (`CopyFits`), so
the PAUSED or COMPLETED it writes is a change; a pause that was loaded as
PAUSED, or committed before the worker wrote ACTIVE over it, finds a worker to
cancel; and a request that has cancelled has left no worker that could write ACTIVE
before it commits (`WillStop`). It holds while `faults = 0`: section 5 has the
exception that leaves a campaign ACTIVE.

`CampaignFollowupProofs` proves, for the same constants:

| theorem | result |
|---|---|
| `FollowupsAreSentOnce` | `OneRequest /\ ~Targeted => (Spec => []FollowupOnce)` |

*Inductive invariant.* The row of a lead holds the step that went out last; a
follow-up is sent from a copy of it. `Drip` (while `faults = 0`) says that a
follow-up which went out is behind the row's step or about to be recorded there
(`Past`), that what the scheduler has loaded is ahead of it, one row to a
lead (`Ahead`), that a deleted campaign has no row that could be fetched (`Dead`),
and that a lead whose sequence may still be started (NEW, in a worker's list, or
being handled) has no row, is not loaded and got no follow-up (`Untouched`). The last
is what keeps `Track`, which sets the step back to 1, from repeating a sequence, and
it is where `~Targeted` enters: a group campaign launched again goes through all
its leads, and their follow-ups with them. TLC has checked `Drip` for two leads and
three steps.

`SocketLeaseProofs` proves, for every set of processes and generations and every
number of failures and requests, from `LeaseAssumption`:

| theorem | result |
|---|---|
| `TypeCorrect` | `Spec => []TypeOK` |
| `OneOwnerAtATime` | `Spec => []OneOwner` |
| `StoppedSessionStaysStopped` | `Spec => []StoppedStaysStopped` |

*Inductive invariants.* `OneOwner` speaks of two processes; the reason it holds
is local. `LeaseInv` adds, per process, `Sound(i)`: a process that is not up has
nothing open or awaited (`Empty`); one outside `overlapped` has, besides
its current attempt, no acquisition, attempt or release under way (`Alone`), and
beside a live socket none at all (`Quiet`); and if it has a live socket or is
creating one, the row is its own and has not run out, unless it is in `lapsed` (`Owns`).
Two owners would then own the same row. A step of one process disturbs the part
of another only through the row, which a live owner keeps: `Acquire` needs it
expired, a release deletes only its own. For `StoppedStaysStopped`, `StillInv` adds to
`LeaseInv` that a stopped session of a running process is `Resting`: it has no current
socket, and it is either deleted, or inactive with no reconnect armed, no retry
timer of its generation, no refresh awaiting its registration or release and no
attempt of its generation under way. An attempt that was superseded by the logout is still
there; its generation no longer is the session's, so whatever it returns with it
aborts.

`PendingLidProofs`, from `LidAssumption`, for every set of messages:

| theorem | result |
|---|---|
| `LidTypeCorrect` | `LidSpec => []LidTypeOK` |
| `RowsAreKept` | `LidSpec => []RowUntilStored` |
| `HeldMessagesAreKept` | `LidSpec => []HeldIsKept` |

*Inductive invariant.* A row is deleted by a job at `mark`, so such a job's event
must be in the outbox, and so must that of a record called `emitted` (the sweep
goes from it to `mark`). For `HeldIsKept`, a job that will file under the LID
already has a row or a queued retry by the time it does, a queued retry is
removed only with a row or as dropped, and a record that is migrated silently
has one of the others left.

`OutboundProofs` and `OutboundSettlingProofs`, from `OutboundAssumption`, for every
set of requests, number of failures and number of events under way:

| theorem | result |
|---|---|
| `TickIsTrue` | `OutSpec => []SentIsAccepted` |
| `OutTypeCorrect` | `OutSpec => []OutTypeOK` |
| `OneRecordKept` | `OutSpec => []OneRecord` |
| `RecordNeverGoesBack` | `OutSpec => RecordNeverBack` |
| `NothingRestsPending` | `OutSpec => []Settles` |

*Inductive invariants.* Until the provider has accepted some id (`Accepted`),
nothing anywhere says SENT (`NothingSent`): no row, copy in a call, event under
way, deferred status, gateway record, or send that has reached the provider.
Every action that writes such a status gets it from one of these, and `Reach`
makes `Accepted` true for good.

`TypeInv` adds to the types that nothing exists before the row does, and that only
what reached the provider is acked. `OneInv`: until the number is learned every
send, record and id goes by the one key the chat has, and there is at most one
record with the client id and one without, which says SENT and is an echo's; two
calls may pass the check that precedes the transcoding of media, but the second finds
the record of the first under that key. Where both records are there, the first of
the two leads (`Lead`): it is what every confirmation, rejection and ack finds, so
the statuses go on from it. `RecordNeverBack` follows, with the echo's record as its
exception.

`Settles` needs both halves of the system to owe each other something. `RowInv` is
the backend's half: a PENDING row without an id has a call that will send, fail or
answer it (`Tried`); unless a retry has overtaken a read, what is about to be written
over a PENDING row was read from a PENDING one (`InTime`); and no answer says PENDING
(`Answers`). `SettlesInv` is the gateway's half, unless it has restarted or learned
the number: with no record yet, nothing has been sent, reported or filled in
(`Started`); a record that is PENDING still has a send (`Pursued`); events tell what
they should (`AllTold`); the `message_new` of a message is in front of its statuses
(`NewFirst`); and while the row, or an event that has not been applied, says PENDING
with an id, and the record is decided, an event that says so is under way or being applied
(`Reported`). At rest nothing is under way, so the row is not PENDING.

The proof found a flaw in an earlier form of `Settles`, which excluded any
restart but not `overtaken`: restarts of the backend need no exception, and the
overtaking retry does (section 5).

Every invariant and action property that a passing run checks is stated by a
theorem. Model-checked only: liveness (`EventuallyFinal`, `ActiveEnds`,
`LostLeaseIsNoticed`, `TakeoverAfterCrash`, `TriggerReachesRows`), because it
needs fairness and `ENABLED`. Where a theorem has an hypothesis (`OneRequest`,
`Steps = 1`, `~Targeted`) or a property an exception (`faults = 0`, a history variable),
section 5 says what the code does without it.

## 5. Where code and comments differ

With a run, whose counterexample is the scenario:

* **Fallback buffer** (`relay_fallback`). An event whose outbox write failed
  while disconnected goes to the fallback buffer; with an outbox configured the
  reconnect handler does not flush it.
* **Two workers** (`campaign_workers`). A launch claims the row and registers its
  task later; a pause in between reopens the claim, and a second launch gets a
  worker too. With requests one at a time this cannot happen
  (`WorkerIsRegistered`), and a pause in that gap is also answered and lost: the
  bound `Calls = {a1}` of `campaign_requests` is what keeps `PauseStartsNothing`.
* **Two sockets** (`lease_overlap`). A QR refresh supersedes an attempt that is
  awaiting its socket. The superseded attempt then releases by session and
  instance, which deletes the row its successor has acquired meanwhile; another
  process acquires the row, and both have an open, current socket.
* **Dropped retry** (`lid_retry`). The retry of a failed durable write is dropped
  when the mapping is known, because "the RAM migration already emitted this
  message". A mapping learned by history sync migrates silently, and a message
  whose failed INSERT was awaited while the mapping was learned is filed under
  the LID after the migration: nothing published either.
* **Retry that sends nothing** (`outbound_retry`). A FAILED row with a provider id
  is returned without a dispatch. `message_new` and FAILED status events fill that
  id in before the send is confirmed, so the user's retry is answered with the
  same FAILED row, which the gateway's comment on `sendTextMessage` excludes.

Without a run:

* **Order of events.** `_emit` does not wait for `publish`, and the INSERTs race on a
  pool of connections, so a newer event can get the older sequence number and is
  committed first (`WriteRow` of two events in `EventRelay`). The ingest worker is
  "deliberately serial" (`main.py` 681) because the frontend relies on that order.

Stated in `CampaignRunner`, refuted by TLC, without a run of their own:

* **Reply during the first send** (`RepliedIsStopped`). The
  reply is committed as REPLIED, the worker then writes CONTACTED over it from its
  copy and opens the sequence; the follow-up goes out.
* **Stuck ACTIVE** (`NotStuckActive`). The completion check runs only when a row
  is due. If the last sequence ends by a reply or a manual stop no row is ever
  due again, and nothing completes the campaign.

Reachable in the models, and the reason why a property has the exception it has:

* `acknowledge` and `reject` exclude only DELIVERED rows, so a late answer to
  another copy takes a row out of DEAD_LETTER, which a test calls terminal.
  `DurableDelivery` has `Revive` for it.
* A group campaign that is paused and launched again starts at its first lead:
  with `lead_ids` the target query does not ask for NEW.
* The follow-up scheduler completes a campaign whose worker has leads left, when
  no sequence row is ACTIVE at that moment.
* A lead stopped by the user after the batch was fetched still gets that step.
* `ActiveEnds` needs requests one at a time and no exceptions: a worker that is
  cancelled while its exception handler runs leaves the status ACTIVE without a
  worker until the next restart.
* `FollowupOnce` needs answers not to get lost: a follow-up whose answer was lost
  is due again.
* Handlers that commit by themselves can apply an event twice when they fail
  afterwards. So can two workers that took an event before either had committed it,
  since the record of the event is inserted ON CONFLICT DO NOTHING, and any worker
  after the record was swept. A message is then kept single by the lookup of its
  provider id and the unique index, but both are per conversation
  (`models/message.py` 142-158), and a chat that moved from its LID to its number in
  between has another one.
* A row that cannot be decrypted or parsed is claimed for ever, and the rows
  that are claimed with it stay with it (`postgres-event-outbox.js` 189-193);
  `EventuallyFinal` excepts the time while there is one. A held row of
  `lid_pending_messages` that cannot be decrypted is skipped by every sweep.
* A paused campaign still sends what its worker had handed to the gateway: the
  cancellation ends the HTTP request and not `sock.sendMessage`. That message is
  not recorded, and the next launch sends the first message again.
* A logout that completes while `refreshQr` awaits its release is followed by the
  socket the refresh starts (the comment at `session-manager.js` 5745 says an
  invalidated session must not start one). During `shutdown()` a start-retry timer
  can still start a socket.
* A superseded attempt that is told to wait writes RESTORING over the UNAVAILABLE
  that the start-retry timer of the current attempt looks for, and its own retry
  is stale: nothing connects the session again (`TakeoverAfterCrash` excludes
  `overlapped`).
* Nor does anything when the start of a standby fails after a `refreshQr`. The retry
  (`session-manager.js` 5734) asks for `is_active`, which stays false when a session
  that the provider had closed is refreshed, and for UNAVAILABLE, which a refresh
  that then fails to register has overwritten (1040). `TakeoverAfterCrash` excludes
  both.
* Logout releases the row up to ten seconds before it closes the old socket; a
  standby may connect in between, and the logout then clears the credentials that
  standby uses.
* A process that lost its lease stays UNAVAILABLE without a timer that would try
  again.
* A held message can be published twice, once under the id of its row and once
  under a random one, when the retried INSERT races the mapping; a record filed
  under the LID after the mapping waits for the next trigger of the sweep.
* A message does not leave PENDING when its phone number is learned during a
  failing send (`_failOutbound` looks under the old key) or when the gateway dies
  after its `message_new` was ingested (the recovery at the restart asks for rows
  without a provider id): `Settles` excludes both.
* Nor when a retry overtakes an event: an event of the first try has been read
  but not written when the retry's claim resets the row to PENDING without an id;
  the write fills the old id in. The retried send is rejected, but the gateway's
  record is FAILED already, so `_failOutbound` (`session-manager.js` 3883-3886) tells
  nobody, and the failing call leaves a PENDING row with an id alone
  (`messaging.py` 1040). It takes three calls and three failures; `Settles`
  excludes it (`overtaken`).
* A status read, advanced and committed by one backend process can overwrite a
  later one committed meanwhile by another.
* After a lost INSERT race the row is sent again, when found FAILED, without the
  atomic claim that `messaging.py` 900 requires of retries.
* The docstring of `apply_deferred_status` says that FAILED wins even after SENT;
  the code fails only PENDING rows. In the gateway a late confirmation or DELIVERED
  ack overwrites FAILED, so `RecordNeverBack` speaks of confirmed records only.
* An echo with media looks for a record, awaits its download and pushes its own
  (`session-manager.js` 3548, 3669). A retry may have recorded and delivered the
  message meanwhile: that record goes if it has no media, or else stays beside the
  echo's, although the comment there (3655) wants one record per message.
* To a group, an answer of PENDING is written as SENT (`messaging.py` 1063), so a
  retry that finds the gateway's PENDING record shows a tick too early. The model has
  a chat with one person.

## 6. Not modelled

In the modelled components:

* bridge and ingest: the pairing buffer and local clients of the bridge; the
  order, bound and copies of held events (a set here); what the handlers other
  than those of outbound messages write;
* campaign: `PATCH /campaigns`, ARCHIVED, several campaigns at a time and the
  per-line limits (a nondeterministic refusal or self-pause); `failed_count`;
* lease and sockets: ephemeral sessions (they take no lease) and their promotion,
  credentials, the pairing-code loop after its start;
* LID: contacts and chats that move with a mapping, placeholders and content
  upgrades, a disabled or orphaned table, `_clearPendingLidState` on logout;
* outbound: READ, quoted messages, link and chat previews, `forwardMessage`, the
  campaign counters a status event updates, the row that an unmatched
  `message_new` makes.

Other components: see the inventory and the notes in `PROJECT.json`. Scraping,
matching, billing, administration, media and the views are request-local, heuristic
or I/O; locale and location tables are data. They make up most of the lines of the
repository.

## 7. Plan

1. Event relay, campaign runner, socket lease, pending LID messages, outbound
   messages: built, checked and proved as section 4 says.
2. Pairing and promotion of an ephemeral session, with the pairing buffer of the
   bridge, composed with `SocketLease` and `EventOutbox`: order of a session's
   events across the flush, one durable session per number.
3. Held events as a bounded queue with copies and deadlines.
4. Sync jobs, quota and warm-up at day boundaries, task queue, serialised
   credential writes; unread, preview and merge policies as operators checked
   against a reference definition.
5. Proofs: an abstract specification of one outbound message (submitted,
   attempted, settled) and one of a session's socket (at most one holder of the
   row), with `OutboundMessage` and `SocketLease` shown to implement them as
   `EventRelay` implements `DurableDelivery`; `ExactlyOneWorker` with requests one
   at a time.
