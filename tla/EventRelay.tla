----------------------------- MODULE EventRelay -----------------------------
(***************************************************************************)
(* The path of a WhatsApp event from the gateway process to the backend    *)
(* database:                                                               *)
(*                                                                         *)
(*   publish -> event_outbox -> pump -> WebSocket -> per-connection queue  *)
(*     -> one ingest worker per connection -> database -> ACK / NACK       *)
(*                                                                         *)
(* gateway: whatsapp-gateway/src/events.js                                 *)
(* backend: gateway_websocket_endpoint in backend/app/main.py,             *)
(*          ingest_gateway_event in .../orchestration/events.py            *)
(*                                                                         *)
(* A Slot is one WebSocket connection together with the queue and worker   *)
(* the backend gives it.  When the socket closes, the worker goes on with  *)
(* what it had received for at most five seconds; the gateway may have a   *)
(* new connection, hence a second worker, by then.                         *)
(*                                                                         *)
(* ingest_gateway_event is cut at its awaits on the database: the          *)
(* duplicate check (Take), the commit of the handler (Commit, or           *)
(* CommitEffect and RecordProcessed when the handler commits by itself     *)
(* first), the replay of the held events, which calls the same function    *)
(* for each of them (DrainStart .. DrainEnd), the answer (Respond).        *)
(***************************************************************************)
EXTENDS EventOutbox, FiniteSets

CONSTANTS
    Slots,             \* connections that can exist at the same time
    Keyed,             \* message_new events: looked up by wa_message_id
    TwoStep,           \* events whose handler commits before processed_events
    Replayable,        \* events with a deterministic id (pending-LID release)
    Faults,            \* which failures the environment may inject
    MaxFaults,         \* how many of them, in one behaviour
    InboxBound,        \* frames accepted on one connection and not yet taken
    ReplyBound,        \* answers on their way back on one connection
    FallbackCapacity,  \* fallbackCapacity (500)
    NoEvent

ASSUME RelayAssumption ==
    /\ Keyed \subseteq Events
    /\ TwoStep \subseteq Events
    /\ Replayable \subseteq Events
    /\ MaxFaults \in Nat
    /\ InboxBound \in Nat
    /\ ReplyBound \in Nat
    /\ NoEvent \notin Events

VARIABLES
    slot,       \* connection state
    inbox,      \* frames received and not yet taken by the worker
    reply,      \* answers sent and not yet handled by the gateway
    job,        \* what the worker of a connection is doing
    batch,      \* rows the pump has claimed and not yet written to a socket
    requeue,    \* the 'open' handler's requeueInflight is outstanding
    fallback,   \* fallbackBuffer
    emitted,    \* events handed to publish() so far
    writing,    \* events whose INSERT is outstanding
    unreadable, \* rows written under an encryption key the gateway no longer has
    processed,  \* whatsapp_private.processed_events
    recent,     \* _RECENT_PROCESSED_EVENT_SET
    held,       \* _orphan_queue, as a set
    applied,    \* how often the event's effect was committed (0, 1, more: 2)
    skipped,    \* events a handler decided to drop (_skip)
    raced,      \* history: events two workers had in hand at a time, or whose
                \* record in processed_events was swept
    faults      \* failures injected so far

gatewayVars == <<batch, requeue, fallback, emitted, writing, unreadable>>
dbVars      == <<processed, applied, skipped, raced>>
backendVars == <<recent, held>>
netVars     == <<slot, inbox, reply, job>>
relayVars   == <<netVars, gatewayVars, dbVars, backendVars, faults>>
vars        == <<outboxVars, relayVars>>

SlotState == {"free", "open", "draining"}
Phase     == {"idle", "handling", "committed", "replay", "drain", "publish", "ack", "nack", "reject"}
Answer    == {"ack", "nack", "reject"}

(* What a worker has in hand.  While it replays held events, outer is the    *)
(* event whose commit started the replay and todo the events still to come.  *)
Idle == [phase |-> "idle", ev |-> NoEvent, outer |-> NoEvent, todo |-> {}]
Jobs == [phase : Phase \ {"idle"}, ev : Events, outer : Events \cup {NoEvent}, todo : SUBSET Events]

RelayTypeOK ==
    /\ slot  \in [Slots -> SlotState]
    /\ inbox \in [Slots -> Seq(Events)]
    /\ reply \in [Slots -> Seq([ev : Events, kind : Answer])]
    /\ job   \in [Slots -> {Idle} \cup Jobs]
    /\ batch \in Seq(Events)
    /\ requeue \in BOOLEAN
    /\ fallback  \subseteq Events
    /\ emitted \subseteq Events
    /\ writing \subseteq Events
    /\ unreadable \subseteq Events
    /\ processed \subseteq Events
    /\ recent    \subseteq Events
    /\ held      \subseteq Events
    /\ applied \in [Events -> 0..2]
    /\ skipped \subseteq Events
    /\ raced \subseteq Events
    /\ faults \in 0..MaxFaults

TypeOK == OutboxTypeOK /\ RelayTypeOK

Init ==
    /\ OutboxInit
    /\ slot  = [c \in Slots |-> "free"]
    /\ inbox = [c \in Slots |-> <<>>]
    /\ reply = [c \in Slots |-> <<>>]
    /\ job   = [c \in Slots |-> Idle]
    /\ batch = <<>>
    /\ requeue = FALSE
    /\ fallback = {} /\ emitted = {} /\ writing = {} /\ unreadable = {}
    /\ processed = {} /\ recent = {} /\ held = {}
    /\ applied = [e \in Events |-> 0]
    /\ skipped = {} /\ raced = {}
    /\ faults = 0

Open(c)   == slot[c] = "open"
IsOpen    == \E c \in Slots : Open(c)
Fault(f)  == f \in Faults /\ faults < MaxFaults /\ faults' = faults + 1
NoFault   == faults' = faults

-----------------------------------------------------------------------------
(* The gateway: publish, pump, answers, connection *)

(* _emit -> publish(): fire and forget.  The row's INSERT is handed to the   *)
(* shared pool of several connections, so the INSERTs of two events complete *)
(* in either order.  Only the pending-LID release emits the same id again.   *)
Emit(e) ==
    /\ e \notin emitted \/ (e \in Replayable /\ e \notin writing)
    /\ emitted' = emitted \cup {e}
    /\ writing' = writing \cup {e}
    /\ UNCHANGED <<outboxVars, netVars, batch, requeue, fallback, unreadable, dbVars, backendVars, faults>>

WriteRow(e) ==
    /\ e \in writing
    /\ Enqueue(e)
    /\ writing' = writing \ {e}
    /\ UNCHANGED <<netVars, batch, requeue, fallback, emitted, unreadable, dbVars, backendVars, faults>>

(* The INSERT fails: deliverBestEffort writes to the socket, or else keeps *)
(* the event in the fallback buffer while there is room.  The id of such a *)
(* frame is read only where another copy of the event exists, and those    *)
(* (the pending-LID releases) bring their own.                             *)
WriteFails(e) ==
    /\ Fault("db_error")
    /\ e \in writing
    /\ writing' = writing \ {e}
    /\ \/ \E c \in Slots :
             /\ Open(c)
             /\ Len(inbox[c]) < InboxBound
             /\ inbox' = [inbox EXCEPT ![c] = Append(@, e)]
             /\ UNCHANGED fallback
       \/ /\ ~IsOpen
          /\ fallback' = IF Cardinality(fallback) < FallbackCapacity
                         THEN fallback \cup {e} ELSE fallback
          /\ UNCHANGED inbox
    /\ UNCHANGED <<outboxVars, slot, reply, job, batch, requeue, emitted, unreadable, dbVars, backendVars>>

(* The INSERT meets a session row that is gone (foreign key): it is reported *)
(* and enqueue returns as if the row were there.                             *)
WriteOrphaned(e) ==
    /\ Fault("orphaned")
    /\ e \in writing
    /\ writing' = writing \ {e}
    /\ UNCHANGED <<outboxVars, netVars, batch, requeue, fallback, emitted, unreadable, dbVars, backendVars>>

(* connectToBackend and its 'open' event; the backend accepts and starts the *)
(* connection's worker.                                                      *)
Connect(c) ==
    /\ ~IsOpen
    /\ slot[c] = "free"
    /\ slot' = [slot EXCEPT ![c] = "open"]
    /\ requeue' = TRUE
    /\ UNCHANGED <<outboxVars, inbox, reply, job, batch, fallback, emitted, writing, unreadable, dbVars, backendVars, faults>>

(* A failing requeue is logged: the rows wait for their claim lease. *)
RequeueOnOpen ==
    /\ requeue
    /\ \/ RequeueInflight /\ NoFault
       \/ Fault("db_error") /\ UNCHANGED outboxVars
    /\ requeue' = FALSE
    /\ UNCHANGED <<netVars, batch, fallback, emitted, writing, unreadable, dbVars, backendVars>>

(* pumpOutbox up to the await: one claim at a time (pumpRunning).  The       *)
(* requeue of a new connection may still be outstanding.  One row that does  *)
(* not decrypt makes claimPending throw after its UPDATE: the whole batch    *)
(* stays claimed and nothing of it is sent.                                  *)
PumpClaim ==
    /\ batch = <<>>
    /\ \E c \in Slots : Open(c) /\ Len(inbox[c]) + BatchSize <= InboxBound
    /\ \E q \in Batches :
          /\ ClaimPending(q)
          /\ batch' = IF Taken(q) \cap unreadable = {} THEN q ELSE <<>>
    /\ UNCHANGED <<netVars, requeue, fallback, emitted, writing, unreadable, dbVars, backendVars, faults>>

(* ... and after it: the frames go to whichever socket is open by now, and *)
(* stay claimed if none is.                                                *)
PumpSend ==
    /\ batch # <<>>
    /\ batch' = <<>>
    /\ inbox' = [c \in Slots |-> IF Open(c) THEN inbox[c] \o batch ELSE inbox[c]]
    /\ UNCHANGED <<outboxVars, slot, reply, job, requeue, fallback, emitted, writing, unreadable, dbVars, backendVars, faults>>

(* Mutant: every answer is taken for an ACK. *)
GatewayReceiveAcks(c) ==
    /\ Open(c)
    /\ reply[c] # <<>>
    /\ reply' = [reply EXCEPT ![c] = Tail(@)]
    /\ Acknowledge(Head(reply[c]).ev)
    /\ UNCHANGED <<slot, inbox, job, gatewayVars, dbVars, backendVars, faults>>

(* The 'message' handler.  A failing UPDATE is logged and the answer is gone. *)
GatewayReceive(c) ==
    /\ Open(c)
    /\ reply[c] # <<>>
    /\ reply' = [reply EXCEPT ![c] = Tail(@)]
    /\ LET r == Head(reply[c]) IN
       \/ /\ r.kind = "ack"
          /\ Acknowledge(r.ev)
          /\ NoFault
       \/ /\ r.kind \in {"nack", "reject"}
          /\ Reject(r.ev, r.kind = "reject")
          /\ NoFault
       \/ /\ Fault("db_error")
          /\ UNCHANGED outboxVars
    /\ UNCHANGED <<slot, inbox, job, gatewayVars, dbVars, backendVars>>

(* cleanupOutbox: aged rows, and processed_events older than three days *)
GatewayCleanup ==
    /\ "retention" \in Faults
    /\ \E S \in SUBSET {e \in Events : state[e] \in Terminal} :
          Cleanup(S) /\ unreadable' = unreadable \ S
    /\ \E P \in SUBSET processed : processed' = P /\ raced' = raced \cup (processed \ P)
    /\ UNCHANGED <<netVars, batch, requeue, fallback, emitted, writing, applied, skipped, backendVars, faults>>

RowElapse(e) == Elapse(e) /\ UNCHANGED relayVars

-----------------------------------------------------------------------------
(* The backend: one serial worker per connection *)

Working(c) == slot[c] # "free"
Busy(c, p) == Working(c) /\ job[c].phase = p
Goto(c, p) == job' = [job EXCEPT ![c].phase = p]
Known(e)   == e \in recent \cup processed
InHand(e)  == \E c \in Slots : job[c].phase = "handling" /\ job[c].ev = e

(* Mutant: an event counts as seen when it is taken, not when it is committed. *)
StartMarksSeen(e) ==
    /\ recent' = recent \cup {e}
    /\ raced'  = IF ~Known(e) /\ InHand(e) THEN raced \cup {e} ELSE raced

(* The duplicate check: the in-memory set, then processed_events *)
AfterCheck(e) == IF Known(e) THEN "ack" ELSE "handling"
Start(e) ==
    /\ recent' = IF Known(e) THEN recent \cup {e} ELSE recent
    /\ raced'  = IF ~Known(e) /\ InHand(e) THEN raced \cup {e} ELSE raced

Take(c) ==
    /\ Busy(c, "idle")
    /\ inbox[c] # <<>>
    /\ LET e == Head(inbox[c]) IN
       /\ job' = [job EXCEPT ![c] = [Idle EXCEPT !.phase = AfterCheck(e), !.ev = e]]
       /\ Start(e)
    /\ inbox' = [inbox EXCEPT ![c] = Tail(@)]
    /\ UNCHANGED <<outboxVars, slot, reply, gatewayVars, processed, applied, skipped, held, faults>>

(* The effect of an event on the tables, counted up to 2.  A message that is *)
(* already there is found by its wa_message_id, by the handler's lookup or   *)
(* by the unique index; but both look only in the conversation of the chat's *)
(* current key, so a redelivery after the chat moved from its LID to its     *)
(* phone number ("moved") stores the message again.                          *)
Effect(e) ==
    LET stored == e \in Keyed /\ applied[e] > 0 IN
    \/ stored /\ NoFault /\ UNCHANGED applied
    \/ /\ IF stored THEN Fault("moved") ELSE NoFault
       /\ applied' = [applied EXCEPT ![e] = IF @ < 2 THEN @ + 1 ELSE 2]

(* Mutant: the record of the event is left to the in-memory set. *)
CommitUnrecorded(c) ==
    /\ Busy(c, "handling")
    /\ LET e == job[c].ev IN
       /\ e \notin TwoStep
       /\ Effect(e)
       /\ recent' = recent \cup {e}
    /\ Goto(c, "replay")
    /\ UNCHANGED <<outboxVars, slot, inbox, reply, gatewayVars, processed, skipped, raced, held>>

(* Handler and processed_events in one transaction *)
Commit(c) ==
    /\ Busy(c, "handling")
    /\ LET e == job[c].ev IN
       /\ e \notin TwoStep
       /\ Effect(e)
       /\ processed' = processed \cup {e}
       /\ recent' = recent \cup {e}
    /\ Goto(c, "replay")
    /\ UNCHANGED <<outboxVars, slot, inbox, reply, gatewayVars, skipped, raced, held>>

(* The unique index refused the row: the winner's row is published again, the *)
(* event is recorded, and nothing else of the normal path runs.               *)
RecoverLostRace(c) ==
    /\ Busy(c, "handling")
    /\ LET e == job[c].ev IN
       /\ e \in Keyed /\ applied[e] > 0
       /\ processed' = processed \cup {e}
    /\ Goto(c, "publish")
    /\ UNCHANGED <<outboxVars, slot, inbox, reply, gatewayVars, applied, skipped, raced, backendVars, faults>>

CommitEffect(c) ==
    /\ Busy(c, "handling")
    /\ job[c].ev \in TwoStep
    /\ Effect(job[c].ev)
    /\ Goto(c, "committed")
    /\ UNCHANGED <<outboxVars, slot, inbox, reply, gatewayVars, processed, skipped, raced, backendVars>>

RecordProcessed(c) ==
    /\ Busy(c, "committed")
    /\ processed' = processed \cup {job[c].ev}
    /\ recent' = recent \cup {job[c].ev}
    /\ Goto(c, "replay")
    /\ UNCHANGED <<outboxVars, slot, inbox, reply, gatewayVars, applied, skipped, raced, held, faults>>

(* The handler drops the event on purpose.  _skip is set on the event before *)
(* the commit that records it, so a failing commit still ends in an ACK.     *)
Skip(c) ==
    /\ "skip" \in Faults
    /\ Busy(c, "handling")
    /\ LET e == job[c].ev IN
       /\ skipped' = skipped \cup {e}
       /\ \/ /\ processed' = processed \cup {e}
             /\ recent' = recent \cup {e}
             /\ NoFault
          \/ /\ Fault("db_error")
             /\ UNCHANGED <<processed, recent>>
    /\ Goto(c, "ack")
    /\ UNCHANGED <<outboxVars, slot, inbox, reply, gatewayVars, applied, raced, held>>

(* Mutant: held in memory is held to be good enough for an ACK. *)
HoldAcks(c) ==
    /\ "ownerless" \in Faults
    /\ Busy(c, "handling")
    /\ held' = held \cup {job[c].ev}
    /\ Goto(c, "ack")
    /\ UNCHANGED <<outboxVars, slot, inbox, reply, gatewayVars, dbVars, recent, faults>>

(* No owner yet: rolled back, kept for replay, refused for now *)
Hold(c) ==
    /\ "ownerless" \in Faults
    /\ Busy(c, "handling")
    /\ held' = held \cup {job[c].ev}
    /\ Goto(c, "nack")
    /\ UNCHANGED <<outboxVars, slot, inbox, reply, gatewayVars, dbVars, recent, faults>>

(* Mutant: a failed event is broadcast like a stored one. *)
FailBroadcasts(c) ==
    /\ "exception" \in Faults
    /\ Busy(c, "handling")
    /\ Goto(c, "publish")
    /\ UNCHANGED <<outboxVars, slot, inbox, reply, gatewayVars, dbVars, backendVars, faults>>

(* An exception before (or, for the bookkeeping behind it, after) the commit *)
(* is caught: rolled back and refused for now.                               *)
Fail(c) ==
    /\ "exception" \in Faults
    /\ \E p \in {"handling", "committed", "replay"} : Busy(c, p)
    /\ Goto(c, "nack")
    /\ UNCHANGED <<outboxVars, slot, inbox, reply, gatewayVars, dbVars, backendVars, faults>>

(* The rollback or the closing of the session raises too: refused for good *)
Raise(c) ==
    /\ Fault("raise")
    /\ \E p \in {"handling", "committed", "replay"} : Busy(c, p)
    /\ Goto(c, "reject")
    /\ UNCHANGED <<outboxVars, slot, inbox, reply, gatewayVars, dbVars, backendVars>>

(* _drain_orphan_queue takes every held event (of the session) off the queue *)
(* and hands them one by one to ingest_gateway_event, whose own call of the  *)
(* drain finds one in flight.                                                *)
Draining == \E d \in Slots : job[d].outer # NoEvent

DrainStart(c) ==
    /\ Busy(c, "replay")
    /\ IF Draining \/ held = {}
       THEN Goto(c, "publish") /\ UNCHANGED held
       ELSE /\ job' = [job EXCEPT ![c] = [job[c] EXCEPT !.phase = "drain", !.outer = job[c].ev, !.todo = held]]
            /\ held' = {}
    /\ UNCHANGED <<outboxVars, slot, inbox, reply, gatewayVars, dbVars, recent, faults>>

(* The next held event has expired, is already recorded and goes back to the *)
(* queue, or is handled.                                                     *)
DrainTake(c) ==
    /\ Busy(c, "drain")
    /\ \E e \in job[c].todo :
          LET rest == [job[c] EXCEPT !.todo = @ \ {e}] IN
          \/ /\ job' = [job EXCEPT ![c] = rest]
             /\ UNCHANGED <<raced, backendVars>>
          \/ /\ Start(e)
             /\ job' = [job EXCEPT ![c] = IF Known(e) THEN rest
                                          ELSE [rest EXCEPT !.phase = "handling", !.ev = e]]
             /\ held' = IF Known(e) THEN held \cup {e} ELSE held
    /\ UNCHANGED <<outboxVars, slot, inbox, reply, gatewayVars, processed, applied, skipped, faults>>

(* Nothing replayed here is broadcast or answered; what did not end in a     *)
(* commit is held again.                                                     *)
DrainReturn(c) ==
    /\ job[c].outer # NoEvent
    /\ \E p \in {"publish", "ack", "nack", "reject"} : Busy(c, p)
    /\ held' = IF job[c].phase = "publish" THEN held ELSE held \cup {job[c].ev}
    /\ job' = [job EXCEPT ![c] = [job[c] EXCEPT !.phase = "drain", !.ev = job[c].outer]]
    /\ UNCHANGED <<outboxVars, slot, inbox, reply, gatewayVars, dbVars, recent, faults>>

DrainEnd(c) ==
    /\ Busy(c, "drain")
    /\ job[c].todo = {}
    /\ job' = [job EXCEPT ![c] = [job[c] EXCEPT !.phase = "publish", !.outer = NoEvent]]
    /\ UNCHANGED <<outboxVars, slot, inbox, reply, gatewayVars, dbVars, backendVars, faults>>

(* "publish": broadcast to the browser, then ACK.  An answer on a closed     *)
(* socket raises and is lost.                                                *)
Respond(c) ==
    /\ job[c].outer = NoEvent
    /\ \E p \in {"publish", "ack", "nack", "reject"} : Busy(c, p)
    /\ LET e    == job[c].ev
           kind == IF job[c].phase = "publish" THEN "ack" ELSE job[c].phase
       IN IF Open(c)
          THEN /\ Len(reply[c]) < ReplyBound
               /\ reply' = [reply EXCEPT ![c] = Append(@, [ev |-> e, kind |-> kind])]
          ELSE UNCHANGED reply
    /\ job' = [job EXCEPT ![c] = Idle]
    /\ UNCHANGED <<outboxVars, slot, inbox, gatewayVars, dbVars, backendVars, faults>>

-----------------------------------------------------------------------------
(* Connections end, processes restart *)

(* Frames the backend had not received are lost, and so are the answers. *)
Cut(c) ==
    /\ slot' = [slot EXCEPT ![c] = "draining"]
    /\ \E n \in 0..Len(inbox[c]) : inbox' = [inbox EXCEPT ![c] = SubSeq(@, 1, n)]
    /\ reply' = [reply EXCEPT ![c] = <<>>]
    /\ UNCHANGED job

Disconnect(c) ==
    /\ Fault("disconnect")
    /\ Open(c)
    /\ Cut(c)
    /\ UNCHANGED <<outboxVars, gatewayVars, dbVars, backendVars>>

(* The worker reaches the STOP sentinel *)
DrainDone(c) ==
    /\ slot[c] = "draining"
    /\ inbox[c] = <<>>
    /\ job[c] = Idle
    /\ slot' = [slot EXCEPT ![c] = "free"]
    /\ UNCHANGED <<outboxVars, inbox, reply, job, gatewayVars, dbVars, backendVars, faults>>

(* join() takes longer than five seconds: the worker is cancelled at an await *)
DrainTimeout(c) ==
    /\ slot[c] = "draining"
    /\ slot'  = [slot EXCEPT ![c] = "free"]
    /\ inbox' = [inbox EXCEPT ![c] = <<>>]
    /\ job'   = [job EXCEPT ![c] = Idle]
    /\ UNCHANGED <<outboxVars, reply, gatewayVars, dbVars, backendVars, faults>>

BackendCrash ==
    /\ Fault("backend_crash")
    /\ slot'  = [c \in Slots |-> "free"]
    /\ inbox' = [c \in Slots |-> <<>>]
    /\ reply' = [c \in Slots |-> <<>>]
    /\ job'   = [c \in Slots |-> Idle]
    /\ recent' = {} /\ held' = {}
    /\ UNCHANGED <<outboxVars, gatewayVars, dbVars>>

(* The gateway may come back with another encryption key. *)
GatewayCrash ==
    /\ Fault("gateway_crash")
    /\ batch' = <<>>
    /\ requeue' = FALSE
    /\ fallback' = {} /\ writing' = {}
    /\ \/ UNCHANGED unreadable
       \/ "rekey" \in Faults /\ unreadable' = {e \in Events : state[e] \in Active}
    /\ \/ \E c \in Slots : Open(c) /\ Cut(c)
       \/ ~IsOpen /\ UNCHANGED netVars
    /\ UNCHANGED <<outboxVars, emitted, dbVars, backendVars>>

Worker(c) ==
    \/ Take(c) \/ Commit(c) \/ RecoverLostRace(c) \/ CommitEffect(c)
    \/ RecordProcessed(c) \/ Skip(c) \/ Hold(c) \/ Fail(c) \/ Raise(c)
    \/ DrainStart(c) \/ DrainTake(c) \/ DrainReturn(c) \/ DrainEnd(c) \/ Respond(c)

Next ==
    \/ \E e \in Events : Emit(e) \/ WriteRow(e) \/ WriteFails(e) \/ WriteOrphaned(e) \/ RowElapse(e)
    \/ RequeueOnOpen \/ PumpClaim \/ PumpSend \/ GatewayCleanup
    \/ \E c \in Slots :
          \/ Connect(c) \/ GatewayReceive(c) \/ Worker(c)
          \/ Disconnect(c) \/ DrainDone(c) \/ DrainTimeout(c)
    \/ BackendCrash \/ GatewayCrash

Spec == Init /\ [][Next]_vars

(* The pump, the reconnect timer and the claim lease are timers that always  *)
(* run again; a worker that is not cancelled finishes what it has taken, and *)
(* a closed connection gives its worker five seconds.                        *)
Fairness ==
    /\ WF_vars(\E c \in Slots : Connect(c))
    /\ WF_vars(RequeueOnOpen)
    /\ WF_vars(PumpClaim)
    /\ WF_vars(PumpSend)
    /\ \A e \in Events : WF_vars(RowElapse(e)) /\ WF_vars(WriteRow(e))
    /\ \A c \in Slots :
          /\ WF_vars(Worker(c))
          /\ WF_vars(GatewayReceive(c))
          /\ WF_vars(DrainDone(c) \/ DrainTimeout(c))

FairSpec == Spec /\ Fairness

-----------------------------------------------------------------------------
(* Properties *)

Settled == {e \in Events : applied[e] > 0} \cup skipped

(* An event whose row is DELIVERED, or whose ACK is decided or on its way,   *)
(* has been persisted by the backend or dropped by a handler on purpose: no  *)
(* order of disconnects, overlapping workers, duplicate frames and restarts  *)
(* lets the gateway forget an event that the database has never seen.        *)
AckedIsSettled ==
    /\ \A c \in Slots : job[c].phase = "ack" => job[c].ev \in Settled
    /\ \A e \in Events : state[e] = "DELIVERED" => e \in Settled
    /\ \A c \in Slots : \A i \in 1..Len(reply[c]) :
          reply[c][i].kind = "ack" => reply[c][i].ev \in Settled

(* The effect of an event whose handler commits it together with its record  *)
(* happens once, however often the event is delivered: resent after a lost   *)
(* ACK or a restart of either process, or replayed from the held events.     *)
(* Exceptions, which only the lookup by wa_message_id covers: two workers    *)
(* took the event before either had committed (ON CONFLICT DO NOTHING lets   *)
(* both commit), or its record was swept in the meantime.                    *)
OneEffectUnlessRaced ==
    \A e \in Events : applied[e] > 1 => e \in TwoStep \cup raced

(* "Not persisted -> not broadcast, or the UI would show a message the       *)
(* database has never seen": what a worker is about to broadcast is          *)
(* committed, whichever of two workers committed it.                         *)
BroadcastIsPersisted ==
    \A c \in Slots : job[c].phase \in {"committed", "replay", "drain", "publish"} => applied[job[c].ev] > 0

(* Recorded means done: an event is never in processed_events, nor in the    *)
(* in-memory set in front of it, while its effect is still missing, so the   *)
(* duplicate check can never swallow an event.                               *)
RecordedIsSettled == processed \cup recent \subseteq Settled

(* A row that was acknowledged is never sent again, whatever refusals of its *)
(* other copies arrive afterwards.                                           *)
DeliveredIsFinal ==
    [][\A e \in Events : state[e] = "DELIVERED" => state'[e] \in {"DELIVERED", "ABSENT"}]_vars

(* A row never leaves the table unanswered: whatever is sent, lost or        *)
(* restarted, every accepted event ends DELIVERED or DEAD_LETTER, even when  *)
(* the backend refuses it forever.  The exception: while a row is there that *)
(* does not decrypt, claimPending fails for it and for the rows claimed with *)
(* it, which no refusal ever counts against.                                 *)
Poisoned == \E e \in unreadable : state[e] \in Active

EventuallyFinal ==
    \A e \in Events : state[e] \in Active ~> state[e] \notin Active \/ Poisoned

Stage(s) ==
    CASE s = "ABSENT"      -> "none"
      [] s \in Active      -> "waiting"
      [] s = "DELIVERED"   -> "done"
      [] s = "DEAD_LETTER" -> "dead"

RowView == [e \in Events |-> Stage(state[e])]

Abstract == INSTANCE DurableDelivery WITH row <- RowView, settled <- Settled

(* The relay implements the abstract promise. *)
ImplementsDurableDelivery == Abstract!DSpec

(* events.js on deliverBestEffort: an event whose outbox write failed is not *)
(* silently dropped.  One kept in the fallback buffer leaves it again.       *)
FallbackIsFlushed == \A e \in Events : e \in fallback ~> e \notin fallback
=============================================================================
