----------------------------- MODULE PendingLid -----------------------------
(***************************************************************************)
(* Messages that arrive under a LID whose phone number is not known yet.   *)
(*                                                                         *)
(* Such a message is not published.  It is kept in a row of                *)
(* whatsapp_private.lid_pending_messages and, in memory, under the raw     *)
(* LID.  When the mapping is learned, the copies that have no row move to  *)
(* the phone conversation, and a sweep replays the rows: each is emitted   *)
(* with the event id of the row, and deleted once that event is in the     *)
(* outbox.                                                                 *)
(*                                                                         *)
(* One session and one of its LIDs.  A job is a message on its way through *)
(* _ingestUpsertMessage, from a live delivery or from the sweep, waiting   *)
(* at one of the awaits of that function.                                  *)
(***************************************************************************)
EXTENDS Naturals, FiniteSets

CONSTANTS Msgs, Media, MaxDeliveries, MaxFaults

ASSUME LidAssumption == Media \subseteq Msgs /\ MaxDeliveries \in Nat /\ MaxFaults \in Nat

VARIABLES
    rows,      \* lid_pending_messages
    outbox,    \* messages whose deterministic event is in event_outbox
    copies,    \* messages published under an id of their own
    mapDb,     \* lid_mappings has the pair
    mapped,    \* resolveJidKey knows the pair
    index,     \* store._pendingLidMessages
    lidRec,    \* messagesByChat under the LID
    phoneRec,  \* messagesByChat under the phone number
    retry,     \* session._pendingLidRetry
    flush,     \* retries the running flushes have still to look at
    claims,    \* session._pendingLidClaims
    sweep,     \* _pendingLidReleaseInFlight and what it is doing
    todo,      \* rows the sweep has read and not looked at
    again,     \* _pendingLidReleaseAgain
    jobs,
    kept,      \* history: rows ever inserted
    held,      \* history: messages filed under the LID since the last start
    dropped,   \* history: retries dropped because the mapping was known
    owed,      \* history: rows a trigger of the sweep must reach
    deliveries, faults

memVars  == <<mapped, index, lidRec, phoneRec, retry, flush, claims, sweep, todo, again, jobs>>
histVars == <<kept, held, dropped, owed>>
lidVars  == <<rows, outbox, copies, mapDb, memVars, histVars, deliveries, faults>>

Stage == {"persist", "media", "emit", "mark", "flush"}
Job   == [msg : Msgs, at : Stage, hold : BOOLEAN, det : BOOLEAN, tag : BOOLEAN,
          by : {"live", "sweep"}, claimed : BOOLEAN]

LidTypeOK ==
    /\ rows \subseteq Msgs /\ outbox \subseteq Msgs /\ copies \subseteq Msgs
    /\ mapDb \in BOOLEAN /\ mapped \in BOOLEAN
    /\ index \subseteq Msgs /\ retry \subseteq Msgs /\ flush \subseteq Msgs
    /\ lidRec \in [Msgs -> {"none", "plain", "tagged"}]
    /\ phoneRec \in [Msgs -> {"none", "new", "emitted"}]
    /\ claims \subseteq Msgs
    /\ sweep \in {"idle", "listing", "running"} /\ todo \subseteq Msgs
    /\ again \in BOOLEAN
    /\ jobs \subseteq Job
    /\ kept \subseteq Msgs /\ held \subseteq Msgs /\ dropped \subseteq Msgs
    /\ owed \subseteq Msgs
    /\ deliveries \in 0..MaxDeliveries /\ faults \in 0..MaxFaults

LidInit ==
    /\ rows = {} /\ outbox = {} /\ copies = {} /\ mapDb = FALSE
    /\ mapped = FALSE /\ index = {}
    /\ lidRec = [m \in Msgs |-> "none"] /\ phoneRec = [m \in Msgs |-> "none"]
    /\ retry = {} /\ flush = {} /\ claims = {}
    /\ sweep = "idle" /\ todo = {} /\ again = FALSE /\ jobs = {}
    /\ kept = {} /\ held = {} /\ dropped = {} /\ owed = {}
    /\ deliveries = 0 /\ faults = 0

LidFault == faults < MaxFaults /\ faults' = faults + 1
At(stage) == {j \in jobs : j.at = stage}

-----------------------------------------------------------------------------
(* the sweep's entry; known is resolveJidKey after the caller's changes    *)

Trigger(known) ==
    /\ sweep' = IF sweep = "idle" THEN "listing" ELSE sweep
    /\ again' = (again \/ sweep # "idle")
    /\ owed' = IF known THEN owed \cup rows ELSE owed

\* Job j reaches the record: from the duplicate check to the end of
\* _ingestUpsertMessageInner or to its next await.  rest: the other jobs,
\* c: the claims while this call holds its own.
File(j, seen, rest, c) ==
    LET m     == j.msg
        there == IF j.hold THEN lidRec[m] # "none" ELSE phoneRec[m] # "none"
        wait(stage) == jobs' = rest \cup {[j EXCEPT !.at = stage]} /\ claims' = c
        return      == jobs' = rest /\ claims' = IF j.claimed THEN c \ {m} ELSE c IN
    IF ~seen /\ (there \/ m \in Media)
    THEN /\ IF ~there THEN wait("media")
            ELSE IF j.det /\ ~j.hold /\ phoneRec[m] # "emitted" THEN wait("emit")
            ELSE return
         /\ UNCHANGED <<lidRec, phoneRec, copies, held>>
    ELSE IF j.hold
    THEN /\ lidRec' = [lidRec EXCEPT ![m] = IF j.tag THEN "tagged" ELSE "plain"]
         /\ held' = held \cup {m}
         /\ return /\ UNCHANGED <<phoneRec, copies>>
    ELSE /\ phoneRec' = [phoneRec EXCEPT ![m] = "new"]
         /\ IF j.det THEN wait("emit") /\ UNCHANGED copies
                     ELSE return /\ copies' = copies \cup {m}
         /\ UNCHANGED <<lidRec, held>>

\* messages.upsert.  Nobody else may be handling a message that has a row.
Deliver(m) ==
    /\ deliveries < MaxDeliveries /\ deliveries' = deliveries + 1
    /\ LET pend == m \in index
           j == [msg |-> m, at |-> "persist", hold |-> ~mapped, det |-> pend,
                 tag |-> pend, by |-> "live", claimed |-> pend] IN
       \/ pend /\ m \in claims /\ UNCHANGED <<jobs, claims, lidRec, phoneRec, copies, held>>
       \/ ~pend /\ ~mapped /\ jobs' = jobs \cup {j}
          /\ UNCHANGED <<claims, lidRec, phoneRec, copies, held>>
       \/ ~pend /\ mapped /\ File(j, FALSE, jobs, claims)
       \/ pend /\ m \notin claims /\ File(j, FALSE, jobs, claims \cup {m})
    /\ UNCHANGED <<rows, outbox, mapDb, mapped, index, retry, flush, sweep, todo, again,
                   kept, dropped, owed, faults>>

\* Mutant: a failed INSERT is not queued
PersistedOrNot(j) ==
    /\ j \in At("persist")
    /\ \/ /\ rows' = rows \cup {j.msg} /\ kept' = kept \cup {j.msg}
          /\ index' = index \cup {j.msg}
          /\ File([j EXCEPT !.tag = TRUE], FALSE, jobs \ {j}, claims)
          /\ UNCHANGED <<retry, faults>>
       \/ /\ LidFault
          /\ \E written \in BOOLEAN :
                /\ rows' = IF written THEN rows \cup {j.msg} ELSE rows
                /\ kept' = IF written THEN kept \cup {j.msg} ELSE kept
          /\ retry' = retry
          /\ File(j, FALSE, jobs \ {j}, claims)
          /\ UNCHANGED index
    /\ UNCHANGED <<outbox, mapDb, mapped, flush, sweep, todo, again, dropped, owed, deliveries>>

\* The INSERT of _persistPendingLidMessage; hold was decided before it.  An
\* error may come after the row was written.
Persisted(j) ==
    /\ j \in At("persist")
    /\ \/ /\ rows' = rows \cup {j.msg} /\ kept' = kept \cup {j.msg}
          /\ index' = index \cup {j.msg}
          /\ File([j EXCEPT !.tag = TRUE], FALSE, jobs \ {j}, claims)
          /\ UNCHANGED <<retry, faults>>
       \/ /\ LidFault
          /\ \E written \in BOOLEAN :
                /\ rows' = IF written THEN rows \cup {j.msg} ELSE rows
                /\ kept' = IF written THEN kept \cup {j.msg} ELSE kept
          /\ retry' = retry \cup {j.msg}
          /\ File(j, FALSE, jobs \ {j}, claims)
          /\ UNCHANGED index
    /\ UNCHANGED <<outbox, mapDb, mapped, flush, sweep, todo, again, dropped, owed, deliveries>>

\* storeIncomingMedia returns
Stored(j) ==
    /\ j \in At("media")
    /\ File(j, TRUE, jobs \ {j}, claims)
    /\ UNCHANGED <<rows, outbox, mapDb, mapped, index, retry, flush, sweep, todo, again,
                   kept, dropped, owed, deliveries, faults>>

\* The end of a job: its claim, and the sweep that was waiting for it.
Return(j) ==
    /\ jobs' = jobs \ {j}
    /\ claims' = IF j.claimed THEN claims \ {j.msg} ELSE claims

\* Mutant: the row is deleted whether or not the event is durable
EmittedUnproven(j) ==
    /\ j \in At("emit")
    /\ \/ /\ outbox' = outbox \cup {j.msg}
          /\ phoneRec' = [phoneRec EXCEPT ![j.msg] = "emitted"]
          /\ jobs' = (jobs \ {j}) \cup {[j EXCEPT !.at = "mark"]}
          /\ UNCHANGED <<claims, owed, faults>>
       \/ /\ LidFault /\ jobs' = (jobs \ {j}) \cup {[j EXCEPT !.at = "mark"]}
          /\ UNCHANGED <<outbox, phoneRec, claims, owed>>
    /\ UNCHANGED <<rows, copies, mapDb, mapped, index, lidRec, retry, flush, sweep, todo,
                   again, kept, held, dropped, deliveries>>

\* The outbox INSERT of the deterministic event; ON CONFLICT DO NOTHING.
Emitted(j) ==
    /\ j \in At("emit")
    /\ \/ /\ outbox' = outbox \cup {j.msg}
          /\ phoneRec' = [phoneRec EXCEPT ![j.msg] = "emitted"]
          /\ jobs' = (jobs \ {j}) \cup {[j EXCEPT !.at = "mark"]}
          /\ UNCHANGED <<claims, owed, faults>>
       \/ /\ LidFault /\ Return(j) /\ owed' = owed \ {j.msg}
          /\ UNCHANGED <<outbox, phoneRec>>
    /\ UNCHANGED <<rows, copies, mapDb, mapped, index, lidRec, retry, flush, sweep, todo,
                   again, kept, held, dropped, deliveries>>

\* _markPendingLidProcessed
Marked(j) ==
    /\ j \in At("mark") /\ Return(j)
    /\ owed' = owed \ {j.msg}
    /\ \/ rows' = rows \ {j.msg} /\ index' = index \ {j.msg} /\ UNCHANGED faults
       \/ LidFault /\ UNCHANGED <<rows, index>>
    /\ UNCHANGED <<outbox, copies, mapDb, mapped, lidRec, phoneRec, retry, flush, sweep,
                   todo, again, kept, held, dropped, deliveries>>

-----------------------------------------------------------------------------
(* the mapping                                                             *)

Learn(isHistorySync) ==
    /\ IF mapped
       THEN /\ IF index # {} THEN Trigger(TRUE) ELSE UNCHANGED <<sweep, again, owed>>
            /\ UNCHANGED <<mapped, mapDb, lidRec, phoneRec, copies, faults>>
       ELSE LET moved == {m \in Msgs : lidRec[m] = "plain" /\ phoneRec[m] = "none"} IN
            /\ mapped' = TRUE
            /\ \/ mapDb' = TRUE /\ UNCHANGED faults
               \/ LidFault /\ UNCHANGED mapDb
            /\ lidRec' = [m \in Msgs |-> "none"]
            /\ phoneRec' = [m \in Msgs |-> IF m \in moved THEN "new" ELSE phoneRec[m]]
            /\ copies' = IF isHistorySync THEN copies ELSE copies \cup moved
            /\ Trigger(TRUE)
    /\ UNCHANGED <<rows, outbox, index, retry, flush, claims, todo, jobs, kept, held,
                   dropped, deliveries>>

\* connection.open releases what an earlier run left behind.
Open ==
    /\ Trigger(mapped) /\ <<sweep', again', owed'>> # <<sweep, again, owed>>
    /\ UNCHANGED <<rows, outbox, copies, mapDb, mapped, index, lidRec, phoneRec, retry,
                   flush, claims, todo, jobs, kept, held, dropped, deliveries, faults>>

(* _releasePendingLidMessages                                              *)

SweepVars == <<outbox, copies, mapDb, mapped, lidRec, retry, flush, kept, held, dropped,
               deliveries>>

\* listPendingMessages skips a row that cannot be decrypted; a failing query
\* returns none.
List ==
    /\ sweep = "listing" /\ sweep' = "running"
    /\ \/ todo' = rows /\ UNCHANGED <<owed, faults>>
       \/ LidFault /\ todo' \in SUBSET rows /\ owed' = owed \cap todo'
    /\ UNCHANGED <<rows, index, phoneRec, claims, again, jobs, SweepVars>>

SweepBusy == \E j \in jobs : j.by = "sweep"

Next_(m) == [msg |-> m, at |-> "emit", hold |-> FALSE, det |-> TRUE, tag |-> TRUE,
             by |-> "sweep", claimed |-> TRUE]

ReleaseRow(m) ==
    /\ sweep = "running" /\ ~SweepBusy /\ m \in todo
    /\ todo' = todo \ {m}
    /\ \/ /\ ~mapped \/ m \in claims
          /\ owed' = IF m \in claims THEN owed \ {m} ELSE owed
          /\ UNCHANGED <<claims, jobs, phoneRec>>
       \/ /\ mapped /\ m \notin claims
          /\ claims' = claims \cup {m}
          /\ UNCHANGED owed
          /\ \/ /\ phoneRec[m] = "emitted" /\ UNCHANGED phoneRec
                /\ jobs' = jobs \cup {[Next_(m) EXCEPT !.at = "mark"]}
             \/ /\ phoneRec[m] = "new" /\ UNCHANGED phoneRec
                /\ jobs' = jobs \cup {Next_(m)}
             \/ /\ phoneRec[m] = "none"       \* replay the stored payload
                /\ phoneRec' = IF m \in Media THEN phoneRec ELSE [phoneRec EXCEPT ![m] = "new"]
                /\ jobs' = jobs \cup {[Next_(m) EXCEPT !.at =
                                            IF m \in Media THEN "media" ELSE "emit"]}
    /\ UNCHANGED <<rows, index, sweep, again, faults, SweepVars>>

\* Mutant: a trigger that came meanwhile is forgotten
SweepEndsOnce ==
    /\ sweep = "running" /\ ~SweepBusy /\ todo = {}
    /\ sweep' = "idle"
    /\ again' = FALSE
    /\ UNCHANGED <<rows, index, phoneRec, claims, jobs, todo, owed, faults, SweepVars>>

\* Mutant: a state the sweep does not have
SweepEndsBlank ==
    /\ sweep = "running" /\ ~SweepBusy /\ todo = {}
    /\ sweep' = IF again THEN "again" ELSE "idle"
    /\ again' = FALSE
    /\ UNCHANGED <<rows, index, phoneRec, claims, jobs, todo, owed, faults, SweepVars>>

\* A trigger that came during the sweep makes another one.
SweepEnds ==
    /\ sweep = "running" /\ ~SweepBusy /\ todo = {}
    /\ sweep' = IF again THEN "listing" ELSE "idle"
    /\ again' = FALSE
    /\ UNCHANGED <<rows, index, phoneRec, claims, jobs, todo, owed, faults, SweepVars>>

(* the retry queue                                                         *)

\* The timer is free again before its flush has ended, so two may overlap.
FlushStarts ==
    /\ ~ retry \subseteq flush
    /\ flush' = flush \cup retry
    /\ UNCHANGED <<rows, outbox, copies, mapDb, mapped, index, lidRec, phoneRec, retry,
                   claims, sweep, todo, again, jobs, histVars, deliveries, faults>>

Retry(m) ==
    /\ m \in flush
    /\ flush' = flush \ {m}
    /\ IF mapped
       THEN /\ retry' = retry \ {m} /\ dropped' = dropped \cup (retry \cap {m})
            /\ UNCHANGED jobs
       ELSE /\ jobs' = jobs \cup {[msg |-> m, at |-> "flush", hold |-> TRUE, det |-> FALSE,
                                   tag |-> FALSE, by |-> "live", claimed |-> FALSE]}
            /\ UNCHANGED <<retry, dropped>>
    /\ UNCHANGED <<rows, outbox, copies, mapDb, mapped, index, lidRec, phoneRec, claims,
                   sweep, todo, again, kept, held, owed, deliveries, faults>>

Retried(j) ==
    /\ j \in At("flush")
    /\ jobs' = jobs \ {j}
    /\ \/ /\ rows' = rows \cup {j.msg} /\ kept' = kept \cup {j.msg}
          /\ index' = index \cup {j.msg}
          /\ retry' = retry \ {j.msg}
          /\ lidRec' = [lidRec EXCEPT ![j.msg] = IF @ = "plain" THEN "tagged" ELSE @]
          /\ UNCHANGED faults
       \/ LidFault /\ UNCHANGED <<rows, kept, index, retry, lidRec>>
    /\ UNCHANGED <<outbox, copies, mapDb, mapped, phoneRec, flush, claims, sweep, todo,
                   again, held, dropped, owed, deliveries>>

-----------------------------------------------------------------------------
(* A claim expires after 60 s; the timer does not know whose claim it ends. *)
ClaimExpires(m) ==
    /\ m \in claims /\ LidFault /\ claims' = claims \ {m}
    /\ UNCHANGED <<rows, outbox, copies, mapDb, mapped, index, lidRec, phoneRec, retry,
                   flush, sweep, todo, again, jobs, histVars, deliveries>>

\* The process dies and starts again: createSession reads what is stored.
Restart ==
    /\ LidFault
    /\ mapped' = mapDb
    /\ index' \in {rows, {}}
    /\ lidRec' = [m \in Msgs |-> "none"] /\ phoneRec' = [m \in Msgs |-> "none"]
    /\ retry' = {} /\ flush' = {} /\ claims' = {} /\ jobs' = {}
    /\ sweep' = "idle" /\ todo' = {} /\ again' = FALSE
    /\ held' = {} /\ owed' = {} /\ dropped' = {}
    /\ UNCHANGED <<rows, outbox, copies, mapDb, kept, deliveries>>

JobStep(j) == Persisted(j) \/ Stored(j) \/ Emitted(j) \/ Marked(j) \/ Retried(j)
SweepStep  == List \/ SweepEnds \/ \E m \in Msgs : ReleaseRow(m)

LidNext ==
    \/ \E m \in Msgs : Deliver(m) \/ Retry(m) \/ ClaimExpires(m)
    \/ \E h \in BOOLEAN : Learn(h)
    \/ \E j \in jobs : JobStep(j)
    \/ SweepStep \/ Open \/ FlushStarts \/ Restart

LidSpec == LidInit /\ [][LidNext]_lidVars
\* Statements and media downloads return, and the sweep goes on.
LidFairness ==
    /\ WF_lidVars(SweepStep)
    /\ \A m \in Msgs : WF_lidVars(\E j \in jobs : j.msg = m /\ JobStep(j))
LidFairSpec == LidSpec /\ LidFairness

-----------------------------------------------------------------------------
\* A row leaves the table only after the event with its id is in the outbox:
\* whatever fails or restarts in between, one of the two is there.
RowUntilStored == kept \subseteq rows \cup outbox

\* A message filed under the raw LID has a row, an event, a queued retry or a
\* published copy, or its retry was dropped because the mapping was known.
HeldIsKept ==
    \A m \in held : m \in rows \cup outbox \cup copies \cup retry \cup dropped

\* "The RAM migration already emitted this message, so there is nothing left to
\* make durable": what _flushPendingLidRetries drops has been published.
DroppedIsPublished == dropped \subseteq outbox \cup copies

\* A trigger of the sweep reaches every row the session has at that moment, also
\* when a sweep is under way, unless a statement fails, the row cannot be
\* decrypted (it is skipped, and stays), a live delivery of the message holds
\* its claim, or the process restarts.
TriggerReachesRows == \A m \in Msgs : (m \in owed) ~> (m \notin owed)
=============================================================================
