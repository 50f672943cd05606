--------------------------- MODULE OutboundMessage ---------------------------
(***************************************************************************)
(* One message the user sends, from the row the backend writes to what the *)
(* provider says of it, while the user tries again, calls time out,        *)
(* processes restart and the phone number behind the chat's LID is learned.*)
(*                                                                         *)
(* The backend row goes PENDING -> SENT or FAILED.  The gateway keeps its  *)
(* own record in memory, sends under an id that is a hash of the chat key  *)
(* and the client id, and reports every change of status as an event.  The *)
(* events reach the backend in order and once; what happens when they do   *)
(* not is the subject of EventRelay.                                       *)
(*                                                                         *)
(* A chat key and the provider id hashed from it have the same name.  What *)
(* the backend reads and what it then writes are separate steps: its       *)
(* UPDATE finds the row by primary key.  The calls are of different        *)
(* backend processes; those of one process also take acquire_send_lock,    *)
(* which removes behaviours and adds none.                                 *)
(***************************************************************************)
EXTENDS Naturals, Sequences, FiniteSets

CONSTANTS
    Calls,      \* requests of the user to send, first or again
    MaxFaults,  \* timeouts, errors of the provider, restarts
    MaxQueue    \* events not yet ingested

ASSUME OutboundAssumption == MaxFaults \in Nat /\ MaxQueue \in Nat

VARIABLES
    row,      \* backend: status and wa_message_id of the messages row
    call,     \* backend: what each request is doing
    seen,     \* backend: what a request last read or was answered
    event,    \* backend: the event being ingested and the row it read
    early,    \* backend: _deferred_status_updates
    queue,    \* events emitted and not ingested
    recs,     \* gateway: the message in messagesByChat
    sends,    \* gateway: sends under way
    echoes,   \* gateway: echoes whose media is being downloaded
    mapped,   \* gateway: resolveJidKey knows the phone number of the chat
    prov,     \* provider: what became of each id
    acked,    \* provider: what it last reported of each id
    crashed,  \* history: the gateway restarted
    learned,  \* history: the phone number was learned on the way
    overtaken,\* history: a retry claimed the row between another's read and write
    faults

backend == <<row, call, seen, event, early>>
gateway == <<recs, sends, echoes, mapped>>
world   == <<prov, acked, crashed, learned, overtaken, faults>>
outVars == <<backend, queue, gateway, world>>

Key    == {"lid", "phone"}
\* READ is to DELIVERED what DELIVERED is to SENT, and is left out.
Status == {"PENDING", "FAILED", "SENT", "DELIVERED"}
Final  == {"SENT", "DELIVERED"}
Rank   == [s \in Status |-> CASE s = "SENT" -> 1 [] s = "DELIVERED" -> 2 [] OTHER -> 0]
None   == "none"
Row    == [st : Status \cup {None, "error"}, wa : Key \cup {None}]
Provided == {None, "SENT", "DELIVERED", "FAILED"}
NoRow  == [st |-> None, wa |-> None]
Unsent == [st |-> "PENDING", wa |-> None]
Event  == [type : {"new", "status"}, wa : Key, cid : BOOLEAN, st : Status]
Idle   == [busy |-> FALSE]

OutTypeOK ==
    /\ row \in Row /\ row.st # "error"
    /\ call \in [Calls -> {"idle", "insert", "raced", "wait", "claim", "lost", "giveup",
                           "sent", "answered", "failed", "done"}]
    /\ seen \in [Calls -> Row]
    /\ event = Idle \/ event \in [busy : {TRUE}, ev : Event, row : Row]
    /\ early \in [Key -> Status \cup {None}]
    /\ queue \in Seq(Event) /\ Len(queue) <= MaxQueue + MaxFaults
    /\ recs \subseteq [key : Key, wa : Key, cid : BOOLEAN, st : Status]
    /\ sends \subseteq [by : Calls, key : {None}, at : {"called"}]
                 \cup [by : Calls, key : Key, at : {"media", "provider", "reached"}]
    /\ echoes \subseteq Key /\ mapped \in BOOLEAN
    /\ prov \in [Key -> Provided] /\ acked \in [Key -> Provided]
    /\ crashed \in BOOLEAN /\ learned \in BOOLEAN /\ overtaken \in BOOLEAN
    /\ faults \in 0..MaxFaults

OutInit ==
    /\ row = NoRow /\ call = [c \in Calls |-> "idle"] /\ seen = [c \in Calls |-> NoRow]
    /\ event = Idle /\ early = [k \in Key |-> None] /\ queue = <<>>
    /\ recs = {} /\ sends = {} /\ echoes = {} /\ mapped \in BOOLEAN
    /\ prov = [k \in Key |-> None] /\ acked = prov
    /\ crashed = FALSE /\ learned = FALSE /\ overtaken = FALSE /\ faults = 0

OutFault   == faults < MaxFaults /\ faults' = faults + 1
Emit(evs)  == Len(queue) + Len(evs) <= MaxQueue /\ queue' = queue \o evs
Resolve(k) == IF mapped THEN "phone" ELSE k

\* advance_message_status
Advance(r, st) == IF Rank[st] > Rank[r.st] THEN [r EXCEPT !.st = st] ELSE r

-----------------------------------------------------------------------------
(* Backend: send_text_message, send_media_message                          *)

Goto(c, pc) == call' = [call EXCEPT ![c] = pc]
Dispatch(c) == /\ Goto(c, "sent")
               /\ sends' = sends \cup {[by |-> c, key |-> None, at |-> "called"]}

Settled == row.st \in Final \/ row.wa # None

Submit(c) ==
    /\ call[c] = "idle"
    /\ Goto(c, IF row = NoRow THEN "insert" ELSE IF Settled THEN "done"
               ELSE IF row.st = "PENDING" THEN "wait" ELSE "claim")
    /\ UNCHANGED <<row, sends, seen, event, early, queue, recs, echoes, mapped, world>>

\* INSERT, or IntegrityError: another process has inserted the row.
Insert(c) ==
    /\ call[c] = "insert"
    /\ \/ row = NoRow /\ row' = Unsent /\ Dispatch(c)
       \/ row # NoRow /\ Goto(c, IF Settled THEN "done" ELSE "raced") /\ UNCHANGED <<row, sends>>
    /\ UNCHANGED <<seen, event, early, queue, recs, echoes, mapped, world>>

\* UPDATE ... SET status = PENDING, wa_message_id = NULL WHERE status = FAILED
Claim(c) ==
    /\ call[c] = "claim"
    /\ \/ /\ row.st = "FAILED" /\ row' = Unsent /\ Dispatch(c)
          /\ overtaken' = (overtaken \/ event.busy \/ \E d \in Calls : call[d] = "answered")
       \/ row.st # "FAILED" /\ Goto(c, "lost") /\ UNCHANGED <<row, sends, overtaken>>
    /\ UNCHANGED <<seen, event, early, queue, recs, echoes, mapped, prov, acked, crashed, learned, faults>>

\* The polls for 5 s: "wait" for the first holder, "raced" after a lost INSERT,
\* "lost" after a lost claim.  The second one sends a FAILED row unclaimed.
Poll(c) ==
    /\ call[c] \in {"wait", "raced", "lost"}
    /\ \/ Settled /\ Goto(c, "done") /\ UNCHANGED sends
       \/ row.st = "FAILED" /\ row.wa = None
          /\ IF call[c] = "raced" THEN Dispatch(c)
             ELSE Goto(c, IF call[c] = "wait" THEN "claim" ELSE "done") /\ UNCHANGED sends
       \/ row = Unsent /\ Goto(c, "giveup") /\ UNCHANGED sends
    /\ UNCHANGED <<row, seen, event, early, queue, recs, echoes, mapped, world>>

\* DELIVERY_UNCONFIRMED
GiveUp(c) ==
    /\ call[c] = "giveup" /\ Goto(c, "done")
    /\ row' = [row EXCEPT !.st = "FAILED"]
    /\ UNCHANGED <<seen, event, early, queue, gateway, world>>

\* The UPDATE of the columns that changed; None stands for no change.
Written(r) == [st |-> IF r.st = None THEN row.st ELSE r.st,
               wa |-> IF r.wa = None THEN row.wa ELSE r.wa]
Changed(old, new) == [st |-> IF new.st = old.st THEN None ELSE new.st,
                      wa |-> IF new.wa = old.wa THEN None ELSE new.wa]

\* The gateway has answered the call, or httpx gave up: refresh, then commit.
Answered(c) ==
    /\ call[c] = "answered" /\ Goto(c, "done") /\ seen' = [seen EXCEPT ![c] = NoRow]
    /\ row' = Written(seen[c])
    /\ UNCHANGED <<event, early, queue, gateway, world>>

Failed(c) ==
    /\ call[c] = "failed" /\ Goto(c, "done") /\ seen' = [seen EXCEPT ![c] = NoRow]
    /\ row' = Written([NoRow EXCEPT !.st = IF seen[c] = Unsent THEN "FAILED" ELSE None])
    /\ UNCHANGED <<event, early, queue, gateway, world>>

\* What the call will write once it has read the row again.  The chat is with
\* one person: to a group, an answer of PENDING is written as SENT.
Returns(c, r) ==
    IF call[c] # "sent" THEN UNCHANGED <<call, seen>>
    ELSE IF r.st \in {"error", "FAILED"}
    THEN Goto(c, "failed") /\ seen' = [seen EXCEPT ![c] = row]
    ELSE /\ Goto(c, "answered")
         /\ seen' = [seen EXCEPT ![c] = Changed(row, Advance([row EXCEPT !.wa = r.wa], r.st))]
Error == [st |-> "error", wa |-> None]

TimesOut(c) ==
    /\ call[c] = "sent" /\ OutFault /\ Returns(c, Error)
    /\ UNCHANGED <<row, event, early, queue, gateway, prov, acked, crashed, learned, overtaken>>

\* A backend process restarts: its call is gone, main.py settles what has no id.
Restart(c, ingester) ==
    /\ OutFault
    /\ call[c] # "idle" /\ Goto(c, "done") /\ seen' = [seen EXCEPT ![c] = NoRow]
    /\ row' = IF row = Unsent THEN [row EXCEPT !.st = "FAILED"] ELSE row
    /\ IF ingester
       THEN /\ early' = [k \in Key |-> None] /\ event' = Idle
            /\ queue' = IF event.busy THEN <<event.ev>> \o queue ELSE queue
       ELSE UNCHANGED <<early, event, queue>>
    /\ UNCHANGED <<gateway, prov, acked, crashed, learned, overtaken>>

(* Backend: ingest of message_new and message_status_updated               *)

ReadEvent ==
    /\ ~event.busy /\ queue # <<>>
    /\ event' = [busy |-> TRUE, ev |-> Head(queue), row |-> row]
    /\ queue' = Tail(queue)
    /\ UNCHANGED <<row, call, seen, early, gateway, world>>

\* A failure counts only while the row is PENDING.
ApplyStatus(r, st) ==
    IF st = "FAILED" THEN IF r.st = "PENDING" THEN [r EXCEPT !.st = st] ELSE r
    ELSE Advance(r, st)

\* A message_new that does not match the row makes a row of its own, which is
\* not followed here.
WriteEvent ==
    /\ event.busy /\ event' = Idle
    /\ LET ev == event.ev  r == event.row
           matches == ev.cid \/ ev.wa = r.wa
           filled  == Advance([r EXCEPT !.wa = IF @ = None THEN ev.wa ELSE @], ev.st)
           late    == IF early[filled.wa] = None THEN filled
                      ELSE ApplyStatus(filled, early[filled.wa]) IN
       CASE matches /\ ev.type = "new" ->
                /\ row' = Written(Changed(r, late))
                /\ early' = [early EXCEPT ![filled.wa] = None]
         [] matches /\ ev.type = "status" ->
                row' = Written(Changed(r, ApplyStatus([r EXCEPT !.wa = ev.wa], ev.st)))
                /\ early' = early
         [] OTHER ->
                early' = (IF ev.type = "status" THEN [early EXCEPT ![ev.wa] = ev.st] ELSE early)
                /\ row' = row
    /\ UNCHANGED <<call, seen, queue, gateway, world>>

-----------------------------------------------------------------------------
(* Gateway                                                                 *)

New(r)       == <<[type |-> "new", wa |-> r.wa, cid |-> r.cid, st |-> r.st]>>
Said(id, cid, st) == <<[type |-> "status", wa |-> id, cid |-> cid, st |-> st]>>
Replace(r, x) == recs' = (recs \ {r}) \cup {x}
InChat(k)    == {r \in recs : r.key = k}
\* messagesByChat.find: of two records of an id the older has the client id.
First(F)     == {r \in F : \A x \in F : x.wa = r.wa /\ x.cid => r.cid}

\* Mutant: the send does not learn its key
RecordUnnamed(s, key) ==
    LET found == First({r \in InChat(Resolve(key)) : r.wa = key \/ r.cid})
        fresh == [key |-> Resolve(key), wa |-> key, cid |-> TRUE, st |-> "PENDING"] IN
    /\ sends' = (sends \ {s}) \cup {[s EXCEPT !.at = "provider"]}
    /\ \/ found = {} /\ recs' = recs \cup {fresh} /\ Emit(New(fresh))
       \/ \E r \in found : Replace(r, [r EXCEPT !.wa = key, !.cid = TRUE]) /\ UNCHANGED queue

\* Mutant: the check before the send is trusted
RecordAnew(s, key) ==
    LET fresh == [key |-> Resolve(key), wa |-> key, cid |-> TRUE, st |-> "PENDING"] IN
    /\ sends' = (sends \ {s}) \cup {[s EXCEPT !.key = key, !.at = "provider"]}
    /\ recs' = recs \cup {fresh} /\ Emit(New(fresh))

\* _recordOutbound, and the call of sock.sendMessage; key was resolved before.
Record(s, key) ==
    LET found == First({r \in InChat(Resolve(key)) : r.wa = key \/ r.cid})
        fresh == [key |-> Resolve(key), wa |-> key, cid |-> TRUE, st |-> "PENDING"] IN
    /\ sends' = (sends \ {s}) \cup {[s EXCEPT !.key = key, !.at = "provider"]}
    /\ \/ found = {} /\ recs' = recs \cup {fresh} /\ Emit(New(fresh))
       \/ \E r \in found : Replace(r, [r EXCEPT !.wa = key, !.cid = TRUE]) /\ UNCHANGED queue

\* sendTextMessage, sendMediaMessage: only a confirmed record ends the call.
Called(s) ==
    /\ s \in sends /\ s.at = "called"
    /\ LET key  == Resolve("lid")
           known == {r \in InChat(key) : r.cid /\ r.st \in Final} IN
       \/ /\ \E r \in known : Returns(s.by, [st |-> r.st, wa |-> r.wa])
          /\ sends' = sends \ {s} /\ UNCHANGED <<recs, queue>>
       \/ known = {} /\ Record(s, key) /\ UNCHANGED <<call, seen>>
       \/ /\ known = {}                        \* voice: await transcodeToOggOpus
          /\ sends' = (sends \ {s}) \cup {[s EXCEPT !.key = key, !.at = "media"]}
          /\ UNCHANGED <<recs, queue, call, seen>>
    /\ UNCHANGED <<row, event, early, echoes, mapped, world>>

Transcoded(s) ==
    /\ s \in sends /\ s.at = "media" /\ Record(s, s.key)
    /\ UNCHANGED <<backend, echoes, mapped, world>>

\* Mutant: the promise is not awaited
ConfirmEarly(s) ==
    /\ s \in sends /\ s.at \in {"provider", "reached"} /\ sends' = sends \ {s}
    /\ LET found == First({r \in InChat(Resolve(s.key)) : r.wa = s.key \/ r.cid}) IN
       \/ /\ found = {} /\ UNCHANGED recs
          /\ Emit(Said(s.key, TRUE, "SENT")) /\ Returns(s.by, [st |-> "SENT", wa |-> s.key])
       \/ \E r \in found :
             LET x == [Advance(r, "SENT") EXCEPT !.wa = s.key, !.cid = TRUE] IN
             /\ Replace(r, x) /\ Returns(s.by, [st |-> x.st, wa |-> x.wa])
             /\ IF x.st # r.st THEN Emit(Said(s.key, TRUE, x.st)) ELSE UNCHANGED queue
    /\ UNCHANGED <<row, event, early, echoes, mapped, world>>

\* Mutant: without the monotonic guard
ConfirmBack(s) ==
    /\ s \in sends /\ s.at = "reached" /\ sends' = sends \ {s}
    /\ LET found == First({r \in InChat(Resolve(s.key)) : r.wa = s.key \/ r.cid}) IN
       \/ /\ found = {} /\ UNCHANGED recs
          /\ Emit(Said(s.key, TRUE, "SENT")) /\ Returns(s.by, [st |-> "SENT", wa |-> s.key])
       \/ \E r \in found :
             LET x == [[r EXCEPT !.st = "SENT"] EXCEPT !.wa = s.key, !.cid = TRUE] IN
             /\ Replace(r, x) /\ Returns(s.by, [st |-> x.st, wa |-> x.wa])
             /\ IF x.st # r.st THEN Emit(Said(s.key, TRUE, x.st)) ELSE UNCHANGED queue
    /\ UNCHANGED <<row, event, early, echoes, mapped, world>>

\* _confirmOutboundSent
Confirm(s) ==
    /\ s \in sends /\ s.at = "reached" /\ sends' = sends \ {s}
    /\ LET found == First({r \in InChat(Resolve(s.key)) : r.wa = s.key \/ r.cid}) IN
       \/ /\ found = {} /\ UNCHANGED recs
          /\ Emit(Said(s.key, TRUE, "SENT")) /\ Returns(s.by, [st |-> "SENT", wa |-> s.key])
       \/ \E r \in found :
             LET x == [Advance(r, "SENT") EXCEPT !.wa = s.key, !.cid = TRUE] IN
             /\ Replace(r, x) /\ Returns(s.by, [st |-> x.st, wa |-> x.wa])
             /\ IF x.st # r.st THEN Emit(Said(s.key, TRUE, x.st)) ELSE UNCHANGED queue
    /\ UNCHANGED <<row, event, early, echoes, mapped, world>>

\* Mutant: the failure is not emitted
RejectSilently(s) ==
    /\ s \in sends /\ s.at \in {"provider", "reached"} /\ OutFault
    /\ sends' = sends \ {s} /\ Returns(s.by, Error)
    /\ LET found == First({r \in InChat(s.key) : r.wa = s.key}) IN
       \/ found = {} /\ UNCHANGED <<recs, queue>>
       \/ \E r \in found :
             IF r.st = "PENDING"
             THEN Replace(r, [r EXCEPT !.st = "FAILED"]) /\ UNCHANGED queue
             ELSE UNCHANGED <<recs, queue>>
    /\ UNCHANGED <<row, event, early, echoes, mapped, prov, acked, crashed, learned, overtaken>>

\* _failOutbound looks under the key the send began with.
Reject(s) ==
    /\ s \in sends /\ s.at \in {"provider", "reached"} /\ OutFault
    /\ sends' = sends \ {s} /\ Returns(s.by, Error)
    /\ LET found == First({r \in InChat(s.key) : r.wa = s.key}) IN
       \/ found = {} /\ UNCHANGED <<recs, queue>>
       \/ \E r \in found :
             IF r.st = "PENDING"
             THEN Replace(r, [r EXCEPT !.st = "FAILED"]) /\ Emit(Said(s.key, r.cid, "FAILED"))
             ELSE UNCHANGED <<recs, queue>>
    /\ UNCHANGED <<row, event, early, echoes, mapped, prov, acked, crashed, learned, overtaken>>

\* _applyMessageAck; the chat may be addressed by either key.
Ack(id, k) ==
    /\ acked[id] # prov[id] /\ acked' = [acked EXCEPT ![id] = prov[id]]
    /\ LET st == prov[id]  found == First({r \in InChat(Resolve(k)) : r.wa = id}) IN
       \/ found = {} /\ Emit(Said(id, FALSE, st)) /\ UNCHANGED recs
       \/ \E r \in found :
             IF (IF st = "FAILED" THEN r.st # "FAILED" ELSE Rank[st] > Rank[r.st])
             THEN Replace(r, [r EXCEPT !.st = st]) /\ Emit(Said(id, r.cid, st))
             ELSE UNCHANGED <<recs, queue>>
    /\ UNCHANGED <<backend, sends, echoes, mapped, prov, crashed, learned, overtaken, faults>>

\* The provider returns the message as its own; without a record it is one, and
\* a record without media is replaced.  A record beside an echo's has its media.
EchoOf(id) == [key |-> "phone", wa |-> id, cid |-> FALSE, st |-> "SENT"]
Echoed(id) == {r \in InChat("phone") : r.wa = id}

Echo(id) ==
    /\ prov[id] # None /\ mapped /\ id \notin echoes
    /\ \/ Echoed(id) = {} /\ recs' = recs \cup {EchoOf(id)} /\ Emit(New(EchoOf(id)))
       \/ \E r \in Echoed(id) : Echoed(id) = {r} /\ Rank[r.st] < 1
             /\ Replace(r, Advance(r, "SENT")) /\ Emit(New(Advance(r, "SENT")))
    /\ UNCHANGED <<backend, sends, echoes, mapped, world>>

\* An echo with media and without a record: await storeIncomingMedia.  One at a
\* time (a bound).
EchoAwaits(id) ==
    /\ prov[id] # None /\ mapped /\ echoes = {} /\ Echoed(id) = {}
    /\ echoes' = {id}
    /\ UNCHANGED <<backend, queue, recs, sends, mapped, world>>

\* It is a record of its own.  One that came meanwhile and has no media goes; one
\* that has media stays before it.
EchoStored(id) ==
    /\ id \in echoes /\ echoes' = echoes \ {id}
    /\ \E gone \in {{}, Echoed(id)} : recs' = (recs \ gone) \cup {EchoOf(id)}
    /\ Emit(New(EchoOf(id)))
    /\ UNCHANGED <<backend, sends, mapped, world>>

\* _learnLidMapping: the records move, but for those the phone chat has.
Learn ==
    /\ ~mapped /\ mapped' = TRUE /\ learned' = TRUE
    /\ LET moved == {r \in InChat("lid") : \A x \in InChat("phone") : x.wa # r.wa} IN
       /\ recs' = InChat("phone") \cup {[r EXCEPT !.key = "phone"] : r \in moved}
       /\ \/ moved = {} /\ UNCHANGED queue
          \/ \E r \in moved : moved = {r} /\ Emit(New(r))
    /\ UNCHANGED <<backend, sends, echoes, prov, acked, crashed, overtaken, faults>>

GatewayCrash ==
    /\ OutFault /\ crashed' = TRUE
    /\ recs' = {} /\ sends' = {} /\ echoes' = {}
    /\ call' = [c \in Calls |-> IF call[c] = "sent" THEN "failed" ELSE call[c]]
    /\ seen' = [c \in Calls |-> IF call[c] = "sent" THEN row ELSE seen[c]]
    /\ UNCHANGED <<row, event, early, queue, mapped, prov, acked, learned, overtaken>>

-----------------------------------------------------------------------------
(* The provider                                                            *)

\* The promise of sock.sendMessage resolves: the code takes it for the provider's
\* word, though it says that the stanza was written to the socket.
Reach(s) ==
    /\ s \in sends /\ s.at = "provider"
    /\ sends' = (sends \ {s}) \cup {[s EXCEPT !.at = "reached"]}
    /\ prov' = [prov EXCEPT ![s.key] = IF @ = None THEN "SENT" ELSE @]
    /\ UNCHANGED <<backend, queue, recs, echoes, mapped, acked, crashed, learned, overtaken, faults>>

Progress(id) ==
    /\ prov[id] = "SENT"
    /\ \E st \in {"DELIVERED", "FAILED"} : prov' = [prov EXCEPT ![id] = st]
    /\ UNCHANGED <<backend, queue, gateway, acked, crashed, learned, overtaken, faults>>

OutNext ==
    \/ \E c \in Calls : \/ Submit(c) \/ Insert(c) \/ Claim(c) \/ Poll(c) \/ GiveUp(c) \/ Answered(c)
                         \/ Failed(c) \/ TimesOut(c) \/ \E b \in BOOLEAN : Restart(c, b)
    \/ ReadEvent \/ WriteEvent
    \/ \E s \in sends : Called(s) \/ Transcoded(s) \/ Confirm(s) \/ Reject(s) \/ Reach(s)
    \/ \E id \in Key : Echo(id) \/ EchoAwaits(id) \/ EchoStored(id) \/ Progress(id) \/ \E k \in Key : Ack(id, k)
    \/ Learn \/ GatewayCrash

OutSpec == OutInit /\ [][OutNext]_outVars

-----------------------------------------------------------------------------
\* Nothing is under way.
Quiet == /\ queue = <<>> /\ ~event.busy /\ sends = {}
         /\ \A c \in Calls : call[c] \in {"idle", "done"}

\* The user never sees a tick for a message that did not reach the provider,
\* whatever was repeated, given up, restarted or learned in between.
SentIsAccepted == row.st \in Final => \E id \in Key : prov[id] # None

\* While the phone number is known all along, the gateway keeps one record of the
\* message: concurrent and repeated sends, an echo that comes first after a
\* crash, and media whose transcoding is awaited between check and record.
OneRecord == ~learned => \A r, x \in recs : r.cid /\ x.cid => r = x

\* A message does not rest PENDING, which nothing would ever settle.  One without an
\* id is failed by the call that tried it last.  The error of a call leaves one with
\* an id alone because the gateway's own event will fail it; three things break that
\* promise: the gateway restarts and forgets the message, the phone number is learned
\* on the way, or a retry claims the row while an event or an answer is between its
\* read and its write of it.
Settles ==
    Quiet => /\ row # Unsent
             /\ ~crashed /\ ~learned /\ ~overtaken => row.st # "PENDING"

\* Confirmation, acks and echoes come in any order: no record of the gateway's
\* shows less than one of the message showed before, but for a rejection by the
\* provider and for an echo whose media was being downloaded when a retry recorded
\* the message: it looked for a record before, and shows SENT beside or instead of
\* whatever that record has reached.
RecordNeverBack ==
    [][~learned => \A r \in recs, x \in recs' \ recs :
         r.st \in Final /\ x.wa = r.wa =>
           \/ x.st = "FAILED"
           \/ Rank[x.st] >= Rank[r.st]
           \/ ~x.cid /\ r.wa \in echoes \ echoes']_outVars

\* FAILED messages are sent again when the user asks: such a request is not
\* answered with the FAILED row before anything was tried.
FailedIsRetried ==
    [][\A c \in Calls : call[c] = "idle" /\ call'[c] # "idle" /\ row.st = "FAILED"
         => call'[c] # "done"]_outVars
=============================================================================
