--------------------------- MODULE OutboundProofs ---------------------------
(***************************************************************************)
(* A theorem about OutboundMessage, for every number of requests, failures *)
(* and events under way.                                                   *)
(***************************************************************************)
EXTENDS OutboundMessage, TLAPS

USE OutboundAssumption

-----------------------------------------------------------------------------
(* As long as the provider has accepted neither id, no status above FAILED *)
(* is anywhere: in the row, in what a call has read or was answered, in an *)
(* event, a deferred update or a record.  Once it has accepted one there   *)
(* is nothing left to show.                                                *)

Below      == {"PENDING", "FAILED"}
BelowRow   == [st : Below \cup {None, "error"}, wa : Key \cup {None}]
BelowEvent == [type : {"new", "status"}, wa : Key, cid : BOOLEAN, st : Below]
BelowRec   == [key : Key, wa : Key, cid : BOOLEAN, st : Below]
Send       == [by : Calls, key : {None}, at : {"called"}]
              \cup [by : Calls, key : Key, at : {"media", "provider"}]
Nowhere    == [k \in Key |-> None]

Accepted == \E id \in Key : prov[id] # None

NothingSent ==
    /\ row \in BelowRow
    /\ seen \in [Calls -> BelowRow]
    /\ event = Idle \/ event \in [busy : {TRUE}, ev : BelowEvent, row : BelowRow]
    /\ early \in [Key -> Below \cup {None}]
    /\ queue \in Seq(BelowEvent)
    /\ recs \subseteq BelowRec
    /\ sends \subseteq Send /\ echoes = {}
    /\ prov = Nowhere /\ acked = Nowhere

SentInv == (prov \in [Key -> Provided] /\ Accepted) \/ NothingSent

(* What the helpers do below SENT                                          *)
LEMMA AdvanceBelow ==
    ASSUME NEW r \in BelowRow, NEW st \in Below
    PROVE  Advance(r, st) \in BelowRow /\ Advance(r, st).wa = r.wa
  BY DEF Advance, BelowRow

LEMMA EmitBelow ==
    ASSUME NEW ev \in BelowEvent, queue \in Seq(BelowEvent), Emit(<<ev>>)
    PROVE  queue' \in Seq(BelowEvent)
  <1>1. <<ev>> \in Seq(BelowEvent)
    OBVIOUS
  <1> QED BY <1>1 DEF Emit

LEMMA ReturnsBelow ==
    ASSUME NEW c \in Calls, NEW r \in BelowRow, r.st \in {"error", "FAILED"},
           row \in BelowRow, seen \in [Calls -> BelowRow], Returns(c, r)
    PROVE  seen' \in [Calls -> BelowRow]
  BY DEF Returns

LEMMA SentInit == OutInit => SentInv
  BY DEF OutInit, SentInv, NothingSent, NoRow, BelowRow, Nowhere

LEMMA SentHolds == SentInv => SentIsAccepted
  BY DEF SentInv, NothingSent, SentIsAccepted, Accepted, BelowRow, Below, Final, None

\* The provider forgets nothing.
LEMMA AcceptedStays ==
    ASSUME prov \in [Key -> Provided], Accepted, [OutNext]_outVars
    PROVE  prov' \in [Key -> Provided] /\ Accepted'
  <1>1. CASE prov' = prov
    BY <1>1 DEF Accepted
  <1>2. ASSUME NEW s \in sends, Reach(s) PROVE prov' \in [Key -> Provided] /\ Accepted'
    BY <1>2 DEF Reach, Accepted, Provided, None
  <1>3. ASSUME NEW id \in Key, Progress(id) PROVE prov' \in [Key -> Provided] /\ Accepted'
    BY <1>3 DEF Progress, Accepted, Provided, None
  <1> QED BY <1>1, <1>2, <1>3 DEF OutNext, outVars, world, Submit, Insert, Claim, Poll, GiveUp,
          Answered, Failed, TimesOut, Restart, ReadEvent, WriteEvent, Called, Transcoded,
          Confirm, Reject, Echo, EchoAwaits, EchoStored, Ack, Learn, GatewayCrash

-----------------------------------------------------------------------------
(* The steps while nothing has been sent                                   *)

LEMMA UnsentType == Unsent \in BelowRow /\ NoRow \in BelowRow
  BY DEF Unsent, NoRow, BelowRow, Below

\* Requests: the row they write is PENDING, FAILED or what they had read.
LEMMA DispatchKeeps ==
    ASSUME NothingSent, NEW c \in Calls, Dispatch(c) \/ sends' = sends
    PROVE  sends' \subseteq Send
  <1>1. [by |-> c, key |-> None, at |-> "called"] \in Send
    BY DEF Send
  <1> QED BY <1>1 DEF Dispatch, NothingSent

LEMMA SubmitKeeps ==
    ASSUME NothingSent, NEW c \in Calls, Submit(c) \/ Insert(c) \/ Claim(c)
    PROVE  NothingSent'
  <1>1. row' \in BelowRow
    BY UnsentType DEF Submit, Insert, Claim, NothingSent
  <1>2. sends' \subseteq Send
    BY DispatchKeeps DEF Submit, Insert, Claim
  <1>3. UNCHANGED <<seen, event, early, queue, recs, echoes, prov, acked>>
    BY DEF Submit, Insert, Claim, world
  <1> QED BY <1>1, <1>2, <1>3 DEF NothingSent

LEMMA PollKeeps ==
    ASSUME NothingSent, NEW c \in Calls, Poll(c) \/ GiveUp(c)
    PROVE  NothingSent'
  <1>1. row' \in BelowRow
    BY DEF Poll, GiveUp, NothingSent, BelowRow, Below
  <1>2. sends' \subseteq Send
    BY DispatchKeeps DEF Poll, GiveUp, gateway
  <1>3. UNCHANGED <<seen, event, early, queue, recs, echoes, prov, acked>>
    BY DEF Poll, GiveUp, gateway, world
  <1> QED BY <1>1, <1>2, <1>3 DEF NothingSent

LEMMA AnsweredKeeps ==
    ASSUME NothingSent, NEW c \in Calls, Answered(c) \/ Failed(c)
    PROVE  NothingSent'
  <1>1. seen[c] \in BelowRow /\ row \in BelowRow
    BY DEF NothingSent
  <1>2. row' \in BelowRow
    <2>1. CASE Answered(c)
      BY <1>1, <2>1 DEF Answered, Written, BelowRow
    <2>2. CASE Failed(c)
      BY <1>1, <2>2 DEF Failed, Written, NoRow, BelowRow, Below
    <2> QED BY <2>1, <2>2
  <1>3. seen' \in [Calls -> BelowRow]
    BY UnsentType DEF Answered, Failed, NothingSent
  <1>4. UNCHANGED <<event, early, queue, recs, sends, echoes, prov, acked>>
    BY DEF Answered, Failed, gateway, world
  <1> QED BY <1>2, <1>3, <1>4 DEF NothingSent

LEMMA ErrorType == Error \in BelowRow /\ Error.st = "error"
  BY DEF Error, BelowRow

LEMMA TimesOutKeeps ==
    ASSUME NothingSent, NEW c \in Calls, TimesOut(c)
    PROVE  NothingSent'
  <1>1. seen' \in [Calls -> BelowRow]
    BY ReturnsBelow, ErrorType DEF TimesOut, NothingSent
  <1>2. UNCHANGED <<row, event, early, queue, recs, sends, echoes, prov, acked>>
    BY DEF TimesOut, gateway
  <1> QED BY <1>1, <1>2 DEF NothingSent

LEMMA BusyType ==
    ASSUME NothingSent, event.busy
    PROVE  event.ev \in BelowEvent /\ event.row \in BelowRow
  <1>1. event # Idle
    BY DEF Idle
  <1>2. event \in [busy : {TRUE}, ev : BelowEvent, row : BelowRow]
    BY <1>1 DEF NothingSent
  <1> QED BY <1>2

LEMMA RestartKeeps ==
    ASSUME NothingSent, NEW c \in Calls, NEW b \in BOOLEAN, Restart(c, b)
    PROVE  NothingSent'
  <1>1. row' \in BelowRow
    BY DEF Restart, NothingSent, BelowRow, Below
  <1>2. seen' \in [Calls -> BelowRow]
    BY UnsentType DEF Restart, NothingSent
  <1>3. early' \in [Key -> Below \cup {None}]
    BY DEF Restart, NothingSent
  <1>4. event' = Idle \/ event' = event
    BY DEF Restart
  <1>5. queue' \in Seq(BelowEvent)
    <2>1. CASE queue' = queue
      BY <2>1 DEF NothingSent
    <2>2. CASE event.busy /\ queue' = <<event.ev>> \o queue
      <3>1. event.ev \in BelowEvent
        BY <2>2, BusyType
      <3>2. <<event.ev>> \in Seq(BelowEvent)
        BY <3>1
      <3> QED BY <2>2, <3>2 DEF NothingSent
    <2> QED BY <2>1, <2>2 DEF Restart
  <1>6. UNCHANGED <<recs, sends, echoes, prov, acked>>
    BY DEF Restart, gateway
  <1> QED BY <1>1, <1>2, <1>3, <1>4, <1>5, <1>6 DEF NothingSent

LEMMA ReadEventKeeps ==
    ASSUME NothingSent, ReadEvent
    PROVE  NothingSent'
  <1>1. queue \in Seq(BelowEvent) /\ queue # <<>>
    BY DEF NothingSent, ReadEvent
  <1>2. Head(queue) \in BelowEvent /\ Tail(queue) \in Seq(BelowEvent)
    BY <1>1
  <1>3. event' \in [busy : {TRUE}, ev : BelowEvent, row : BelowRow] /\ queue' \in Seq(BelowEvent)
    BY <1>2 DEF ReadEvent, NothingSent
  <1>4. UNCHANGED <<row, seen, early, recs, sends, echoes, prov, acked>>
    BY DEF ReadEvent, gateway, world
  <1> QED BY <1>3, <1>4 DEF NothingSent

LEMMA ApplyBelow ==
    ASSUME NEW r \in BelowRow, NEW st \in Below
    PROVE  ApplyStatus(r, st) \in BelowRow
  BY AdvanceBelow DEF ApplyStatus, BelowRow, Below

LEMMA ChangeWritten ==
    ASSUME row \in BelowRow, NEW r \in BelowRow, NEW x \in BelowRow
    PROVE  Written(Changed(r, x)) \in BelowRow
  BY DEF Written, Changed, BelowRow

LEMMA WriteEventKeeps ==
    ASSUME NothingSent, WriteEvent
    PROVE  NothingSent'
  <1> DEFINE ev == event.ev
             r  == event.row
             named  == [r EXCEPT !.wa = IF @ = None THEN ev.wa ELSE @]
             filled == Advance(named, ev.st)
             late   == IF early[filled.wa] = None THEN filled
                       ELSE ApplyStatus(filled, early[filled.wa])
  <1>1. ev \in BelowEvent /\ r \in BelowRow /\ row \in BelowRow
    BY BusyType DEF WriteEvent, NothingSent
  <1>2. ev.st \in Below /\ ev.wa \in Key
    BY <1>1 DEF BelowEvent
  <1>3. named \in BelowRow /\ named.wa \in Key
    BY <1>1, <1>2 DEF BelowRow
  <1>4. filled \in BelowRow /\ filled.wa \in Key
    <2> HIDE DEF named
    <2> QED BY <1>2, <1>3, AdvanceBelow
  <1>5. early[filled.wa] = None \/ early[filled.wa] \in Below
    BY <1>4 DEF NothingSent
  <1>6. late \in BelowRow
    <2> HIDE DEF filled
    <2> QED BY <1>4, <1>5, ApplyBelow
  <1>7. ApplyStatus([r EXCEPT !.wa = ev.wa], ev.st) \in BelowRow
    <2>1. [r EXCEPT !.wa = ev.wa] \in BelowRow
      BY <1>1, <1>2 DEF BelowRow
    <2> QED BY <1>2, <2>1, ApplyBelow
  <1>8. /\ \/ row' = Written(Changed(r, late))
           \/ row' = Written(Changed(r, ApplyStatus([r EXCEPT !.wa = ev.wa], ev.st)))
           \/ row' = row
        /\ \/ early' = [early EXCEPT ![filled.wa] = None]
           \/ early' = early
           \/ early' = [early EXCEPT ![ev.wa] = ev.st]
        /\ event' = Idle
        /\ UNCHANGED <<seen, queue, recs, sends, echoes, prov, acked>>
    BY DEF WriteEvent, gateway, world
  <1> HIDE DEF late, filled, named, ev, r
  <1>9. row' \in BelowRow
    BY <1>1, <1>6, <1>7, <1>8, ChangeWritten
  <1>10. early' \in [Key -> Below \cup {None}]
    BY <1>2, <1>4, <1>8 DEF NothingSent
  <1> QED BY <1>8, <1>9, <1>10 DEF NothingSent

-----------------------------------------------------------------------------
(* Gateway                                                                 *)

LEMMA RecordKeeps ==
    ASSUME NothingSent, NEW s \in Send, NEW key \in Key, Record(s, key)
    PROVE  recs' \subseteq BelowRec /\ queue' \in Seq(BelowEvent) /\ sends' \subseteq Send
  <1> DEFINE fresh == [key |-> Resolve(key), wa |-> key, cid |-> TRUE, st |-> "PENDING"]
  <1>1. fresh \in BelowRec
    BY DEF BelowRec, Below, Resolve, Key
  <1>2. New(fresh) = <<[type |-> "new", wa |-> key, cid |-> TRUE, st |-> "PENDING"]>>
    BY DEF New
  <1>3. [type |-> "new", wa |-> key, cid |-> TRUE, st |-> "PENDING"] \in BelowEvent
    BY DEF BelowEvent, Below
  <1>4. [s EXCEPT !.key = key, !.at = "provider"] \in Send
    BY DEF Send
  <1>5. sends' \subseteq Send
    BY <1>4 DEF Record, NothingSent
  <1>6. CASE recs' = recs \cup {fresh} /\ Emit(New(fresh))
    BY <1>1, <1>2, <1>3, <1>5, <1>6, EmitBelow DEF NothingSent
  <1>7. ASSUME NEW r \in InChat(Resolve(key)),
               Replace(r, [r EXCEPT !.wa = key, !.cid = TRUE]) /\ UNCHANGED queue
        PROVE  recs' \subseteq BelowRec /\ queue' \in Seq(BelowEvent)
    <2>1. r \in BelowRec
      BY DEF InChat, NothingSent
    <2>2. [r EXCEPT !.wa = key, !.cid = TRUE] \in BelowRec
      BY <2>1 DEF BelowRec
    <2> QED BY <1>7, <2>2 DEF Replace, NothingSent
  <1> QED BY <1>5, <1>6, <1>7 DEF Record, First

LEMMA CalledKeeps ==
    ASSUME NothingSent, NEW s, Called(s) \/ Transcoded(s)
    PROVE  NothingSent'
  <1>1. s \in Send
    BY DEF Called, Transcoded, NothingSent
  <1>2. CASE Called(s)
    <2> DEFINE key == Resolve("lid")
    <2>1. key \in Key
      BY DEF Resolve, Key
    <2>2. {r \in InChat(key) : r.cid /\ r.st \in Final} = {}
      BY DEF InChat, NothingSent, BelowRec, Below, Final
    <2>3. s.by \in Calls /\ s.at = "called"
      BY <1>1, <1>2 DEF Called, Send
    <2>4. [s EXCEPT !.key = key, !.at = "media"] \in Send
      BY <1>1, <2>1 DEF Send
    <2>5. \/ Record(s, key) /\ UNCHANGED seen
          \/ sends' = (sends \ {s}) \cup {[s EXCEPT !.key = key, !.at = "media"]}
             /\ UNCHANGED <<recs, queue, seen>>
      BY <1>2, <2>2 DEF Called
    <2>6. recs' \subseteq BelowRec /\ queue' \in Seq(BelowEvent) /\ sends' \subseteq Send
          /\ seen' = seen
      BY <1>1, <2>1, <2>4, <2>5, RecordKeeps DEF NothingSent
    <2>7. UNCHANGED <<row, event, early, echoes, prov, acked>>
      BY <1>2 DEF Called, world
    <2> QED BY <2>6, <2>7 DEF NothingSent
  <1>3. CASE Transcoded(s)
    <2>1. s.key \in Key /\ Record(s, s.key)
      BY <1>1, <1>3 DEF Transcoded, Send
    <2>2. recs' \subseteq BelowRec /\ queue' \in Seq(BelowEvent) /\ sends' \subseteq Send
      BY <1>1, <2>1, RecordKeeps
    <2>3. UNCHANGED <<row, seen, event, early, echoes, prov, acked>>
      BY <1>3 DEF Transcoded, backend, world
    <2> QED BY <2>2, <2>3 DEF NothingSent
  <1> QED BY <1>2, <1>3

\* Without a send the provider has, there is nothing to confirm, to acknowledge
\* or to echo.
LEMMA NothingToSay ==
    ASSUME NothingSent
    PROVE  /\ \A s : ~Confirm(s)
           /\ \A id \in Key : /\ ~Echo(id) /\ ~EchoAwaits(id) /\ ~EchoStored(id) /\ ~Progress(id)
                             /\ \A k : ~Ack(id, k)
  BY DEF NothingSent, Send, Nowhere, Confirm, Echo, EchoAwaits, EchoStored, Progress, Ack, None

LEMMA RejectKeeps ==
    ASSUME NothingSent, NEW s \in sends, Reject(s)
    PROVE  NothingSent'
  <1>1. s \in Send /\ s.at = "provider"
    BY DEF Reject, NothingSent, Send
  <1>2. s.by \in Calls /\ s.key \in Key
    BY <1>1 DEF Send
  <1>3. seen' \in [Calls -> BelowRow]
    BY <1>2, ReturnsBelow, ErrorType DEF Reject, NothingSent
  <1>4. sends' \subseteq Send /\ UNCHANGED <<row, event, early, echoes, prov, acked>>
    BY DEF Reject, NothingSent
  <1>5. CASE UNCHANGED <<recs, queue>>
    BY <1>3, <1>4, <1>5 DEF NothingSent
  <1>6. ASSUME NEW r \in InChat(s.key), Replace(r, [r EXCEPT !.st = "FAILED"]),
               Emit(Said(s.key, r.cid, "FAILED"))
        PROVE  NothingSent'
    <2>1. r \in BelowRec
      BY DEF InChat, NothingSent
    <2>2. [r EXCEPT !.st = "FAILED"] \in BelowRec /\ r.cid \in BOOLEAN
      BY <2>1 DEF BelowRec, Below
    <2>3. [type |-> "status", wa |-> s.key, cid |-> r.cid, st |-> "FAILED"] \in BelowEvent
      BY <1>2, <2>2 DEF BelowEvent, Below
    <2>4. queue' \in Seq(BelowEvent)
      BY <1>6, <2>3, EmitBelow DEF Said, NothingSent
    <2>5. recs' \subseteq BelowRec
      BY <1>6, <2>2 DEF Replace, NothingSent
    <2> QED BY <1>3, <1>4, <2>4, <2>5 DEF NothingSent
  <1> QED BY <1>5, <1>6 DEF Reject, First

LEMMA LearnKeeps ==
    ASSUME NothingSent, Learn
    PROVE  NothingSent'
  <1> DEFINE moved == {r \in InChat("lid") : \A x \in InChat("phone") : x.wa # r.wa}
  <1>1. moved \subseteq BelowRec /\ InChat("phone") \subseteq BelowRec
    BY DEF InChat, NothingSent
  <1>2. \A r \in BelowRec : [r EXCEPT !.key = "phone"] \in BelowRec
    BY DEF BelowRec, Key
  <1>3. recs' \subseteq BelowRec
    BY <1>1, <1>2 DEF Learn
  <1>4. \A r \in moved : New(r) = <<[type |-> "new", wa |-> r.wa, cid |-> r.cid, st |-> r.st]>>
    BY DEF New
  <1>5. \A r \in moved :
            [type |-> "new", wa |-> r.wa, cid |-> r.cid, st |-> r.st] \in BelowEvent
    BY <1>1 DEF BelowRec, BelowEvent
  <1>6. queue' = queue \/ \E r \in moved : Emit(New(r))
    BY DEF Learn
  <1> HIDE DEF moved
  <1>7. queue' \in Seq(BelowEvent)
    BY <1>4, <1>5, <1>6, EmitBelow DEF NothingSent
  <1>8. UNCHANGED <<row, seen, event, early, sends, echoes, prov, acked>>
    BY DEF Learn, backend
  <1> QED BY <1>3, <1>7, <1>8 DEF NothingSent

LEMMA GatewayCrashKeeps ==
    ASSUME NothingSent, GatewayCrash
    PROVE  NothingSent'
  <1>1. seen' \in [Calls -> BelowRow]
    BY DEF GatewayCrash, NothingSent
  <1>2. recs' = {} /\ sends' = {} /\ echoes' = {} /\ UNCHANGED <<row, event, early, queue, prov, acked>>
    BY DEF GatewayCrash
  <1> QED BY <1>1, <1>2 DEF NothingSent

\* The one step that leaves this: the provider takes a message.
LEMMA ReachAccepts ==
    ASSUME NothingSent, NEW s \in sends, Reach(s)
    PROVE  prov' \in [Key -> Provided] /\ Accepted'
  <1>1. s \in Send /\ s.at = "provider" /\ prov = Nowhere
    BY DEF Reach, NothingSent
  <1>2. s.key \in Key
    BY <1>1 DEF Send
  <1>3. prov' = [prov EXCEPT ![s.key] = "SENT"]
    BY <1>1, <1>2 DEF Reach, Nowhere
  <1> QED BY <1>1, <1>2, <1>3 DEF Nowhere, Accepted, Provided, None

LEMMA SentNext ==
    ASSUME SentInv, [OutNext]_outVars
    PROVE  SentInv'
  <1>1. CASE prov \in [Key -> Provided] /\ Accepted
    BY <1>1, AcceptedStays DEF SentInv
  <1>2. CASE NothingSent
    <2>1. CASE UNCHANGED outVars
      BY <1>2, <2>1 DEF outVars, backend, gateway, world, NothingSent, SentInv
    <2>2. ASSUME NEW c \in Calls,
                 \/ Submit(c) \/ Insert(c) \/ Claim(c) \/ Poll(c) \/ GiveUp(c) \/ Answered(c)
                 \/ Failed(c) \/ TimesOut(c) \/ \E b \in BOOLEAN : Restart(c, b)
          PROVE  NothingSent'
      BY <1>2, <2>2, SubmitKeeps, PollKeeps, AnsweredKeeps, TimesOutKeeps, RestartKeeps
    <2>3. ASSUME NEW s \in sends, Called(s) \/ Transcoded(s) \/ Confirm(s) \/ Reject(s)
          PROVE  NothingSent'
      BY <1>2, <2>3, CalledKeeps, NothingToSay, RejectKeeps
    <2>4. ASSUME NEW s \in sends, Reach(s) PROVE SentInv'
      BY <1>2, <2>4, ReachAccepts DEF SentInv
    <2>5. ASSUME ReadEvent \/ WriteEvent \/ Learn \/ GatewayCrash PROVE NothingSent'
      BY <1>2, <2>5, ReadEventKeeps, WriteEventKeeps, LearnKeeps, GatewayCrashKeeps
    <2> QED BY <1>2, <2>1, <2>2, <2>3, <2>4, <2>5, NothingToSay DEF OutNext, SentInv
  <1> QED BY <1>1, <1>2 DEF SentInv

-----------------------------------------------------------------------------
\* The row of a message shows a tick only if the provider has accepted it, under
\* one of the ids it was sent with: no echo of a request, event, deferred update,
\* record, timeout or restart makes one up.
THEOREM TickIsTrue == OutSpec => []SentIsAccepted
  BY SentInit, SentNext, SentHolds, PTL DEF OutSpec
=============================================================================
