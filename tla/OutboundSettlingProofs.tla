----------------------- MODULE OutboundSettlingProofs ------------------------
(***************************************************************************)
(* Theorems about OutboundMessage: the types, the gateway's one record of  *)
(* a message, and that no message rests PENDING; for every number of       *)
(* requests, failures and events under way.                                *)
(***************************************************************************)
EXTENDS OutboundMessage, TLAPS

USE OutboundAssumption

-----------------------------------------------------------------------------
(* Types.  Beyond OutTypeOK: a row that has been read or will be written   *)
(* has no "error"; a row that does not exist yet has left no trace.        *)

RowType == [st : Status \cup {None}, wa : Key \cup {None}]
ReadRow == [st : Status, wa : Key \cup {None}]
Pc      == {"idle", "insert", "raced", "wait", "claim", "lost", "giveup",
            "sent", "answered", "failed", "done"}
Rec     == [key : Key, wa : Key, cid : BOOLEAN, st : Status]
Send    == [by : Calls, key : {None}, at : {"called"}]
           \cup [by : Calls, key : Key, at : {"media", "provider", "reached"}]
Nowhere == [k \in Key |-> None]

Unborn ==
    /\ row = NoRow /\ queue = <<>> /\ ~event.busy /\ sends = {} /\ recs = {} /\ echoes = {}
    /\ prov = Nowhere
    /\ \A c \in Calls : call[c] \in {"idle", "insert", "done"}

BackendType ==
    /\ row \in RowType
    /\ call \in [Calls -> Pc] /\ seen \in [Calls -> RowType]
    /\ event = Idle \/ event \in [busy : {TRUE}, ev : Event, row : ReadRow]
    /\ early \in [Key -> Status \cup {None}]
QueueType   == queue \in Seq(Event) /\ Len(queue) <= MaxQueue + faults
GatewayType == recs \subseteq Rec /\ sends \subseteq Send /\ echoes \subseteq Key
               /\ mapped \in BOOLEAN
WorldType ==
    /\ prov \in [Key -> Provided] /\ acked \in [Key -> Provided]
    /\ \A id \in Key : acked[id] # None => prov[id] # None
    /\ crashed \in BOOLEAN /\ learned \in BOOLEAN /\ overtaken \in BOOLEAN
    /\ faults \in 0..MaxFaults
Born == row.st = None => Unborn

TypeInv == BackendType /\ QueueType /\ GatewayType /\ WorldType /\ Born

LEMMA TypeInvOK == TypeInv => OutTypeOK
  <1> SUFFICES ASSUME TypeInv PROVE OutTypeOK
    OBVIOUS
  <1>1. row \in Row /\ row.st # "error"
    BY DEF TypeInv, BackendType, RowType, Row, Status, None
  <1>2. seen \in [Calls -> Row]
    BY DEF TypeInv, BackendType, RowType, Row
  <1>3. event = Idle \/ event \in [busy : {TRUE}, ev : Event, row : Row]
    BY DEF TypeInv, BackendType, ReadRow, Row
  <1>4. queue \in Seq(Event) /\ Len(queue) <= MaxQueue + MaxFaults
    BY DEF TypeInv, QueueType, WorldType
  <1>5. call \in [Calls -> Pc] /\ early \in [Key -> Status \cup {None}]
    BY DEF TypeInv, BackendType
  <1>6. GatewayType /\ WorldType
    BY DEF TypeInv
  <1> QED BY <1>1, <1>2, <1>3, <1>4, <1>5, <1>6
          DEF GatewayType, WorldType, Pc, Rec, Send, OutTypeOK

LEMMA TypeInit == OutInit => TypeInv
  <1> SUFFICES ASSUME OutInit PROVE TypeInv
    OBVIOUS
  <1>1. BackendType
    BY DEF OutInit, BackendType, NoRow, RowType, Pc
  <1>2. QueueType /\ GatewayType
    BY DEF OutInit, QueueType, GatewayType
  <1>4. WorldType
    <2>1. prov = Nowhere /\ acked = Nowhere
      BY DEF OutInit, Nowhere
    <2>2. Nowhere \in [Key -> Provided] /\ \A id \in Key : Nowhere[id] = None
      BY DEF Nowhere, Provided
    <2>3. crashed = FALSE /\ learned = FALSE /\ overtaken = FALSE /\ faults \in 0..MaxFaults
      BY DEF OutInit
    <2> QED BY <2>1, <2>2, <2>3 DEF WorldType
  <1>3. Unborn
    BY DEF OutInit, Unborn, Nowhere, Idle
  <1> QED BY <1>1, <1>2, <1>3, <1>4 DEF TypeInv, Born

(* What the helpers do                                                     *)
LEMMA RowTypes == NoRow \in RowType /\ Unsent \in RowType /\ Unsent.st = "PENDING"
  BY DEF NoRow, Unsent, RowType, Status

LEMMA BusyType ==
    ASSUME BackendType, event.busy
    PROVE  event.ev \in Event /\ event.row \in ReadRow
           /\ event \in [busy : {TRUE}, ev : Event, row : ReadRow]
  <1>1. event # Idle
    BY DEF Idle
  <1>2. event \in [busy : {TRUE}, ev : Event, row : ReadRow]
    BY <1>1 DEF BackendType
  <1> QED BY <1>2

LEMMA AdvanceType ==
    ASSUME NEW r \in ReadRow, NEW st \in Status
    PROVE  /\ Advance(r, st) \in ReadRow /\ Advance(r, st).wa = r.wa
           /\ Advance(r, st).st \in {r.st, st}
           /\ st \in Final => Advance(r, st).st \in Final
           /\ Advance(r, st).st = "PENDING" => r.st = "PENDING"
  <1>1. Rank \in [Status -> {0, 1, 2}] /\ Rank["PENDING"] = 0 /\ Rank["FAILED"] = 0
        /\ Rank["SENT"] = 1 /\ Rank["DELIVERED"] = 2
    BY DEF Rank, Status
  <1>2. r.st \in Status
    BY DEF ReadRow
  <1> QED BY <1>1, <1>2 DEF Advance, ReadRow, Final, Status

LEMMA ApplyType ==
    ASSUME NEW r \in ReadRow, NEW st \in Status
    PROVE  /\ ApplyStatus(r, st) \in ReadRow /\ ApplyStatus(r, st).wa = r.wa
           /\ r.st = "PENDING" /\ st # "PENDING" => ApplyStatus(r, st).st # "PENDING"
           /\ ApplyStatus(r, st).st = "PENDING" => r.st = "PENDING"
  <1>1. CASE st = "FAILED"
    BY <1>1 DEF ApplyStatus, ReadRow, Status
  <1>2. CASE st # "FAILED"
    <2>1. ApplyStatus(r, st) = Advance(r, st)
      BY <1>2 DEF ApplyStatus
    <2>2. st # "PENDING" => st \in Final
      BY <1>2 DEF Status, Final
    <2> QED BY <2>1, <2>2, AdvanceType DEF Final
  <1> QED BY <1>1, <1>2

LEMMA ChangedType ==
    ASSUME NEW r \in RowType, NEW x \in RowType
    PROVE  Changed(r, x) \in RowType
  BY DEF Changed, RowType

LEMMA WrittenType ==
    ASSUME row \in RowType, NEW x \in RowType
    PROVE  /\ Written(x) \in RowType
           /\ row.st # None => Written(x).st # None
  BY DEF Written, RowType, None

LEMMA EmitType ==
    ASSUME QueueType, NEW ev \in Event, Emit(<<ev>>), faults \in Nat
    PROVE  /\ queue' \in Seq(Event) /\ Len(queue') <= MaxQueue
           /\ Len(queue') = Len(queue) + 1 /\ queue'[Len(queue) + 1] = ev
           /\ \A i \in 1..Len(queue) : queue'[i] = queue[i]
  <1>1. <<ev>> \in Seq(Event) /\ Len(<<ev>>) = 1 /\ <<ev>>[1] = ev
    OBVIOUS
  <1> QED BY <1>1 DEF Emit, QueueType

LEMMA ReturnsType ==
    ASSUME BackendType, NEW c \in Calls,
           NEW r \in [st : Status \cup {"error"}, wa : Key \cup {None}],
           row.st # None, r.st \in Final => r.wa \in Key,
           r.st \in Final \cup {"error", "FAILED"},
           Returns(c, r)
    PROVE  call' \in [Calls -> Pc] /\ seen' \in [Calls -> RowType]
  <1>1. CASE call[c] # "sent"
    BY <1>1 DEF Returns, BackendType
  <1>2. CASE call[c] = "sent" /\ r.st \in {"error", "FAILED"}
    BY <1>2 DEF Returns, BackendType, Goto, Pc
  <1>3. CASE call[c] = "sent" /\ r.st \in Final
    <2> DEFINE x == Advance([row EXCEPT !.wa = r.wa], r.st)
    <2>1. [row EXCEPT !.wa = r.wa] \in ReadRow /\ r.st \in Status /\ row \in RowType
      BY <1>3 DEF BackendType, ReadRow, RowType, Final, Status
    <2>2. x \in RowType
      BY <2>1, AdvanceType DEF ReadRow, RowType
    <2>3. Changed(row, x) \in RowType
      BY <2>1, <2>2, ChangedType
    <2>4. Goto(c, "answered") /\ seen' = [seen EXCEPT ![c] = Changed(row, x)]
      BY <1>3 DEF Returns, Final
    <2> QED BY <2>3, <2>4 DEF BackendType, Goto, Pc
  <1> QED BY <1>1, <1>2, <1>3


-----------------------------------------------------------------------------
(* Steps: each keeps the types.  Kept says that a step leaves the world's  *)
(* observations alone, but for the failure it may count.                   *)

Counted == faults' = faults \/ OutFault

LEMMA CountedType == ASSUME WorldType, Counted PROVE faults' \in 0..MaxFaults /\ faults' >= faults
  BY DEF WorldType, Counted, OutFault

LEMMA SameWorld ==
    ASSUME WorldType, UNCHANGED <<prov, acked>>, Counted, crashed' \in BOOLEAN,
           learned' \in BOOLEAN, overtaken' \in BOOLEAN
    PROVE  WorldType'
  BY CountedType DEF WorldType

LEMMA SameQueue ==
    ASSUME QueueType, WorldType, UNCHANGED queue, Counted
    PROVE  QueueType'
  BY CountedType DEF QueueType, WorldType

LEMMA EmitQueue ==
    ASSUME QueueType, WorldType, Counted, NEW ev \in Event, Emit(<<ev>>)
    PROVE  QueueType'
  <1>1. faults \in Nat /\ faults' \in Nat
    BY CountedType DEF WorldType
  <1>2. queue' \in Seq(Event) /\ Len(queue') <= MaxQueue
    BY <1>1, EmitType
  <1> QED BY <1>1, <1>2 DEF QueueType

LEMMA SubmitType ==
    ASSUME TypeInv, NEW c \in Calls, Submit(c)
    PROVE  TypeInv'
  <1>1. call' \in [Calls -> Pc]
    BY DEF Submit, Goto, TypeInv, BackendType, Pc
  <1>2. UNCHANGED <<row, seen, event, early, queue, recs, sends, echoes, mapped, world>>
    BY DEF Submit
  <1>3. row = NoRow => call'[c] = "insert" /\ \A d \in Calls \ {c} : call'[d] = call[d]
    BY DEF Submit, Goto, TypeInv, BackendType
  <1> QED BY <1>1, <1>2, <1>3
          DEF world, TypeInv, BackendType, QueueType, GatewayType, WorldType, Born, Unborn

LEMMA DispatchType ==
    ASSUME TypeInv, NEW c \in Calls, Dispatch(c)
    PROVE  call' \in [Calls -> Pc] /\ sends' \subseteq Send
  <1>1. [by |-> c, key |-> None, at |-> "called"] \in Send
    BY DEF Send
  <1> QED BY <1>1 DEF Dispatch, Goto, TypeInv, BackendType, GatewayType, Pc

LEMMA InsertType ==
    ASSUME TypeInv, NEW c \in Calls, Insert(c)
    PROVE  TypeInv'
  <1>1. call' \in [Calls -> Pc] /\ sends' \subseteq Send
    BY DispatchType DEF Insert, Goto, TypeInv, BackendType, GatewayType, Pc
  <1>2. row' \in RowType /\ row'.st # None
    BY RowTypes DEF Insert, TypeInv, BackendType, Born, Unborn, None
  <1>3. UNCHANGED <<seen, event, early, queue, recs, echoes, mapped, world>>
    BY DEF Insert
  <1> QED BY <1>1, <1>2, <1>3
          DEF world, TypeInv, BackendType, QueueType, GatewayType, WorldType, Born

LEMMA ClaimType ==
    ASSUME TypeInv, NEW c \in Calls, Claim(c)
    PROVE  TypeInv'
  <1>1. row.st # None
    BY DEF Claim, TypeInv, Born, Unborn
  <1>2. call' \in [Calls -> Pc] /\ sends' \subseteq Send
    BY DispatchType DEF Claim, Goto, TypeInv, BackendType, GatewayType, Pc
  <1>3. row' \in RowType /\ row'.st # None
    BY <1>1, RowTypes DEF Claim, TypeInv, BackendType, None
  <1>4. overtaken' \in BOOLEAN
    BY DEF Claim, TypeInv, WorldType
  <1>5. UNCHANGED <<seen, event, early, queue, recs, echoes, mapped, prov, acked, crashed,
                    learned, faults>>
    BY DEF Claim
  <1> QED BY <1>2, <1>3, <1>4, <1>5
          DEF TypeInv, BackendType, QueueType, GatewayType, WorldType, Born

LEMMA PollType ==
    ASSUME TypeInv, NEW c \in Calls, Poll(c) \/ GiveUp(c)
    PROVE  TypeInv'
  <1>1. row.st # None
    BY DEF Poll, GiveUp, TypeInv, Born, Unborn
  <1>2. row' \in RowType /\ row'.st # None
    BY <1>1 DEF Poll, GiveUp, TypeInv, BackendType, RowType, Status, None
  <1>3. CASE Poll(c)
    <2>1. call' \in [Calls -> Pc] /\ sends' \subseteq Send
      BY <1>3, DispatchType DEF Poll, Goto, TypeInv, BackendType, GatewayType, Pc
    <2>2. UNCHANGED <<seen, event, early, queue, recs, echoes, mapped, world>>
      BY <1>3 DEF Poll
    <2> QED BY <1>2, <2>1, <2>2
            DEF world, TypeInv, BackendType, QueueType, GatewayType, WorldType, Born
  <1>4. CASE GiveUp(c)
    <2>1. call' \in [Calls -> Pc]
      BY <1>4 DEF GiveUp, Goto, TypeInv, BackendType, Pc
    <2>2. UNCHANGED <<seen, event, early, queue, recs, sends, echoes, mapped, world>>
      BY <1>4 DEF GiveUp, gateway
    <2> QED BY <1>2, <2>1, <2>2
            DEF world, TypeInv, BackendType, QueueType, GatewayType, WorldType, Born
  <1> QED BY <1>3, <1>4

LEMMA AnsweredType ==
    ASSUME TypeInv, NEW c \in Calls, Answered(c) \/ Failed(c)
    PROVE  TypeInv'
  <1>1. row \in RowType /\ row.st # None /\ seen[c] \in RowType
    BY DEF Answered, Failed, TypeInv, BackendType, Born, Unborn
  <1>2. row' \in RowType /\ row'.st # None
    <2>1. CASE Answered(c)
      BY <1>1, <2>1, WrittenType DEF Answered
    <2>2. CASE Failed(c)
      <3>1. [NoRow EXCEPT !.st = IF seen[c] = Unsent THEN "FAILED" ELSE None] \in RowType
        BY DEF NoRow, RowType, Status
      <3> QED BY <1>1, <2>2, <3>1, WrittenType DEF Failed
    <2> QED BY <2>1, <2>2
  <1>3. call' \in [Calls -> Pc] /\ seen' \in [Calls -> RowType]
    BY RowTypes DEF Answered, Failed, Goto, TypeInv, BackendType, Pc
  <1>4. UNCHANGED <<event, early, queue, recs, sends, echoes, mapped, world>>
    BY DEF Answered, Failed, gateway
  <1> QED BY <1>2, <1>3, <1>4
          DEF world, TypeInv, BackendType, QueueType, GatewayType, WorldType, Born

LEMMA ErrorType ==
    /\ Error \in [st : Status \cup {"error"}, wa : Key \cup {None}]
    /\ Error.st \in Final \cup {"error", "FAILED"} /\ Error.st \notin Final
  BY DEF Error, Final

LEMMA TimesOutType ==
    ASSUME TypeInv, NEW c \in Calls, TimesOut(c)
    PROVE  TypeInv'
  <1>1. row.st # None
    BY DEF TimesOut, TypeInv, Born, Unborn
  <1>2. call' \in [Calls -> Pc] /\ seen' \in [Calls -> RowType]
    BY <1>1, ErrorType, ReturnsType DEF TimesOut, TypeInv
  <1>3. UNCHANGED <<row, event, early, queue, recs, sends, echoes, mapped>>
    BY DEF TimesOut, gateway
  <1>4. QueueType' /\ WorldType'
    BY <1>3, SameQueue, SameWorld DEF TimesOut, Counted, TypeInv, WorldType
  <1> QED BY <1>1, <1>2, <1>3, <1>4 DEF TypeInv, BackendType, GatewayType, Born

LEMMA RestartType ==
    ASSUME TypeInv, NEW c \in Calls, NEW b \in BOOLEAN, Restart(c, b)
    PROVE  TypeInv'
  <1> USE DEF TypeInv
  <1>1. row' \in RowType /\ (row'.st = None => row = NoRow /\ row' = row)
    BY DEF Restart, BackendType, Born, Unborn, RowType, Unsent, Status, None
  <1>2. call' \in [Calls -> Pc] /\ seen' \in [Calls -> RowType]
    BY RowTypes DEF Restart, Goto, BackendType, Pc
  <1>3. early' \in [Key -> Status \cup {None}] /\ (event' = Idle \/ event' = event)
    BY DEF Restart, BackendType
  <1>4. UNCHANGED <<recs, sends, echoes, mapped, prov, acked, crashed, learned, overtaken>>
    BY DEF Restart, gateway
  <1>5. faults \in Nat /\ faults' = faults + 1 /\ WorldType'
    BY <1>4, SameWorld DEF Restart, OutFault, Counted, WorldType
  <1>6. QueueType'
    <2>1. CASE queue' = queue
      BY <1>5, <2>1 DEF QueueType
    <2>2. CASE event.busy /\ queue' = <<event.ev>> \o queue
      <3>1. event.ev \in Event
        BY <2>2, BusyType
      <3>2. <<event.ev>> \in Seq(Event) /\ Len(<<event.ev>>) = 1
        BY <3>1
      <3> QED BY <1>5, <2>2, <3>2 DEF QueueType
    <2> QED BY <2>1, <2>2 DEF Restart
  <1>7. Born'
    <2> SUFFICES ASSUME row'.st = None PROVE Unborn'
      BY DEF Born
    <2>1. Unborn /\ row' = row
      BY <1>1, RowTypes DEF Born, NoRow
    <2>2. queue' = queue /\ event'.busy = FALSE
      BY <1>3, <2>1 DEF Restart, Unborn, Idle
    <2>3. \A d \in Calls : call'[d] \in {"idle", "insert", "done"}
      BY <2>1 DEF Restart, Goto, Unborn, BackendType
    <2> QED BY <1>4, <2>1, <2>2, <2>3 DEF Unborn
  <1> QED BY <1>1, <1>2, <1>3, <1>4, <1>5, <1>6, <1>7 DEF BackendType, GatewayType

LEMMA ReadEventType ==
    ASSUME TypeInv, ReadEvent
    PROVE  TypeInv'
  <1>1. row.st # None /\ row \in RowType
    BY DEF ReadEvent, TypeInv, BackendType, Born, Unborn
  <1>2. queue \in Seq(Event) /\ queue # <<>>
    BY DEF ReadEvent, TypeInv, QueueType
  <1>3. Head(queue) \in Event /\ Tail(queue) \in Seq(Event) /\ Len(Tail(queue)) = Len(queue) - 1
    BY <1>2
  <1>4. row \in ReadRow
    BY <1>1 DEF RowType, ReadRow
  <1>5. event' \in [busy : {TRUE}, ev : Event, row : ReadRow]
    BY <1>3, <1>4 DEF ReadEvent
  <1>6. UNCHANGED <<row, call, seen, early, recs, sends, echoes, mapped, world>>
    BY DEF ReadEvent, gateway
  <1>7. QueueType'
    BY <1>2, <1>3, <1>6 DEF ReadEvent, world, TypeInv, QueueType, WorldType
  <1> QED BY <1>1, <1>5, <1>6, <1>7
          DEF world, TypeInv, BackendType, GatewayType, WorldType, Born

\* What the ingest of an event writes: a row that was no longer PENDING when it
\* was read does not become so, and an event that says what became of the message
\* leaves none PENDING.
Matches  == event.ev.cid \/ event.ev.wa = event.row.wa
Told(ev) == IF ev.type = "new" THEN ev.cid /\ ev.st # "FAILED" ELSE ev.st # "PENDING"

LEMMA WriteEventRow ==
    ASSUME TypeInv, WriteEvent
    PROVE  /\ \/ ~Matches /\ row' = row
              \/ \E x \in ReadRow :
                    /\ row' = Written(Changed(event.row, x))
                    /\ x.st = "PENDING" => event.row.st = "PENDING"
                    /\ x.st = "PENDING" /\ Told(event.ev) => event.ev.st = "PENDING"
                    /\ Told(event.ev) /\ ~event.ev.cid => x.wa = event.row.wa
           /\ early' \in [Key -> Status \cup {None}]
  <1> DEFINE ev == event.ev
             r  == event.row
             named  == [r EXCEPT !.wa = IF @ = None THEN ev.wa ELSE @]
             filled == Advance(named, ev.st)
             late   == IF early[filled.wa] = None THEN filled
                       ELSE ApplyStatus(filled, early[filled.wa])
             said   == ApplyStatus([r EXCEPT !.wa = ev.wa], ev.st)
  <1>1. ev \in Event /\ r \in ReadRow
    BY BusyType DEF WriteEvent, TypeInv
  <1>2. ev.st \in Status /\ ev.wa \in Key /\ r.st \in Status /\ ev.type \in {"new", "status"}
    BY <1>1 DEF Event, ReadRow
  <1>3. named \in ReadRow /\ named.wa \in Key /\ named.st = r.st
    BY <1>1, <1>2 DEF ReadRow
  <1>4. filled \in ReadRow /\ filled.wa \in Key
        /\ (filled.st = "PENDING" => r.st = "PENDING" /\ ev.st \notin Final)
    <2> HIDE DEF named
    <2> QED BY <1>2, <1>3, AdvanceType DEF Final
  <1>5. early[filled.wa] = None \/ early[filled.wa] \in Status
    BY <1>4 DEF TypeInv, BackendType
  <1>6. late \in ReadRow /\ (late.st = "PENDING" => r.st = "PENDING" /\ ev.st \notin Final)
    <2> HIDE DEF filled
    <2> QED BY <1>4, <1>5, ApplyType
  <1>7. said \in ReadRow /\ (said.st = "PENDING" => r.st = "PENDING" /\ ev.st = "PENDING")
        /\ said.wa = ev.wa
    <2>1. /\ [r EXCEPT !.wa = ev.wa] \in ReadRow /\ [r EXCEPT !.wa = ev.wa].st = r.st
          /\ [r EXCEPT !.wa = ev.wa].wa = ev.wa
      BY <1>1, <1>2 DEF ReadRow
    <2> QED BY <1>2, <2>1, ApplyType
  <1>8. /\ \/ ev.type = "new" /\ row' = Written(Changed(r, late))
           \/ ev.type = "status" /\ Matches /\ row' = Written(Changed(r, said))
           \/ ~Matches /\ row' = row
        /\ \/ early' = [early EXCEPT ![filled.wa] = None]
           \/ early' = early
           \/ early' = [early EXCEPT ![ev.wa] = ev.st]
    BY <1>2 DEF WriteEvent, Matches
  <1>9. ev.type = "new" /\ ev.st \notin Final /\ Told(ev) => ev.st = "PENDING"
    BY <1>2 DEF Told, Final, Status
  <1>13. /\ ev.type = "new" => (Told(ev) => ev.cid)
         /\ Matches /\ ~ev.cid => ev.wa = r.wa
    BY DEF Told, Matches
  <1> HIDE DEF late, filled, said, named, ev, r
  <1>10. early' \in [Key -> Status \cup {None}]
    BY <1>2, <1>4, <1>8 DEF TypeInv, BackendType
  <1>11. CASE ev.type = "new" /\ row' = Written(Changed(r, late))
    BY <1>6, <1>9, <1>10, <1>11, <1>13 DEF ev, r
  <1>12. CASE ev.type = "status" /\ Matches /\ row' = Written(Changed(r, said))
    BY <1>7, <1>10, <1>12, <1>13 DEF ev, r
  <1> QED BY <1>8, <1>10, <1>11, <1>12

LEMMA WriteEventType ==
    ASSUME TypeInv, WriteEvent
    PROVE  TypeInv'
  <1>1. row \in RowType /\ row.st # None
    BY DEF WriteEvent, TypeInv, BackendType, Born, Unborn
  <1>2. event.row \in ReadRow /\ ReadRow \subseteq RowType
    BY BusyType DEF WriteEvent, TypeInv, ReadRow, RowType
  <1>3. row' \in RowType /\ row'.st # None
    <2>1. ASSUME NEW x \in ReadRow, row' = Written(Changed(event.row, x))
          PROVE  row' \in RowType /\ row'.st # None
      BY <1>1, <1>2, <2>1, ChangedType, WrittenType
    <2> QED BY <1>1, <2>1, WriteEventRow
  <1>4. early' \in [Key -> Status \cup {None}] /\ event' = Idle
    BY WriteEventRow DEF WriteEvent
  <1>5. UNCHANGED <<call, seen, queue, recs, sends, echoes, mapped, world>>
    BY DEF WriteEvent, gateway
  <1> QED BY <1>3, <1>4, <1>5
          DEF world, TypeInv, BackendType, QueueType, GatewayType, WorldType, Born

-----------------------------------------------------------------------------
(* Gateway                                                                 *)

LEMMA ResolveType == \A k \in Key : Resolve(k) \in Key
  BY DEF Resolve, Key

LEMMA SendType ==
    ASSUME TypeInv, NEW s \in sends
    PROVE  /\ s.by \in Calls /\ s.at \in {"called", "media", "provider", "reached"}
           /\ s.at = "called" => s.key = None
           /\ s.at # "called" => s.key \in Key
           /\ \A k \in Key : [s EXCEPT !.key = k, !.at = "provider"] \in Send
           /\ \A k \in Key : [s EXCEPT !.key = k, !.at = "media"] \in Send
           /\ s.at # "called" => [s EXCEPT !.at = "reached"] \in Send
           /\ row.st # None
  <1>1. s \in Send
    BY DEF TypeInv, GatewayType
  <1>2. row.st # None
    BY DEF TypeInv, Born, Unborn
  <1>3. CASE s \in [by : Calls, key : {None}, at : {"called"}]
    BY <1>2, <1>3 DEF Send
  <1>4. CASE s \in [by : Calls, key : Key, at : {"media", "provider", "reached"}]
    BY <1>2, <1>4 DEF Send
  <1> QED BY <1>1, <1>3, <1>4 DEF Send

Fresh(key) == [key |-> Resolve(key), wa |-> key, cid |-> TRUE, st |-> "PENDING"]
Taken(r, key) == [r EXCEPT !.wa = key, !.cid = TRUE]

\* The records the gateway looks among, by either id and by the provider's
Found(key) == {r \in InChat(Resolve(key)) : r.wa = key \/ r.cid}
OfId(k, id) == {r \in InChat(k) : r.wa = id}

\* _recordOutbound, as the sets it leaves
LEMMA RecordEffect ==
    ASSUME TypeInv, NEW s \in sends, NEW key \in Key, Record(s, key)
    PROVE  /\ sends' = (sends \ {s}) \cup {[s EXCEPT !.key = key, !.at = "provider"]}
           /\ recs' \subseteq Rec /\ sends' \subseteq Send
           /\ \/ /\ First(Found(key)) = {}
                 /\ recs' = recs \cup {Fresh(key)}
                 /\ Emit(<<[type |-> "new", wa |-> key, cid |-> TRUE, st |-> "PENDING"]>>)
              \/ \E r \in recs : /\ r \in First(Found(key))
                                 /\ recs' = (recs \ {r}) \cup {Taken(r, key)}
                                 /\ queue' = queue
  <1>1. Fresh(key) \in Rec
    BY ResolveType DEF Fresh, Rec, Status
  <1>2. \A r \in recs : Taken(r, key) \in Rec
    BY DEF Taken, Rec, TypeInv, GatewayType
  <1>3. New(Fresh(key)) = <<[type |-> "new", wa |-> key, cid |-> TRUE, st |-> "PENDING"]>>
    BY DEF New, Fresh
  <1>4. sends' = (sends \ {s}) \cup {[s EXCEPT !.key = key, !.at = "provider"]}
    BY DEF Record
  <1>5. sends' \subseteq Send
    BY <1>4, SendType DEF TypeInv, GatewayType
  <1>6. \/ /\ First(Found(key)) = {}
           /\ recs' = recs \cup {Fresh(key)} /\ Emit(New(Fresh(key)))
        \/ \E r \in First(Found(key)) : Replace(r, Taken(r, key)) /\ queue' = queue
    BY DEF Record, Fresh, Taken, Found
  <1>8. First(Found(key)) \subseteq recs
    BY DEF First, Found, InChat
  <1>7. recs' \subseteq Rec
    BY <1>1, <1>2, <1>6, <1>8 DEF Replace, TypeInv, GatewayType
  <1> QED BY <1>3, <1>4, <1>5, <1>6, <1>7, <1>8 DEF Replace

LEMMA CalledType ==
    ASSUME TypeInv, NEW s \in sends, Called(s) \/ Transcoded(s)
    PROVE  TypeInv'
  <1>1. row.st # None /\ s.by \in Calls
    BY SendType
  <1>2. UNCHANGED <<row, event, early, echoes, mapped, world>>
    BY DEF Called, Transcoded, backend
  <1>3. ASSUME NEW key \in Key, Record(s, key), UNCHANGED <<call, seen>>
        PROVE  TypeInv'
    <2>1. recs' \subseteq Rec /\ sends' \subseteq Send
      BY <1>3, RecordEffect
    <2>2. [type |-> "new", wa |-> key, cid |-> TRUE, st |-> "PENDING"] \in Event
      BY DEF Event, Status
    <2>3. QueueType'
      <3>1. CASE queue' = queue
        BY <1>2, <3>1 DEF world, TypeInv, QueueType
      <3>2. CASE Emit(<<[type |-> "new", wa |-> key, cid |-> TRUE, st |-> "PENDING"]>>)
        BY <1>2, <2>2, <3>2, EmitQueue DEF world, Counted, TypeInv
      <3> QED BY <1>3, <3>1, <3>2, RecordEffect
    <2> QED BY <1>1, <1>2, <1>3, <2>1, <2>3
            DEF world, TypeInv, BackendType, GatewayType, WorldType, Born
  <1>4. CASE Transcoded(s)
    BY <1>3, <1>4, SendType DEF Transcoded, backend
  <1>5. CASE Called(s)
    <2> DEFINE key == Resolve("lid")
    <2>1. key \in Key
      BY ResolveType DEF Key
    <2>2. ASSUME NEW r \in InChat(key), r.st \in Final, Returns(s.by, [st |-> r.st, wa |-> r.wa]),
                 sends' = sends \ {s}, UNCHANGED <<recs, queue>>
          PROVE  TypeInv'
      <3>1. r.st \in Status /\ r.wa \in Key
        BY DEF InChat, TypeInv, GatewayType, Rec
      <3>2. call' \in [Calls -> Pc] /\ seen' \in [Calls -> RowType]
        BY <1>1, <2>2, <3>1, ReturnsType DEF TypeInv
      <3> QED BY <1>1, <1>2, <2>2, <3>2
              DEF world, TypeInv, BackendType, QueueType, GatewayType, WorldType, Born
    <2>3. ASSUME sends' = (sends \ {s}) \cup {[s EXCEPT !.key = key, !.at = "media"]},
                 UNCHANGED <<recs, queue, call, seen>>
          PROVE  TypeInv'
      <3>1. sends' \subseteq Send
        BY <2>1, <2>3, SendType DEF TypeInv, GatewayType
      <3> QED BY <1>1, <1>2, <2>3, <3>1
              DEF world, TypeInv, BackendType, QueueType, GatewayType, WorldType, Born
    <2>4. \/ \E r \in InChat(key) : /\ r.st \in Final
                                    /\ Returns(s.by, [st |-> r.st, wa |-> r.wa])
                                    /\ sends' = sends \ {s} /\ UNCHANGED <<recs, queue>>
          \/ Record(s, key) /\ UNCHANGED <<call, seen>>
          \/ sends' = (sends \ {s}) \cup {[s EXCEPT !.key = key, !.at = "media"]}
             /\ UNCHANGED <<recs, queue, call, seen>>
      BY <1>5 DEF Called
    <2> QED BY <1>3, <2>1, <2>2, <2>3, <2>4
  <1> QED BY <1>4, <1>5

LEMMA AdvanceRec ==
    ASSUME NEW r \in Rec, NEW st \in Status
    PROVE  /\ Advance(r, st) \in Rec
           /\ Advance(r, st).key = r.key /\ Advance(r, st).wa = r.wa /\ Advance(r, st).cid = r.cid
           /\ Advance(r, st).st \in {r.st, st}
           /\ st \in Final => Advance(r, st).st \in Final
           /\ Rank[Advance(r, st).st] >= Rank[r.st]
  <1>1. Rank \in [Status -> {0, 1, 2}] /\ Rank["PENDING"] = 0 /\ Rank["FAILED"] = 0
        /\ Rank["SENT"] = 1 /\ Rank["DELIVERED"] = 2
    BY DEF Rank, Status
  <1>2. r.st \in Status
    BY DEF Rec
  <1> QED BY <1>1, <1>2 DEF Advance, Rec, Final, Status

\* _confirmOutboundSent, as the record it leaves and the event it emits
Confirmed(r, key) == [Advance(r, "SENT") EXCEPT !.wa = key, !.cid = TRUE]

LEMMA ConfirmedType ==
    ASSUME NEW r \in Rec, NEW key \in Key
    PROVE  /\ Confirmed(r, key) \in Rec /\ Confirmed(r, key).key = r.key
           /\ Confirmed(r, key).wa = key /\ Confirmed(r, key).cid = TRUE
           /\ Confirmed(r, key).st \in Final /\ Rank[Confirmed(r, key).st] >= Rank[r.st]
  <1>1. "SENT" \in Status /\ "SENT" \in Final
    BY DEF Status, Final
  <1>2. Advance(r, "SENT") \in Rec /\ Advance(r, "SENT").key = r.key
        /\ Advance(r, "SENT").st \in Final /\ Rank[Advance(r, "SENT").st] >= Rank[r.st]
    BY <1>1, AdvanceRec
  <1> QED BY <1>2 DEF Confirmed, Rec

LEMMA ConfirmEffect ==
    ASSUME TypeInv, NEW s \in sends, Confirm(s)
    PROVE  /\ s.at = "reached" /\ s.key \in Key /\ s.by \in Calls /\ sends' = sends \ {s}
           /\ \/ /\ First(Found(s.key)) = {}
                 /\ recs' = recs /\ Returns(s.by, [st |-> "SENT", wa |-> s.key])
                 /\ Emit(<<[type |-> "status", wa |-> s.key, cid |-> TRUE, st |-> "SENT"]>>)
              \/ \E r \in recs :
                    LET x == Confirmed(r, s.key) IN
                    /\ r \in First(Found(s.key))
                    /\ recs' = (recs \ {r}) \cup {x}
                    /\ Returns(s.by, [st |-> x.st, wa |-> s.key])
                    /\ \/ /\ x.st # r.st
                          /\ Emit(<<[type |-> "status", wa |-> s.key, cid |-> TRUE, st |-> x.st]>>)
                       \/ x.st = r.st /\ queue' = queue
           /\ UNCHANGED <<row, event, early, echoes, mapped, world>>
  <1>1. s.key \in Key /\ s.by \in Calls
    BY SendType DEF Confirm
  <1>2. \A r \in recs : Confirmed(r, s.key).wa = s.key
    BY <1>1, ConfirmedType DEF TypeInv, GatewayType
  <1>3. First(Found(s.key)) \subseteq recs
    BY DEF First, Found, InChat
  <1> QED BY <1>1, <1>2, <1>3 DEF Confirm, Said, Replace, Found, Confirmed

LEMMA ConfirmType ==
    ASSUME TypeInv, NEW s \in sends, Confirm(s)
    PROVE  TypeInv'
  <1>1. row.st # None /\ s.key \in Key /\ s.by \in Calls
    BY SendType, ConfirmEffect
  <1>2. UNCHANGED <<row, event, early, echoes, mapped, world>> /\ sends' = sends \ {s}
    BY ConfirmEffect
  <1>3. PICK st \in Final :
            /\ Returns(s.by, [st |-> st, wa |-> s.key])
            /\ \/ Emit(<<[type |-> "status", wa |-> s.key, cid |-> TRUE, st |-> st]>>)
               \/ queue' = queue
    <2>1. ASSUME NEW r \in recs PROVE Confirmed(r, s.key).st \in Final
      BY <1>1, ConfirmedType DEF TypeInv, GatewayType
    <2>2. "SENT" \in Final
      BY DEF Final
    <2> QED BY <2>1, <2>2, ConfirmEffect
  <1>4. recs' \subseteq Rec
    <2>1. ASSUME NEW r \in recs PROVE Confirmed(r, s.key) \in Rec
      BY <1>1, ConfirmedType DEF TypeInv, GatewayType
    <2>2. recs' = recs \/ \E r \in recs : recs' = (recs \ {r}) \cup {Confirmed(r, s.key)}
      BY ConfirmEffect
    <2> QED BY <2>1, <2>2 DEF TypeInv, GatewayType
  <1>5. st \in Status
    BY DEF Final, Status
  <1>6. call' \in [Calls -> Pc] /\ seen' \in [Calls -> RowType]
    BY <1>1, <1>3, <1>5, ReturnsType DEF TypeInv
  <1>7. [type |-> "status", wa |-> s.key, cid |-> TRUE, st |-> st] \in Event
    BY <1>1, <1>5 DEF Event
  <1>8. QueueType'
    BY <1>2, <1>3, <1>7, EmitQueue, SameQueue DEF world, Counted, TypeInv
  <1> QED BY <1>1, <1>2, <1>4, <1>6, <1>8
          DEF world, TypeInv, BackendType, GatewayType, WorldType, Born

\* _failOutbound
Failure(r) == [r EXCEPT !.st = "FAILED"]

LEMMA RejectEffect ==
    ASSUME TypeInv, NEW s \in sends, Reject(s)
    PROVE  /\ s.at \in {"provider", "reached"} /\ s.key \in Key /\ s.by \in Calls
           /\ sends' = sends \ {s} /\ OutFault /\ Returns(s.by, Error)
           /\ \/ /\ UNCHANGED <<recs, queue>>
                 /\ \/ \E r \in recs : r \in First(OfId(s.key, s.key)) /\ r.st # "PENDING"
                    \/ First(OfId(s.key, s.key)) = {}
              \/ \E r \in recs :
                    /\ r \in First(OfId(s.key, s.key)) /\ r.st = "PENDING"
                    /\ recs' = (recs \ {r}) \cup {Failure(r)}
                    /\ Emit(<<[type |-> "status", wa |-> s.key, cid |-> r.cid, st |-> "FAILED"]>>)
           /\ UNCHANGED <<row, event, early, echoes, mapped, prov, acked, crashed, learned,
                          overtaken>>
  <1>1. s.key \in Key /\ s.by \in Calls
    BY SendType DEF Reject
  <1>2. First(OfId(s.key, s.key)) \subseteq recs
    BY DEF First, OfId, InChat
  <1> QED BY <1>1, <1>2 DEF Reject, Said, Replace, OfId, Failure

LEMMA RejectType ==
    ASSUME TypeInv, NEW s \in sends, Reject(s)
    PROVE  TypeInv'
  <1>1. row.st # None /\ s.key \in Key /\ s.by \in Calls /\ sends' = sends \ {s}
        /\ Returns(s.by, Error) /\ Counted
        /\ UNCHANGED <<row, event, early, echoes, mapped, prov, acked, crashed, learned, overtaken>>
    BY SendType, RejectEffect DEF Counted
  <1>2. call' \in [Calls -> Pc] /\ seen' \in [Calls -> RowType]
    BY <1>1, ErrorType, ReturnsType DEF TypeInv
  <1>3. recs' \subseteq Rec
    <2>1. ASSUME NEW r \in recs PROVE Failure(r) \in Rec
      BY DEF Failure, Rec, Status, TypeInv, GatewayType
    <2>2. recs' = recs \/ \E r \in recs : recs' = (recs \ {r}) \cup {Failure(r)}
      BY RejectEffect
    <2> QED BY <2>1, <2>2 DEF TypeInv, GatewayType
  <1>4. \A r \in recs : [type |-> "status", wa |-> s.key, cid |-> r.cid, st |-> "FAILED"] \in Event
    BY <1>1 DEF Event, Status, TypeInv, GatewayType, Rec
  <1>5. queue' = queue \/ \E ev \in Event : Emit(<<ev>>)
    BY <1>4, RejectEffect
  <1>6. QueueType' /\ WorldType'
    BY <1>1, <1>5, EmitQueue, SameQueue, SameWorld DEF TypeInv, WorldType
  <1> QED BY <1>1, <1>2, <1>3, <1>6 DEF TypeInv, BackendType, GatewayType, Born

\* _applyMessageAck
LEMMA AckEffect ==
    ASSUME TypeInv, NEW id \in Key, NEW k \in Key, Ack(id, k)
    PROVE  /\ prov[id] # None /\ prov[id] \in Status \ {"PENDING"}
           /\ acked' = [acked EXCEPT ![id] = prov[id]]
           /\ \/ /\ recs' = recs
                 /\ Emit(<<[type |-> "status", wa |-> id, cid |-> FALSE, st |-> prov[id]]>>)
              \/ \E r \in recs :
                    /\ r \in First(OfId(Resolve(k), id))
                    /\ prov[id] = "FAILED" \/ Rank[prov[id]] > Rank[r.st]
                    /\ recs' = (recs \ {r}) \cup {[r EXCEPT !.st = prov[id]]}
                    /\ Emit(<<[type |-> "status", wa |-> id, cid |-> r.cid, st |-> prov[id]]>>)
              \/ UNCHANGED <<recs, queue>>
           /\ UNCHANGED <<row, call, seen, event, early, sends, echoes, mapped, prov, crashed, learned,
                          overtaken, faults>>
  <1>1. prov[id] # None /\ prov[id] \in Status \ {"PENDING"}
    BY DEF Ack, TypeInv, WorldType, Provided, None, Status
  <1>2. First(OfId(Resolve(k), id)) \subseteq recs
    BY DEF First, OfId, InChat
  <1> QED BY <1>1, <1>2 DEF Ack, Said, Replace, OfId, backend

LEMMA AckType ==
    ASSUME TypeInv, NEW id \in Key, NEW k \in Key, Ack(id, k)
    PROVE  TypeInv'
  <1>1. prov[id] # None /\ prov[id] \in Status
        /\ acked' = [acked EXCEPT ![id] = prov[id]]
        /\ UNCHANGED <<row, call, seen, event, early, sends, echoes, mapped, prov, crashed, learned,
                       overtaken, faults>>
    BY AckEffect
  <1>2. row.st # None
    BY <1>1 DEF TypeInv, Born, Unborn, Nowhere
  <1>3. recs' \subseteq Rec
    <2>1. ASSUME NEW r \in recs PROVE [r EXCEPT !.st = prov[id]] \in Rec
      BY <1>1 DEF Rec, TypeInv, GatewayType
    <2>2. recs' = recs \/ \E r \in recs : recs' = (recs \ {r}) \cup {[r EXCEPT !.st = prov[id]]}
      BY AckEffect
    <2> QED BY <2>1, <2>2 DEF TypeInv, GatewayType
  <1>4. \A b \in BOOLEAN : [type |-> "status", wa |-> id, cid |-> b, st |-> prov[id]] \in Event
    BY <1>1 DEF Event
  <1>5. \A r \in recs : r.cid \in BOOLEAN
    BY DEF TypeInv, GatewayType, Rec
  <1>6. queue' = queue \/ \E ev \in Event : Emit(<<ev>>)
    <2>1. \/ queue' = queue
          \/ \E b \in BOOLEAN :
                Emit(<<[type |-> "status", wa |-> id, cid |-> b, st |-> prov[id]]>>)
      BY <1>5, AckEffect
    <2> QED BY <1>4, <2>1
  <1>7. QueueType'
    BY <1>1, <1>6, EmitQueue, SameQueue DEF TypeInv, Counted
  <1>8. WorldType'
    BY <1>1 DEF TypeInv, WorldType, Provided, None
  <1> QED BY <1>1, <1>2, <1>3, <1>7, <1>8 DEF TypeInv, BackendType, GatewayType, Born

\* _processMessages of the user's own message
LEMMA EchoEffect ==
    ASSUME TypeInv, NEW id \in Key, Echo(id)
    PROVE  /\ prov[id] # None /\ mapped /\ id \notin echoes
           /\ \/ /\ Echoed(id) = {} /\ recs' = recs \cup {EchoOf(id)}
                 /\ Emit(<<[type |-> "new", wa |-> id, cid |-> FALSE, st |-> "SENT"]>>)
              \/ \E r \in recs :
                    /\ Echoed(id) = {r} /\ r.key = "phone" /\ r.wa = id /\ Rank[r.st] < 1
                    /\ recs' = (recs \ {r}) \cup {[r EXCEPT !.st = "SENT"]}
                    /\ Emit(<<[type |-> "new", wa |-> id, cid |-> r.cid, st |-> "SENT"]>>)
           /\ UNCHANGED <<row, call, seen, event, early, sends, echoes, mapped, world>>
  <1>1. New(EchoOf(id)) = <<[type |-> "new", wa |-> id, cid |-> FALSE, st |-> "SENT"]>>
    BY DEF New, EchoOf
  <1>2. ASSUME NEW r \in recs, r.wa = id, Rank[r.st] < 1
        PROVE  /\ Advance(r, "SENT") = [r EXCEPT !.st = "SENT"]
               /\ New(Advance(r, "SENT")) =
                     <<[type |-> "new", wa |-> id, cid |-> r.cid, st |-> "SENT"]>>
    <2>1. Rank["SENT"] = 1 /\ r \in Rec /\ Rank[r.st] \in Nat
      BY DEF Rank, Status, TypeInv, GatewayType, Rec
    <2>2. Advance(r, "SENT") = [r EXCEPT !.st = "SENT"]
      BY <1>2, <2>1 DEF Advance
    <2> QED BY <1>2, <2>1, <2>2 DEF New, Rec
  <1>3. \A r \in Echoed(id) : r \in recs /\ r.key = "phone" /\ r.wa = id
    BY DEF Echoed, InChat
  <1> QED BY <1>1, <1>2, <1>3 DEF Echo, Replace, backend

LEMMA EchoType ==
    ASSUME TypeInv, NEW id \in Key, Echo(id)
    PROVE  TypeInv'
  <1>1. prov[id] # None /\ UNCHANGED <<row, call, seen, event, early, sends, echoes, mapped, world>>
    BY EchoEffect
  <1>2. row.st # None
    BY <1>1 DEF TypeInv, Born, Unborn, Nowhere
  <1>3. recs' \subseteq Rec
    <2>1. ASSUME NEW r \in recs PROVE [r EXCEPT !.st = "SENT"] \in Rec
      BY DEF Rec, Status, TypeInv, GatewayType
    <2>2. EchoOf(id) \in Rec
      BY DEF EchoOf, Rec, Key, Status
    <2>3. \/ recs' = recs \cup {EchoOf(id)}
          \/ \E r \in recs : recs' = (recs \ {r}) \cup {[r EXCEPT !.st = "SENT"]}
      BY EchoEffect
    <2> QED BY <2>1, <2>2, <2>3 DEF TypeInv, GatewayType
  <1>4. \A b \in BOOLEAN : [type |-> "new", wa |-> id, cid |-> b, st |-> "SENT"] \in Event
    BY DEF Event, Status
  <1>5. \A r \in recs : r.cid \in BOOLEAN
    BY DEF TypeInv, GatewayType, Rec
  <1>6. \E ev \in Event : Emit(<<ev>>)
    BY <1>4, <1>5, EchoEffect
  <1>7. QueueType'
    BY <1>1, <1>6, EmitQueue DEF TypeInv, Counted, world
  <1> QED BY <1>1, <1>2, <1>3, <1>7
          DEF world, TypeInv, BackendType, GatewayType, WorldType, Born

LEMMA EchoWaitType ==
    ASSUME TypeInv, NEW id \in Key, EchoAwaits(id) \/ EchoStored(id)
    PROVE  TypeInv'
  <1>1. UNCHANGED <<row, call, seen, event, early, sends, mapped, world>>
    BY DEF EchoAwaits, EchoStored, backend
  <1>2. row.st # None
    BY DEF EchoAwaits, EchoStored, TypeInv, Born, Unborn, Nowhere
  <1>3. EchoOf(id) \in Rec
    BY DEF EchoOf, Rec, Key, Status
  <1>4. recs' \subseteq Rec /\ echoes' \subseteq Key
    BY <1>3 DEF EchoAwaits, EchoStored, TypeInv, GatewayType
  <1>5. New(EchoOf(id)) = <<[type |-> "new", wa |-> id, cid |-> FALSE, st |-> "SENT"]>>
        /\ [type |-> "new", wa |-> id, cid |-> FALSE, st |-> "SENT"] \in Event
    BY DEF New, EchoOf, Event, Status
  <1>6. QueueType'
    BY <1>1, <1>5, EmitQueue, SameQueue DEF EchoAwaits, EchoStored, TypeInv, Counted, world
  <1> QED BY <1>1, <1>2, <1>4, <1>6
          DEF world, TypeInv, BackendType, GatewayType, WorldType, Born

\* _learnLidMapping
Moved    == {r \in InChat("lid") : \A x \in InChat("phone") : x.wa # r.wa}
Renamed(r) == [r EXCEPT !.key = "phone"]

LEMMA LearnEffect ==
    ASSUME TypeInv, Learn
    PROVE  /\ learned' = TRUE
           /\ recs' = InChat("phone") \cup {Renamed(r) : r \in Moved}
           /\ queue' = queue
              \/ \E r \in recs :
                    Emit(<<[type |-> "new", wa |-> r.wa, cid |-> r.cid, st |-> r.st]>>)
           /\ UNCHANGED <<row, call, seen, event, early, sends, echoes, prov, acked, crashed,
                          overtaken, faults>>
  BY DEF Learn, Moved, Renamed, New, InChat, backend

LEMMA LearnType ==
    ASSUME TypeInv, Learn
    PROVE  TypeInv'
  <1>1. learned' \in BOOLEAN /\ mapped' \in BOOLEAN
        /\ UNCHANGED <<row, call, seen, event, early, sends, echoes, prov, acked, crashed,
                       overtaken, faults>>
    BY LearnEffect DEF Learn
  <1>2. recs' \subseteq Rec /\ (recs = {} => recs' = {})
    <2>1. ASSUME NEW r \in recs PROVE Renamed(r) \in Rec
      BY DEF Renamed, Rec, Key, TypeInv, GatewayType
    <2>2. Moved \subseteq recs /\ InChat("phone") \subseteq recs
      BY DEF Moved, InChat
    <2>3. recs' = InChat("phone") \cup {Renamed(r) : r \in Moved}
      BY LearnEffect
    <2> HIDE DEF Moved
    <2> QED BY <2>1, <2>2, <2>3 DEF TypeInv, GatewayType
  <1>3. queue' = queue \/ (recs # {} /\ \E ev \in Event : Emit(<<ev>>))
    <2>1. \A r \in recs : [type |-> "new", wa |-> r.wa, cid |-> r.cid, st |-> r.st] \in Event
      BY DEF Event, TypeInv, GatewayType, Rec
    <2> QED BY <2>1, LearnEffect
  <1>4. QueueType'
    BY <1>1, <1>3, EmitQueue, SameQueue DEF TypeInv, Counted
  <1>5. WorldType'
    BY <1>1, SameWorld DEF TypeInv, Counted, WorldType
  <1>6. Born'
    BY <1>1, <1>2, <1>3 DEF TypeInv, Born, Unborn
  <1> QED BY <1>1, <1>2, <1>4, <1>5, <1>6 DEF TypeInv, BackendType, GatewayType

LEMMA GatewayCrashType ==
    ASSUME TypeInv, GatewayCrash
    PROVE  TypeInv'
  <1>1. /\ recs' = {} /\ sends' = {} /\ echoes' = {} /\ crashed' = TRUE /\ Counted
        /\ UNCHANGED <<row, event, early, queue, mapped, prov, acked, learned, overtaken>>
    BY DEF GatewayCrash, Counted
  <1>2. call' \in [Calls -> Pc] /\ seen' \in [Calls -> RowType]
    BY DEF GatewayCrash, TypeInv, BackendType, Pc
  <1>3. QueueType' /\ WorldType'
    BY <1>1, SameQueue, SameWorld DEF TypeInv, WorldType
  <1>4. Born'
    BY <1>1 DEF GatewayCrash, TypeInv, BackendType, Born, Unborn
  <1> QED BY <1>1, <1>2, <1>3, <1>4 DEF TypeInv, BackendType, GatewayType

LEMMA ReachType ==
    ASSUME TypeInv, NEW s \in sends, Reach(s)
    PROVE  TypeInv'
  <1>1. row.st # None /\ s.key \in Key /\ [s EXCEPT !.at = "reached"] \in Send
    BY SendType DEF Reach
  <1>2. UNCHANGED <<row, call, seen, event, early, queue, recs, echoes, mapped, acked, crashed, learned,
                    overtaken, faults>>
    BY DEF Reach, backend
  <1>3. sends' \subseteq Send
    BY <1>1 DEF Reach, TypeInv, GatewayType
  <1>4. prov' = [prov EXCEPT ![s.key] = IF @ = None THEN "SENT" ELSE @]
    BY DEF Reach
  <1>5. WorldType'
    BY <1>1, <1>2, <1>4 DEF TypeInv, WorldType, Provided, None
  <1> QED BY <1>1, <1>2, <1>3, <1>5 DEF TypeInv, BackendType, QueueType, GatewayType, Born

LEMMA ProgressType ==
    ASSUME TypeInv, NEW id \in Key, Progress(id)
    PROVE  TypeInv'
  <1>1. UNCHANGED <<row, call, seen, event, early, queue, recs, sends, echoes, mapped, acked, crashed,
                    learned, overtaken, faults>>
    BY DEF Progress, backend, gateway
  <1>2. row.st # None
    BY DEF Progress, TypeInv, Born, Unborn, Nowhere, None
  <1>3. PICK st \in {"DELIVERED", "FAILED"} : prov' = [prov EXCEPT ![id] = st]
    BY DEF Progress
  <1>4. WorldType'
    BY <1>1, <1>3 DEF TypeInv, WorldType, Provided, None
  <1> QED BY <1>1, <1>2, <1>4 DEF TypeInv, BackendType, QueueType, GatewayType, Born

LEMMA TypeStutter ==
    ASSUME TypeInv, UNCHANGED outVars
    PROVE  TypeInv'
  BY DEF outVars, backend, gateway, world, TypeInv, BackendType, QueueType, GatewayType, WorldType,
         Born, Unborn

LEMMA TypeNext ==
    ASSUME TypeInv, [OutNext]_outVars
    PROVE  TypeInv'
  <1>1. CASE UNCHANGED outVars
    BY <1>1, TypeStutter
  <1>2. ASSUME NEW c \in Calls, Submit(c) \/ Insert(c) \/ Claim(c) \/ Poll(c) \/ GiveUp(c)
        PROVE  TypeInv'
    BY <1>2, SubmitType, InsertType, ClaimType, PollType
  <1>3. ASSUME NEW c \in Calls, \/ Answered(c) \/ Failed(c) \/ TimesOut(c)
                                \/ \E b \in BOOLEAN : Restart(c, b)
        PROVE  TypeInv'
    BY <1>3, AnsweredType, TimesOutType, RestartType
  <1>4. CASE ReadEvent \/ WriteEvent
    BY <1>4, ReadEventType, WriteEventType
  <1>5. ASSUME NEW s \in sends,
               Called(s) \/ Transcoded(s) \/ Confirm(s) \/ Reject(s) \/ Reach(s)
        PROVE  TypeInv'
    BY <1>5, CalledType, ConfirmType, RejectType, ReachType
  <1>6. ASSUME NEW id \in Key, \/ Echo(id) \/ EchoAwaits(id) \/ EchoStored(id) \/ Progress(id)
                               \/ \E k \in Key : Ack(id, k)
        PROVE  TypeInv'
    BY <1>6, EchoType, EchoWaitType, ProgressType, AckType
  <1>7. CASE Learn \/ GatewayCrash
    BY <1>7, LearnType, GatewayCrashType
  <1> QED BY <1>1, <1>2, <1>3, <1>4, <1>5, <1>6, <1>7 DEF OutNext

LEMMA Typed == OutSpec => []TypeInv
  <1>1. OutInit => TypeInv
    BY TypeInit
  <1>2. TypeInv /\ [OutNext]_outVars => TypeInv'
    BY TypeNext
  <1> QED BY <1>1, <1>2, PTL DEF OutSpec

\* Every variable keeps its type, and the events under way keep their bound.
THEOREM OutTypeCorrect == OutSpec => []OutTypeOK
  <1>1. TypeInv => OutTypeOK
    BY TypeInvOK
  <1> QED BY <1>1, Typed, PTL

-----------------------------------------------------------------------------
(* One record.  Until the phone number is learned on the way, every send,  *)
(* id and record goes by one key.  A second record is an echo's that was   *)
(* put beside the first.                                                   *)

K == Resolve("lid")

OneInv ==
    ~learned => /\ \A s \in sends : s.key \in {None, K}
                /\ \A id \in Key : prov[id] # None => id = K
                /\ \A r \in recs : r.key = K /\ r.wa = K /\ (r.cid \/ mapped)
                /\ \A r, x \in recs : /\ r.cid = x.cid => r = x
                                      /\ r.cid /\ ~x.cid => x.st = "SENT"
                /\ \A id \in echoes : id = K /\ mapped /\ \A r \in recs : r.cid

LEMMA OneKey == K \in Key /\ Resolve(K) = K /\ (mapped => K = "phone") /\ (~mapped => K = "lid")
  BY DEF K, Resolve, Key

LEMMA OneSend ==
    ASSUME TypeInv, OneInv, ~learned, NEW s \in sends, s.at # "called"
    PROVE  s.key = K
  BY SendType DEF OneInv, None, Key

\* The record that is found: another is an echo's.
Lead(r) == r.key = K /\ r.wa = K /\ \A x \in recs \ {r} : r.cid /\ ~x.cid /\ x.st = "SENT"

LEMMA FirstLeads ==
    ASSUME TypeInv, OneInv, ~learned
    PROVE  /\ First(recs) = {} => recs = {}
           /\ \A r \in First(recs) : r \in recs /\ Lead(r)
  <1>1. \A r, x \in recs : /\ r.key = K /\ r.wa = K /\ x.wa = r.wa /\ r.cid \in BOOLEAN
                           /\ r.cid = x.cid => r = x
                           /\ r.cid /\ ~x.cid => x.st = "SENT"
    BY DEF OneInv, TypeInv, GatewayType, Rec
  <1>2. ASSUME First(recs) = {}, NEW r \in recs PROVE FALSE
    <2>1. PICK x \in recs : x.cid /\ ~r.cid
      BY <1>1, <1>2 DEF First
    <2>2. x \in First(recs)
      BY <1>1, <2>1 DEF First
    <2> QED BY <1>2, <2>2
  <1>3. ASSUME NEW r \in First(recs), NEW x \in recs \ {r} PROVE r.cid /\ ~x.cid /\ x.st = "SENT"
    <2>1. r \in recs /\ (x.cid => r.cid) /\ r.cid # x.cid
      BY <1>1 DEF First
    <2> QED BY <1>1, <2>1
  <1>4. \A r \in First(recs) : r \in recs
    BY DEF First
  <1> QED BY <1>1, <1>2, <1>3, <1>4 DEF Lead

LEMMA AllFound ==
    ASSUME TypeInv, OneInv, ~learned
    PROVE  Found(K) = recs /\ OfId(K, K) = recs
  BY OneKey DEF Found, OfId, InChat, OneInv

LEMMA RecordOne ==
    ASSUME TypeInv, OneInv, ~learned, NEW s \in sends, Record(s, K)
    PROVE  \/ /\ recs = {} /\ recs' = {Fresh(K)}
              /\ Emit(<<[type |-> "new", wa |-> K, cid |-> TRUE, st |-> "PENDING"]>>)
           \/ \E r \in recs : /\ Lead(r) /\ recs' = (recs \ {r}) \cup {Taken(r, K)}
                              /\ queue' = queue
  <1>1. CASE /\ First(recs) = {} /\ recs' = recs \cup {Fresh(K)}
             /\ Emit(<<[type |-> "new", wa |-> K, cid |-> TRUE, st |-> "PENDING"]>>)
    BY <1>1, FirstLeads
  <1>2. ASSUME NEW r \in First(recs), recs' = (recs \ {r}) \cup {Taken(r, K)}, queue' = queue
        PROVE  r \in recs /\ Lead(r)
    BY <1>2, FirstLeads
  <1> QED BY <1>1, <1>2, OneKey, AllFound, RecordEffect

LEMMA ConfirmOne ==
    ASSUME TypeInv, OneInv, ~learned, NEW s \in sends, Confirm(s)
    PROVE  /\ s.key = K
           /\ \/ /\ recs = {} /\ recs' = {} /\ Returns(s.by, [st |-> "SENT", wa |-> K])
                 /\ Emit(<<[type |-> "status", wa |-> K, cid |-> TRUE, st |-> "SENT"]>>)
              \/ \E r \in recs :
                    LET x == Confirmed(r, K) IN
                    /\ Lead(r) /\ recs' = (recs \ {r}) \cup {x}
                    /\ Returns(s.by, [st |-> x.st, wa |-> K])
                    /\ \/ /\ x.st # r.st
                          /\ Emit(<<[type |-> "status", wa |-> K, cid |-> TRUE, st |-> x.st]>>)
                       \/ x.st = r.st /\ queue' = queue
  <1>1. s.key = K
    BY OneSend, ConfirmEffect
  <1>2. CASE /\ First(recs) = {} /\ recs' = recs /\ Returns(s.by, [st |-> "SENT", wa |-> K])
             /\ Emit(<<[type |-> "status", wa |-> K, cid |-> TRUE, st |-> "SENT"]>>)
    BY <1>1, <1>2, FirstLeads
  <1>3. \A r \in First(recs) : Lead(r)
    BY FirstLeads
  <1> QED BY <1>1, <1>2, <1>3, AllFound, ConfirmEffect

LEMMA RejectOne ==
    ASSUME TypeInv, OneInv, ~learned, NEW s \in sends, Reject(s)
    PROVE  /\ s.key = K
           /\ \/ /\ UNCHANGED <<recs, queue>>
                 /\ recs # {} => \E r \in recs : Lead(r) /\ r.st # "PENDING"
              \/ \E r \in recs :
                    /\ r.st = "PENDING" /\ Lead(r) /\ recs' = (recs \ {r}) \cup {Failure(r)}
                    /\ Emit(<<[type |-> "status", wa |-> K, cid |-> r.cid, st |-> "FAILED"]>>)
  <1>1. s.key = K
    BY OneSend, RejectEffect
  <1>2. (First(recs) = {} => recs = {}) /\ \A r \in First(recs) : Lead(r)
    BY FirstLeads
  <1> QED BY <1>1, <1>2, AllFound, RejectEffect

LEMMA AckOne ==
    ASSUME TypeInv, OneInv, ~learned, NEW id \in Key, NEW k \in Key, Ack(id, k)
    PROVE  /\ id = K /\ prov[K] \in Status \ {"PENDING"}
           /\ \/ /\ recs' = recs
                 /\ Emit(<<[type |-> "status", wa |-> K, cid |-> FALSE, st |-> prov[K]]>>)
              \/ \E r \in recs :
                    /\ prov[K] = "FAILED" \/ Rank[prov[K]] > Rank[r.st]
                    /\ Lead(r) /\ recs' = (recs \ {r}) \cup {[r EXCEPT !.st = prov[K]]}
                    /\ Emit(<<[type |-> "status", wa |-> K, cid |-> r.cid, st |-> prov[K]]>>)
              \/ UNCHANGED <<recs, queue>>
  <1>1. id = K /\ prov[K] \in Status \ {"PENDING"}
    BY AckEffect DEF OneInv
  <1>2. ASSUME NEW r \in recs, r \in First(OfId(Resolve(k), K))
        PROVE  Lead(r)
    <2>1. r.key = Resolve(k) /\ r.key = K
      BY <1>2 DEF First, OfId, InChat, OneInv
    <2>2. OfId(Resolve(k), K) = recs
      BY <2>1, AllFound
    <2> QED BY <1>2, <2>2, FirstLeads
  <1> QED BY <1>1, <1>2, AckEffect

LEMMA AllEchoed ==
    ASSUME TypeInv, OneInv, ~learned, mapped
    PROVE  K = "phone" /\ Echoed(K) = recs
  BY OneKey DEF Echoed, InChat, OneInv

LEMMA EchoOne ==
    ASSUME TypeInv, OneInv, ~learned, NEW id \in Key, Echo(id)
    PROVE  /\ id = K /\ mapped /\ prov[K] # None /\ echoes = {} /\ echoes' = {}
           /\ \/ /\ recs = {} /\ recs' = {EchoOf(K)}
                 /\ Emit(<<[type |-> "new", wa |-> K, cid |-> FALSE, st |-> "SENT"]>>)
              \/ \E r \in recs :
                    /\ Rank[r.st] < 1 /\ recs = {r} /\ recs' = {[r EXCEPT !.st = "SENT"]}
                    /\ Emit(<<[type |-> "new", wa |-> K, cid |-> r.cid, st |-> "SENT"]>>)
  <1>1. id = K /\ mapped /\ prov[K] # None /\ K \notin echoes /\ echoes' = echoes
    BY EchoEffect DEF OneInv
  <1>2. echoes = {}
    BY <1>1 DEF OneInv
  <1>3. Echoed(id) = recs
    BY <1>1, AllEchoed
  <1> QED BY <1>1, <1>2, <1>3, EchoEffect

LEMMA EchoAwaitsOne ==
    ASSUME TypeInv, OneInv, ~learned, NEW id \in Key, EchoAwaits(id)
    PROVE  /\ id = K /\ mapped /\ prov[K] # None /\ recs = {} /\ recs' = {} /\ echoes' = {K}
  <1>1. id = K /\ mapped
    BY DEF EchoAwaits, OneInv
  <1> QED BY <1>1, AllEchoed DEF EchoAwaits

LEMMA EchoStoredOne ==
    ASSUME TypeInv, OneInv, ~learned, NEW id \in Key, EchoStored(id)
    PROVE  /\ id = K /\ mapped /\ K = "phone" /\ echoes = {K} /\ echoes' = {}
           /\ \A r \in recs : r.cid
           /\ recs' = recs \cup {EchoOf(K)} \/ recs' = {EchoOf(K)}
  <1>1. id = K /\ mapped /\ id \in echoes /\ \A r \in recs : r.cid
    BY DEF EchoStored, OneInv
  <1>2. echoes = {K}
    BY <1>1 DEF OneInv
  <1>3. K = "phone" /\ Echoed(K) = recs
    BY <1>1, AllEchoed
  <1> QED BY <1>1, <1>2, <1>3 DEF EchoStored

\* How the records may change in a step
RecordMoves ==
    \/ recs' \subseteq recs
    \/ \E x \in Rec : /\ recs = {} /\ recs' = {x} /\ x.key = K /\ x.wa = K
                      /\ x.cid \/ (mapped /\ echoes = {})
    \/ \E r \in recs, x \in Rec :
          /\ Lead(r) /\ recs' = (recs \ {r}) \cup {x} /\ x.wa = K /\ (x.key = K \/ learned')
          /\ r.cid => x.cid
          /\ x = r \/ x.st # "PENDING" \/ recs = {r}
          /\ r.st \in Final => x.st = "FAILED" \/ Rank[x.st] >= Rank[r.st]
    \/ /\ mapped /\ K \in echoes \ echoes' /\ EchoOf(K).key = K /\ \A r \in recs : r.cid
       /\ recs' = recs \cup {EchoOf(K)} \/ recs' = {EchoOf(K)}

LEMMA OneMoves ==
    ASSUME TypeInv, OneInv, ~learned, [OutNext]_outVars
    PROVE  RecordMoves
  <1>1. \A r \in recs : r \in Rec
    BY DEF TypeInv, GatewayType
  <1>2. ASSUME recs' = recs PROVE RecordMoves
    BY <1>2 DEF RecordMoves
  <1>3. CASE UNCHANGED outVars
    BY <1>2, <1>3 DEF outVars, gateway
  <1>4. ASSUME NEW c \in Calls, \/ Submit(c) \/ Insert(c) \/ Claim(c) \/ Poll(c) \/ GiveUp(c)
                                \/ Answered(c) \/ Failed(c) \/ TimesOut(c)
                                \/ \E b \in BOOLEAN : Restart(c, b)
        PROVE  RecordMoves
    BY <1>2, <1>4 DEF Submit, Insert, Claim, Poll, GiveUp, Answered, Failed, TimesOut, Restart, gateway
  <1>5. CASE ReadEvent \/ WriteEvent
    BY <1>2, <1>5 DEF ReadEvent, WriteEvent, gateway
  <1>6. ASSUME NEW s \in sends, Record(s, K)
        PROVE  RecordMoves
    <2>1. Fresh(K) \in Rec /\ Fresh(K).key = K /\ Fresh(K).wa = K /\ Fresh(K).cid
      BY OneKey DEF Fresh, Rec, Status
    <2>2. ASSUME NEW r \in recs, Lead(r), recs' = (recs \ {r}) \cup {Taken(r, K)}
          PROVE  RecordMoves
      <3> DEFINE x == Taken(r, K)
      <3>1. x \in Rec /\ x.key = K /\ x.wa = K /\ x.cid /\ x.st = r.st
        BY <1>1, <2>2, OneKey DEF Taken, Rec, Lead
      <3>2. Rank[r.st] >= Rank[r.st]
        BY <1>1, AdvanceRec DEF Rec
      <3>3. r.cid => x = r
        BY <1>1, <2>2 DEF Taken, Rec, Lead
      <3>4. ~r.cid => recs = {r}
        BY <2>2 DEF Lead
      <3> HIDE DEF x
      <3>5. recs' = (recs \ {r}) \cup {x}
        BY <2>2 DEF x
      <3> QED BY <2>2, <3>1, <3>2, <3>3, <3>4, <3>5 DEF RecordMoves
    <2> QED BY <1>6, <2>1, <2>2, RecordOne DEF RecordMoves
  <1>7. ASSUME NEW s \in sends, Called(s) \/ Transcoded(s)
        PROVE  RecordMoves
    <2>1. CASE Called(s)
      <3>1. recs' = recs \/ Record(s, K)
        BY <2>1 DEF Called, K
      <3> QED BY <1>2, <1>6, <3>1
    <2>2. CASE Transcoded(s)
      <3>1. s.at = "media" /\ Record(s, s.key)
        BY <2>2 DEF Transcoded
      <3>2. s.key = K
        BY <3>1, OneSend
      <3> QED BY <1>6, <3>1, <3>2
    <2> QED BY <1>7, <2>1, <2>2
  <1>8. ASSUME NEW s \in sends, Confirm(s)
        PROVE  RecordMoves
    <2>1. ASSUME NEW r \in recs, Lead(r), recs' = (recs \ {r}) \cup {Confirmed(r, K)}
          PROVE  RecordMoves
      <3> DEFINE x == Confirmed(r, K)
      <3>1. /\ x \in Rec /\ x.key = K /\ x.wa = K /\ x.cid /\ x.st \in Final
            /\ Rank[x.st] >= Rank[r.st]
        <4>1. r \in Rec /\ K \in Key /\ r.key = K
          BY <1>1, <2>1, OneKey DEF Lead
        <4> QED BY <4>1, ConfirmedType
      <3> HIDE DEF x
      <3>2. recs' = (recs \ {r}) \cup {x} /\ x.st # "PENDING"
        BY <2>1, <3>1 DEF x, Final
      <3> QED BY <2>1, <3>1, <3>2 DEF RecordMoves
    <2>2. CASE recs = {} /\ recs' = {}
      BY <2>2, <1>2
    <2>3. \/ recs = {} /\ recs' = {}
          \/ \E r \in recs : Lead(r) /\ recs' = (recs \ {r}) \cup {Confirmed(r, K)}
      BY <1>8, ConfirmOne
    <2> QED BY <2>1, <2>2, <2>3
  <1>9. ASSUME NEW s \in sends, Reject(s)
        PROVE  RecordMoves
    <2>1. ASSUME NEW r \in recs, r.st = "PENDING", Lead(r),
                 recs' = (recs \ {r}) \cup {Failure(r)}
          PROVE  RecordMoves
      <3> DEFINE x == Failure(r)
      <3>1. x \in Rec /\ x.key = K /\ x.wa = K /\ x.cid = r.cid /\ x.st = "FAILED"
        BY <1>1, <2>1 DEF Failure, Rec, Status, Lead
      <3> HIDE DEF x
      <3>2. recs' = (recs \ {r}) \cup {x}
        BY <2>1 DEF x
      <3> QED BY <2>1, <3>1, <3>2 DEF RecordMoves
    <2> QED BY <1>2, <1>9, <2>1, RejectOne
  <1>10. ASSUME NEW id \in Key, NEW k \in Key, Ack(id, k)
         PROVE  RecordMoves
    <2>1. prov[K] \in Status /\ prov[K] # "PENDING"
      BY <1>10, AckOne
    <2>2. ASSUME NEW r \in recs, prov[K] = "FAILED" \/ Rank[prov[K]] > Rank[r.st], Lead(r),
                 recs' = (recs \ {r}) \cup {[r EXCEPT !.st = prov[K]]}
          PROVE  RecordMoves
      <3> DEFINE x == [r EXCEPT !.st = prov[K]]
      <3>1. x \in Rec /\ x.key = K /\ x.wa = K /\ x.st = prov[K] /\ x.cid = r.cid
        BY <1>1, <2>1, <2>2 DEF Rec, Lead
      <3>2. x.st = "FAILED" \/ Rank[x.st] >= Rank[r.st]
        <4>1. r.st \in Status /\ \A st \in Status : Rank[st] \in Nat
          BY <1>1 DEF Rec, Rank
        <4> QED BY <2>1, <2>2, <3>1, <4>1
      <3> HIDE DEF x
      <3>3. recs' = (recs \ {r}) \cup {x}
        BY <2>2 DEF x
      <3> QED BY <2>1, <2>2, <3>1, <3>2, <3>3 DEF RecordMoves
    <2> QED BY <1>2, <1>10, <2>2, AckOne
  <1>11. ASSUME NEW id \in Key, Echo(id)
         PROVE  RecordMoves
    <2>1. EchoOf(K) \in Rec /\ EchoOf(K).key = K /\ EchoOf(K).wa = K
      BY <1>11, EchoOne, OneKey DEF EchoOf, Rec, Status
    <2>2. ASSUME NEW r \in recs, Rank[r.st] < 1, recs = {r}, recs' = {[r EXCEPT !.st = "SENT"]}
          PROVE  RecordMoves
      <3> DEFINE x == [r EXCEPT !.st = "SENT"]
      <3>1. x \in Rec /\ x.key = K /\ x.wa = K /\ x.cid = r.cid /\ Lead(r)
        BY <1>1, <2>2 DEF Rec, Status, OneInv, Lead
      <3>2. r.st \notin Final
        BY <2>2 DEF Rank, Final, Status
      <3> HIDE DEF x
      <3>3. recs' = (recs \ {r}) \cup {x}
        BY <2>2 DEF x
      <3> QED BY <2>2, <3>1, <3>2, <3>3 DEF RecordMoves
    <2>3. mapped /\ echoes = {}
      BY <1>11, EchoOne
    <2> QED BY <1>11, <2>1, <2>2, <2>3, EchoOne DEF RecordMoves
  <1>16. ASSUME NEW id \in Key, EchoAwaits(id)
         PROVE  RecordMoves
    BY <1>2, <1>16 DEF EchoAwaits
  <1>17. ASSUME NEW id \in Key, EchoStored(id)
         PROVE  RecordMoves
    <2>1. K = "phone" => EchoOf(K).key = K
      BY DEF EchoOf
    <2> QED BY <1>17, <2>1, EchoStoredOne DEF RecordMoves
  <1>12. ASSUME NEW s \in sends, Reach(s)
         PROVE  RecordMoves
    BY <1>2, <1>12 DEF Reach
  <1>13. ASSUME NEW id \in Key, Progress(id)
         PROVE  RecordMoves
    BY <1>2, <1>13 DEF Progress, gateway
  <1>14. CASE Learn
    <2>1. ~mapped /\ K = "lid" /\ learned'
      BY <1>14, OneKey DEF Learn
    <2>2. InChat("phone") = {} /\ Moved = recs
      BY <2>1 DEF InChat, Moved, OneInv
    <2>3. recs' = {Renamed(r) : r \in recs}
      BY <1>14, <2>2, LearnEffect
    <2>4. CASE recs = {}
      BY <1>2, <2>3, <2>4
    <2>5. ASSUME NEW r \in recs
          PROVE  RecordMoves
      <3>1. recs = {r} /\ Lead(r)
        BY <2>1 DEF OneInv, Lead
      <3> DEFINE x == Renamed(r)
      <3>3. x \in Rec /\ x.wa = K /\ x.st = r.st /\ x.cid = r.cid
        BY <1>1, <3>1 DEF Renamed, Rec, Key, Lead
      <3>4. Rank[r.st] >= Rank[r.st]
        BY <1>1, AdvanceRec DEF Rec
      <3> HIDE DEF x
      <3>2. recs' = (recs \ {r}) \cup {x}
        BY <2>3, <3>1 DEF x
      <3> QED BY <2>1, <3>1, <3>2, <3>3, <3>4 DEF RecordMoves
    <2> QED BY <2>4, <2>5
  <1>15. CASE GatewayCrash
    BY <1>15 DEF GatewayCrash, RecordMoves
  <1> QED BY <1>3, <1>4, <1>5, <1>7, <1>8, <1>9, <1>10, <1>11, <1>12, <1>13, <1>14, <1>15, <1>16, <1>17
          DEF OutNext

LEMMA OneInit == OutInit => OneInv
  BY DEF OutInit, OneInv

LEMMA OneNext ==
    ASSUME TypeInv, OneInv, [OutNext]_outVars
    PROVE  OneInv'
  <1> SUFFICES ASSUME ~learned'
               PROVE  /\ \A s \in sends' : s.key \in {None, K'}
                      /\ \A id \in Key : prov'[id] # None => id = K'
                      /\ \A r \in recs' : r.key = K' /\ r.wa = K' /\ (r.cid \/ mapped')
                      /\ \A r, x \in recs' : /\ r.cid = x.cid => r = x
                                             /\ r.cid /\ ~x.cid => x.st = "SENT"
                      /\ \A id \in echoes' : id = K' /\ mapped' /\ \A r \in recs' : r.cid
    BY DEF OneInv
  <1>1. ~learned /\ mapped' = mapped /\ K' = K
    <2>1. learned' = learned /\ mapped' = mapped
      BY DEF OutNext, Submit, Insert, Claim, Poll, GiveUp, Answered, Failed, TimesOut, Restart,
             ReadEvent, WriteEvent, Called, Transcoded, Confirm, Reject, Reach, Echo, EchoAwaits, EchoStored,
             Progress, Ack,
             Learn, GatewayCrash, outVars, backend, gateway, world
    <2> QED BY <2>1 DEF K, Resolve
  <1>8. /\ \A r \in recs : r.key = K /\ r.wa = K /\ (r.cid \/ mapped) /\ r.cid \in BOOLEAN
        /\ \A r, x \in recs : (r.cid = x.cid => r = x) /\ (r.cid /\ ~x.cid => x.st = "SENT")
        /\ EchoOf(K).wa = K /\ EchoOf(K).st = "SENT" /\ EchoOf(K).cid = FALSE
        /\ \A x \in Rec : x.cid \in BOOLEAN
    BY <1>1 DEF OneInv, EchoOf, TypeInv, GatewayType, Rec
  <1>2. \A r \in recs' : r.key = K /\ r.wa = K /\ (r.cid \/ mapped)
    BY <1>1, <1>8, OneMoves DEF RecordMoves
  <1>3. \A r, x \in recs' : (r.cid = x.cid => r = x) /\ (r.cid /\ ~x.cid => x.st = "SENT")
    BY <1>1, <1>8, OneMoves DEF RecordMoves, Lead
  <1>7. ASSUME NEW id \in echoes'
        PROVE  id = K /\ mapped /\ \A r \in recs' : r.cid
    <2>1. id \in Key /\ (id \in echoes \/ EchoAwaits(id))
      <3>1. id \in Key
        BY TypeNext DEF TypeInv, GatewayType
      <3>2. id \in echoes \/ EchoAwaits(id)
        BY <1>7 DEF OutNext, Submit, Insert, Claim, Poll, GiveUp, Answered, Failed, TimesOut,
             Restart, ReadEvent, WriteEvent, Called, Transcoded, Confirm, Reject, Reach, Echo,
             EchoAwaits, EchoStored, Progress, Ack, Learn, GatewayCrash, outVars, backend, gateway
      <3> QED BY <3>1, <3>2
    <2>2. CASE EchoAwaits(id)
      BY <1>1, <2>1, <2>2, EchoAwaitsOne
    <2>3. CASE id \in echoes
      <3>1. id = K /\ mapped /\ \A r \in recs : r.cid
        BY <1>1, <2>3 DEF OneInv
      <3> QED BY <1>1, <1>7, <2>3, <3>1, OneMoves DEF RecordMoves
    <2> QED BY <2>1, <2>2, <2>3
  <1>4. \A id \in Key : prov'[id] # None => prov[id] # None \/ \E s \in sends : Reach(s) /\ id = s.key
    BY SendType DEF OutNext, Submit, Insert, Claim, Poll, GiveUp, Answered, Failed, TimesOut, Restart,
           ReadEvent, WriteEvent, Called, Transcoded, Confirm, Reject, Reach, Echo, EchoAwaits, EchoStored,
             Progress, Ack,
           Learn, GatewayCrash, outVars, backend, gateway, world, TypeInv, WorldType, None
  <1>5. \A id \in Key : prov'[id] # None => id = K
    BY <1>1, <1>4, OneSend DEF Reach, OneInv
  <1>6. \A s \in sends' : s.key \in {None, K}
    <2> SUFFICES \A s \in sends' \ sends : s.key \in {None, K}
      BY <1>1 DEF OneInv
    <2>1. ASSUME NEW c \in Calls, sends' = sends \/ Dispatch(c)
          PROVE  \A s \in sends' \ sends : s.key \in {None, K}
      BY <2>1 DEF Dispatch
    <2>2. ASSUME NEW c \in Calls, \/ Submit(c) \/ Insert(c) \/ Claim(c) \/ Poll(c) \/ GiveUp(c)
                                  \/ Answered(c) \/ Failed(c) \/ TimesOut(c)
                                  \/ \E b \in BOOLEAN : Restart(c, b)
          PROVE  \A s \in sends' \ sends : s.key \in {None, K}
      BY <2>1, <2>2
         DEF Submit, Insert, Claim, Poll, GiveUp, Answered, Failed, TimesOut, Restart, gateway
    <2>3. ASSUME NEW s \in sends, NEW key \in Key,
                 Called(s) \/ Transcoded(s) \/ Confirm(s) \/ Reject(s) \/ Reach(s)
          PROVE  \A x \in sends' \ sends : x.key = K
      <3>1. s \in Send /\ K \in Key
        BY OneKey DEF TypeInv, GatewayType
      <3>2. ASSUME NEW at, [s EXCEPT !.key = K, !.at = at] \in sends'
            PROVE  [s EXCEPT !.key = K, !.at = at].key = K
        BY <3>1 DEF Send
      <3>3. CASE Called(s) \/ Transcoded(s)
        <4>1. s.at = "called" \/ s.key = K
          BY <1>1, OneSend
        <4>2. \/ sends' = sends \ {s}
              \/ \E at \in {"provider", "media"} :
                    sends' = (sends \ {s}) \cup {[s EXCEPT !.key = K, !.at = at]}
          BY <3>3, <4>1 DEF Called, Transcoded, Record, K
        <4> QED BY <3>2, <4>2
      <3>4. CASE Confirm(s) \/ Reject(s)
        BY <3>4 DEF Confirm, Reject
      <3>5. CASE Reach(s)
        <4>1. s.key = K /\ [s EXCEPT !.at = "reached"].key = s.key
          BY <1>1, <3>1, <3>5, OneSend DEF Reach, Send
        <4> QED BY <3>5, <4>1 DEF Reach
      <3> QED BY <2>3, <3>3, <3>4, <3>5
    <2>4. CASE \/ ReadEvent \/ WriteEvent \/ Learn \/ GatewayCrash \/ UNCHANGED outVars
               \/ \E id \in Key : \/ Echo(id) \/ EchoAwaits(id) \/ EchoStored(id) \/ Progress(id)
                                  \/ \E k \in Key : Ack(id, k)
      BY <2>4 DEF ReadEvent, WriteEvent, Learn, GatewayCrash, Echo, EchoAwaits, EchoStored, Progress,
                  Ack, outVars, gateway
    <2> QED BY <2>2, <2>3, <2>4, OneKey DEF OutNext
  <1> QED BY <1>1, <1>2, <1>3, <1>5, <1>6, <1>7

LEMMA OneKept == OutSpec => [](TypeInv /\ OneInv)
  <1>1. OutInit => TypeInv /\ OneInv
    BY TypeInit, OneInit
  <1>2. TypeInv /\ OneInv /\ [OutNext]_outVars => (TypeInv /\ OneInv)'
    BY TypeNext, OneNext
  <1> QED BY <1>1, <1>2, PTL DEF OutSpec

\* While the phone number is known all along, the gateway never keeps two records
\* of the message that have its client id.
THEOREM OneRecordKept == OutSpec => []OneRecord
  <1>1. TypeInv /\ OneInv => OneRecord
    BY DEF OneInv, OneRecord, TypeInv, GatewayType, Rec
  <1> QED BY <1>1, OneKept, PTL

\* What the gateway has recorded as sent or delivered is never recorded as less,
\* but for a rejection by the provider and for the record of an echo whose media was
\* being downloaded.
THEOREM RecordNeverGoesBack == OutSpec => RecordNeverBack
  <1> DEFINE Kept == ~learned => \A r \in recs, x \in recs' \ recs :
                       r.st \in Final /\ x.wa = r.wa =>
                         \/ x.st = "FAILED"
                         \/ Rank[x.st] >= Rank[r.st]
                         \/ ~x.cid /\ r.wa \in echoes \ echoes'
  <1>1. TypeInv /\ OneInv /\ [OutNext]_outVars => [Kept]_outVars
    <2> SUFFICES ASSUME TypeInv, OneInv, [OutNext]_outVars, ~learned,
                        NEW r \in recs, r.st \in Final, NEW x \in recs' \ recs, x.wa = r.wa
                 PROVE  \/ x.st = "FAILED"
                        \/ Rank[x.st] >= Rank[r.st]
                        \/ ~x.cid /\ r.wa \in echoes \ echoes'
      OBVIOUS
    <2>1. r.wa = K
      BY DEF OneInv
    <2>2. CASE recs' \subseteq recs
      BY <2>2
    <2>3. CASE \E y \in Rec : recs = {} /\ recs' = {y}
      BY <2>3
    <2>4. ASSUME NEW q \in recs, NEW y \in Rec, Lead(q), recs' = (recs \ {q}) \cup {y},
                 y = q \/ y.st # "PENDING" \/ recs = {q},
                 q.st \in Final => y.st = "FAILED" \/ Rank[y.st] >= Rank[q.st]
          PROVE  x.st = "FAILED" \/ Rank[x.st] >= Rank[r.st]
      <3>1. x = y /\ y # q
        BY <2>4
      <3>2. CASE r = q
        BY <2>4, <3>1, <3>2
      <3>3. CASE r # q
        <4>1. r.st = "SENT" /\ y.st # "PENDING"
          BY <2>4, <3>1, <3>3 DEF Lead
        <4>2. y.st \in {"FAILED", "SENT", "DELIVERED"}
          BY <4>1 DEF Rec, Status
        <4>3. Rank["SENT"] = 1 /\ Rank["DELIVERED"] = 2
          BY DEF Rank, Status
        <4> QED BY <3>1, <4>1, <4>2, <4>3
      <3> QED BY <3>2, <3>3
    <2>5. CASE /\ K \in echoes \ echoes'
               /\ recs' = recs \cup {EchoOf(K)} \/ recs' = {EchoOf(K)}
      <3>1. x = EchoOf(K)
        BY <2>5
      <3> QED BY <2>1, <2>5, <3>1 DEF EchoOf
    <2> QED BY <2>2, <2>3, <2>4, <2>5, OneMoves DEF RecordMoves
  <1> QED BY <1>1, OneKept, PTL DEF OutSpec, RecordNeverBack

-----------------------------------------------------------------------------
(* Nothing rests PENDING: the row.  A row without an id is being tried,    *)
(* and unless a retry has overtaken a read, what is about to be written    *)
(* over a PENDING row was read from it.                                    *)

Trying(c) == \/ call[c] = "sent"
             \/ call[c] = "failed" /\ seen[c] = Unsent
             \/ call[c] = "answered" /\ seen[c].st \in Final
Tried  == row = Unsent => \E c \in Calls : Trying(c)
InTime == ~overtaken /\ row.st = "PENDING" =>
              /\ event.busy => event.row.st = "PENDING"
              /\ \A c \in Calls : call[c] = "answered" => seen[c].st \in Final
Answers == \A c \in Calls : call[c] = "answered" => seen[c].st # "PENDING"

RowInv == Tried /\ InTime /\ Answers

\* Answered and WriteEvent neither make a row PENDING nor take its id away.
LEMMA WriteKeeps ==
    ASSUME TypeInv, WriteEvent
    PROVE  /\ row'.st = "PENDING" => row.st = "PENDING"
           /\ row'.wa = None => row.wa = None
           /\ Told(event.ev) /\ ~event.ev.cid /\ row'.wa # None => row.wa # None
           /\ Told(event.ev) /\ event.ev.cid /\ event.ev.st # "PENDING" /\ event.row.st = "PENDING"
                => row'.st # "PENDING"
  <1>1. event.row \in ReadRow
    BY BusyType DEF WriteEvent, TypeInv
  <1>2. CASE ~Matches /\ row' = row
    BY <1>2 DEF Matches
  <1>3. ASSUME NEW x \in ReadRow, row' = Written(Changed(event.row, x)),
               x.st = "PENDING" => event.row.st = "PENDING",
               x.st = "PENDING" /\ Told(event.ev) => event.ev.st = "PENDING",
               Told(event.ev) /\ ~event.ev.cid => x.wa = event.row.wa
        PROVE  /\ row'.st = "PENDING" => row.st = "PENDING"
               /\ row'.wa = None => row.wa = None
               /\ Told(event.ev) /\ ~event.ev.cid /\ row'.wa # None => row.wa # None
               /\ Told(event.ev) /\ event.ev.cid /\ event.ev.st # "PENDING" /\ event.row.st = "PENDING"
                    => row'.st # "PENDING"
    <2>1. /\ row'.st = IF x.st = event.row.st \/ x.st = None THEN row.st ELSE x.st
          /\ row'.wa = IF x.wa = event.row.wa \/ x.wa = None THEN row.wa ELSE x.wa
      BY <1>3 DEF Written, Changed
    <2>2. x.st # None
      BY DEF ReadRow, Status, None
    <2> QED BY <1>3, <2>1, <2>2
  <1> QED BY <1>2, <1>3, WriteEventRow

LEMMA AnsweredKeeps ==
    ASSUME TypeInv, RowInv, NEW c \in Calls, Answered(c)
    PROVE  /\ row'.st = "PENDING" => row.st = "PENDING" /\ seen[c].st \notin Final
           /\ row'.wa = None => row.wa = None
  <1>1. /\ row'.st = IF seen[c].st = None THEN row.st ELSE seen[c].st
        /\ row'.wa = IF seen[c].wa = None THEN row.wa ELSE seen[c].wa
    BY DEF Answered, Written
  <1>2. seen[c].st # "PENDING"
    BY DEF Answered, RowInv, Answers
  <1> QED BY <1>1, <1>2 DEF Final, None

\* An answer or an error to a call leaves the row being tried.
LEMMA ReturnsRow ==
    ASSUME TypeInv, RowInv, NEW c \in Calls, NEW st \in Final \cup {"error"}, NEW wa \in Key \cup {None},
           Returns(c, [st |-> st, wa |-> wa]), row.st # None, st \in Final => wa \in Key,
           UNCHANGED <<row, event, overtaken>>
    PROVE  RowInv'
  <1>1. row \in RowType /\ seen \in [Calls -> RowType] /\ call \in [Calls -> Pc]
    BY DEF TypeInv, BackendType
  <1>2. CASE call[c] # "sent"
    <2>1. UNCHANGED <<call, seen>>
      BY <1>2 DEF Returns
    <2> QED BY <2>1 DEF RowInv, Tried, InTime, Answers, Trying
  <1>3. CASE call[c] = "sent" /\ st = "error"
    <2>1. call' = [call EXCEPT ![c] = "failed"] /\ seen' = [seen EXCEPT ![c] = row]
      BY <1>3 DEF Returns, Goto
    <2>2. \A d \in Calls : row = Unsent /\ Trying(d) => Trying(d)'
      BY <1>1, <2>1 DEF Trying
    <2>3. Tried'
      BY <2>2 DEF RowInv, Tried
    <2>4. InTime' /\ Answers'
      BY <1>1, <2>1 DEF RowInv, InTime, Answers
    <2> QED BY <2>3, <2>4 DEF RowInv
  <1>4. CASE call[c] = "sent" /\ st \in Final
    <2> DEFINE x == Advance([row EXCEPT !.wa = wa], st)
               w == Changed(row, x)
    <2>1. [row EXCEPT !.wa = wa] \in ReadRow /\ [row EXCEPT !.wa = wa].st = row.st /\ st \in Status
      BY <1>1, <1>4 DEF ReadRow, RowType, Final, Status
    <2>2. x.st \in {row.st, st} /\ (x.st = "PENDING" => row.st = "PENDING") /\ x.st \in Final
      BY <1>4, <2>1, AdvanceType
    <2>3. w.st # "PENDING" /\ (row.st = "PENDING" => w.st \in Final)
      BY <2>2 DEF Changed, Final, None
    <2>4. call' = [call EXCEPT ![c] = "answered"] /\ seen' = [seen EXCEPT ![c] = w]
      BY <1>4 DEF Returns, Goto, Final
    <2> HIDE DEF w
    <2>5. \A d \in Calls : row = Unsent /\ Trying(d) => Trying(d)'
      BY <1>1, <2>3, <2>4, RowTypes DEF Trying
    <2>6. Tried'
      BY <2>5 DEF RowInv, Tried
    <2>7. InTime' /\ Answers'
      BY <1>1, <2>3, <2>4 DEF RowInv, InTime, Answers
    <2> QED BY <2>6, <2>7 DEF RowInv
  <1> QED BY <1>2, <1>3, <1>4

LEMMA DispatchRow ==
    ASSUME TypeInv, NEW c \in Calls, Dispatch(c), seen' = seen
    PROVE  Trying(c)' /\ \A d \in Calls : call'[d] = "answered" => call[d] = "answered"
  BY DEF Dispatch, Goto, Trying, TypeInv, BackendType

\* A call that moves on without having been tried leaves the others as they are.
LEMMA GotoRow ==
    ASSUME TypeInv, NEW c \in Calls, NEW pc \in Pc \ {"answered"}, Goto(c, pc),
           \A d \in Calls \ {c} : seen'[d] = seen[d]
    PROVE  /\ \A d \in Calls \ {c} : Trying(d) => Trying(d)'
           /\ \A d \in Calls : call'[d] = "answered" => call[d] = "answered" /\ seen'[d] = seen[d]
  BY DEF Goto, Trying, TypeInv, BackendType

LEMMA SubmitRow ==
    ASSUME TypeInv, RowInv, NEW c \in Calls, Submit(c)
    PROVE  RowInv'
  <1>1. ~Trying(c) /\ UNCHANGED <<row, seen, event, overtaken>>
    BY DEF Submit, Trying, world
  <1>2. \E pc \in Pc \ {"answered"} : Goto(c, pc)
    BY DEF Submit, Pc
  <1>3. /\ \A d \in Calls \ {c} : Trying(d) => Trying(d)'
        /\ \A d \in Calls : call'[d] = "answered" => call[d] = "answered" /\ seen'[d] = seen[d]
    BY <1>1, <1>2, GotoRow
  <1> QED BY <1>1, <1>3 DEF RowInv, Tried, InTime, Answers

LEMMA InsertRow ==
    ASSUME TypeInv, RowInv, NEW c \in Calls, Insert(c)
    PROVE  RowInv'
  <1>1. ~Trying(c) /\ UNCHANGED <<seen, event, overtaken>>
    BY DEF Insert, Trying, world
  <1>2. CASE row = NoRow /\ row' = Unsent /\ Dispatch(c)
    <2>1. ~event.busy /\ \A d \in Calls : call[d] # "answered"
      BY <1>2 DEF NoRow, TypeInv, Born, Unborn
    <2> QED BY <1>1, <1>2, <2>1, DispatchRow DEF RowInv, Tried, InTime, Answers
  <1>3. CASE row' = row /\ Goto(c, IF Settled THEN "done" ELSE "raced")
    <2>1. /\ \A d \in Calls \ {c} : Trying(d) => Trying(d)'
          /\ \A d \in Calls : call'[d] = "answered" => call[d] = "answered" /\ seen'[d] = seen[d]
      BY <1>1, <1>3, GotoRow DEF Pc
    <2> QED BY <1>1, <1>3, <2>1 DEF RowInv, Tried, InTime, Answers
  <1> QED BY <1>2, <1>3 DEF Insert

LEMMA ClaimRow ==
    ASSUME TypeInv, RowInv, NEW c \in Calls, Claim(c)
    PROVE  RowInv'
  <1>1. ~Trying(c) /\ UNCHANGED <<seen, event>>
    BY DEF Claim, Trying
  <1>2. CASE /\ row' = Unsent /\ Dispatch(c)
             /\ overtaken' = (overtaken \/ event.busy \/ \E d \in Calls : call[d] = "answered")
    BY <1>1, <1>2, DispatchRow DEF RowInv, Tried, InTime, Answers
  <1>3. CASE row' = row /\ Goto(c, "lost") /\ overtaken' = overtaken
    <2>1. /\ \A d \in Calls \ {c} : Trying(d) => Trying(d)'
          /\ \A d \in Calls : call'[d] = "answered" => call[d] = "answered" /\ seen'[d] = seen[d]
      BY <1>1, <1>3, GotoRow DEF Pc
    <2> QED BY <1>1, <1>3, <2>1 DEF RowInv, Tried, InTime, Answers
  <1> QED BY <1>2, <1>3 DEF Claim

LEMMA PollRow ==
    ASSUME TypeInv, RowInv, NEW c \in Calls, Poll(c)
    PROVE  RowInv'
  <1>1. ~Trying(c) /\ UNCHANGED <<row, seen, event, overtaken>>
    BY DEF Poll, Trying, world
  <1>2. CASE Dispatch(c)
    BY <1>1, <1>2, DispatchRow DEF RowInv, Tried, InTime, Answers
  <1>3. CASE \E pc \in Pc \ {"answered"} : Goto(c, pc)
    <2>1. /\ \A d \in Calls \ {c} : Trying(d) => Trying(d)'
          /\ \A d \in Calls : call'[d] = "answered" => call[d] = "answered" /\ seen'[d] = seen[d]
      BY <1>1, <1>3, GotoRow
    <2> QED BY <1>1, <2>1 DEF RowInv, Tried, InTime, Answers
  <1> QED BY <1>2, <1>3 DEF Poll, Pc

LEMMA GiveUpRow ==
    ASSUME TypeInv, RowInv, NEW c \in Calls, GiveUp(c)
    PROVE  RowInv'
  <1>1. row' = [row EXCEPT !.st = "FAILED"] /\ UNCHANGED <<seen, event, overtaken>>
    BY DEF GiveUp, world
  <1>2. row'.st = "FAILED" /\ row' # Unsent
    BY <1>1, RowTypes DEF TypeInv, BackendType, RowType
  <1>3. \A d \in Calls : call'[d] = "answered" => call[d] = "answered" /\ seen'[d] = seen[d]
    BY <1>1, GotoRow DEF GiveUp, Pc
  <1> QED BY <1>1, <1>2, <1>3 DEF RowInv, Tried, InTime, Answers

LEMMA AnsweredRow ==
    ASSUME TypeInv, RowInv, NEW c \in Calls, Answered(c)
    PROVE  RowInv'
  <1>1. UNCHANGED <<event, overtaken>> /\ Goto(c, "done") /\ seen' = [seen EXCEPT ![c] = NoRow]
    BY DEF Answered, world
  <1>2. /\ \A d \in Calls \ {c} : Trying(d) => Trying(d)'
        /\ \A d \in Calls : call'[d] = "answered" => call[d] = "answered" /\ seen'[d] = seen[d]
    BY <1>1, GotoRow DEF TypeInv, BackendType, Pc
  <1>3. Tried'
    <2> SUFFICES ASSUME row' = Unsent PROVE \E d \in Calls : Trying(d)'
      BY DEF Tried
    <2>1. row.st = "PENDING" /\ row.wa = None /\ seen[c].st \notin Final
      BY AnsweredKeeps DEF Unsent
    <2>2. row = Unsent
      BY <2>1 DEF Unsent, TypeInv, BackendType, RowType
    <2>3. ~Trying(c)
      BY <2>1 DEF Answered, Trying
    <2> QED BY <1>2, <2>2, <2>3 DEF RowInv, Tried
  <1>4. InTime' /\ Answers'
    BY <1>1, <1>2, AnsweredKeeps DEF RowInv, InTime, Answers
  <1> QED BY <1>3, <1>4 DEF RowInv

LEMMA FailedRow ==
    ASSUME TypeInv, RowInv, NEW c \in Calls, Failed(c)
    PROVE  /\ RowInv'
           /\ row' = row \/ (row'.st = "FAILED" /\ row'.wa = row.wa)
  <1>1. UNCHANGED <<event, overtaken>> /\ Goto(c, "done") /\ seen' = [seen EXCEPT ![c] = NoRow]
    BY DEF Failed, world
  <1>2. /\ \A d \in Calls \ {c} : Trying(d) => Trying(d)'
        /\ \A d \in Calls : call'[d] = "answered" => call[d] = "answered" /\ seen'[d] = seen[d]
    BY <1>1, GotoRow DEF TypeInv, BackendType, Pc
  <1>3. /\ row'.wa = row.wa /\ row' \in RowType
        /\ IF seen[c] = Unsent THEN row'.st = "FAILED" ELSE row' = row
    BY DEF Failed, Written, NoRow, None, TypeInv, BackendType, RowType, Status
  <1>4. Tried'
    <2> SUFFICES ASSUME row' = Unsent PROVE \E d \in Calls : Trying(d)'
      BY DEF Tried
    <2>1. seen[c] # Unsent /\ row = Unsent
      BY <1>3, RowTypes
    <2>2. ~Trying(c)
      BY <2>1 DEF Failed, Trying
    <2> QED BY <1>2, <2>1, <2>2 DEF RowInv, Tried
  <1>5. InTime' /\ Answers'
    BY <1>1, <1>2, <1>3 DEF RowInv, InTime, Answers
  <1> QED BY <1>3, <1>4, <1>5 DEF RowInv

LEMMA RestartRow ==
    ASSUME TypeInv, RowInv, NEW c \in Calls, NEW b \in BOOLEAN, Restart(c, b)
    PROVE  /\ RowInv'
           /\ row' = row \/ row'.st = "FAILED"
  <1>1. row' = IF row = Unsent THEN [row EXCEPT !.st = "FAILED"] ELSE row
    BY DEF Restart
  <1>2. row' # Unsent /\ (row' = row \/ row'.st = "FAILED")
    BY <1>1, RowTypes DEF TypeInv, BackendType, RowType
  <1>3. \A d \in Calls : call'[d] = "answered" => call[d] = "answered" /\ seen'[d] = seen[d]
    BY GotoRow DEF Restart, TypeInv, BackendType, Pc
  <1>4. overtaken' = overtaken /\ (event' = event \/ event' = Idle)
    BY DEF Restart
  <1>5. Idle.busy = FALSE
    BY DEF Idle
  <1> QED BY <1>2, <1>3, <1>4, <1>5 DEF RowInv, Tried, InTime, Answers

LEMMA ReadEventRow ==
    ASSUME TypeInv, RowInv, ReadEvent
    PROVE  RowInv'
  <1>1. event'.row = row /\ UNCHANGED <<row, call, seen, overtaken>>
    BY DEF ReadEvent, world
  <1> QED BY <1>1 DEF RowInv, Tried, InTime, Answers, Trying

LEMMA WriteEventRowInv ==
    ASSUME TypeInv, RowInv, WriteEvent
    PROVE  RowInv'
  <1>1. event' = Idle /\ ~event'.busy /\ UNCHANGED <<call, seen, overtaken>>
    BY DEF WriteEvent, world, Idle
  <1>2. row' = Unsent => row = Unsent
    <2>1. row' = Unsent => row.st = "PENDING" /\ row.wa = None
      BY WriteKeeps DEF Unsent
    <2> QED BY <2>1 DEF Unsent, TypeInv, BackendType, RowType
  <1> QED BY <1>1, <1>2, WriteKeeps DEF RowInv, Tried, InTime, Answers, Trying

LEMMA GatewayCrashRow ==
    ASSUME TypeInv, RowInv, GatewayCrash
    PROVE  RowInv'
  <1>1. /\ call' = [c \in Calls |-> IF call[c] = "sent" THEN "failed" ELSE call[c]]
        /\ seen' = [c \in Calls |-> IF call[c] = "sent" THEN row ELSE seen[c]]
        /\ UNCHANGED <<row, event, overtaken>>
    BY DEF GatewayCrash
  <1>2. \A c \in Calls : row = Unsent /\ Trying(c) => Trying(c)'
    BY <1>1 DEF Trying
  <1> QED BY <1>1, <1>2 DEF RowInv, Tried, InTime, Answers

LEMMA SameRow ==
    ASSUME RowInv, UNCHANGED <<row, call, seen, event, overtaken>>
    PROVE  RowInv'
  BY DEF RowInv, Tried, InTime, Answers, Trying

LEMMA GatewayRow ==
    ASSUME TypeInv, RowInv, NEW s \in sends, Called(s) \/ Transcoded(s) \/ Confirm(s) \/ Reject(s)
    PROVE  RowInv'
  <1>1. row.st # None /\ s.by \in Calls
    BY SendType
  <1>2. UNCHANGED <<row, event, overtaken>>
    BY DEF Called, Transcoded, Confirm, Reject, backend, world
  <1>3. ASSUME NEW r \in recs
        PROVE  r \in Rec /\ r.wa \in Key /\ r.st \in Status
    BY DEF TypeInv, GatewayType, Rec
  <1>4. CASE Called(s)
    <2>1. \/ \E r \in recs : r.st \in Final /\ Returns(s.by, [st |-> r.st, wa |-> r.wa])
          \/ UNCHANGED <<call, seen>>
      BY <1>4 DEF Called, InChat
    <2> QED BY <1>1, <1>2, <1>3, <2>1, ReturnsRow, SameRow
  <1>5. CASE Transcoded(s)
    BY <1>5, SameRow DEF Transcoded, backend, world
  <1>6. CASE Confirm(s)
    <2>1. s.key \in Key /\ \E st \in Final : Returns(s.by, [st |-> st, wa |-> s.key])
      <3>1. s.key \in Key
        BY <1>6, ConfirmEffect
      <3>2. \A r \in recs : Confirmed(r, s.key).st \in Final
        BY <1>3, <3>1, ConfirmedType
      <3>3. "SENT" \in Final
        BY DEF Final
      <3> QED BY <1>6, <3>1, <3>2, <3>3, ConfirmEffect
    <2> QED BY <1>1, <1>2, <2>1, ReturnsRow
  <1>7. CASE Reject(s)
    <2>1. Returns(s.by, [st |-> "error", wa |-> None])
      BY <1>7 DEF Reject, Error
    <2> QED BY <1>1, <1>2, <2>1, ReturnsRow DEF Final
  <1> QED BY <1>4, <1>5, <1>6, <1>7

LEMMA RowNext ==
    ASSUME TypeInv, RowInv, [OutNext]_outVars
    PROVE  RowInv'
  <1>1. ASSUME NEW c \in Calls, \/ Submit(c) \/ Insert(c) \/ Claim(c) \/ Poll(c) \/ GiveUp(c)
                                \/ Answered(c) \/ Failed(c) \/ \E b \in BOOLEAN : Restart(c, b)
        PROVE  RowInv'
    BY <1>1, SubmitRow, InsertRow, ClaimRow, PollRow, GiveUpRow, AnsweredRow, FailedRow, RestartRow
  <1>2. ASSUME NEW c \in Calls, TimesOut(c)
        PROVE  RowInv'
    <2>1. row.st # None
      BY <1>2 DEF TimesOut, TypeInv, Born, Unborn
    <2>2. Returns(c, [st |-> "error", wa |-> None]) /\ UNCHANGED <<row, event, overtaken>>
      BY <1>2 DEF TimesOut, Error
    <2> QED BY <2>1, <2>2, ReturnsRow DEF Final
  <1>3. CASE ReadEvent \/ WriteEvent \/ GatewayCrash
    BY <1>3, ReadEventRow, WriteEventRowInv, GatewayCrashRow
  <1>4. ASSUME NEW s \in sends, Called(s) \/ Transcoded(s) \/ Confirm(s) \/ Reject(s)
        PROVE  RowInv'
    BY <1>4, GatewayRow
  <1>5. ASSUME \/ \E s \in sends : Reach(s)
               \/ \E id \in Key : \/ Echo(id) \/ EchoAwaits(id) \/ EchoStored(id) \/ Progress(id)
                                  \/ \E k \in Key : Ack(id, k)
               \/ Learn \/ UNCHANGED outVars
        PROVE  RowInv'
    BY <1>5, SameRow DEF Reach, Echo, EchoAwaits, EchoStored, Progress, Ack, Learn, outVars, backend, world
  <1> QED BY <1>1, <1>2, <1>3, <1>4, <1>5 DEF OutNext

LEMMA RowInit == OutInit => RowInv
  BY DEF OutInit, RowInv, Tried, InTime, Answers, NoRow, Unsent, None

-----------------------------------------------------------------------------
(* Nothing rests PENDING: the gateway and the events on their way.  As     *)
(* long as the gateway has not restarted, a PENDING record has a send that *)
(* will decide it, and once it is decided an event that settles the row is *)
(* on its way for as long as something says PENDING.                       *)

Settling(ev) == ev.cid /\ ev.st # "PENDING"
Named   == row.st = "PENDING" /\ row.wa # None
Coming  == \/ event.busy /\ Settling(event.ev)
           \/ \E i \in 1..Len(queue) : Settling(queue[i])
Owed    == \/ event.busy /\ event.ev.st = "PENDING"
           \/ \E i \in 1..Len(queue) : queue[i].st = "PENDING"
           \/ Named
Handed  == {s \in sends : s.at \in {"provider", "reached"}}

Started  == recs = {} => /\ queue = <<>> /\ ~event.busy /\ Handed = {} /\ prov = Nowhere
                         /\ ~overtaken => ~Named
Pursued  == echoes = {} /\ \A r \in recs : r.cid /\ (r.st = "PENDING" => Handed # {})
AllTold  == /\ event.busy => Told(event.ev)
            /\ \A i \in 1..Len(queue) : Told(queue[i])
NewFirst == \A i \in 1..Len(queue) : queue[i].st = "PENDING" => i = 1 /\ ~event.busy
Reported == ~overtaken /\ Owed /\ (\E r \in recs : r.st # "PENDING") => Coming

SettlesInv == ~crashed /\ ~learned => Started /\ Pursued /\ AllTold /\ NewFirst /\ Reported

\* What emitting an event does to the queue
LEMMA EmitAppends ==
    ASSUME TypeInv, NEW ev \in Event, Emit(<<ev>>)
    PROVE  /\ Len(queue) + 1 \in 1..Len(queue') /\ queue'[Len(queue) + 1] = ev
           /\ \A i \in 1..Len(queue) : i \in 1..Len(queue') /\ queue'[i] = queue[i]
           /\ \A i \in 1..Len(queue') :
                 \/ i \in 1..Len(queue) /\ queue'[i] = queue[i]
                 \/ i = Len(queue) + 1 /\ queue'[i] = ev
  <1>1. Len(queue) \in Nat /\ faults \in Nat /\ QueueType
    BY DEF TypeInv, QueueType, WorldType
  <1>2. /\ Len(queue') = Len(queue) + 1 /\ queue'[Len(queue) + 1] = ev
        /\ \A i \in 1..Len(queue) : queue'[i] = queue[i]
    BY <1>1, EmitType
  <1> QED BY <1>1, <1>2

\* An event that says what became of the message
LEMMA EmitSettles ==
    ASSUME TypeInv, SettlesInv, ~crashed, ~learned, NEW ev \in Event, Emit(<<ev>>),
           Told(ev), ev.st # "PENDING", UNCHANGED <<row, event>>
    PROVE  /\ AllTold' /\ NewFirst'
           /\ Owed' => Owed
           /\ Coming \/ Settling(ev) => Coming'
  <1> USE EmitAppends DEF SettlesInv
  <1>1. AllTold'
    BY DEF AllTold
  <1>2. NewFirst'
    BY DEF NewFirst
  <1>3. Owed' => Owed
    BY DEF Owed, Named
  <1>4. Coming => Coming'
    BY DEF Coming
  <1>5. Settling(ev) => Coming'
    BY DEF Coming
  <1> QED BY <1>1, <1>2, <1>3, <1>4, <1>5

\* A step of the backend that names no PENDING row
LEMMA RowSettles ==
    ASSUME SettlesInv, UNCHANGED <<event, queue, recs, echoes, prov, crashed, learned>>, Handed' = Handed,
           overtaken => overtaken', ~overtaken' /\ Named' => Named
    PROVE  SettlesInv'
  <1> SUFFICES ASSUME ~crashed', ~learned'
               PROVE  Started' /\ Pursued' /\ AllTold' /\ NewFirst' /\ Reported'
    BY DEF SettlesInv
  <1>1. Started /\ Pursued /\ AllTold /\ NewFirst /\ Reported
    BY DEF SettlesInv
  <1>2. Started'
    BY <1>1 DEF Started
  <1>3. Pursued' /\ AllTold' /\ NewFirst'
    BY <1>1 DEF Pursued, AllTold, NewFirst
  <1>4. Coming' = Coming
    BY DEF Coming
  <1>5. ~overtaken' /\ Owed' => Owed
    BY DEF Owed
  <1>6. Reported'
    BY <1>1, <1>4, <1>5 DEF Reported
  <1> QED BY <1>2, <1>3, <1>6

LEMMA DispatchHanded == ASSUME NEW c \in Calls, Dispatch(c) PROVE Handed' = Handed
  BY DEF Dispatch, Handed

LEMMA CallSettles ==
    ASSUME TypeInv, RowInv, SettlesInv, NEW c \in Calls,
           \/ Submit(c) \/ Insert(c) \/ Claim(c) \/ Poll(c) \/ GiveUp(c) \/ Answered(c) \/ Failed(c)
           \/ TimesOut(c)
    PROVE  SettlesInv'
  <1>1. UNCHANGED <<event, queue, recs, echoes, prov, crashed, learned>> /\ (overtaken => overtaken')
    <2>1. CASE Submit(c) \/ Insert(c) \/ Poll(c)
      BY <2>1 DEF Submit, Insert, Poll, world
    <2>2. CASE Claim(c)
      <3>1. \/ overtaken' = (overtaken \/ event.busy \/ \E d \in Calls : call[d] = "answered")
            \/ overtaken' = overtaken
        BY <2>2 DEF Claim
      <3>2. overtaken => overtaken'
        BY <3>1, Zenon
      <3> QED BY <2>2, <3>2 DEF Claim
    <2>3. CASE GiveUp(c) \/ Answered(c) \/ Failed(c) \/ TimesOut(c)
      BY <2>3 DEF GiveUp, Answered, Failed, TimesOut, gateway, world
    <2> QED BY <2>1, <2>2, <2>3
  <1>2. Handed' = Handed
    <2>1. sends' = sends \/ Dispatch(c)
      BY DEF Submit, Insert, Claim, Poll, GiveUp, Answered, Failed, TimesOut, gateway
    <2> QED BY <2>1, DispatchHanded DEF Handed
  <1>3. CASE row' = row
    BY <1>1, <1>2, <1>3, RowSettles DEF Named
  <1>4. CASE row' = Unsent
    BY <1>1, <1>2, <1>4, RowSettles DEF Named, Unsent
  <1>5. CASE row'.st = "FAILED"
    BY <1>1, <1>2, <1>5, RowSettles DEF Named
  <1>6. CASE Answered(c)
    <2>1. row'.st = "PENDING" => overtaken
      BY <1>6, AnsweredKeeps DEF RowInv, InTime, Answered
    <2> QED BY <1>1, <1>2, <2>1, RowSettles DEF Named
  <1>7. CASE GiveUp(c)
    <2>1. row'.st = "FAILED"
      BY <1>7 DEF GiveUp, TypeInv, BackendType, RowType
    <2> QED BY <1>5, <2>1
  <1>8. CASE Failed(c)
    BY <1>3, <1>5, <1>8, FailedRow
  <1>9. CASE Submit(c) \/ Insert(c) \/ Claim(c) \/ Poll(c) \/ TimesOut(c)
    BY <1>3, <1>4, <1>9 DEF Submit, Insert, Claim, Poll, TimesOut
  <1> QED BY <1>6, <1>7, <1>8, <1>9

\* The event that a restart interrupts is the first again.
LEMMA RestartSettles ==
    ASSUME TypeInv, RowInv, SettlesInv, NEW c \in Calls, NEW b \in BOOLEAN, Restart(c, b)
    PROVE  SettlesInv'
  <1>1. UNCHANGED <<recs, sends, echoes, prov, crashed, learned, overtaken>> /\ Handed' = Handed
    BY DEF Restart, gateway, Handed
  <1>2. Named' => Named
    BY RestartRow DEF Named
  <1>3. CASE UNCHANGED <<event, queue>>
    BY <1>1, <1>2, <1>3, RowSettles
  <1>4. CASE ~event.busy /\ queue' = queue /\ event' = Idle
    <2> SUFFICES ASSUME ~crashed', ~learned'
                 PROVE  Started' /\ Pursued' /\ AllTold' /\ NewFirst' /\ Reported'
      BY DEF SettlesInv
    <2>1. Started /\ Pursued /\ AllTold /\ NewFirst /\ Reported /\ ~event'.busy
      BY <1>1, <1>4 DEF SettlesInv, Idle
    <2>2. Started' /\ Pursued' /\ AllTold' /\ NewFirst'
      BY <1>1, <1>2, <1>4, <2>1 DEF Started, Pursued, AllTold, NewFirst
    <2>3. (Owed' => Owed) /\ (Coming => Coming')
      BY <1>2, <1>4, <2>1 DEF Owed, Coming
    <2>4. Reported'
      BY <1>1, <2>1, <2>3 DEF Reported
    <2> QED BY <2>2, <2>4
  <1>5. CASE event.busy /\ queue' = <<event.ev>> \o queue /\ event' = Idle
    <2> SUFFICES ASSUME ~crashed', ~learned'
                 PROVE  Started' /\ Pursued' /\ AllTold' /\ NewFirst' /\ Reported'
      BY DEF SettlesInv
    <2>1. Started /\ Pursued /\ AllTold /\ NewFirst /\ Reported /\ ~event'.busy
      BY <1>1, <1>5 DEF SettlesInv, Idle
    <2>2. event.ev \in Event /\ queue \in Seq(Event) /\ Len(queue) \in Nat
      BY <1>5, BusyType DEF TypeInv, QueueType
    <2>3. /\ Len(queue') = Len(queue) + 1 /\ queue'[1] = event.ev
          /\ \A i \in 1..Len(queue) : queue'[i + 1] = queue[i]
          /\ \A i \in 1..Len(queue') : i = 1 \/ (i - 1 \in 1..Len(queue) /\ queue'[i] = queue[i - 1])
      BY <1>5, <2>2
    <2>4. Started' /\ Pursued'
      BY <1>1, <1>2, <1>5, <2>1 DEF Started, Pursued
    <2>5. AllTold'
      BY <1>5, <2>1, <2>3 DEF AllTold
    <2>6. NewFirst'
      BY <1>5, <2>1, <2>3 DEF NewFirst
    <2>7. Owed' => Owed
      BY <1>2, <1>5, <2>1, <2>3 DEF Owed
    <2>8. Coming => Coming'
      <3>1. 1 \in 1..Len(queue') /\ \A i \in 1..Len(queue) : i + 1 \in 1..Len(queue')
        BY <2>2, <2>3
      <3> QED BY <2>3, <3>1 DEF Coming
    <2>9. Reported'
      BY <1>1, <2>1, <2>7, <2>8 DEF Reported
    <2> QED BY <2>4, <2>5, <2>6, <2>9
  <1> QED BY <1>3, <1>4, <1>5 DEF Restart

LEMMA ReadEventSettles ==
    ASSUME TypeInv, SettlesInv, ReadEvent
    PROVE  SettlesInv'
  <1> SUFFICES ASSUME ~crashed', ~learned'
               PROVE  Started' /\ Pursued' /\ AllTold' /\ NewFirst' /\ Reported'
    BY DEF SettlesInv
  <1>1. UNCHANGED <<row, recs, sends, echoes, prov, crashed, learned, overtaken>> /\ Handed' = Handed
    BY DEF ReadEvent, gateway, world, Handed
  <1>2. Started /\ Pursued /\ AllTold /\ NewFirst /\ Reported
    BY <1>1 DEF SettlesInv
  <1>3. /\ ~event.busy /\ queue # <<>> /\ queue \in Seq(Event)
        /\ event'.busy /\ event'.ev = Head(queue) /\ queue' = Tail(queue)
    BY DEF ReadEvent, TypeInv, QueueType
  <1>4. /\ Len(queue) \in Nat /\ 1 \in 1..Len(queue) /\ Head(queue) = queue[1]
        /\ \A i \in 1..Len(queue') : i + 1 \in 1..Len(queue) /\ queue'[i] = queue[i + 1]
        /\ \A i \in 1..Len(queue) : i = 1 \/ (i - 1 \in 1..Len(queue') /\ queue'[i - 1] = queue[i])
    BY <1>3
  <1>5. Started' /\ Pursued'
    BY <1>1, <1>2, <1>3 DEF Started, Pursued, Named
  <1>6. AllTold'
    BY <1>2, <1>3, <1>4 DEF AllTold
  <1>7. \A i \in 1..Len(queue') : queue'[i].st # "PENDING"
    <2> SUFFICES ASSUME NEW i \in 1..Len(queue'), queue'[i].st = "PENDING" PROVE FALSE
      OBVIOUS
    <2>1. i + 1 = 1 /\ i >= 1
      BY <1>2, <1>4 DEF NewFirst
    <2> QED BY <2>1
  <1>8. Owed' => Owed
    BY <1>1, <1>3, <1>4, <1>7 DEF Owed, Named
  <1>9. Coming => Coming'
    BY <1>3, <1>4 DEF Coming
  <1>10. Reported'
    BY <1>1, <1>2, <1>8, <1>9 DEF Reported
  <1> QED BY <1>5, <1>6, <1>7, <1>10 DEF NewFirst

LEMMA WriteEventSettles ==
    ASSUME TypeInv, RowInv, SettlesInv, WriteEvent
    PROVE  SettlesInv'
  <1> SUFFICES ASSUME ~crashed', ~learned'
               PROVE  Started' /\ Pursued' /\ AllTold' /\ NewFirst' /\ Reported'
    BY DEF SettlesInv
  <1>1. /\ UNCHANGED <<queue, recs, sends, echoes, prov, crashed, learned, overtaken>> /\ Handed' = Handed
        /\ event.busy /\ ~event'.busy
    BY DEF WriteEvent, gateway, world, Handed, Idle
  <1>2. Started /\ Pursued /\ AllTold /\ NewFirst /\ Reported
    BY <1>1 DEF SettlesInv
  <1>3. recs # {} /\ Told(event.ev) /\ \A i \in 1..Len(queue) : queue[i].st # "PENDING"
    BY <1>1, <1>2 DEF Started, AllTold, NewFirst
  <1>4. Started' /\ Pursued' /\ AllTold' /\ NewFirst'
    BY <1>1, <1>2, <1>3 DEF Started, Pursued, AllTold, NewFirst
  <1>5. Owed' => Named'
    BY <1>1, <1>3 DEF Owed
  <1>6. Reported'
    <2> SUFFICES ASSUME ~overtaken, Named', \E r \in recs : r.st # "PENDING"
                 PROVE  \E i \in 1..Len(queue) : Settling(queue[i])
      BY <1>1, <1>5 DEF Reported, Coming
    <2>1. row.st = "PENDING" /\ event.row.st = "PENDING"
      BY <1>1, WriteKeeps DEF Named, RowInv, InTime
    <2>2. ~Settling(event.ev)
      BY <1>3, <2>1, WriteKeeps DEF Settling, Named
    <2>3. Owed
      <3>1. CASE event.ev.st = "PENDING"
        BY <1>1, <3>1 DEF Owed
      <3>2. CASE ~event.ev.cid
        BY <1>3, <2>1, <3>2, WriteKeeps DEF Owed, Named
      <3> QED BY <2>2, <3>1, <3>2 DEF Settling
    <2>4. Coming
      BY <1>2, <2>3 DEF Reported
    <2> QED BY <2>2, <2>4 DEF Coming
  <1> QED BY <1>4, <1>6

\* While the gateway has not restarted there is no second record.
LEMMA Sole ==
    ASSUME TypeInv, OneInv, ~learned, Pursued, NEW r \in recs
    PROVE  recs = {r} /\ r.cid /\ r.cid \in BOOLEAN /\ r.key = K /\ r.wa = K
  BY DEF OneInv, Pursued, TypeInv, GatewayType, Rec

\* A send that is handed over has a record, which it will decide.
LEMMA RecordSettles ==
    ASSUME TypeInv, OneInv, SettlesInv, NEW s \in sends, Record(s, K),
           UNCHANGED <<row, event, echoes, prov, crashed, learned, overtaken>>
    PROVE  SettlesInv'
  <1> SUFFICES ASSUME ~crashed', ~learned'
               PROVE  Started' /\ Pursued' /\ AllTold' /\ NewFirst' /\ Reported'
    BY DEF SettlesInv
  <1>1. ~crashed /\ ~learned /\ Started /\ Pursued /\ AllTold /\ NewFirst /\ Reported
    BY DEF SettlesInv
  <1>2. Handed' # {}
    <2> DEFINE x == [s EXCEPT !.key = K, !.at = "provider"]
    <2>1. s \in Send /\ x \in sends'
      BY DEF Record, TypeInv, GatewayType
    <2>2. x.at = "provider"
      BY <2>1 DEF Send
    <2> HIDE DEF x
    <2> QED BY <2>1, <2>2 DEF Handed
  <1>3. CASE /\ recs = {} /\ recs' = {Fresh(K)}
             /\ Emit(<<[type |-> "new", wa |-> K, cid |-> TRUE, st |-> "PENDING"]>>)
    <2> DEFINE ev == [type |-> "new", wa |-> K, cid |-> TRUE, st |-> "PENDING"]
    <2>1. ev \in Event /\ Told(ev)
      BY OneKey DEF Event, Status, Told
    <2>2. queue = <<>> /\ ~event.busy /\ ~event'.busy
      BY <1>1, <1>3 DEF Started
    <2>3. \A i \in 1..Len(queue') : i = 1 /\ queue'[i] = ev
      <3> HIDE DEF ev
      <3>1. Emit(<<ev>>)
        BY <1>3 DEF ev
      <3>2. Len(queue) = 0
        BY <2>2
      <3>3. \A i \in 1..Len(queue') :
               \/ i \in 1..Len(queue) /\ queue'[i] = queue[i]
               \/ i = Len(queue) + 1 /\ queue'[i] = ev
        BY <2>1, <3>1, EmitAppends
      <3> QED BY <3>2, <3>3
    <2>4. Fresh(K).cid /\ Fresh(K).st = "PENDING"
      BY DEF Fresh
    <2> HIDE DEF ev
    <2>5. Started' /\ Pursued'
      BY <1>1, <1>2, <1>3, <2>4 DEF Started, Pursued
    <2>6. AllTold' /\ NewFirst'
      BY <2>1, <2>2, <2>3 DEF AllTold, NewFirst
    <2>7. Reported'
      BY <1>3, <2>4 DEF Reported
    <2> QED BY <2>5, <2>6, <2>7
  <1>4. ASSUME NEW r \in recs, recs' = (recs \ {r}) \cup {Taken(r, K)}, queue' = queue
        PROVE  Started' /\ Pursued' /\ AllTold' /\ NewFirst' /\ Reported'
    <2>0. recs = {r} /\ recs' = {Taken(r, K)}
      BY <1>1, <1>4, Sole
    <2>1. Taken(r, K).cid /\ Taken(r, K).st = r.st
      BY DEF Taken, TypeInv, GatewayType, Rec
    <2>2. Started' /\ Pursued'
      BY <1>1, <1>2, <2>0, <2>1 DEF Started, Pursued
    <2>3. AllTold' /\ NewFirst'
      BY <1>1, <1>4 DEF AllTold, NewFirst
    <2>4. Reported'
      BY <1>1, <1>4, <2>0, <2>1 DEF Reported, Owed, Coming, Named
    <2> QED BY <2>2, <2>3, <2>4
  <1> QED BY <1>1, <1>3, <1>4, RecordOne

LEMMA CalledSettles ==
    ASSUME TypeInv, OneInv, SettlesInv, NEW s \in sends, Called(s) \/ Transcoded(s)
    PROVE  SettlesInv'
  <1>1. UNCHANGED <<row, event, echoes, prov, crashed, learned, overtaken>>
    BY DEF Called, Transcoded, backend, world
  <1>2. CASE Record(s, K)
    BY <1>1, <1>2, RecordSettles
  <1>3. CASE Transcoded(s)
    <2>1. s.at = "media" /\ Record(s, s.key)
      BY <1>3 DEF Transcoded
    <2>2. ~learned => s.key = K
      BY <2>1, OneSend
    <2>3. CASE learned
      BY <1>1, <2>3 DEF SettlesInv
    <2> QED BY <1>2, <2>1, <2>2, <2>3
  <1>4. CASE Called(s) /\ ~Record(s, K)
    <2>1. s.at = "called" /\ UNCHANGED <<recs, queue>>
      BY <1>4 DEF Called, K
    <2>2. \/ sends' = sends \ {s}
          \/ sends' = (sends \ {s}) \cup {[s EXCEPT !.key = K, !.at = "media"]}
      BY <1>4 DEF Called, K
    <2>3. [s EXCEPT !.key = K, !.at = "media"].at = "media"
      BY DEF TypeInv, GatewayType, Send
    <2>4. Handed' = Handed
      BY <2>1, <2>2, <2>3 DEF Handed
    <2> QED BY <1>1, <2>1, <2>4, RowSettles DEF Named
  <1> QED BY <1>2, <1>3, <1>4

\* Decided records: there is one, it has the client id and is no longer PENDING,
\* and either an event that settles the row was emitted or nothing was.
LEMMA DecidedSettles ==
    ASSUME TypeInv, SettlesInv, ~crashed, ~learned,
           NEW r \in recs, NEW x, recs = {r}, recs' = {x}, x.cid, x.st # "PENDING",
           UNCHANGED <<row, event, echoes, overtaken>>,
           \/ queue' = queue /\ r.st # "PENDING"
           \/ \E ev \in Event : Emit(<<ev>>) /\ Told(ev) /\ Settling(ev)
    PROVE  SettlesInv'
  <1>1. Started /\ Pursued /\ AllTold /\ NewFirst /\ Reported
    BY DEF SettlesInv
  <1>2. Started' /\ Pursued'
    BY <1>1 DEF Started, Pursued
  <1>3. CASE queue' = queue /\ r.st # "PENDING"
    <2>1. AllTold' /\ NewFirst'
      BY <1>1, <1>3 DEF AllTold, NewFirst
    <2>2. Reported'
      BY <1>1, <1>3 DEF Reported, Owed, Coming, Named
    <2> QED BY <1>2, <2>1, <2>2 DEF SettlesInv
  <1>4. ASSUME NEW ev \in Event, Emit(<<ev>>), Told(ev), Settling(ev)
        PROVE  SettlesInv'
    <2>1. AllTold' /\ NewFirst' /\ Coming'
      BY <1>4, EmitSettles DEF Settling
    <2> QED BY <1>2, <2>1 DEF Reported, SettlesInv
  <1> QED BY <1>3, <1>4

LEMMA ConfirmSettles ==
    ASSUME TypeInv, OneInv, SettlesInv, NEW s \in sends, Confirm(s)
    PROVE  SettlesInv'
  <1> SUFFICES ASSUME ~crashed, ~learned PROVE SettlesInv'
    BY DEF Confirm, world, SettlesInv
  <1>1. s \in Handed /\ Started /\ Pursued /\ Reported
    BY DEF Confirm, Handed, SettlesInv
  <1>2. recs # {}
    BY <1>1 DEF Started
  <1>3. UNCHANGED <<row, event, echoes, overtaken>>
    BY DEF Confirm, world
  <1>4. PICK r \in recs :
            LET x == Confirmed(r, K) IN
            /\ recs = {r} /\ recs' = {x}
            /\ \/ /\ x.st # r.st
                  /\ Emit(<<[type |-> "status", wa |-> K, cid |-> TRUE, st |-> x.st]>>)
               \/ x.st = r.st /\ queue' = queue
    <2>1. \A r \in recs : recs = {r}
      BY <1>1, Sole
    <2> QED BY <1>2, <2>1, ConfirmOne
  <1> DEFINE x  == Confirmed(r, K)
             ev == [type |-> "status", wa |-> K, cid |-> TRUE, st |-> x.st]
  <1>5. x.cid /\ x.st \in Final
    BY OneKey, ConfirmedType DEF TypeInv, GatewayType
  <1> HIDE DEF x
  <1>6. ev \in Event /\ Told(ev) /\ Settling(ev) /\ x.st # "PENDING"
    BY <1>5, OneKey DEF Event, Told, Settling, Final, Status
  <1>7. \/ queue' = queue /\ r.st # "PENDING"
        \/ Emit(<<ev>>)
    BY <1>4, <1>6 DEF x
  <1> HIDE DEF ev
  <1> QED BY <1>3, <1>4, <1>5, <1>6, <1>7, DecidedSettles DEF x

LEMMA RejectSettles ==
    ASSUME TypeInv, OneInv, SettlesInv, NEW s \in sends, Reject(s)
    PROVE  SettlesInv'
  <1> SUFFICES ASSUME ~crashed, ~learned PROVE SettlesInv'
    BY DEF Reject, SettlesInv
  <1>1. s \in Handed /\ Started /\ Pursued /\ AllTold /\ NewFirst /\ Reported
    BY DEF Reject, Handed, SettlesInv
  <1>2. UNCHANGED <<row, event, echoes, overtaken, prov>>
    BY DEF Reject
  <1>3. recs # {}
    BY <1>1 DEF Started
  <1>6. \A r \in recs : recs = {r}
    BY <1>1, Sole
  <1>4. CASE UNCHANGED <<recs, queue>> /\ \E r \in recs : r.st # "PENDING"
    <2>1. Started' /\ Pursued'
      BY <1>1, <1>2, <1>3, <1>4, <1>6 DEF Started, Pursued
    <2>2. AllTold' /\ NewFirst'
      BY <1>1, <1>2, <1>4 DEF AllTold, NewFirst
    <2>3. Reported'
      BY <1>1, <1>2, <1>4 DEF Reported, Owed, Coming, Named
    <2> QED BY <2>1, <2>2, <2>3 DEF SettlesInv
  <1>5. ASSUME NEW r \in recs, recs = {r}, recs' = {Failure(r)},
               Emit(<<[type |-> "status", wa |-> K, cid |-> r.cid, st |-> "FAILED"]>>)
        PROVE  SettlesInv'
    <2> DEFINE ev == [type |-> "status", wa |-> K, cid |-> r.cid, st |-> "FAILED"]
    <2>1. r.cid /\ r.cid \in BOOLEAN /\ Failure(r).cid = r.cid /\ Failure(r).st = "FAILED"
      BY <1>1 DEF Pursued, Failure, TypeInv, GatewayType, Rec
    <2>2. ev \in Event /\ Told(ev) /\ Settling(ev)
      BY <2>1, OneKey DEF Event, Told, Settling, Status
    <2> HIDE DEF ev
    <2>3. Emit(<<ev>>)
      BY <1>5 DEF ev
    <2> QED BY <1>2, <1>5, <2>1, <2>2, <2>3, DecidedSettles
  <1>7. \/ UNCHANGED <<recs, queue>> /\ \E r \in recs : r.st # "PENDING"
        \/ \E r \in recs :
              /\ recs' = {Failure(r)}
              /\ Emit(<<[type |-> "status", wa |-> K, cid |-> r.cid, st |-> "FAILED"]>>)
    <2>1. \A r \in recs : (recs \ {r}) \cup {Failure(r)} = {Failure(r)}
      BY <1>6
    <2> HIDE DEF Failure
    <2> QED BY <1>3, <2>1, RejectOne
  <1> QED BY <1>4, <1>5, <1>6, <1>7

LEMMA AckSettles ==
    ASSUME TypeInv, OneInv, SettlesInv, NEW id \in Key, NEW k \in Key, Ack(id, k)
    PROVE  SettlesInv'
  <1> SUFFICES ASSUME ~crashed, ~learned PROVE SettlesInv'
    BY DEF Ack, SettlesInv
  <1>1. Started /\ Pursued /\ AllTold /\ NewFirst /\ Reported
    BY DEF SettlesInv
  <1>2. UNCHANGED <<row, event, echoes, overtaken, prov, sends>> /\ Handed' = Handed
    BY DEF Ack, backend, Handed
  <1>3. prov[K] \in Status \ {"PENDING"} /\ prov[K] # None /\ K \in Key
    BY AckOne, OneKey DEF Status, None
  <1>4. recs # {}
    BY <1>1, <1>3 DEF Started, Nowhere
  <1>5. ASSUME recs' = recs,
               Emit(<<[type |-> "status", wa |-> K, cid |-> FALSE, st |-> prov[K]]>>)
        PROVE  SettlesInv'
    <2> DEFINE ev == [type |-> "status", wa |-> K, cid |-> FALSE, st |-> prov[K]]
    <2>1. ev \in Event /\ Told(ev) /\ ev.st # "PENDING"
      BY <1>3 DEF Event, Told
    <2> HIDE DEF ev
    <2>2. Emit(<<ev>>)
      BY <1>5 DEF ev
    <2>3. AllTold' /\ NewFirst' /\ (Owed' => Owed) /\ (Coming => Coming')
      BY <1>2, <2>1, <2>2, EmitSettles
    <2>4. Started' /\ Pursued' /\ Reported'
      BY <1>1, <1>2, <1>4, <1>5, <2>3 DEF Started, Pursued, Reported
    <2> QED BY <2>3, <2>4 DEF SettlesInv
  <1>6. ASSUME NEW r \in recs, recs' = (recs \ {r}) \cup {[r EXCEPT !.st = prov[K]]},
               Emit(<<[type |-> "status", wa |-> K, cid |-> r.cid, st |-> prov[K]]>>)
        PROVE  SettlesInv'
    <2> DEFINE ev == [type |-> "status", wa |-> K, cid |-> r.cid, st |-> prov[K]]
               x  == [r EXCEPT !.st = prov[K]]
    <2>0. recs = {r}
      BY <1>1, Sole
    <2>1. r.cid /\ r.cid \in BOOLEAN /\ x.cid = r.cid /\ x.st = prov[K]
      BY <1>1 DEF Pursued, TypeInv, GatewayType, Rec
    <2>2. ev \in Event /\ Told(ev) /\ Settling(ev)
      BY <1>3, <2>1 DEF Event, Told, Settling
    <2> HIDE DEF ev, x
    <2>3. Emit(<<ev>>) /\ recs' = {x}
      BY <1>6, <2>0 DEF ev, x
    <2> QED BY <1>2, <1>3, <2>0, <2>1, <2>2, <2>3, DecidedSettles
  <1>7. CASE UNCHANGED <<recs, queue>>
    BY <1>2, <1>7, RowSettles DEF Named, Ack
  <1> QED BY <1>5, <1>6, <1>7, AckOne

LEMMA EchoSettles ==
    ASSUME TypeInv, OneInv, SettlesInv, NEW id \in Key, Echo(id)
    PROVE  SettlesInv'
  <1> SUFFICES ASSUME ~crashed, ~learned PROVE SettlesInv'
    BY DEF Echo, world, SettlesInv
  <1>1. Started /\ Pursued
    BY DEF SettlesInv
  <1>2. UNCHANGED <<row, event, echoes, overtaken>>
    BY DEF Echo, backend, world
  <1>3. recs # {}
    BY <1>1, EchoOne, OneKey DEF Started, Nowhere
  <1>4. PICK r \in recs :
            /\ recs = {r} /\ recs' = {[r EXCEPT !.st = "SENT"]}
            /\ Emit(<<[type |-> "new", wa |-> K, cid |-> r.cid, st |-> "SENT"]>>)
    BY <1>3, EchoOne
  <1> DEFINE ev == [type |-> "new", wa |-> K, cid |-> r.cid, st |-> "SENT"]
             x  == [r EXCEPT !.st = "SENT"]
  <1>5. r.cid /\ r.cid \in BOOLEAN /\ x.cid = r.cid /\ x.st = "SENT"
    BY <1>1 DEF Pursued, TypeInv, GatewayType, Rec
  <1>6. ev \in Event /\ Told(ev) /\ Settling(ev)
    BY <1>5, OneKey DEF Event, Told, Settling, Status
  <1> HIDE DEF ev, x
  <1>7. Emit(<<ev>>) /\ recs' = {x}
    BY <1>4 DEF ev, x
  <1> QED BY <1>2, <1>4, <1>5, <1>6, <1>7, DecidedSettles

\* An echo with no record to wait for does not come before the gateway restarts.
LEMMA EchoWaitSettles ==
    ASSUME TypeInv, OneInv, SettlesInv, NEW id \in Key, EchoAwaits(id) \/ EchoStored(id)
    PROVE  SettlesInv'
  <1> SUFFICES ASSUME ~crashed, ~learned PROVE FALSE
    BY DEF EchoAwaits, EchoStored, world, SettlesInv
  <1>1. Started /\ Pursued
    BY DEF SettlesInv
  <1>2. CASE EchoAwaits(id)
    BY <1>1, <1>2, EchoAwaitsOne, OneKey DEF Started, Nowhere
  <1>3. CASE EchoStored(id)
    BY <1>1, <1>3 DEF EchoStored, Pursued
  <1> QED BY <1>2, <1>3

LEMMA ProviderSettles ==
    ASSUME TypeInv, SettlesInv,
           \/ \E s \in sends : Reach(s)
           \/ \E id \in Key : Progress(id)
    PROVE  SettlesInv'
  <1> SUFFICES ASSUME ~crashed', ~learned'
               PROVE  Started' /\ Pursued' /\ AllTold' /\ NewFirst' /\ Reported'
    BY DEF SettlesInv
  <1>1. UNCHANGED <<row, event, queue, recs, echoes, crashed, learned, overtaken>>
    BY DEF Reach, Progress, backend, gateway
  <1>2. Started /\ Pursued /\ AllTold /\ NewFirst /\ Reported
    BY <1>1 DEF SettlesInv
  <1>3. recs # {}
    <2>1. CASE \E s \in sends : Reach(s)
      BY <1>2, <2>1 DEF Reach, Started, Handed
    <2>2. CASE \E id \in Key : Progress(id)
      BY <1>2, <2>2 DEF Progress, Started, Nowhere, None
    <2> QED BY <2>1, <2>2
  <1>4. Handed # {} => Handed' # {}
    <2>1. ASSUME NEW s \in sends, Reach(s) PROVE Handed' # {}
      <3>1. s \in Send /\ s.at = "provider" /\ [s EXCEPT !.at = "reached"] \in sends'
        BY <2>1 DEF Reach, TypeInv, GatewayType
      <3>2. [s EXCEPT !.at = "reached"].at = "reached"
        BY <3>1 DEF Send
      <3> QED BY <3>1, <3>2 DEF Handed
    <2>2. CASE \E id \in Key : Progress(id)
      BY <2>2 DEF Progress, gateway, Handed
    <2> QED BY <2>1, <2>2
  <1>5. Started' /\ Pursued'
    BY <1>1, <1>2, <1>3, <1>4 DEF Started, Pursued
  <1>6. AllTold' /\ NewFirst' /\ Reported'
    BY <1>1, <1>2 DEF AllTold, NewFirst, Reported, Owed, Coming, Named
  <1> QED BY <1>5, <1>6

LEMMA SettlesNext ==
    ASSUME TypeInv, OneInv, RowInv, SettlesInv, [OutNext]_outVars
    PROVE  SettlesInv'
  <1>1. ASSUME NEW c \in Calls, \/ Submit(c) \/ Insert(c) \/ Claim(c) \/ Poll(c) \/ GiveUp(c)
                                \/ Answered(c) \/ Failed(c) \/ TimesOut(c)
                                \/ \E b \in BOOLEAN : Restart(c, b)
        PROVE  SettlesInv'
    BY <1>1, CallSettles, RestartSettles
  <1>2. CASE ReadEvent \/ WriteEvent
    BY <1>2, ReadEventSettles, WriteEventSettles
  <1>3. ASSUME NEW s \in sends,
               Called(s) \/ Transcoded(s) \/ Confirm(s) \/ Reject(s) \/ Reach(s)
        PROVE  SettlesInv'
    BY <1>3, CalledSettles, ConfirmSettles, RejectSettles, ProviderSettles
  <1>4. ASSUME NEW id \in Key, \/ Echo(id) \/ EchoAwaits(id) \/ EchoStored(id) \/ Progress(id)
                               \/ \E k \in Key : Ack(id, k)
        PROVE  SettlesInv'
    BY <1>4, EchoSettles, EchoWaitSettles, ProviderSettles, AckSettles
  <1>5. CASE Learn \/ GatewayCrash
    BY <1>5 DEF Learn, GatewayCrash, SettlesInv
  <1>6. CASE UNCHANGED outVars
    <2>1. UNCHANGED <<row, event, queue, recs, sends, echoes, prov, crashed, learned, overtaken>>
          /\ Handed' = Handed
      BY <1>6 DEF outVars, backend, gateway, world, Handed
    <2> QED BY <2>1, RowSettles DEF Named
  <1> QED BY <1>1, <1>2, <1>3, <1>4, <1>5, <1>6 DEF OutNext

LEMMA SettlesInit == OutInit => SettlesInv
  <1> SUFFICES ASSUME OutInit PROVE Started /\ Pursued /\ AllTold /\ NewFirst /\ Reported
    BY DEF SettlesInv
  <1>1. ~event.busy /\ queue = <<>> /\ recs = {} /\ echoes = {} /\ Handed = {}
        /\ prov = Nowhere /\ ~Named
    BY DEF OutInit, Idle, Handed, Nowhere, Named, NoRow, None
  <1> QED BY <1>1 DEF Started, Pursued, AllTold, NewFirst, Reported

LEMMA SettlesOK == TypeInv /\ RowInv /\ SettlesInv => Settles
  <1> SUFFICES ASSUME TypeInv, RowInv, SettlesInv, Quiet
               PROVE  /\ row # Unsent
                      /\ ~crashed /\ ~learned /\ ~overtaken => row.st # "PENDING"
    BY DEF Settles
  <1>1. queue = <<>> /\ ~event.busy /\ sends = {} /\ \A c \in Calls : call[c] \in {"idle", "done"}
    BY DEF Quiet
  <1>2. row # Unsent
    BY <1>1 DEF RowInv, Tried, Trying
  <1>3. ASSUME ~crashed, ~learned, ~overtaken, row.st = "PENDING" PROVE FALSE
    <2>1. Named
      BY <1>2, <1>3 DEF Named, Unsent, TypeInv, BackendType, RowType
    <2>2. PICK r \in recs : TRUE
      BY <1>3, <2>1 DEF SettlesInv, Started
    <2>3. r.st # "PENDING"
      BY <1>1, <1>3 DEF SettlesInv, Pursued, Handed
    <2>4. Coming
      BY <1>3, <2>1, <2>3 DEF SettlesInv, Reported, Owed
    <2> QED BY <1>1, <2>4 DEF Coming
  <1> QED BY <1>2, <1>3

\* When nothing is under way any more, no message is left PENDING without an id, and
\* none at all unless the gateway restarted, the number was learned on the way, or a
\* retry overtook a read of the row.
THEOREM NothingRestsPending == OutSpec => []Settles
  <1> DEFINE Inv == TypeInv /\ OneInv /\ RowInv /\ SettlesInv
  <1>1. OutInit => Inv
    BY TypeInit, OneInit, RowInit, SettlesInit
  <1>2. Inv /\ [OutNext]_outVars => Inv'
    BY TypeNext, OneNext, RowNext, SettlesNext
  <1>3. Inv => Settles
    BY SettlesOK
  <1> QED BY <1>1, <1>2, <1>3, PTL DEF OutSpec
=============================================================================
