-------------------------- MODULE SocketLeaseProofs --------------------------
(***************************************************************************)
(* Theorems about SocketLease, for every set of instances, every number of *)
(* failures and requests, and every set of generations.                    *)
(***************************************************************************)
EXTENDS SocketLease, TLAPS

USE LeaseAssumption

-----------------------------------------------------------------------------
(* Types                                                                   *)

Awaited == [op : Op, gen : Gens, held : Gen0]
Lease   == [owner : Instances \cup {NoInstance}, gen : Gen0, live : BOOLEAN]

USE DEF Gen0

(* A fresh generation is one that nothing of the process refers to. *)
LEMMA FreshGen ==
    ASSUME NEW i \in Instances, HasFresh(i)
    PROVE  /\ NextGen(i) \in Gens /\ NextGen(i) # 0
           /\ NextGen(i) # session[i].gen /\ NextGen(i) # session[i].cur
           /\ NextGen(i) \notin open[i]
           /\ \A q \in pending[i] : q.gen # NextGen(i)
  <1>1. \E g \in Gens : g \notin InUse(i)
    BY DEF HasFresh
  <1>2. NextGen(i) \in Gens /\ NextGen(i) \notin InUse(i)
    BY <1>1 DEF NextGen
  <1> QED BY <1>2 DEF InUse

LEMMA CallType ==
    ASSUME NEW op \in Op, NEW g \in Gens
    PROVE  Call(op, g) \in Awaited /\ Call(op, g).op = op /\ Call(op, g).gen = g
  BY DEF Call, Awaited

(* What the helpers on a session keep *)
LEMMA ClearType ==
    ASSUME NEW x \in Session
    PROVE  /\ ClearLeaseTimers(x) \in Session
           /\ ClearLeaseTimers(x).gen = x.gen /\ ClearLeaseTimers(x).cur = x.cur
  BY DEF ClearLeaseTimers, Session

LEMMA InvalidateType ==
    ASSUME NEW i \in Instances, NEW x \in Session, HasFresh(i)
    PROVE  /\ Invalidate(i, x) \in Session
           /\ Invalidate(i, x).gen = NextGen(i) /\ Invalidate(i, x).cur = 0
  BY FreshGen DEF Invalidate, Session

LEMMA BeginType ==
    ASSUME NEW i \in Instances, NEW x \in Session, HasFresh(i)
    PROVE  /\ BeginAttempt(i, x) \in Session
           /\ BeginAttempt(i, x).gen = NextGen(i) /\ BeginAttempt(i, x).cur = x.cur
  BY FreshGen DEF BeginAttempt, Session

LEMMA FreshSessionType ==
    FreshSession(FirstGen) \in Session
  <1>1. FirstGen \in Gens
    BY DEF FirstGen
  <1> QED BY <1>1 DEF FreshSession, Session, Status

LEMMA ReleasedType ==
    ASSUME TypeOK, NEW i \in Instances
    PROVE  /\ ReleasedBy(i) \in Lease
           /\ ReleasedBy(i).live => ReleasedBy(i).owner \in Instances
           /\ \A j \in Instances \ {i} : lease.live /\ lease.owner = j => ReleasedBy(i) = lease
  BY DEF ReleasedBy, NoLease, Lease, TypeOK

LEMMA ReleaseType ==
    ASSUME TypeOK, NEW i \in Instances, Released(i)
    PROVE  /\ lease' \in Lease
           /\ lease'.live => lease'.owner \in Instances
           /\ \A j \in Instances \ {i} : lease.live /\ lease.owner = j => lease' = lease
           /\ happened' \in [Kinds -> Nat]
  BY ReleasedType DEF Released, Happens, TypeOK, Lease

(* The variables but for those of a session *)
Rest ==
    /\ lease \in Lease /\ (lease.live => lease.owner \in Instances)
    /\ registered \in BOOLEAN
    /\ proc \in [Instances -> {"new", "up", "down"}]
    /\ open \in [Instances -> SUBSET Gens]
    /\ lapsed \subseteq Instances /\ overlapped \subseteq Instances
    /\ stopped \subseteq Instances
    /\ happened \in [Kinds -> Nat]

LEMMA TypeParts ==
    TypeOK <=> /\ Rest
               /\ session \in [Instances -> Session]
               /\ pending \in [Instances -> SUBSET Awaited]
  BY DEF TypeOK, Rest, Lease, Awaited

(* Process i gets the session x and the calls p. *)
Moves(i, x, p) ==
    /\ session' = [session EXCEPT ![i] = x]
    /\ pending' = [pending EXCEPT ![i] = p]

LEMMA MoveType ==
    ASSUME TypeOK, NEW i \in Instances, NEW x \in Session, NEW p \in SUBSET Awaited,
           Moves(i, x, p)
    PROVE  /\ session' \in [Instances -> Session] /\ pending' \in [Instances -> SUBSET Awaited]
           /\ session'[i] = x /\ pending'[i] = p
           /\ \A j \in Instances \ {i} : session'[j] = session[j] /\ pending'[j] = pending[j]
  <1>1. session \in [Instances -> Session] /\ pending \in [Instances -> SUBSET Awaited]
    BY TypeParts
  <1> QED BY <1>1 DEF Moves

LEMMA HappensType ==
    ASSUME TypeOK, NEW i, NEW k, Happens(i, k)
    PROVE  happened' \in [Kinds -> Nat]
  <1>1. happened \in [Kinds -> Nat] /\ happened' = [happened EXCEPT ![k] = happened[k] + 1]
    BY DEF Happens, TypeOK
  <1>2. \A n \in Kinds : happened'[n] \in Nat
    BY <1>1
  <1> QED BY <1>1, <1>2

-----------------------------------------------------------------------------
(* The inductive invariant.  An attempt of the current generation is alone *)
(* with the row from its INSERT on, and a live socket is alone with it,    *)
(* because a release always follows a new generation and an attempt that   *)
(* begins beside another statement is what overlapped records.             *)

Starting(i) == {q \in pending[i] : q.op \in Attempt /\ q.gen = session[i].gen}
Queries(i)  == {q \in pending[i] : q.op \in Query}

\* A process that does not run has nothing under way.
Empty(i) == proc[i] # "up" => pending[i] = {} /\ open[i] = {}

\* The current attempt is the only statement under way ...
Alone(i) == i \notin overlapped => \A q \in Starting(i) : Queries(i) = {q}

\* ... and beside a live socket there is none.
Quiet(i) == i \notin overlapped /\ Live(i) => Queries(i) = {}

Claimant(i) == Live(i) \/ \E q \in Starting(i) : q.op = "create"

\* From its INSERT until it is superseded, the row is its own.
Owns(i) == i \notin overlapped \cup lapsed /\ Claimant(i) => lease.live /\ lease.owner = i

Sound(i) == Empty(i) /\ Alone(i) /\ Quiet(i) /\ Owns(i)

LeaseInv == TypeOK /\ \A i \in Instances : Sound(i)

LEMMA LeaseInvOwner == LeaseInv => OneOwner
  BY DEF LeaseInv, Sound, Owns, Claimant, OneOwner

(* The other processes do not notice.                                      *)
OthersKept(i) ==
    \A j \in Instances \ {i} :
        /\ proc'[j] = proc[j] /\ open'[j] = open[j]
        /\ (j \in lapsed' <=> j \in lapsed) /\ (j \in overlapped' <=> j \in overlapped)
        /\ lease.live /\ lease.owner = j => lease' = lease

LEMMA StepKeeps ==
    ASSUME LeaseInv, NEW i \in Instances, NEW x \in Session, NEW p \in SUBSET Awaited,
           Moves(i, x, p), Rest', OthersKept(i), Sound(i)'
    PROVE  LeaseInv'
  <1>1. TypeOK'
    <2>1. session' \in [Instances -> Session] /\ pending' \in [Instances -> SUBSET Awaited]
      BY MoveType DEF LeaseInv
    <2> QED BY <2>1 DEF TypeOK, Rest, Lease, Awaited
  <1>2. ASSUME NEW j \in Instances \ {i} PROVE Sound(j)'
    <2>1. session'[j] = session[j] /\ pending'[j] = pending[j]
      BY MoveType DEF LeaseInv
    <2>2. Sound(j)
      BY DEF LeaseInv
    <2>3. Starting(j)' = Starting(j) /\ Queries(j)' = Queries(j)
      BY <2>1 DEF Starting, Queries
    <2>4. /\ proc'[j] = proc[j] /\ open'[j] = open[j]
          /\ (j \in lapsed' <=> j \in lapsed) /\ (j \in overlapped' <=> j \in overlapped)
          /\ lease.live /\ lease.owner = j => lease' = lease
      BY DEF OthersKept
    <2>5. Live(j)' <=> Live(j)
      BY <2>1, <2>4 DEF Live, Current
    <2>6. Claimant(j)' <=> Claimant(j)
      BY <2>3, <2>5 DEF Claimant
    <2> QED BY <2>1, <2>2, <2>3, <2>4, <2>5, <2>6 DEF Sound, Empty, Alone, Quiet, Owns
  <1> QED BY <1>1, <1>2 DEF LeaseInv

(* Four ways in which a step leaves process i sound                        *)

\* It has neither a live socket nor a current attempt.
LEMMA NothingCurrent ==
    ASSUME NEW i \in Instances, Empty(i)', ~Live(i)', Starting(i)' = {}
    PROVE  Sound(i)'
  BY DEF Sound, Alone, Quiet, Owns, Claimant

\* Its statements and sockets become fewer, and the row stays as it was or is
\* its own.
LEMMA Fewer ==
    ASSUME NEW i \in Instances, Sound(i), proc'[i] = "up",
           session'[i].gen = session[i].gen, session'[i].cur = session[i].cur,
           open'[i] \subseteq open[i], Queries(i)' \subseteq Queries(i),
           i \in overlapped => i \in overlapped',
           \/ lease' = lease /\ (i \in lapsed => i \in lapsed')
           \/ lease'.live /\ lease'.owner = i
    PROVE  Sound(i)'
  <1>1. Live(i)' => Live(i)
    BY DEF Live, Current
  <1>2. Starting(i)' \subseteq Starting(i)
    BY DEF Starting, Queries, Query
  <1>3. Empty(i)'
    BY DEF Empty
  <1>4. Alone(i)'
    <2> SUFFICES ASSUME i \notin overlapped', NEW q \in Starting(i)' PROVE Queries(i)' = {q}
      BY DEF Alone
    <2>1. Queries(i) = {q}
      BY <1>2 DEF Sound, Alone
    <2>2. q \in Queries(i)'
      BY DEF Starting, Queries, Query
    <2> QED BY <2>1, <2>2
  <1>5. Quiet(i)'
    BY <1>1 DEF Sound, Quiet
  <1>6. Owns(i)'
    BY <1>1, <1>2 DEF Sound, Owns, Claimant
  <1> QED BY <1>3, <1>4, <1>5, <1>6 DEF Sound

\* A statement has returned, and no current attempt is left.
LEMMA Returned ==
    ASSUME NEW i \in Instances, Sound(i), NEW c \in Queries(i), Empty(i)',
           session'[i].gen = session[i].gen, session'[i].cur = session[i].cur,
           open'[i] \subseteq open[i], Starting(i)' \subseteq Starting(i) \ {c},
           i \in overlapped => i \in overlapped'
    PROVE  Sound(i)'
  <1>1. CASE i \in overlapped'
    BY <1>1 DEF Sound, Alone, Quiet, Owns
  <1>2. CASE i \notin overlapped'
    <2>1. ~Live(i)'
      BY <1>2 DEF Sound, Quiet, Live, Current
    <2>2. Starting(i)' = {}
      BY <1>2 DEF Sound, Alone
    <2> QED BY <2>1, <2>2, NothingCurrent
  <1> QED BY <1>1, <1>2

\* The local start of a socket: it is skipped, or an attempt begins.
LEMMA StartType ==
    ASSUME LeaseInv, NEW i \in Instances, NEW x \in Session, NEW p \in SUBSET Awaited,
           StartSocket(i, x, p)
    PROVE  /\ \E y \in Session, r \in SUBSET Awaited : Moves(i, y, r)
           /\ overlapped' \subseteq Instances
           /\ \A j \in Instances \ {i} : j \in overlapped' <=> j \in overlapped
           /\ i \in overlapped => i \in overlapped'
  <1> DEFINE b == [ClearLeaseTimers(BeginAttempt(i, x)) EXCEPT !.loggedOut = FALSE]
             y == IF Skips(x) THEN x ELSE b
             r == IF Skips(x) THEN p ELSE p \cup {Call("acquire", NextGen(i))}
  <1>1. HasFresh(i)
    BY DEF StartSocket
  <1>2. ClearLeaseTimers(BeginAttempt(i, x)) \in Session
    BY <1>1, BeginType, ClearType
  <1>3. y \in Session
    BY <1>2 DEF Session
  <1>4. r \in SUBSET Awaited
    BY <1>1, FreshGen, CallType DEF Op, Query, Attempt
  <1>5. Moves(i, y, r)
    BY DEF StartSocket, Moves
  <1> QED BY <1>3, <1>4, <1>5 DEF StartSocket, LeaseInv, TypeOK

LEMMA Begun ==
    ASSUME LeaseInv, NEW i \in Instances, NEW x \in Session, NEW p \in SUBSET Awaited,
           x.gen = session[i].gen, x.cur = session[i].cur, p \subseteq pending[i],
           ~Skips(x), proc'[i] = "up", open'[i] \subseteq open[i], StartSocket(i, x, p)
    PROVE  Sound(i)'
  <1> DEFINE b == [ClearLeaseTimers(BeginAttempt(i, x)) EXCEPT !.loggedOut = FALSE]
             a == Call("acquire", NextGen(i))
  <1>1. HasFresh(i)
    BY DEF StartSocket
  <1>2. /\ ClearLeaseTimers(BeginAttempt(i, x)) \in Session
        /\ ClearLeaseTimers(BeginAttempt(i, x)).gen = NextGen(i)
        /\ ClearLeaseTimers(BeginAttempt(i, x)).cur = x.cur
    BY <1>1, BeginType, ClearType
  <1>3. b \in Session /\ b.gen = NextGen(i) /\ b.cur = session[i].cur
    BY <1>2 DEF Session
  <1>4. a \in Awaited /\ a.op = "acquire" /\ a.gen = NextGen(i)
    BY <1>1, FreshGen, CallType DEF Op, Query, Attempt
  <1>5. Moves(i, b, p \cup {a})
    BY DEF StartSocket, Moves
  <1>6. session'[i] = b /\ pending'[i] = p \cup {a}
    BY <1>3, <1>4, <1>5, MoveType DEF LeaseInv
  <1>7. ~Live(i)'
    BY <1>1, <1>3, <1>6, FreshGen DEF Live, Current
  <1>8. Starting(i)' = {a}
    BY <1>1, <1>3, <1>4, <1>6, FreshGen DEF Starting, Attempt
  <1>9. i \notin overlapped' => Queries(i)' = {a}
    <2>1. i \notin overlapped' => \A q \in p : q.op \notin Query
      BY DEF StartSocket
    <2> QED BY <2>1, <1>4, <1>6 DEF Queries, Query, Attempt
  <1>10. Empty(i)'
    BY DEF Empty
  <1> QED BY <1>4, <1>7, <1>8, <1>9, <1>10 DEF Sound, Alone, Quiet, Owns, Claimant

-----------------------------------------------------------------------------
(* Initially, and for every action                                         *)

LEMMA LeaseInit == Init => LeaseInv
  <1> SUFFICES ASSUME Init PROVE LeaseInv
    OBVIOUS
  <1>1. TypeOK
    BY FreshSessionType DEF Init, TypeOK, NoLease
  <1>2. ASSUME NEW i \in Instances PROVE Sound(i)
    BY <1>2 DEF Init, Sound, Empty, Alone, Quiet, Owns, Claimant, Live, Starting, Queries
  <1> QED BY <1>1, <1>2 DEF LeaseInv

\* What the proofs of the actions begin with
LEMMA Local ==
    ASSUME LeaseInv, NEW i \in Instances
    PROVE  /\ session[i] \in Session /\ pending[i] \in SUBSET Awaited /\ open[i] \in SUBSET Gens
           /\ session \in [Instances -> Session] /\ pending \in [Instances -> SUBSET Awaited]
           /\ open \in [Instances -> SUBSET Gens]
           /\ Sound(i) /\ Rest /\ TypeOK
           /\ \A c \in pending[i] : proc[i] = "up" /\ c.gen \in Gens /\ c.held \in Gens \cup {0}
  <1>1. session \in [Instances -> Session] /\ pending \in [Instances -> SUBSET Awaited] /\ Rest
    BY TypeParts DEF LeaseInv
  <1>2. Sound(i)
    BY DEF LeaseInv
  <1>3. open \in [Instances -> SUBSET Gens]
    BY <1>1 DEF Rest
  <1> QED BY <1>1, <1>2, <1>3 DEF LeaseInv, Sound, Empty, Awaited

LEMMA RestoreKeeps ==
    ASSUME LeaseInv, NEW i \in Instances, Restore(i)
    PROVE  LeaseInv'
  <1>1. \E y \in Session, r \in SUBSET Awaited : Moves(i, y, r)
    BY Local, StartType DEF Restore
  <1>2. Rest' /\ OthersKept(i)
    BY Local, StartType DEF Restore, Rest, OthersKept
  <1>3. proc'[i] = "up"
    BY Local DEF Restore, Rest
  <1>4. pending[i] = {} /\ open[i] = {}
    BY Local DEF Restore, Sound, Empty
  <1>5. Sound(i)'
    <2>1. CASE ~Skips(session[i])
      BY <1>3, <2>1, Begun, Local DEF Restore
    <2>2. CASE Skips(session[i])
      <3>1. session'[i] = session[i] /\ pending'[i] = {} /\ open'[i] = {}
        BY <1>4, <2>2, Local DEF Restore, StartSocket
      <3> QED BY <1>3, <3>1, NothingCurrent DEF Empty, Live, Starting
    <2> QED BY <2>1, <2>2
  <1> QED BY <1>1, <1>2, <1>5, StepKeeps

LEMMA AcquireKeeps ==
    ASSUME LeaseInv, NEW i \in Instances, NEW c, Acquire(i, c)
    PROVE  LeaseInv'
  <1> DEFINE x == session[i]
             p == pending[i] \ {c}
  <1> USE Local
  <1>1. c \in pending[i] /\ c.op = "acquire" /\ c \in Queries(i)
    BY DEF Acquire, Awaits, Queries, Query, Attempt
  <1>2. CASE ~Free(i)
    <2> DEFINE y == [x EXCEPT !.status = "RESTORING", !.retry = c.gen, !.retries = @ \cup {c.gen}]
    <2>0. x \in Session /\ c.gen \in Gens
      BY <1>1
    <2>1. y \in Session /\ y.gen = x.gen /\ y.cur = x.cur
      BY <2>0 DEF Session, Status
    <2>2. Moves(i, y, p)
      BY <1>2 DEF Acquire, Moves
    <2>3. session'[i] = y /\ pending'[i] = p
      BY <2>1, <2>2, MoveType
    <2>4. Rest' /\ OthersKept(i)
      BY <1>2 DEF Acquire, Rest, OthersKept
    <2>5. Starting(i)' \subseteq Starting(i) \ {c}
      BY <2>1, <2>3 DEF Starting
    <2>6. Sound(i)'
      BY <1>1, <1>2, <2>1, <2>3, <2>5, Returned DEF Acquire, Empty
    <2> QED BY <2>1, <2>2, <2>4, <2>6, StepKeeps
  <1>3. CASE Free(i)
    <2> DEFINE y == IF x.deleted THEN ClearLeaseTimers(x) ELSE x
               a == Call(IF x.deleted THEN "abort" ELSE "create", c.gen)
    <2>1. y \in Session /\ y.gen = x.gen /\ y.cur = x.cur
      BY ClearType
    <2>2. a \in Awaited /\ a.gen = c.gen /\ a.op = (IF x.deleted THEN "abort" ELSE "create")
      BY <1>1, CallType DEF Op, Query, Attempt, Delete_
    <2>3. Moves(i, y, p \cup {a})
      BY <1>3 DEF Acquire, Moves
    <2>4. session'[i] = y /\ pending'[i] = p \cup {a}
      BY <2>1, <2>2, <2>3, MoveType
    <2>5. lease' = [owner |-> i, gen |-> c.gen, live |-> TRUE] /\ lapsed' = lapsed \ {i}
      BY <1>3 DEF Acquire
    <2>6. Rest'
      BY <1>1, <2>5 DEF Acquire, Rest, Lease
    <2>7. OthersKept(i)
      BY <1>3, <2>5 DEF Acquire, OthersKept, Free
    <2>8. Sound(i)'
      <3>1. CASE a \notin Starting(i)'
        <4>1. Starting(i)' \subseteq Starting(i) \ {c}
          BY <2>1, <2>4, <3>1 DEF Starting
        <4> QED BY <1>1, <2>1, <2>4, <4>1, Returned DEF Acquire, Empty
      <3>2. CASE a \in Starting(i)'
        <4>1. c \in Starting(i)
          BY <1>1, <2>1, <2>2, <2>4, <3>2 DEF Starting, Attempt
        <4>2. i \notin overlapped => Queries(i) = {c}
          BY <4>1 DEF Sound, Alone
        <4>3. i \notin overlapped => Queries(i)' = {a}
          BY <2>4, <3>2, <4>2 DEF Queries, Starting, Query
        <4>4. i \notin overlapped => Starting(i)' \subseteq {a}
          BY <4>3 DEF Starting, Queries, Query
        <4>5. i \notin overlapped => ~Live(i)'
          BY <1>1, <2>1, <2>4 DEF Sound, Quiet, Live, Current, Acquire
        <4>6. Empty(i)'
          BY <1>1 DEF Acquire, Empty
        <4>7. overlapped' = overlapped /\ lease'.live /\ lease'.owner = i
          BY <2>5 DEF Acquire
        <4>8. Alone(i)' /\ Quiet(i)'
          BY <4>3, <4>4, <4>5, <4>7 DEF Alone, Quiet
        <4> QED BY <4>6, <4>7, <4>8 DEF Sound, Owns
      <3> QED BY <3>1, <3>2
    <2> QED BY <2>1, <2>2, <2>3, <2>6, <2>7, <2>8, StepKeeps
  <1> QED BY <1>2, <1>3

LEMMA FailedType ==
    ASSUME LeaseInv, NEW i \in Instances, NEW p \in SUBSET Awaited, NEW g \in Gens,
           StartFailed(i, session[i], p, g)
    PROVE  \E y \in Session, r \in SUBSET Awaited :
              /\ Moves(i, y, r) /\ y.gen = session[i].gen /\ y.cur = session[i].cur
              /\ \A q \in r : q \in p \/ q.op = "again"
  <1> DEFINE x == session[i]
             y == IF x.deleted THEN x ELSE [x EXCEPT !.status = "UNAVAILABLE"]
             r == IF x.deleted THEN p ELSE p \cup {Call("again", g)}
  <1>1. y \in Session /\ y.gen = x.gen /\ y.cur = x.cur
    BY Local DEF Session, Status
  <1>2. r \in SUBSET Awaited /\ \A q \in r : q \in p \/ q.op = "again"
    BY CallType DEF Op
  <1>3. Moves(i, y, r)
    BY DEF StartFailed, Moves
  <1> QED BY <1>1, <1>2, <1>3

\* A statement of the attempt returns, leaving p and perhaps a timer.
LEMMA QueryGone ==
    ASSUME LeaseInv, NEW i \in Instances, NEW c \in Queries(i), NEW y \in Session,
           NEW r \in SUBSET Awaited, Moves(i, y, r), y.gen = session[i].gen,
           y.cur = session[i].cur,
           \A q \in r : q \in pending[i] \ {c} \/ q.op \notin Attempt,
           open'[i] \subseteq open[i], proc' = proc, i \in overlapped => i \in overlapped'
    PROVE  Sound(i)'
  <1> USE Local
  <1>1. session'[i] = y /\ pending'[i] = r
    BY MoveType
  <1>2. Starting(i)' \subseteq Starting(i) \ {c}
    BY <1>1 DEF Starting
  <1>3. Empty(i)'
    BY DEF Queries, Empty
  <1> QED BY <1>1, <1>2, <1>3, Returned

LEMMA AcquireFailsKeeps ==
    ASSUME LeaseInv, NEW i \in Instances, NEW c, AcquireFails(i, c)
    PROVE  LeaseInv'
  <1> USE Local
  <1>1. c \in pending[i] /\ c \in Queries(i)
    BY DEF AcquireFails, Awaits, Queries, Query, Attempt
  <1>2. PICK y \in Session, r \in SUBSET Awaited :
            /\ Moves(i, y, r) /\ y.gen = session[i].gen /\ y.cur = session[i].cur
            /\ \A q \in r : q \in pending[i] \ {c} \/ q.op = "again"
    BY <1>1, FailedType DEF AcquireFails
  <1>3. Rest' /\ OthersKept(i)
    BY HappensType DEF AcquireFails, Rest, OthersKept
  <1>4. Sound(i)'
    BY <1>1, <1>2, QueryGone DEF AcquireFails, Attempt
  <1> QED BY <1>2, <1>3, <1>4, StepKeeps

LEMMA CreateFailsKeeps ==
    ASSUME LeaseInv, NEW i \in Instances, NEW c, CreateFails(i, c)
    PROVE  LeaseInv'
  <1> DEFINE y == ClearLeaseTimers(session[i])
             a == Call("abortErr", c.gen)
             r == (pending[i] \ {c}) \cup {a}
  <1> USE Local
  <1>1. c \in pending[i] /\ c \in Queries(i)
    BY DEF CreateFails, Awaits, Queries, Query, Attempt
  <1>2. a \in Awaited /\ a.op = "abortErr"
    BY <1>1, CallType DEF Op, Query, Delete_
  <1>3. y \in Session /\ y.gen = session[i].gen /\ y.cur = session[i].cur
    BY ClearType
  <1>4. Moves(i, y, r)
    BY DEF CreateFails, Moves
  <1>5. Rest' /\ OthersKept(i)
    BY HappensType DEF CreateFails, Rest, OthersKept
  <1>6. Sound(i)'
    BY <1>1, <1>2, <1>3, <1>4, QueryGone DEF CreateFails, Attempt
  <1> QED BY <1>2, <1>3, <1>4, <1>5, <1>6, StepKeeps

LEMMA AttachKeeps ==
    ASSUME LeaseInv, NEW i \in Instances, NEW c, Attach(i, c)
    PROVE  LeaseInv'
  <1> DEFINE x == session[i]
             g == c.gen
             p == pending[i] \ {c}
  <1> USE Local
  <1>1. c \in pending[i] /\ c \in Queries(i) /\ c.op = "create"
    BY DEF Attach, Awaits, Queries, Query, Attempt
  <1>2. CASE Superseded(x, g)
    <2> DEFINE y == ClearLeaseTimers(x)
               a == Call("abort", g)
    <2>1. a \in Awaited /\ a.op = "abort"
      BY <1>1, CallType DEF Op, Query, Delete_
    <2>2. y \in Session /\ y.gen = x.gen /\ y.cur = x.cur
      BY ClearType
    <2>3. Moves(i, y, p \cup {a})
      BY <1>2 DEF Attach, Moves
    <2>4. Rest' /\ OthersKept(i)
      BY <1>2 DEF Attach, Rest, OthersKept
    <2>5. Sound(i)'
      BY <1>1, <1>2, <2>1, <2>2, <2>3, QueryGone DEF Attach, Attempt
    <2> QED BY <2>1, <2>2, <2>3, <2>4, <2>5, StepKeeps
  <1>3. CASE ~Superseded(x, g)
    <2> DEFINE y == [x EXCEPT !.cur = g, !.sock = g, !.renew = IF @ = 0 THEN g ELSE @]
    <2>1. g = x.gen
      BY <1>3 DEF Superseded
    <2>0. x \in Session /\ g \in Gens
      BY <1>1
    <2>2. y \in Session /\ y.gen = x.gen
      BY <2>0 DEF Session
    <2>3. Moves(i, y, p) /\ open' = [open EXCEPT ![i] = (@ \ {x.cur}) \cup {g}]
      BY <1>3 DEF Attach, Moves
    <2>4. Rest' /\ OthersKept(i)
      BY <1>1, <2>3 DEF Attach, Rest, OthersKept
    <2>5. session'[i] = y /\ pending'[i] = p
      BY <2>2, <2>3, MoveType
    <2>6. c \in Starting(i)
      BY <1>1, <2>1 DEF Starting, Attempt
    <2>7. i \notin overlapped => Queries(i)' = {}
      BY <2>5, <2>6 DEF Sound, Alone, Queries
    <2>8. i \notin overlapped => Starting(i)' = {}
      BY <2>7 DEF Starting, Queries, Query
    <2>9. i \notin overlapped \cup lapsed => lease.live /\ lease.owner = i
      BY <1>1, <2>6 DEF Sound, Owns, Claimant
    <2>10. Empty(i)' /\ overlapped' = overlapped /\ lapsed' = lapsed /\ lease' = lease
      BY <1>1 DEF Attach, Empty
    <2>11. Sound(i)'
      BY <2>7, <2>8, <2>9, <2>10 DEF Sound, Alone, Quiet, Owns
    <2> QED BY <2>2, <2>3, <2>4, <2>11, StepKeeps
  <1> QED BY <1>2, <1>3

LEMMA AbortedKeeps ==
    ASSUME LeaseInv, NEW i \in Instances, NEW c, Aborted(i, c)
    PROVE  LeaseInv'
  <1> USE Local
  <1>1. c \in pending[i] /\ c \in Queries(i)
    BY DEF Aborted, Awaits, Queries, Query, Delete_
  <1>2. Rest' /\ OthersKept(i)
    BY ReleaseType DEF Aborted, Rest, OthersKept
  <1>3. \E y \in Session, r \in SUBSET Awaited :
            /\ Moves(i, y, r) /\ y.gen = session[i].gen /\ y.cur = session[i].cur
            /\ \A q \in r : q \in pending[i] \ {c} \/ q.op = "again"
    <2>1. CASE c.op = "abort"
      <3>1. Moves(i, session[i], pending[i] \ {c})
        BY <2>1 DEF Aborted, Moves
      <3> QED BY <3>1
    <2>2. CASE c.op # "abort"
      <3>1. c.gen \in Gens /\ StartFailed(i, session[i], pending[i] \ {c}, c.gen)
        BY <1>1, <2>2 DEF Aborted
      <3>2. pending[i] \ {c} \in SUBSET Awaited
        OBVIOUS
      <3> QED BY <3>1, <3>2, FailedType
    <2> QED BY <2>1, <2>2
  <1>4. Sound(i)'
    BY <1>1, <1>3, QueryGone DEF Aborted, Attempt
  <1> QED BY <1>2, <1>3, <1>4, StepKeeps

\* A timer, or a request, that starts a socket or finds nothing to do.
LEMMA StartKeeps ==
    ASSUME LeaseInv, NEW i \in Instances, NEW x \in Session, NEW p \in SUBSET Awaited,
           x.gen = session[i].gen, x.cur = session[i].cur, p \subseteq pending[i],
           proc[i] = "up", StartSocket(i, x, p),
           UNCHANGED <<proc, lapsed, lease, open>>, happened' \in [Kinds -> Nat], registered' \in BOOLEAN, stopped' \subseteq Instances
    PROVE  LeaseInv'
  <1> USE Local
  <1>1. PICK y \in Session, r \in SUBSET Awaited : Moves(i, y, r)
    BY StartType
  <1>2. Rest' /\ OthersKept(i)
    BY StartType DEF Rest, OthersKept
  <1>3. Sound(i)'
    <2>1. CASE ~Skips(x)
      BY <2>1, Begun
    <2>2. CASE Skips(x)
      <3>1. Moves(i, x, p) /\ overlapped' = overlapped
        BY <2>2 DEF StartSocket, Moves
      <3>2. session'[i] = x /\ pending'[i] = p
        BY <3>1, MoveType
      <3>3. Queries(i)' \subseteq Queries(i)
        BY <3>2 DEF Queries
      <3> QED BY <3>1, <3>2, <3>3, Fewer
    <2> QED BY <2>1, <2>2
  <1> QED BY <1>1, <1>2, <1>3, StepKeeps

LEMMA TimersKeep ==
    ASSUME LeaseInv, NEW i \in Instances,
           \/ \E g \in Gens : RetryFires(i, g)
           \/ \E c \in pending[i] : StartAgain(i, c)
           \/ Reconnect(i)
    PROVE  LeaseInv'
  <1> USE Local
  <1> DEFINE s == session[i]
  <1>1. s \in Session /\ Rest /\ pending[i] \in SUBSET Awaited
    OBVIOUS
  <1>2. ASSUME NEW g \in Gens, RetryFires(i, g) PROVE LeaseInv'
    <2> DEFINE x == [s EXCEPT !.retry = 0, !.retries = @ \ {g}]
    <2>1. x \in Session /\ x.gen = s.gen /\ x.cur = s.cur
      BY <1>1 DEF Session
    <2>2. UNCHANGED <<proc, lapsed, lease, open, happened, registered, stopped>>
          /\ proc[i] = "up"
      BY <1>2 DEF RetryFires
    <2>3. CASE ~x.deleted /\ x.gen = g
      <3>1. StartSocket(i, x, pending[i])
        BY <1>2, <2>3 DEF RetryFires
      <3> QED BY <1>1, <2>1, <2>2, <3>1, StartKeeps DEF Rest
    <2>4. CASE ~(~x.deleted /\ x.gen = g)
      <3>1. Moves(i, x, pending[i]) /\ overlapped' = overlapped
        BY <1>1, <1>2, <2>4 DEF RetryFires, Moves
      <3>2. session'[i] = x /\ pending'[i] = pending[i]
        BY <2>1, <3>1, MoveType
      <3>3. Sound(i)'
        BY <2>1, <2>2, <3>1, <3>2, Fewer DEF Queries
      <3>4. Rest' /\ OthersKept(i)
        BY <1>1, <2>2, <3>1 DEF Rest, OthersKept
      <3> QED BY <2>1, <3>1, <3>3, <3>4, StepKeeps
    <2> QED BY <2>3, <2>4
  <1>3. ASSUME NEW c \in pending[i], StartAgain(i, c) PROVE LeaseInv'
    <2> DEFINE p == pending[i] \ {c}
    <2>1. UNCHANGED <<proc, lapsed, lease, open, happened, registered, stopped>>
          /\ proc[i] = "up"
      BY <1>3 DEF StartAgain
    <2>2. CASE ~s.deleted /\ s.status = "UNAVAILABLE" /\ s.active
      <3>1. StartSocket(i, s, p)
        BY <1>3, <2>2 DEF StartAgain
      <3> QED BY <1>1, <2>1, <3>1, StartKeeps DEF Rest
    <2>3. CASE ~(~s.deleted /\ s.status = "UNAVAILABLE" /\ s.active)
      <3>1. Moves(i, s, p) /\ overlapped' = overlapped
        BY <1>1, <1>3, <2>3 DEF StartAgain, Moves
      <3>2. session'[i] = s /\ pending'[i] = p
        BY <1>1, <3>1, MoveType
      <3>3. Sound(i)'
        BY <2>1, <3>1, <3>2, Fewer DEF Queries
      <3>4. Rest' /\ OthersKept(i)
        BY <1>1, <2>1, <3>1 DEF Rest, OthersKept
      <3> QED BY <1>1, <3>1, <3>3, <3>4, StepKeeps
    <2> QED BY <2>2, <2>3
  <1>4. ASSUME Reconnect(i) PROVE LeaseInv'
    <2> DEFINE x == [s EXCEPT !.reconnect = FALSE]
    <2>1. x \in Session /\ x.gen = s.gen /\ x.cur = s.cur
      BY <1>1 DEF Session
    <2> QED BY <1>1, <1>4, <2>1, StartKeeps DEF Reconnect, Rest
  <1> QED BY <1>2, <1>3, <1>4

\* A renewal, a connection.update: the current generation stays.
LEMMA SameAttempt ==
    ASSUME LeaseInv, NEW i \in Instances, NEW y \in Session, NEW r \in SUBSET Awaited,
           Moves(i, y, r), y.gen = session[i].gen, y.cur = session[i].cur,
           \A q \in r : q \in pending[i] \/ q.op \notin Query,
           UNCHANGED <<lapsed, overlapped, lease, proc>>, proc[i] = "up", Rest',
           open'[i] \subseteq open[i], \A j \in Instances \ {i} : open'[j] = open[j]
    PROVE  LeaseInv'
  <1> USE Local
  <1>1. session'[i] = y /\ pending'[i] = r
    BY MoveType
  <1>2. Queries(i)' \subseteq Queries(i)
    BY <1>1 DEF Queries
  <1>3. Sound(i)'
    BY <1>1, <1>2, Fewer
  <1>4. OthersKept(i)
    BY DEF OthersKept
  <1> QED BY <1>3, <1>4, StepKeeps

\* The generation is raised, and no attempt goes with it.
LEMMA Raised ==
    ASSUME LeaseInv, NEW i \in Instances, NEW y \in Session, NEW r \in SUBSET Awaited,
           Moves(i, y, r), y.gen = NextGen(i), y.cur = 0, HasFresh(i),
           \A q \in r : q \in pending[i] \/ q.op \notin Attempt,
           UNCHANGED <<lapsed, overlapped, lease, proc>>, proc[i] = "up", Rest',
           \A j \in Instances \ {i} : open'[j] = open[j]
    PROVE  LeaseInv'
  <1> USE Local
  <1>1. session'[i] = y /\ pending'[i] = r
    BY MoveType
  <1>2. ~Live(i)' /\ Starting(i)' = {}
    BY <1>1, FreshGen DEF Live, Current, Starting
  <1>3. Sound(i)'
    BY <1>2, NothingCurrent DEF Empty
  <1>4. OthersKept(i)
    BY DEF OthersKept
  <1> QED BY <1>3, <1>4, StepKeeps

LEMMA RenewTickKeeps ==
    ASSUME LeaseInv, NEW i \in Instances, RenewTick(i)
    PROVE  LeaseInv'
  <1> USE Local
  <1> DEFINE s == session[i]
             y == [s EXCEPT !.renewing = TRUE]
             r == pending[i] \cup {Call("renew", s.renew)}
  <1>1. s \in Session /\ Rest /\ pending[i] \in SUBSET Awaited
    OBVIOUS
  <1>2. s.renew \in Gens
    BY <1>1 DEF RenewTick, Session
  <1>3. Call("renew", s.renew) \in Awaited /\ Call("renew", s.renew).op = "renew"
    BY <1>2, CallType DEF Op
  <1>4. y \in Session /\ y.gen = s.gen /\ y.cur = s.cur
    BY <1>1 DEF Session
  <1>5. Moves(i, y, r)
    BY <1>1 DEF RenewTick, Moves
  <1>6. Rest' /\ proc[i] = "up" /\ UNCHANGED <<lapsed, overlapped, lease, proc, open>>
    BY <1>1 DEF RenewTick, Rest
  <1>7. \A q \in r : q \in pending[i] \/ q.op \notin Query
    BY <1>3 DEF Query, Delete_, Attempt
  <1> QED BY <1>1, <1>3, <1>4, <1>5, <1>6, <1>7, SameAttempt

\* loseLease in the callback of renewal c
LEMMA LoseLeaseKeeps ==
    ASSUME LeaseInv, NEW i \in Instances, NEW c \in pending[i], LoseLease(i, c.gen),
           pending' = [pending EXCEPT ![i] = @ \ {c}], happened' \in [Kinds -> Nat],
           UNCHANGED <<lease, lapsed, registered, proc, overlapped, stopped>>
    PROVE  LeaseInv'
  <1> USE Local
  <1> DEFINE s == session[i]
             x == [s EXCEPT !.renewing = FALSE]
             r == pending[i] \ {c}
  <1>1. s \in Session /\ Rest /\ pending[i] \in SUBSET Awaited /\ c.gen \in Gens
    OBVIOUS
  <1>2. x \in Session /\ x.gen = s.gen /\ x.cur = s.cur
    BY <1>1 DEF Session
  <1>3. CASE Managed(i) /\ Current(i, c.gen)
    <2> DEFINE z == ClearLeaseTimers(Invalidate(i, x))
               y == [z EXCEPT !.sock = 0, !.status = "UNAVAILABLE"]
    <2>1. HasFresh(i)
      BY <1>3 DEF LoseLease
    <2>2. z \in Session /\ z.gen = NextGen(i) /\ z.cur = 0
      BY <1>2, <2>1, InvalidateType, ClearType
    <2>3. y \in Session /\ y.gen = NextGen(i) /\ y.cur = 0
      BY <2>2 DEF Session, Status
    <2>4. Moves(i, y, r) /\ open' = [open EXCEPT ![i] = @ \ {c.gen}]
      BY <1>1, <1>3 DEF LoseLease, Moves
    <2>5. Rest' /\ proc[i] = "up"
      BY <1>1, <2>4 DEF Rest
    <2>6. \A j \in Instances \ {i} : open'[j] = open[j]
      BY <1>1, <2>4 DEF Rest
    <2>7. r \in SUBSET Awaited /\ \A q \in r : q \in pending[i]
      BY <1>1
    <2> HIDE DEF r, y
    <2> QED BY <2>1, <2>3, <2>4, <2>5, <2>6, <2>7, Raised
  <1>4. CASE ~(Managed(i) /\ Current(i, c.gen))
    <2>1. Moves(i, x, r) /\ open' = open
      BY <1>1, <1>4 DEF LoseLease, Moves
    <2>2. Rest' /\ proc[i] = "up"
      BY <1>1, <2>1 DEF Rest
    <2>3. r \in SUBSET Awaited /\ \A q \in r : q \in pending[i]
      BY <1>1
    <2> HIDE DEF r, x
    <2> QED BY <1>2, <2>1, <2>2, <2>3, SameAttempt
  <1> QED BY <1>3, <1>4

LEMMA RenewalKeeps ==
    ASSUME LeaseInv, NEW i \in Instances, NEW c, Renewed(i, c) \/ RenewFails(i, c)
    PROVE  LeaseInv'
  <1> USE Local
  <1> DEFINE s == session[i]
             y == [s EXCEPT !.renewing = FALSE]
             r == pending[i] \ {c}
  <1>1. s \in Session /\ Rest /\ pending[i] \in SUBSET Awaited
    OBVIOUS
  <1>2. c \in pending[i] /\ c.op = "renew" /\ c.gen \in Gens /\ proc[i] = "up"
    BY DEF Renewed, RenewFails, Awaits
  <1>3. y \in Session /\ y.gen = s.gen /\ y.cur = s.cur
    BY <1>1 DEF Session
  <1>4. CASE Renewed(i, c) /\ Holds(i, c.gen)
    <2>1. Moves(i, y, r) /\ open' = open
      BY <1>1, <1>4 DEF Renewed, Moves
    <2>2. lease' = [lease EXCEPT !.live = TRUE] /\ lapsed' = lapsed \ {i}
      BY <1>4 DEF Renewed
    <2>3. lease.owner = i /\ lease \in Lease
      BY <1>1, <1>4 DEF Holds, Rest
    <2>4. lease' \in Lease /\ lease'.live /\ lease'.owner = i
      BY <2>2, <2>3 DEF Lease
    <2>5. UNCHANGED <<registered, proc, overlapped, stopped, happened, open>>
      BY <1>4, <2>1 DEF Renewed
    <2>6. Rest'
      BY <1>1, <2>2, <2>4, <2>5 DEF Rest
    <2>7. OthersKept(i)
      BY <2>2, <2>3, <2>5 DEF OthersKept
    <2>8. session'[i] = y /\ pending'[i] = r
      BY <1>3, <2>1, MoveType
    <2>9. Sound(i)'
      BY <1>2, <1>3, <2>4, <2>5, <2>8, Fewer DEF Queries
    <2> QED BY <1>3, <2>1, <2>6, <2>7, <2>9, StepKeeps
  <1>5. CASE Renewed(i, c) /\ ~Holds(i, c.gen)
    <2>1. happened' \in [Kinds -> Nat]
      BY <1>1, <1>5 DEF Renewed, Rest
    <2> QED BY <1>2, <1>5, <2>1, LoseLeaseKeeps DEF Renewed
  <1>6. CASE RenewFails(i, c)
    <2>1. happened' \in [Kinds -> Nat]
      BY <1>6, HappensType DEF RenewFails
    <2>2. CASE LoseLease(i, c.gen)
      BY <1>2, <1>6, <2>1, <2>2, LoseLeaseKeeps DEF RenewFails
    <2>3. CASE ~LoseLease(i, c.gen)
      <3>1. Moves(i, y, r) /\ open' = open
        BY <1>1, <1>6, <2>3 DEF RenewFails, Moves
      <3>2. UNCHANGED <<lease, registered, proc, lapsed, overlapped, stopped>>
        BY <1>6 DEF RenewFails
      <3>3. Rest'
        BY <1>1, <2>1, <3>1, <3>2 DEF Rest
      <3>4. r \in SUBSET Awaited /\ \A q \in r : q \in pending[i]
        BY <1>1
      <3> HIDE DEF r, y
      <3> QED BY <1>2, <1>3, <3>1, <3>2, <3>3, <3>4, SameAttempt
    <2> QED BY <2>2, <2>3
  <1> QED BY <1>4, <1>5, <1>6

LEMMA ExpireKeeps ==
    ASSUME LeaseInv, Expire
    PROVE  LeaseInv'
  <1>1. Rest
    BY TypeParts DEF LeaseInv
  <1>2. lease.live /\ lease.owner \in Instances /\ ~lease'.live /\ lease' \in Lease
    BY <1>1 DEF Expire, Rest, Lease
  <1>3. lapsed \subseteq lapsed' /\ lapsed' \subseteq Instances /\ happened' \in [Kinds -> Nat]
    BY <1>1, <1>2, HappensType DEF Expire, Rest, LeaseInv
  <1>4. TypeOK'
    BY <1>1, <1>2, <1>3 DEF Expire, Rest, LeaseInv, TypeOK, Lease
  <1>5. ASSUME NEW i \in Instances PROVE Sound(i)'
    <2>1. Sound(i)
      BY DEF LeaseInv
    <2>2. /\ Starting(i)' = Starting(i) /\ Queries(i)' = Queries(i) /\ (Live(i)' <=> Live(i))
          /\ overlapped' = overlapped /\ proc' = proc /\ open' = open /\ pending' = pending
      BY DEF Expire, Starting, Queries, Live, Current
    <2>3. Empty(i)' /\ Alone(i)' /\ Quiet(i)'
      BY <2>1, <2>2 DEF Sound, Empty, Alone, Quiet
    <2>4. Claimant(i)' => proc[i] = "up"
      BY <2>1, <2>2 DEF Sound, Empty, Claimant, Live, Starting
    <2>5. Owns(i)'
      <3> SUFFICES ASSUME i \notin overlapped' \cup lapsed', Claimant(i)' PROVE FALSE
        BY DEF Owns
      <3>1. lease.owner = i
        BY <1>3, <2>1, <2>2 DEF Sound, Owns, Claimant
      <3>2. i \in lapsed'
        BY <2>4, <3>1 DEF Expire
      <3> QED BY <3>2
    <2> QED BY <2>3, <2>5 DEF Sound
  <1> QED BY <1>4, <1>5 DEF LeaseInv

LEMMA OpenedKeeps ==
    ASSUME LeaseInv, NEW i \in Instances, Opened(i)
    PROVE  LeaseInv'
  <1> USE Local
  <1> DEFINE y == [session[i] EXCEPT !.status = "CONNECTED"]
  <1>1. session[i] \in Session /\ Rest /\ pending[i] \in SUBSET Awaited
    OBVIOUS
  <1>2. y \in Session /\ y.gen = session[i].gen /\ y.cur = session[i].cur
    BY <1>1 DEF Session, Status
  <1>3. Moves(i, y, pending[i])
    BY <1>1 DEF Opened, Moves
  <1>4. Rest' /\ proc[i] = "up" /\ UNCHANGED <<lapsed, overlapped, lease, proc, open>>
    BY <1>1 DEF Opened, Managed, Rest
  <1> HIDE DEF y
  <1> QED BY <1>1, <1>2, <1>3, <1>4, SameAttempt

LEMMA DisconnectType ==
    ASSUME NEW x \in Session, NEW b \in BOOLEAN
    PROVE  LET y == [x EXCEPT !.status = "DISCONNECTED", !.active = FALSE, !.reconnect = b]
           IN  y \in Session /\ y.gen = x.gen /\ y.cur = x.cur
  BY DEF Session, Status

LEMMA ClosedKeeps ==
    ASSUME LeaseInv, NEW i \in Instances, NEW reason, Closed(i, reason)
    PROVE  LeaseInv'
  <1> USE Local
  <1> DEFINE x == session[i]
             y == IF reason = "transient"
                  THEN [x EXCEPT !.status = "CONNECTING", !.reconnect = TRUE]
                  ELSE IF reason = "terminated"
                  THEN [x EXCEPT !.status = "DISCONNECTED", !.active = FALSE]
                  ELSE [ClearLeaseTimers(x) EXCEPT !.status = "DISCONNECTED", !.active = FALSE,
                            !.reconnect = IF reason = "replaced" THEN FALSE ELSE @]
             a == Call(IF reason = "replaced" THEN "close" ELSE "closeOut", x.gen)
             r == IF reason \in {"transient", "terminated"} THEN pending[i]
                  ELSE pending[i] \cup {a}
  <1>1. x \in Session /\ Rest /\ pending[i] \in SUBSET Awaited
    OBVIOUS
  <1>2. x.gen \in Gens
    BY <1>1 DEF Session
  <1>3. y \in Session /\ y.gen = x.gen /\ y.cur = x.cur
    <2>1. /\ ClearLeaseTimers(x) \in Session
          /\ ClearLeaseTimers(x).gen = x.gen /\ ClearLeaseTimers(x).cur = x.cur
      BY <1>1, ClearType
    <2>2. ClearLeaseTimers(x).reconnect \in BOOLEAN
      BY <2>1 DEF Session
    <2> DEFINE b == IF reason = "replaced" THEN FALSE ELSE ClearLeaseTimers(x).reconnect
    <2>3. /\ [x EXCEPT !.status = "CONNECTING", !.reconnect = TRUE] \in Session
          /\ [x EXCEPT !.status = "DISCONNECTED", !.active = FALSE] \in Session
      BY <1>1 DEF Session, Status
    <2>4. b \in BOOLEAN
      BY <2>2
    <2> DEFINE w == [ClearLeaseTimers(x) EXCEPT
                        !.status = "DISCONNECTED", !.active = FALSE, !.reconnect = b]
    <2>5. y = IF reason = "transient"
              THEN [x EXCEPT !.status = "CONNECTING", !.reconnect = TRUE]
              ELSE IF reason = "terminated"
              THEN [x EXCEPT !.status = "DISCONNECTED", !.active = FALSE]
              ELSE w
      OBVIOUS
    <2> HIDE DEF b
    <2>6. w \in Session /\ w.gen = x.gen /\ w.cur = x.cur
      BY <2>1, <2>4, DisconnectType
    <2> HIDE DEF w, y
    <2> QED BY <1>1, <2>3, <2>5, <2>6 DEF Session
  <1>4. a \in Awaited /\ a.op \notin Attempt
    BY <1>2, CallType DEF Op, Query, Delete_, Attempt
  <1>5. Moves(i, y, r)
    <2>1. session \in [Instances -> Session] /\ pending \in [Instances -> SUBSET Awaited]
      OBVIOUS
    <2>2. CASE reason = "transient"
      BY <2>1, <2>2 DEF Closed, Moves
    <2>3. CASE reason = "terminated"
      BY <2>1, <2>3 DEF Closed, Moves
    <2>4. CASE reason \notin {"transient", "terminated"}
      BY <2>1, <2>4 DEF Closed, Moves
    <2> QED BY <2>2, <2>3, <2>4
  <1>6. r \in SUBSET Awaited /\ \A q \in r : q \in pending[i] \/ q.op \notin Attempt
    BY <1>1, <1>4
  <1> HIDE DEF y, a, r
  <1>7. session'[i] = y /\ pending'[i] = r
    BY <1>3, <1>5, <1>6, MoveType
  <1>8. open' = [open EXCEPT ![i] = @ \ {x.gen}] /\ happened' \in [Kinds -> Nat]
        /\ UNCHANGED <<lease, registered, proc, lapsed, overlapped, stopped>>
    BY HappensType DEF Closed
  <1>9. Rest' /\ OthersKept(i)
    BY <1>1, <1>8 DEF Rest, OthersKept
  <1>10. proc[i] = "up" /\ Live(i)
    BY DEF Closed, Managed
  <1>11. Sound(i)'
    <2>1. ~Live(i)'
      BY <1>1, <1>3, <1>7, <1>8 DEF Live, Rest
    <2>2. Empty(i)'
      BY <1>8, <1>10 DEF Empty
    <2>3. CASE i \in overlapped
      BY <1>8, <2>2, <2>3 DEF Sound, Alone, Quiet, Owns
    <2>4. CASE i \notin overlapped
      <3>1. \A q \in pending[i] : q.op \notin Attempt
        BY <1>10, <2>4 DEF Sound, Quiet, Queries, Query
      <3>2. Starting(i)' = {}
        BY <1>6, <1>7, <3>1 DEF Starting
      <3> QED BY <2>1, <2>2, <3>2, NothingCurrent
    <2> QED BY <2>3, <2>4
  <1> QED BY <1>3, <1>5, <1>6, <1>9, <1>11, StepKeeps

\* The DELETE of the row returns, and what is left is r.
LEMMA ReleaseKeeps ==
    ASSUME LeaseInv, NEW i \in Instances, NEW c \in Queries(i), NEW r \in SUBSET Awaited,
           pending' = [pending EXCEPT ![i] = r],
           \A q \in r : q \in pending[i] \ {c} \/ q.op \notin Attempt,
           Released(i), registered' \in BOOLEAN,
           UNCHANGED <<proc, session, open, lapsed, overlapped, stopped>>
    PROVE  LeaseInv'
  <1> USE Local
  <1>1. session[i] \in Session /\ session \in [Instances -> Session] /\ Rest
    OBVIOUS
  <1>2. Moves(i, session[i], r)
    BY <1>1 DEF Moves
  <1>3. Rest' /\ OthersKept(i)
    BY <1>1, ReleaseType DEF Rest, OthersKept
  <1>4. Sound(i)'
    BY <1>1, <1>2, QueryGone
  <1> QED BY <1>1, <1>2, <1>3, <1>4, StepKeeps

LEMMA ReleasesKeep ==
    ASSUME LeaseInv, NEW i \in Instances, NEW c,
           CloseReleased(i, c) \/ LogoutReleased(i, c) \/ DeleteReleased(i, c)
    PROVE  LeaseInv'
  <1> USE Local
  <1>1. c \in pending[i] /\ c \in Queries(i) /\ c \in Awaited
    BY DEF CloseReleased, LogoutReleased, DeleteReleased, Awaits, Queries, Query, Delete_
  <1>2. Rest
    OBVIOUS
  <1>3. CASE CloseReleased(i, c)
    <2>1. pending[i] \ {c} \in SUBSET Awaited
      OBVIOUS
    <2>2. registered' \in BOOLEAN
      BY <1>2, <1>3 DEF CloseReleased, Rest
    <2> QED BY <1>1, <1>3, <2>1, <2>2, ReleaseKeeps DEF CloseReleased
  <1>4. CASE LogoutReleased(i, c)
    <2> DEFINE a == [c EXCEPT !.op = "provider"]
               r == (pending[i] \ {c}) \cup {a}
    <2>1. a \in Awaited /\ a.op = "provider"
      BY <1>1 DEF Awaited, Op
    <2>2. r \in SUBSET Awaited /\ \A q \in r : q \in pending[i] \ {c} \/ q.op \notin Attempt
      BY <2>1 DEF Attempt
    <2>3. registered' \in BOOLEAN
      BY <1>2, <1>4 DEF LogoutReleased, Rest
    <2>4. /\ pending' = [pending EXCEPT ![i] = r] /\ Released(i)
          /\ UNCHANGED <<proc, session, open, lapsed, overlapped, stopped>>
      BY <1>4 DEF LogoutReleased
    <2> HIDE DEF r
    <2> QED BY <1>1, <2>2, <2>3, <2>4, ReleaseKeeps
  <1>5. CASE DeleteReleased(i, c)
    <2> DEFINE a == [c EXCEPT !.op = "unlink"]
               r == (pending[i] \ {c}) \cup {a}
    <2>1. a \in Awaited /\ a.op = "unlink"
      BY <1>1 DEF Awaited, Op
    <2>2. r \in SUBSET Awaited /\ \A q \in r : q \in pending[i] \ {c} \/ q.op \notin Attempt
      BY <2>1 DEF Attempt
    <2>3. registered' \in BOOLEAN
      BY <1>2, <1>5 DEF DeleteReleased, Rest
    <2>4. /\ pending' = [pending EXCEPT ![i] = r] /\ Released(i)
          /\ UNCHANGED <<proc, session, open, lapsed, overlapped, stopped>>
      BY <1>5 DEF DeleteReleased
    <2> HIDE DEF r
    <2> QED BY <1>1, <2>2, <2>3, <2>4, ReleaseKeeps
  <1> QED BY <1>3, <1>4, <1>5

\* A statement c of a logout, a delete or a registration returns: session y, and
\* at most one statement more.
LEMMA StatementKeeps ==
    ASSUME LeaseInv, NEW i \in Instances, NEW c \in pending[i], NEW y \in Session,
           NEW n \in SUBSET Awaited, \A q \in n : q.op \notin Query,
           pending' = [pending EXCEPT ![i] = (@ \ {c}) \cup n],
           session' = [session EXCEPT ![i] = y], y.gen = session[i].gen, y.cur = session[i].cur,
           NEW o \in SUBSET Gens, open' = [open EXCEPT ![i] = o], o \subseteq open[i],
           registered' \in BOOLEAN, happened' \in [Kinds -> Nat],
           UNCHANGED <<lapsed, overlapped, lease, proc, stopped>>
    PROVE  LeaseInv'
  <1> USE Local
  <1> DEFINE r == (pending[i] \ {c}) \cup n
  <1>1. Rest /\ r \in SUBSET Awaited /\ proc[i] = "up"
    OBVIOUS
  <1>2. Moves(i, y, r)
    BY DEF Moves
  <1>3. Rest'
    BY <1>1 DEF Rest
  <1>4. open'[i] \subseteq open[i] /\ \A j \in Instances \ {i} : open'[j] = open[j]
    BY <1>1 DEF Rest
  <1>5. \A q \in r : q \in pending[i] \/ q.op \notin Query
    OBVIOUS
  <1> HIDE DEF r
  <1> QED BY <1>1, <1>2, <1>3, <1>4, <1>5, SameAttempt

\* What such a statement leaves: session y, at most one statement more, which
\* asks for no row and no socket, and no socket more.
StatementStep(i, c) ==
    \E y \in Session, n \in SUBSET Awaited, o \in SUBSET Gens :
        /\ \A q \in n : q.op \in {"clear", "inactive", "inactiveErr"}
        /\ pending' = [pending EXCEPT ![i] = (@ \ {c}) \cup n]
        /\ session' = [session EXCEPT ![i] = y]
        /\ y.gen = session[i].gen /\ y.cur = session[i].cur /\ y.deleted = session[i].deleted
        /\ y.active = session[i].active /\ y.reconnect = session[i].reconnect
        /\ y.retries = session[i].retries
        /\ open' = [open EXCEPT ![i] = o] /\ o \subseteq open[i]
        /\ registered' \in BOOLEAN /\ happened' \in [Kinds -> Nat]
        /\ UNCHANGED <<lapsed, overlapped, lease, proc, stopped>>

\* The provider half of logoutSession and deleteSession, and a registration that fails
LEMMA Statements ==
    ASSUME LeaseInv, NEW i \in Instances, NEW c,
           \/ LogoutProvider(i, c) \/ AuthCleared(i, c) \/ LogoutDone(i, c)
           \/ DeleteDone(i, c) \/ RegisterFails(i, c)
    PROVE  c \in pending[i] /\ StatementStep(i, c)
  <1> USE Local
  <1> DEFINE s == session[i]
             p == pending[i]
  <1>1. c \in p /\ c \in Awaited /\ c.gen \in Gens
    BY DEF LogoutProvider, AuthCleared, LogoutDone, DeleteDone, RegisterFails, Awaits, Awaited
  <1>2. /\ s \in Session /\ session \in [Instances -> Session] /\ Rest
        /\ pending \in [Instances -> SUBSET Awaited] /\ open[i] \in SUBSET Gens
        /\ open \in [Instances -> SUBSET Gens]
    BY DEF Rest
  <1>3. UNCHANGED <<lapsed, overlapped, lease, proc, stopped>>
    BY DEF LogoutProvider, AuthCleared, LogoutDone, DeleteDone, RegisterFails
  <1>4. happened' \in [Kinds -> Nat]
    BY HappensType DEF LogoutProvider, AuthCleared, LogoutDone, DeleteDone, RegisterFails,
                       LeaseInv, TypeOK
  <1>5. registered' \in BOOLEAN
    BY <1>2 DEF LogoutProvider, AuthCleared, LogoutDone, DeleteDone, RegisterFails, Rest
  <1> DEFINE Left(n) == /\ \A q \in n : q.op \in {"clear", "inactive", "inactiveErr"}
                        /\ pending' = [pending EXCEPT ![i] = (@ \ {c}) \cup n]
             Same(y) == /\ session' = [session EXCEPT ![i] = y]
                        /\ y.gen = s.gen /\ y.cur = s.cur /\ y.deleted = s.deleted
                        /\ y.active = s.active /\ y.reconnect = s.reconnect
                        /\ y.retries = s.retries
  <1>6. \E n \in SUBSET Awaited : Left(n)
    <2>1. ASSUME NEW op \in {"clear", "inactive", "inactiveErr"}, GoesOn(i, c, op)
          PROVE  \E n \in SUBSET Awaited : Left(n)
      <3>1. Call(op, c.gen) \in Awaited /\ Call(op, c.gen).op = op
        BY <1>1, CallType DEF Op
      <3>2. CASE Superseded(s, c.gen)
        <4>1. pending' = [pending EXCEPT ![i] = (@ \ {c}) \cup {}]
          BY <2>1, <3>2 DEF GoesOn
        <4> QED BY <4>1
      <3>3. CASE ~Superseded(s, c.gen)
        <4>1. pending' = [pending EXCEPT ![i] = (@ \ {c}) \cup {Call(op, c.gen)}]
          BY <2>1, <3>3 DEF GoesOn
        <4> QED BY <2>1, <3>1, <4>1
      <3> QED BY <3>2, <3>3
    <2>2. CASE LogoutProvider(i, c)
      BY <2>1, <2>2 DEF LogoutProvider
    <2>3. CASE AuthCleared(i, c)
      BY <2>1, <2>3 DEF AuthCleared
    <2>4. CASE LogoutDone(i, c) \/ DeleteDone(i, c) \/ RegisterFails(i, c)
      <3>1. pending' = [pending EXCEPT ![i] = (@ \ {c}) \cup {}]
        BY <2>4 DEF LogoutDone, DeleteDone, RegisterFails
      <3> QED BY <3>1
    <2> QED BY <2>2, <2>3, <2>4
  <1>7. \E y \in Session : Same(y)
    <2>1. CASE session' = session
      <3>1. session' = [session EXCEPT ![i] = s]
        BY <1>2, <2>1
      <3> QED BY <1>2, <3>1
    <2>2. ASSUME NEW b \in BOOLEAN, session' = [session EXCEPT ![i].loggedOut = b]
          PROVE  \E y \in Session : Same(y)
      <3> DEFINE y == [s EXCEPT !.loggedOut = b]
      <3>1. /\ y \in Session /\ y.gen = s.gen /\ y.cur = s.cur /\ y.deleted = s.deleted
            /\ y.active = s.active /\ y.reconnect = s.reconnect /\ y.retries = s.retries
        BY <1>2 DEF Session
      <3>2. session' = [session EXCEPT ![i] = y]
        BY <2>2
      <3>3. Same(y)
        BY <3>1, <3>2
      <3> HIDE DEF y, Same
      <3> QED BY <3>1, <3>3
    <2>3. CASE LogoutDone(i, c)
      <3> DEFINE b == s.loggedOut \/ (c.op = "inactive" /\ ~Superseded(s, c.gen))
      <3>1. b \in BOOLEAN
        OBVIOUS
      <3>2. session' = session \/ session' = [session EXCEPT ![i].loggedOut = b]
        BY <1>2, <2>3 DEF LogoutDone
      <3> HIDE DEF b
      <3> QED BY <2>1, <2>2, <3>1, <3>2
    <2> QED BY <2>1, <2>3 DEF LogoutProvider, AuthCleared, DeleteDone, RegisterFails
  <1>8. \E o \in SUBSET Gens : open' = [open EXCEPT ![i] = o] /\ o \subseteq open[i]
    <2>1. CASE LogoutProvider(i, c)
      <3>1. open' = [open EXCEPT ![i] = open[i] \ {c.held}] /\ open[i] \ {c.held} \in SUBSET Gens
        BY <1>2, <2>1 DEF LogoutProvider
      <3> QED BY <3>1
    <2>2. CASE DeleteDone(i, c)
      <3>1. open' = [open EXCEPT ![i] = open[i] \ {s.sock}] /\ open[i] \ {s.sock} \in SUBSET Gens
        BY <1>2, <2>2 DEF DeleteDone
      <3> QED BY <3>1
    <2>3. CASE open' = open
      <3>1. open' = [open EXCEPT ![i] = open[i]]
        BY <1>2, <2>3
      <3> QED BY <1>2, <3>1
    <2> QED BY <2>1, <2>2, <2>3 DEF AuthCleared, LogoutDone, RegisterFails
  <1>9. PICK n \in SUBSET Awaited : Left(n)
    BY <1>6
  <1>10. PICK y \in Session : Same(y)
    BY <1>7
  <1>11. PICK o \in SUBSET Gens : open' = [open EXCEPT ![i] = o] /\ o \subseteq open[i]
    BY <1>8
  <1>12. StatementStep(i, c)
    BY <1>3, <1>4, <1>5, <1>9, <1>10, <1>11 DEF StatementStep
  <1> QED BY <1>1, <1>12

LEMMA DoneKeeps ==
    ASSUME LeaseInv, NEW i \in Instances, NEW c,
           \/ LogoutProvider(i, c) \/ AuthCleared(i, c) \/ LogoutDone(i, c)
           \/ DeleteDone(i, c) \/ RegisterFails(i, c)
    PROVE  LeaseInv'
  <1>1. c \in pending[i] /\ StatementStep(i, c)
    BY Statements
  <1>2. ASSUME NEW n, \A q \in n : q.op \in {"clear", "inactive", "inactiveErr"}
        PROVE  \A q \in n : q.op \notin Query
    BY <1>2 DEF Query, Delete_, Attempt
  <1>3. PICK y \in Session, n \in SUBSET Awaited, o \in SUBSET Gens :
            /\ \A q \in n : q.op \in {"clear", "inactive", "inactiveErr"}
            /\ pending' = [pending EXCEPT ![i] = (@ \ {c}) \cup n]
            /\ session' = [session EXCEPT ![i] = y]
            /\ y.gen = session[i].gen /\ y.cur = session[i].cur
            /\ open' = [open EXCEPT ![i] = o] /\ o \subseteq open[i]
            /\ registered' \in BOOLEAN /\ happened' \in [Kinds -> Nat]
            /\ UNCHANGED <<lapsed, overlapped, lease, proc, stopped>>
    BY <1>1 DEF StatementStep
  <1>4. \A q \in n : q.op \notin Query
    BY <1>2, <1>3
  <1> QED BY <1>1, <1>3, <1>4, StatementKeeps

LEMMA RefreshReleasedKeeps ==
    ASSUME LeaseInv, NEW i \in Instances, NEW c, RefreshReleased(i, c)
    PROVE  LeaseInv'
  <1> USE Local
  <1> DEFINE x == [session[i] EXCEPT !.sock = 0]
             p == pending[i] \ {c}
  <1>1. session[i] \in Session /\ Rest /\ p \in SUBSET Awaited
    OBVIOUS
  <1>2. x \in Session /\ x.gen = session[i].gen /\ x.cur = session[i].cur
    BY <1>1 DEF Session
  <1>3. c \in pending[i] /\ c \in Queries(i) /\ proc[i] = "up" /\ p \subseteq pending[i]
    BY DEF RefreshReleased, Awaits, Queries, Query, Delete_
  <1>4. StartSocket(i, x, p)
    BY DEF RefreshReleased
  <1>5. open' = [open EXCEPT ![i] = @ \ {session[i].sock}]
        /\ UNCHANGED <<registered, proc, lapsed, stopped>>
        /\ Released(i)
    BY DEF RefreshReleased
  <1>6. Rest' /\ OthersKept(i)
    BY <1>1, <1>2, <1>4, <1>5, ReleaseType, StartType DEF Rest, OthersKept
  <1>7. Sound(i)'
    <2>1. CASE ~Skips(x)
      BY <1>1, <1>2, <1>3, <1>4, <1>5, <2>1, Begun DEF Rest
    <2>2. CASE Skips(x)
      <3>1. Moves(i, x, p) /\ overlapped' = overlapped
        BY <1>4, <2>2 DEF StartSocket, Moves
      <3> QED BY <1>1, <1>2, <1>3, <1>5, <3>1, QueryGone DEF Rest
    <2> QED BY <2>1, <2>2
  <1>8. PICK y \in Session, r \in SUBSET Awaited : Moves(i, y, r)
    BY <1>1, <1>2, <1>4, StartType
  <1> QED BY <1>6, <1>7, <1>8, StepKeeps

LEMMA PairingKeeps ==
    ASSUME LeaseInv, NEW i \in Instances, RequestPairingCode(i)
    PROVE  LeaseInv'
  <1>1. session[i] \in Session /\ Rest /\ pending[i] \in SUBSET Awaited
    BY Local
  <1>2. StartSocket(i, session[i], pending[i]) /\ proc[i] = "up"
    BY DEF RequestPairingCode, Managed
  <1>3. UNCHANGED <<proc, lapsed, lease, open, registered>>
    BY DEF RequestPairingCode
  <1>4. happened' \in [Kinds -> Nat] /\ stopped' \subseteq Instances
    BY <1>1, HappensType DEF RequestPairingCode, Rest, LeaseInv
  <1> QED BY <1>1, <1>2, <1>3, <1>4, StartKeeps DEF Rest

\* logoutSession, deleteSession up to their DELETE: session y and
\* the statement op.
LEMMA RequestKeeps ==
    ASSUME LeaseInv, NEW i \in Instances, NEW a \in Awaited, NEW y \in Session,
           session' = [session EXCEPT ![i] = y], a.op \notin Attempt,
           y.gen = NextGen(i), y.cur = 0, HasFresh(i), Managed(i), happened' \in [Kinds -> Nat],
           pending' = [pending EXCEPT ![i] = @ \cup {a}], registered' \in BOOLEAN,
           stopped' \subseteq Instances,
           UNCHANGED <<lease, proc, open, lapsed, overlapped>>
    PROVE  LeaseInv'
  <1> DEFINE r == pending[i] \cup {a}
  <1>1. Rest /\ r \in SUBSET Awaited
    BY Local
  <1>2. Moves(i, y, r)
    BY DEF Moves
  <1>3. Rest' /\ proc[i] = "up"
    BY <1>1 DEF Rest, LeaseInv, Managed
  <1>4. \A q \in r : q \in pending[i] \/ q.op \notin Attempt
    OBVIOUS
  <1> HIDE DEF r
  <1> QED BY <1>1, <1>2, <1>3, <1>4, Raised

\* refreshQr sets the status and registers the session ...
LEMMA RefreshKeeps ==
    ASSUME LeaseInv, NEW i \in Instances, Refresh(i)
    PROVE  LeaseInv'
  <1> USE Local
  <1> DEFINE s == session[i]
             y == [s EXCEPT !.status = "SCAN_QR"]
             a == Call("register", s.gen)
             r == pending[i] \cup {a}
  <1>1. s \in Session /\ Rest /\ pending[i] \in SUBSET Awaited /\ s.gen \in Gens
    BY DEF Session
  <1>2. y \in Session /\ y.gen = s.gen /\ y.cur = s.cur
    BY <1>1 DEF Session, Status
  <1>3. a \in Awaited /\ a.op = "register"
    BY <1>1, CallType DEF Op
  <1>4. Moves(i, y, r)
    BY <1>1 DEF Refresh, Moves
  <1>5. proc[i] = "up" /\ UNCHANGED <<lapsed, overlapped, lease, proc, open, registered>>
        /\ stopped' \subseteq Instances /\ happened' \in [Kinds -> Nat]
    BY <1>1, HappensType DEF Refresh, Managed, Rest, LeaseInv
  <1>6. Rest'
    BY <1>1, <1>5 DEF Rest
  <1>7. r \in SUBSET Awaited /\ \A q \in r : q \in pending[i] \/ q.op \notin Query
    BY <1>1, <1>3 DEF Query, Delete_, Attempt
  <1> HIDE DEF y, a, r
  <1> QED BY <1>2, <1>4, <1>5, <1>6, <1>7, SameAttempt

\* ... and raises the generation when the registration has returned.
LEMMA RegisteredKeeps ==
    ASSUME LeaseInv, NEW i \in Instances, NEW c, RefreshRegistered(i, c)
    PROVE  LeaseInv'
  <1> USE Local
  <1> DEFINE y == ClearLeaseTimers(Invalidate(i, session[i]))
             a == Call("refresh", NextGen(i))
             r == (pending[i] \ {c}) \cup {a}
  <1>1. session[i] \in Session /\ Rest /\ pending[i] \in SUBSET Awaited
    OBVIOUS
  <1>2. HasFresh(i) /\ c \in pending[i] /\ proc[i] = "up"
    BY DEF RefreshRegistered, Awaits
  <1>3. y \in Session /\ y.gen = NextGen(i) /\ y.cur = 0
    BY <1>1, <1>2, InvalidateType, ClearType
  <1>4. a \in Awaited /\ a.op \notin Attempt
    BY <1>2, FreshGen, CallType DEF Op, Query, Delete_, Attempt
  <1>5. Moves(i, y, r)
    BY DEF RefreshRegistered, Moves
  <1>6. r \in SUBSET Awaited /\ \A q \in r : q \in pending[i] \/ q.op \notin Attempt
    BY <1>1, <1>4
  <1>7. registered' = TRUE /\ UNCHANGED <<lease, proc, open, lapsed, overlapped, stopped, happened>>
    BY DEF RefreshRegistered
  <1>8. Rest'
    BY <1>1, <1>7 DEF Rest
  <1> HIDE DEF y, a, r
  <1> QED BY <1>2, <1>3, <1>5, <1>6, <1>7, <1>8, Raised

LEMMA RequestsKeep ==
    ASSUME LeaseInv, NEW i \in Instances, Logout(i) \/ Delete(i)
    PROVE  LeaseInv'
  <1> DEFINE s == session[i]
             x == ClearLeaseTimers(Invalidate(i, s))
             g == NextGen(i)
  <1>1. s \in Session /\ Rest
    BY Local
  <1>2. HasFresh(i) /\ Managed(i) /\ happened' \in [Kinds -> Nat]
    BY HappensType DEF Logout, Delete, LeaseInv
  <1>3. x \in Session /\ x.gen = g /\ x.cur = 0
    BY <1>1, <1>2, InvalidateType, ClearType
  <1>4. g \in Gens
    BY <1>2, FreshGen
  <1>5. UNCHANGED <<lease, proc, open, lapsed, overlapped>> /\ registered' \in BOOLEAN
        /\ stopped' \subseteq Instances
    BY <1>1 DEF Logout, Delete, Rest
  <1> HIDE DEF x, g
  <1>7. CASE Logout(i)
    <2> DEFINE y == [x EXCEPT !.sock = 0, !.status = "DISCONNECTED", !.active = FALSE]
               a == [op |-> "logout", gen |-> g, held |-> s.sock]
    <2>1. y \in Session /\ y.gen = g /\ y.cur = 0
      BY <1>3 DEF Session, Status
    <2>2. a \in Awaited /\ a.op \notin Attempt
      BY <1>1, <1>4 DEF Awaited, Session, Op, Query, Delete_, Attempt
    <2>3. session' = [session EXCEPT ![i] = y]
          /\ pending' = [pending EXCEPT ![i] = @ \cup {a}]
      BY <1>7 DEF Logout, x, g
    <2> HIDE DEF y, a
    <2> QED BY <1>2, <1>5, <2>1, <2>2, <2>3, RequestKeeps DEF g
  <1>8. CASE Delete(i)
    <2> DEFINE y == [x EXCEPT !.deleted = TRUE]
    <2>1. y \in Session /\ y.gen = g /\ y.cur = 0
      BY <1>3 DEF Session
    <2>2. Call("delete", g) \in Awaited /\ Call("delete", g).op \notin Attempt
      BY <1>4, CallType DEF Op, Query, Delete_, Attempt
    <2>3. session' = [session EXCEPT ![i] = y]
          /\ pending' = [pending EXCEPT ![i] = @ \cup {Call("delete", g)}]
      BY <1>8 DEF Delete, x, g
    <2> HIDE DEF y
    <2> QED BY <1>2, <1>5, <2>1, <2>2, <2>3, RequestKeeps DEF g
  <1> QED BY <1>7, <1>8

LEMMA ShutdownKeeps ==
    ASSUME LeaseInv, NEW i \in Instances, Shutdown(i)
    PROVE  LeaseInv'
  <1> DEFINE s == session[i]
             x == ClearLeaseTimers(Invalidate(i, s))
             y == [x EXCEPT !.sock = 0]
             a == Call("shutdown", NextGen(i))
             r == pending[i] \cup {a}
  <1>1. s \in Session /\ Rest /\ pending[i] \in SUBSET Awaited
    BY Local
  <1>2. HasFresh(i) /\ proc[i] = "up"
    BY DEF Shutdown
  <1>3. x \in Session /\ x.gen = NextGen(i) /\ x.cur = 0
    BY <1>1, <1>2, InvalidateType, ClearType
  <1>4. y \in Session /\ y.gen = NextGen(i) /\ y.cur = 0
    BY <1>3 DEF Session
  <1>5. a \in Awaited /\ a.op \notin Attempt
    BY <1>2, FreshGen, CallType DEF Op, Query, Delete_, Attempt
  <1>6. Moves(i, y, r)
    BY DEF Shutdown, Moves
  <1>7. r \in SUBSET Awaited /\ \A q \in r : q \in pending[i] \/ q.op \notin Attempt
    BY <1>1, <1>5
  <1>8. Rest'
    BY <1>1, HappensType DEF Shutdown, Rest, LeaseInv
  <1>9. \A j \in Instances \ {i} : open'[j] = open[j]
    BY <1>1 DEF Shutdown, Rest
  <1>10. UNCHANGED <<lapsed, overlapped, lease, proc>>
    BY DEF Shutdown
  <1> HIDE DEF x, y, a, r
  <1> QED BY <1>2, <1>4, <1>6, <1>7, <1>8, <1>9, <1>10, Raised

LEMMA GoneKeeps ==
    ASSUME LeaseInv, NEW i \in Instances, Crash(i) \/ \E c : ShutdownReleased(i, c)
    PROVE  LeaseInv'
  <1>1. Rest
    BY Local
  <1>2. Gone(i)
    BY DEF Crash, ShutdownReleased
  <1>3. Moves(i, FreshSession(FirstGen), {})
    BY <1>2 DEF Gone, Moves
  <1>4. lease' = lease \/ Released(i)
    BY DEF Crash, ShutdownReleased
  <1>5. happened' \in [Kinds -> Nat]
    BY <1>1, HappensType, ReleaseType DEF Crash, ShutdownReleased, Rest, LeaseInv
  <1>6. /\ open' = [open EXCEPT ![i] = {}] /\ proc' = [proc EXCEPT ![i] = "down"]
        /\ UNCHANGED <<registered, lapsed, overlapped, stopped>>
    BY <1>2 DEF Gone
  <1>7. Rest' /\ OthersKept(i)
    BY <1>1, <1>4, <1>5, <1>6, ReleaseType DEF Rest, OthersKept, LeaseInv
  <1>8. pending'[i] = {} /\ open'[i] = {}
    BY <1>1, <1>3, <1>6, FreshSessionType, MoveType DEF Rest, LeaseInv
  <1>9. Sound(i)'
    BY <1>8, NothingCurrent DEF Empty, Live, Starting
  <1> QED BY <1>3, <1>7, <1>9, FreshSessionType, StepKeeps

LEMMA ReturnsKeep ==
    ASSUME LeaseInv, NEW i \in Instances, NEW c \in pending[i], Returns(i, c) \/ Fails(i, c)
    PROVE  LeaseInv'
  BY AcquireKeeps, AttachKeeps, AbortedKeeps, RenewalKeeps, ReleasesKeep, RefreshReleasedKeeps,
     RegisteredKeeps, DoneKeeps, GoneKeeps, TimersKeep, AcquireFailsKeeps, CreateFailsKeeps
  DEF Returns, Fails

LEMMA LeaseNext ==
    ASSUME LeaseInv, [Next]_vars
    PROVE  LeaseInv'
  <1>1. CASE UNCHANGED vars
    BY <1>1 DEF vars, LeaseInv, TypeOK, Sound, Empty, Alone, Quiet, Owns, Claimant, Live,
                Current, Starting, Queries
  <1>2. CASE Expire
    BY <1>2, ExpireKeeps
  <1>3. ASSUME NEW i \in Instances,
               \/ Restore(i) \/ Reconnect(i) \/ RenewTick(i) \/ Opened(i) \/ Crash(i)
               \/ Refresh(i) \/ RequestPairingCode(i) \/ Logout(i) \/ Delete(i) \/ Shutdown(i)
        PROVE  LeaseInv'
    BY <1>3, RestoreKeeps, TimersKeep, RenewTickKeeps, OpenedKeeps, GoneKeeps, RequestsKeep, RefreshKeeps,
       PairingKeeps, ShutdownKeeps
  <1>4. ASSUME NEW i \in Instances, NEW g \in Gens, RetryFires(i, g) PROVE LeaseInv'
    BY <1>4, TimersKeep
  <1>5. ASSUME NEW i \in Instances, NEW reason, Closed(i, reason) PROVE LeaseInv'
    BY <1>5, ClosedKeeps
  <1>6. ASSUME NEW i \in Instances, NEW c \in pending[i], Returns(i, c) \/ Fails(i, c)
        PROVE  LeaseInv'
    BY <1>6, ReturnsKeep
  <1> QED BY <1>1, <1>2, <1>3, <1>4, <1>5, <1>6 DEF Next

LEMMA LeaseInvariant == Spec => []LeaseInv
  BY LeaseInit, LeaseNext, PTL DEF Spec

-----------------------------------------------------------------------------
\* The row, the sessions and what is under way are always what the code can
\* hold: a row that has not run out names a process.
THEOREM TypeCorrect == Spec => []TypeOK
  BY LeaseInvariant, PTL DEF LeaseInv

\* Two processes have a current, open socket only if the row of one of them ran
\* out under it or one began an attempt beside another statement: the INSERT ..
\* ON CONFLICT, the numbering of attempts and the check after the last await
\* are enough for all other interleavings, failures and requests.
THEOREM OneOwnerAtATime == Spec => []OneOwner
  BY LeaseInvariant, LeaseInvOwner, PTL

-----------------------------------------------------------------------------
(* A stopped session stays stopped.  It is deleted, or nothing is left that *)
(* would start it: no reconnect or retry of its generation, no QR refresh, *)
(* no attempt that is not superseded.                                      *)

Refreshing == {"register", "refresh"}     \* awaits of refreshQr

Resting(x, p) ==
    /\ x.cur = 0
    /\ \/ x.deleted
       \/ /\ ~x.active /\ ~x.reconnect /\ x.gen \notin x.retries
          /\ \A q \in p : q.op \notin Refreshing /\ (q.op \in Attempt => q.gen # x.gen)

Still(i) == i \in stopped => /\ proc[i] # "new"
                             /\ proc[i] = "up" => Resting(session[i], pending[i])
AllStill == \A i \in Instances : Still(i)

StillInv == LeaseInv /\ AllStill

LEMMA StillStep ==
    ASSUME StillInv, NEW i \in Instances, NEW x \in Session, NEW p \in SUBSET Awaited,
           Moves(i, x, p), UNCHANGED proc, stopped' \subseteq stopped \cup {i},
           i \in stopped' => proc[i] # "new" /\ (proc[i] = "up" => Resting(x, p))
    PROVE  AllStill'
  <1>1. /\ session'[i] = x /\ pending'[i] = p
        /\ \A j \in Instances \ {i} : session'[j] = session[j] /\ pending'[j] = pending[j]
    BY MoveType DEF StillInv, LeaseInv
  <1>2. Still(i)'
    BY <1>1 DEF Still
  <1>3. ASSUME NEW j \in Instances \ {i} PROVE Still(j)'
    BY <1>1 DEF StillInv, AllStill, Still
  <1> QED BY <1>2, <1>3 DEF AllStill

LEMMA RestStep ==
    ASSUME StillInv, NEW i \in Instances, NEW x \in Session, NEW p \in SUBSET Awaited,
           Moves(i, x, p), UNCHANGED <<proc, stopped>>,
           proc[i] = "up" /\ Resting(session[i], pending[i]) => Resting(x, p)
    PROVE  AllStill'
  BY StillStep DEF StillInv, AllStill, Still

\* What leaves a session at rest: fewer timers, statements that end or that are
\* the next of their attempt, and nothing that asks for a socket.
LEMMA RestLess ==
    ASSUME NEW x, NEW p, NEW y, NEW r, Resting(x, p),
           y.cur = x.cur, y.gen = x.gen, y.deleted = x.deleted, y.active => x.active,
           y.reconnect => x.reconnect,
           \A g \in y.retries : g \in x.retries \/ \E c \in p : c.op \in Attempt /\ c.gen = g,
           \A q \in r : \/ q \in p
                        \/ q.op \notin Attempt \cup Refreshing
                        \/ q.op \in Attempt /\ \E c \in p : c.op \in Attempt /\ c.gen = q.gen
    PROVE  Resting(y, r)
  <1>1. CASE x.deleted
    BY <1>1 DEF Resting
  <1>2. CASE ~x.deleted
    <2>1. /\ ~x.active /\ ~x.reconnect /\ x.gen \notin x.retries
          /\ \A q \in p : q.op \notin Refreshing /\ (q.op \in Attempt => q.gen # x.gen)
      BY <1>2 DEF Resting
    <2>2. y.gen \notin y.retries
      BY <2>1
    <2>3. \A q \in r : q.op \notin Refreshing /\ (q.op \in Attempt => q.gen # y.gen)
      BY <2>1 DEF Attempt, Refreshing
    <2> QED BY <1>2, <2>1, <2>2, <2>3 DEF Resting
  <1> QED BY <1>1, <1>2

LEMMA ClearFields ==
    ASSUME NEW x \in Session
    PROVE  /\ ClearLeaseTimers(x) \in Session
           /\ ClearLeaseTimers(x).gen = x.gen /\ ClearLeaseTimers(x).cur = x.cur
           /\ ClearLeaseTimers(x).deleted = x.deleted /\ ClearLeaseTimers(x).active = x.active
           /\ ClearLeaseTimers(x).reconnect = x.reconnect
           /\ ClearLeaseTimers(x).retries \subseteq x.retries
  BY DEF ClearLeaseTimers, Session

LEMMA InvalidateFields ==
    ASSUME NEW i \in Instances, HasFresh(i), session[i] \in Session
    PROVE  LET y == ClearLeaseTimers(Invalidate(i, session[i])) IN
           /\ y \in Session /\ y.gen = NextGen(i) /\ y.cur = 0
           /\ y.deleted = session[i].deleted /\ y.active = session[i].active /\ ~y.reconnect
           /\ y.gen \notin y.retries /\ \A q \in pending[i] : q.gen # y.gen
  <1>1. /\ NextGen(i) \in Gens /\ NextGen(i) \notin session[i].retries
        /\ \A q \in pending[i] : q.gen # NextGen(i)
    <2>1. \E g \in Gens : g \notin InUse(i)
      BY DEF HasFresh
    <2>2. NextGen(i) \in Gens /\ NextGen(i) \notin InUse(i)
      BY <2>1 DEF NextGen
    <2> QED BY <2>2 DEF InUse
  <1> DEFINE x == Invalidate(i, session[i])
  <1>2. /\ x \in Session /\ x.gen = NextGen(i) /\ x.cur = 0 /\ x.deleted = session[i].deleted
        /\ x.active = session[i].active /\ ~x.reconnect /\ x.retries = session[i].retries
    BY <1>1 DEF Invalidate, Session
  <1> HIDE DEF x
  <1>3. LET y == ClearLeaseTimers(x) IN
        /\ y \in Session /\ y.gen = x.gen /\ y.cur = x.cur /\ y.deleted = x.deleted
        /\ y.active = x.active /\ y.reconnect = x.reconnect /\ y.retries \subseteq x.retries
    BY <1>2, ClearFields
  <1> QED BY <1>1, <1>2, <1>3 DEF x

LEMMA StillAcquire ==
    ASSUME StillInv, NEW i \in Instances, NEW c, Acquire(i, c)
    PROVE  AllStill'
  <1> DEFINE x == session[i]
             p == pending[i] \ {c}
  <1>1. c \in pending[i] /\ c.op \in Attempt /\ c \in Awaited
        /\ x \in Session /\ pending[i] \in SUBSET Awaited
    BY Local DEF Acquire, Awaits, Attempt, StillInv
  <1>2. UNCHANGED <<proc, stopped>>
    BY DEF Acquire
  <1>3. CASE ~Free(i)
    <2> DEFINE y == [x EXCEPT !.status = "RESTORING", !.retry = c.gen, !.retries = @ \cup {c.gen}]
    <2>1. /\ y \in Session /\ y.gen = x.gen /\ y.cur = x.cur /\ y.deleted = x.deleted
          /\ y.active = x.active /\ y.reconnect = x.reconnect /\ y.retries = x.retries \cup {c.gen}
      BY <1>1 DEF Session, Status, Awaited
    <2>2. Moves(i, y, p)
      BY <1>3 DEF Acquire, Moves
    <2> HIDE DEF y
    <2>3. Resting(x, pending[i]) => Resting(y, p)
      BY <1>1, <2>1, RestLess
    <2> QED BY <1>1, <1>2, <2>1, <2>2, <2>3, RestStep
  <1>4. CASE Free(i)
    <2> DEFINE y == IF x.deleted THEN ClearLeaseTimers(x) ELSE x
               a == Call(IF x.deleted THEN "abort" ELSE "create", c.gen)
    <2>1. /\ y \in Session /\ y.gen = x.gen /\ y.cur = x.cur /\ y.deleted = x.deleted
          /\ y.active = x.active /\ y.reconnect = x.reconnect /\ y.retries \subseteq x.retries
      BY <1>1, ClearFields
    <2>2. a \in Awaited /\ a.gen = c.gen /\ (a.op = "abort" \/ a.op = "create")
      BY <1>1, CallType DEF Op, Query, Attempt, Delete_, Awaited
    <2>3. Moves(i, y, p \cup {a})
      BY <1>4 DEF Acquire, Moves
    <2> HIDE DEF y, a
    <2>4. Resting(x, pending[i]) => Resting(y, p \cup {a})
      BY <1>1, <2>1, <2>2, RestLess DEF Attempt, Refreshing
    <2> QED BY <1>1, <1>2, <2>1, <2>2, <2>3, <2>4, RestStep
  <1> QED BY <1>3, <1>4

LEMMA StillFailed ==
    ASSUME StillInv, NEW i \in Instances, NEW p \in SUBSET pending[i], NEW g \in Gens,
           StartFailed(i, session[i], p, g), UNCHANGED <<proc, stopped>>
    PROVE  AllStill'
  <1> DEFINE x == session[i]
             y == IF x.deleted THEN x ELSE [x EXCEPT !.status = "UNAVAILABLE"]
             r == IF x.deleted THEN p ELSE p \cup {Call("again", g)}
  <1>1. x \in Session /\ pending[i] \in SUBSET Awaited
    BY Local DEF StillInv
  <1>2. /\ y \in Session /\ y.gen = x.gen /\ y.cur = x.cur /\ y.deleted = x.deleted
        /\ y.active = x.active /\ y.reconnect = x.reconnect /\ y.retries = x.retries
    BY <1>1 DEF Session, Status
  <1>3. Call("again", g) \in Awaited /\ Call("again", g).op = "again"
    BY CallType DEF Op
  <1>4. r \in SUBSET Awaited /\ \A q \in r : q \in pending[i] \/ q.op = "again"
    BY <1>1, <1>3
  <1>5. Moves(i, y, r)
    BY DEF StartFailed, Moves
  <1> HIDE DEF y, r
  <1>6. Resting(x, pending[i]) => Resting(y, r)
    BY <1>2, <1>4, RestLess DEF Attempt, Refreshing
  <1> QED BY <1>2, <1>4, <1>5, <1>6, RestStep

LEMMA StillAttempt ==
    ASSUME StillInv, NEW i \in Instances, NEW c,
           AcquireFails(i, c) \/ CreateFails(i, c) \/ Attach(i, c) \/ Aborted(i, c)
    PROVE  AllStill'
  <1> DEFINE x == session[i]
             p == pending[i] \ {c}
  <1>1. c \in pending[i] /\ c \in Awaited /\ x \in Session /\ pending[i] \in SUBSET Awaited
        /\ c.gen \in Gens /\ proc[i] = "up"
    BY Local DEF AcquireFails, CreateFails, Attach, Aborted, Awaits, StillInv
  <1>2. UNCHANGED <<proc, stopped>>
    BY DEF AcquireFails, CreateFails, Attach, Aborted
  <1>3. CASE StartFailed(i, x, p, c.gen)
    BY <1>1, <1>2, <1>3, StillFailed
  <1>4. CASE Moves(i, x, p)
    <2>1. Resting(x, pending[i]) => Resting(x, p)
      BY RestLess
    <2> QED BY <1>1, <1>2, <1>4, <2>1, RestStep
  <1>5. ASSUME NEW op \in {"abort", "abortErr"}, Moves(i, ClearLeaseTimers(x), p \cup {Call(op, c.gen)})
        PROVE  AllStill'
    <2> DEFINE a == Call(op, c.gen)
               y == ClearLeaseTimers(x)
    <2>1. a \in Awaited /\ a.op \in {"abort", "abortErr"}
      BY <1>1, CallType DEF Op, Query, Delete_
    <2>2. /\ y \in Session /\ y.gen = x.gen /\ y.cur = x.cur /\ y.deleted = x.deleted
          /\ y.active = x.active /\ y.reconnect = x.reconnect /\ y.retries \subseteq x.retries
      BY <1>1, ClearFields
    <2>3. Moves(i, y, p \cup {a})
      BY <1>5
    <2> HIDE DEF y, a
    <2>4. Resting(x, pending[i]) => Resting(y, p \cup {a})
      BY <2>1, <2>2, RestLess DEF Attempt, Refreshing
    <2> QED BY <1>1, <1>2, <2>1, <2>2, <2>3, <2>4, RestStep
  <1>6. CASE AcquireFails(i, c) \/ Aborted(i, c)
    <2>1. CASE c.op = "abort" /\ Aborted(i, c)
      <3>1. session' = [session EXCEPT ![i] = x]
        BY <1>1, <2>1, Local DEF Aborted, StillInv
      <3> QED BY <1>4, <2>1, <3>1 DEF Aborted, Moves
    <2> QED BY <1>3, <1>6, <2>1 DEF AcquireFails, Aborted
  <1>7. CASE CreateFails(i, c)
    BY <1>5, <1>7 DEF CreateFails, Moves
  <1>8. CASE Attach(i, c) /\ Superseded(x, c.gen)
    BY <1>5, <1>8 DEF Attach, Moves
  <1>9. CASE Attach(i, c) /\ ~Superseded(x, c.gen)
    <2> DEFINE y == [x EXCEPT !.cur = c.gen, !.sock = c.gen, !.renew = IF @ = 0 THEN c.gen ELSE @]
    <2>1. y \in Session
      BY <1>1 DEF Session
    <2>2. Moves(i, y, p)
      BY <1>9 DEF Attach, Moves
    <2>3. ~Resting(x, pending[i])
      BY <1>1, <1>9 DEF Attach, Awaits, Attempt, Superseded, Resting
    <2> HIDE DEF y
    <2> QED BY <1>1, <1>2, <2>1, <2>2, <2>3, RestStep
  <1> QED BY <1>6, <1>7, <1>8, <1>9

\* What rests goes on resting: RestLess for a step of process i
LEMMA StillLess ==
    ASSUME StillInv, NEW i \in Instances, NEW y \in Session, NEW r \in SUBSET Awaited,
           Moves(i, y, r), UNCHANGED <<proc, stopped>>,
           LET x == session[i]  p == pending[i] IN
           /\ y.cur = x.cur /\ y.gen = x.gen /\ y.deleted = x.deleted
           /\ y.active => x.active
           /\ y.reconnect => x.reconnect
           /\ y.retries \subseteq x.retries
           /\ \A q \in r : q \in p \/ q.op \notin Attempt \cup Refreshing
    PROVE  AllStill'
  <1>1. Resting(session[i], pending[i]) => Resting(y, r)
    BY RestLess
  <1> QED BY <1>1, RestStep

LEMMA StillRestore ==
    ASSUME StillInv, NEW i \in Instances, Restore(i)
    PROVE  AllStill'
  <1>1. /\ stopped' = stopped /\ proc' = [proc EXCEPT ![i] = "up"] /\ proc[i] = "new"
        /\ \A j \in Instances \ {i} : session'[j] = session[j] /\ pending'[j] = pending[j]
    BY Local DEF Restore, StartSocket, StillInv
  <1>2. i \notin stopped
    BY <1>1 DEF StillInv, AllStill, Still
  <1>3. ASSUME NEW j \in Instances \ {i} PROVE Still(j)'
    <2>1. proc'[j] = proc[j]
      BY <1>1, Local DEF StillInv, Rest
    <2> QED BY <1>1, <2>1 DEF StillInv, AllStill, Still
  <1> QED BY <1>1, <1>2, <1>3 DEF AllStill, Still

\* The timers: a session at rest is deleted, inactive, and of a generation that
\* no lease retry waits for.
LEMMA StillTimers ==
    ASSUME StillInv, NEW i \in Instances,
           \/ \E g \in Gens : RetryFires(i, g)
           \/ \E c \in pending[i] : StartAgain(i, c)
           \/ Reconnect(i)
    PROVE  AllStill'
  <1> DEFINE s == session[i]
  <1>1. s \in Session /\ pending[i] \in SUBSET Awaited /\ LeaseInv
    BY Local DEF StillInv
  <1>2. UNCHANGED <<proc, stopped>> /\ proc[i] = "up"
    <2>1. ASSUME NEW c \in pending[i], StartAgain(i, c) PROVE proc[i] = "up"
      BY Local DEF StillInv
    <2> QED BY <2>1 DEF RetryFires, StartAgain, Reconnect
  <1>3. CASE ~Resting(s, pending[i])
    <2>1. ASSUME NEW x \in Session, NEW p \in SUBSET Awaited, StartSocket(i, x, p)
          PROVE  \E y \in Session, r \in SUBSET Awaited : Moves(i, y, r)
      BY <1>1, <2>1, StartType
    <2>2. ASSUME NEW y \in Session, NEW r \in SUBSET Awaited, Moves(i, y, r) PROVE AllStill'
      BY <1>2, <1>3, <2>2, RestStep
    <2>3. ASSUME NEW g \in Gens, RetryFires(i, g) PROVE AllStill'
      <3> DEFINE x == [s EXCEPT !.retry = 0, !.retries = @ \ {g}]
      <3>1. x \in Session
        BY <1>1 DEF Session
      <3>2. StartSocket(i, x, pending[i]) \/ Moves(i, x, pending[i])
        BY <1>1, <2>3, Local DEF RetryFires, Moves
      <3> HIDE DEF x
      <3> QED BY <1>1, <2>1, <2>2, <3>1, <3>2
    <2>4. ASSUME NEW c \in pending[i], StartAgain(i, c) PROVE AllStill'
      <3>1. StartSocket(i, s, pending[i] \ {c}) \/ Moves(i, s, pending[i] \ {c})
        BY <1>1, <2>4, Local DEF StartAgain, Moves
      <3> QED BY <1>1, <2>1, <2>2, <3>1
    <2>5. ASSUME Reconnect(i) PROVE AllStill'
      <3> DEFINE x == [s EXCEPT !.reconnect = FALSE]
      <3>1. x \in Session /\ StartSocket(i, x, pending[i])
        BY <1>1, <2>5 DEF Reconnect, Session
      <3> HIDE DEF x
      <3> QED BY <1>1, <2>1, <2>2, <3>1
    <2> QED BY <2>3, <2>4, <2>5
  <1>4. CASE Resting(s, pending[i])
    <2>1. s.deleted \/ (~s.active /\ ~s.reconnect /\ s.gen \notin s.retries)
      BY <1>4 DEF Resting
    <2>2. ASSUME NEW g \in Gens, RetryFires(i, g) PROVE AllStill'
      <3> DEFINE x == [s EXCEPT !.retry = 0, !.retries = @ \ {g}]
      <3>1. /\ x \in Session /\ x.cur = s.cur /\ x.gen = s.gen /\ x.deleted = s.deleted
            /\ x.active = s.active /\ x.reconnect = s.reconnect /\ x.retries \subseteq s.retries
        BY <1>1 DEF Session
      <3>2. ~(~x.deleted /\ x.gen = g)
        BY <2>1, <2>2, <3>1 DEF RetryFires
      <3>3. Moves(i, x, pending[i])
        BY <1>1, <2>2, <3>2, Local DEF RetryFires, Moves
      <3> HIDE DEF x
      <3> QED BY <1>1, <1>2, <3>1, <3>3, StillLess
    <2>3. ASSUME NEW c \in pending[i], StartAgain(i, c) PROVE AllStill'
      <3>1. Moves(i, s, pending[i] \ {c})
        BY <1>1, <2>1, <2>3, Local DEF StartAgain, Moves
      <3> QED BY <1>1, <1>2, <3>1, StillLess
    <2>4. ASSUME Reconnect(i) PROVE AllStill'
      <3> DEFINE x == [s EXCEPT !.reconnect = FALSE]
      <3>1. /\ x \in Session /\ x.cur = s.cur /\ x.gen = s.gen /\ x.deleted = s.deleted
            /\ x.active = s.active /\ ~x.reconnect /\ x.retries = s.retries
        BY <1>1 DEF Session
      <3>2. StartSocket(i, x, pending[i]) /\ s.reconnect
        BY <2>4 DEF Reconnect
      <3>3. Skips(x)
        BY <2>1, <3>1, <3>2 DEF Skips
      <3>4. Moves(i, x, pending[i])
        BY <3>2, <3>3 DEF StartSocket, Moves
      <3> HIDE DEF x
      <3> QED BY <1>1, <1>2, <3>1, <3>4, StillLess
    <2> QED BY <2>2, <2>3, <2>4
  <1> QED BY <1>3, <1>4

\* Renewals and connection.update ask for a current socket; there is none.
LEMMA StillCurrent ==
    ASSUME StillInv, NEW i \in Instances,
           \/ RenewTick(i) \/ Opened(i)
           \/ \E reason \in Reasons : Closed(i, reason)
    PROVE  AllStill'
  <1> DEFINE s == session[i]
  <1>1. s \in Session /\ 0 \notin Gens /\ s.cur # 0
    <2>1. s \in Session
      BY Local DEF StillInv
    <2>2. s.gen # 0
      BY <2>1 DEF Session
    <2> QED BY <2>1, <2>2 DEF RenewTick, Opened, Closed, Live, Current
  <1>2. UNCHANGED <<proc, stopped>> /\ proc[i] = "up"
    BY DEF RenewTick, Opened, Closed, Managed
  <1>3. i \notin stopped
    BY <1>1, <1>2 DEF StillInv, AllStill, Still, Resting
  <1>4. \A j \in Instances \ {i} : session'[j] = session[j] /\ pending'[j] = pending[j]
    BY Local DEF RenewTick, Opened, Closed, StillInv
  <1>5. ASSUME NEW j \in Instances PROVE Still(j)'
    BY <1>2, <1>3, <1>4 DEF StillInv, AllStill, Still
  <1> QED BY <1>5 DEF AllStill

LEMMA StillRenewal ==
    ASSUME StillInv, NEW i \in Instances, NEW c, Renewed(i, c) \/ RenewFails(i, c)
    PROVE  AllStill'
  <1> DEFINE s == session[i]
             x == [s EXCEPT !.renewing = FALSE]
             r == pending[i] \ {c}
  <1>1. /\ s \in Session /\ pending[i] \in SUBSET Awaited /\ r \in SUBSET Awaited
        /\ c \in pending[i] /\ c.gen \in Gens /\ c.gen # 0
    BY Local DEF Renewed, RenewFails, Awaits, StillInv
  <1>2. UNCHANGED <<proc, stopped>>
    BY DEF Renewed, RenewFails
  <1>3. /\ x \in Session /\ x.cur = s.cur /\ x.gen = s.gen /\ x.deleted = s.deleted
        /\ x.active = s.active /\ x.reconnect = s.reconnect /\ x.retries = s.retries
    BY <1>1 DEF Session
  <1>4. pending' = [pending EXCEPT ![i] = r]
    BY DEF Renewed, RenewFails
  <1>5. \/ session' = [session EXCEPT ![i] = x]
        \/ Managed(i) /\ Current(i, c.gen)
    BY <1>1, Local DEF Renewed, RenewFails, LoseLease, StillInv
  <1>6. CASE session' = [session EXCEPT ![i] = x]
    <2>1. Moves(i, x, r)
      BY <1>4, <1>6 DEF Moves
    <2> HIDE DEF x, r
    <2>2. \A q \in r : q \in pending[i]
      BY DEF r
    <2> QED BY <1>1, <1>2, <1>3, <2>1, <2>2, StillLess
  <1>7. CASE Managed(i) /\ Current(i, c.gen)
    <2>1. i \notin stopped
      BY <1>1, <1>7 DEF StillInv, AllStill, Still, Resting, Managed, Current
    <2>2. \A j \in Instances \ {i} : session'[j] = session[j] /\ pending'[j] = pending[j]
      BY Local DEF Renewed, RenewFails, LoseLease, StillInv
    <2>3. ASSUME NEW j \in Instances PROVE Still(j)'
      BY <1>2, <2>1, <2>2 DEF StillInv, AllStill, Still
    <2> QED BY <2>3 DEF AllStill
  <1> QED BY <1>5, <1>6, <1>7

\* The statements of a logout, a delete or a registration that ask for nothing
LEMMA StillStatement ==
    ASSUME StillInv, NEW i \in Instances, NEW c,
           \/ LogoutProvider(i, c) \/ AuthCleared(i, c) \/ LogoutDone(i, c)
           \/ DeleteDone(i, c) \/ RegisterFails(i, c)
    PROVE  AllStill'
  <1> DEFINE s == session[i]
             p == pending[i]
  <1>1. c \in p /\ p \in SUBSET Awaited /\ StatementStep(i, c)
    BY Statements, Local DEF StillInv
  <1>2. PICK y \in Session, n \in SUBSET Awaited :
            /\ \A q \in n : q.op \in {"clear", "inactive", "inactiveErr"}
            /\ pending' = [pending EXCEPT ![i] = (@ \ {c}) \cup n]
            /\ session' = [session EXCEPT ![i] = y]
            /\ y.gen = s.gen /\ y.cur = s.cur /\ y.deleted = s.deleted
            /\ y.active = s.active /\ y.reconnect = s.reconnect /\ y.retries = s.retries
            /\ UNCHANGED <<proc, stopped>>
    BY <1>1 DEF StatementStep
  <1> DEFINE r == (p \ {c}) \cup n
  <1>3. Moves(i, y, r) /\ r \in SUBSET Awaited
    BY <1>1, <1>2 DEF Moves
  <1>4. \A q \in r : q \in p \/ q.op \notin Attempt \cup Refreshing
    BY <1>2 DEF Attempt, Refreshing
  <1> HIDE DEF r
  <1> QED BY <1>2, <1>3, <1>4, StillLess

\* The DELETE of a closed, logged-out or deleted session
LEMMA StillReleases ==
    ASSUME StillInv, NEW i \in Instances, NEW c,
           CloseReleased(i, c) \/ LogoutReleased(i, c) \/ DeleteReleased(i, c)
    PROVE  AllStill'
  <1> DEFINE s == session[i]
             p == pending[i]
  <1>1. /\ s \in Session /\ p \in SUBSET Awaited /\ c \in p
        /\ session \in [Instances -> Session] /\ pending \in [Instances -> SUBSET Awaited]
    BY Local DEF CloseReleased, LogoutReleased, DeleteReleased, Awaits, StillInv
  <1>2. UNCHANGED <<proc, session, stopped>>
    BY DEF CloseReleased, LogoutReleased, DeleteReleased
  <1>3. ASSUME NEW op \in {"provider", "unlink"}
        PROVE  [c EXCEPT !.op = op] \in Awaited /\ [c EXCEPT !.op = op].op = op
    BY <1>1 DEF Awaited, Op
  <1>4. ASSUME NEW r \in SUBSET Awaited, pending' = [pending EXCEPT ![i] = r],
               \A q \in r : q \in p \/ q.op \in {"provider", "unlink"}
        PROVE  AllStill'
    <2>1. Moves(i, s, r)
      BY <1>1, <1>2, <1>4 DEF Moves
    <2>2. \A q \in r : q \in p \/ q.op \notin Attempt \cup Refreshing
      BY <1>4 DEF Attempt, Refreshing
    <2> QED BY <1>1, <1>2, <2>1, <2>2, StillLess
  <1>5. CASE CloseReleased(i, c)
    <2>1. pending' = [pending EXCEPT ![i] = p \ {c}] /\ p \ {c} \in SUBSET Awaited
      BY <1>1, <1>5 DEF CloseReleased
    <2> QED BY <1>4, <2>1
  <1>6. CASE LogoutReleased(i, c)
    <2> DEFINE a == [c EXCEPT !.op = "provider"]
    <2>1. pending' = [pending EXCEPT ![i] = (p \ {c}) \cup {a}] /\ session' = session
      BY <1>6 DEF LogoutReleased
    <2>2. a \in Awaited /\ a.op = "provider"
      BY <1>3
    <2> HIDE DEF a
    <2>3. (p \ {c}) \cup {a} \in SUBSET Awaited
      BY <1>1, <2>2
    <2>4. \A q \in (p \ {c}) \cup {a} : q \in p \/ q.op \in {"provider", "unlink"}
      BY <2>2
    <2> HIDE DEF p
    <2> QED BY <1>4, <2>1, <2>3, <2>4
  <1>7. CASE DeleteReleased(i, c)
    <2> DEFINE a == [c EXCEPT !.op = "unlink"]
    <2>1. pending' = [pending EXCEPT ![i] = (p \ {c}) \cup {a}] /\ session' = session
      BY <1>7 DEF DeleteReleased
    <2>2. a \in Awaited /\ a.op = "unlink"
      BY <1>3
    <2> HIDE DEF a
    <2>3. (p \ {c}) \cup {a} \in SUBSET Awaited
      BY <1>1, <2>2
    <2>4. \A q \in (p \ {c}) \cup {a} : q \in p \/ q.op \in {"provider", "unlink"}
      BY <2>2
    <2> HIDE DEF p
    <2> QED BY <1>4, <2>1, <2>3, <2>4
  <1> QED BY <1>5, <1>6, <1>7

\* A refresh whose release returns starts a socket only of a session that is not
\* at rest, or of a deleted one, which is skipped.
LEMMA StillRefreshed ==
    ASSUME StillInv, NEW i \in Instances, NEW c, RefreshReleased(i, c)
    PROVE  AllStill'
  <1> DEFINE s == session[i]
             x == [s EXCEPT !.sock = 0]
             p == pending[i] \ {c}
  <1>1. /\ s \in Session /\ pending[i] \in SUBSET Awaited /\ p \in SUBSET Awaited
        /\ c \in pending[i] /\ c.op \in Refreshing /\ LeaseInv
    BY Local DEF RefreshReleased, Awaits, StillInv, Refreshing
  <1>2. UNCHANGED <<proc, stopped>> /\ StartSocket(i, x, p)
    BY DEF RefreshReleased
  <1>3. /\ x \in Session /\ x.cur = s.cur /\ x.gen = s.gen /\ x.deleted = s.deleted
        /\ x.active = s.active /\ x.reconnect = s.reconnect /\ x.retries = s.retries
    BY <1>1 DEF Session
  <1> HIDE DEF x
  <1>4. CASE s.deleted
    <2>1. Moves(i, x, p)
      BY <1>2, <1>3, <1>4 DEF StartSocket, Skips, Moves
    <2>2. \A q \in p : q \in pending[i]
      OBVIOUS
    <2> HIDE DEF p
    <2> QED BY <1>1, <1>2, <1>3, <2>1, <2>2, StillLess
  <1>5. CASE ~s.deleted
    <2>1. ~Resting(s, pending[i])
      BY <1>1, <1>5 DEF Resting
    <2>2. PICK y \in Session, r \in SUBSET Awaited : Moves(i, y, r)
      BY <1>1, <1>2, <1>3, StartType
    <2> QED BY <1>2, <2>1, <2>2, RestStep
  <1> QED BY <1>4, <1>5

\* The registration of a refresh raises the generation of a session that is not at
\* rest, or of a deleted one.
LEMMA StillRegistered ==
    ASSUME StillInv, NEW i \in Instances, NEW c, RefreshRegistered(i, c)
    PROVE  AllStill'
  <1> DEFINE s == session[i]
             y == ClearLeaseTimers(Invalidate(i, s))
             a == Call("refresh", NextGen(i))
             r == (pending[i] \ {c}) \cup {a}
  <1>1. /\ s \in Session /\ pending[i] \in SUBSET Awaited /\ HasFresh(i)
        /\ c \in pending[i] /\ c.op \in Refreshing
    BY Local DEF RefreshRegistered, Awaits, StillInv, Refreshing
  <1>2. UNCHANGED <<proc, stopped>> /\ Moves(i, y, r)
    BY DEF RefreshRegistered, Moves
  <1>3. y \in Session /\ y.cur = 0 /\ y.deleted = s.deleted
    BY <1>1, InvalidateFields
  <1>4. a \in Awaited
    BY <1>1, FreshGen, CallType DEF Op, Query, Delete_
  <1>5. r \in SUBSET Awaited
    BY <1>1, <1>4
  <1> HIDE DEF y, r
  <1>6. Resting(s, pending[i]) => Resting(y, r)
    BY <1>1, <1>3 DEF Resting
  <1> QED BY <1>2, <1>3, <1>5, <1>6, RestStep

\* A user asks for a socket: the session is no longer a stopped one.
LEMMA StillWanted ==
    ASSUME StillInv, NEW i \in Instances, Refresh(i) \/ RequestPairingCode(i)
    PROVE  AllStill'
  <1>1. UNCHANGED proc /\ stopped' = stopped \ {i}
    BY DEF Refresh, RequestPairingCode
  <1>2. \A j \in Instances \ {i} : session'[j] = session[j] /\ pending'[j] = pending[j]
    BY Local DEF Refresh, RequestPairingCode, StartSocket, StillInv
  <1>3. ASSUME NEW j \in Instances PROVE Still(j)'
    BY <1>1, <1>2 DEF StillInv, AllStill, Still
  <1> QED BY <1>3 DEF AllStill

\* logoutSession, deleteSession and shutdown raise the generation before they await
\* anything: what is under way is superseded, and the timers are cleared.
LEMMA StillStopped ==
    ASSUME StillInv, NEW i \in Instances, Logout(i) \/ Delete(i) \/ Shutdown(i)
    PROVE  AllStill'
  <1> DEFINE s == session[i]
             z == ClearLeaseTimers(Invalidate(i, s))
             p == pending[i]
  <1>1. /\ s \in Session /\ p \in SUBSET Awaited /\ HasFresh(i) /\ proc[i] = "up"
        /\ UNCHANGED proc /\ s.sock \in Gens \cup {0}
    <2>1. s \in Session /\ p \in SUBSET Awaited
      BY Local DEF StillInv
    <2> QED BY <2>1 DEF Logout, Delete, Shutdown, Managed, Session
  <1>2. /\ z \in Session /\ z.gen = NextGen(i) /\ z.cur = 0 /\ z.deleted = s.deleted
        /\ z.active = s.active /\ ~z.reconnect /\ z.gen \notin z.retries
        /\ \A q \in p : q.gen # z.gen
    BY <1>1, InvalidateFields
  <1>3. NextGen(i) \in Gens
    BY <1>1, FreshGen
  <1>4. ASSUME NEW y \in Session, NEW a \in Awaited, a.op \in {"logout", "delete", "shutdown"},
               Moves(i, y, p \cup {a}), stopped' \subseteq stopped \cup {i},
               y.cur = 0, y.gen = z.gen, y.retries = z.retries, ~y.reconnect,
               i \in stopped' => y.deleted \/ (~y.active /\ \A q \in p : q.op \notin Refreshing)
        PROVE  AllStill'
    <2>1. \A q \in p \cup {a} : q.op \in Attempt => q.gen # y.gen
      BY <1>2, <1>4 DEF Attempt
    <2>2. i \in stopped' => Resting(y, p \cup {a})
      BY <1>2, <1>4, <2>1 DEF Resting, Refreshing
    <2>3. p \cup {a} \in SUBSET Awaited
      BY <1>1
    <2> HIDE DEF p
    <2> QED BY <1>1, <1>4, <2>2, <2>3, StillStep
  <1> HIDE DEF z
  <1>5. CASE Logout(i)
    <2> DEFINE y == [z EXCEPT !.sock = 0, !.status = "DISCONNECTED", !.active = FALSE]
               a == [op |-> "logout", gen |-> NextGen(i), held |-> s.sock]
    <2>1. /\ y \in Session /\ y.cur = 0 /\ y.gen = z.gen /\ y.retries = z.retries
          /\ ~y.reconnect /\ ~y.active /\ y.deleted = z.deleted
      BY <1>2 DEF Session, Status
    <2>2. a \in Awaited /\ a.op = "logout"
      BY <1>1, <1>3 DEF Awaited, Op, Query, Delete_
    <2>3. Moves(i, y, p \cup {a})
      BY <1>5 DEF Logout, Moves, z
    <2>4. stopped' \subseteq stopped \cup {i}
      BY <1>5 DEF Logout
    <2>5. i \in stopped' => y.deleted \/ (~y.active /\ \A q \in p : q.op \notin Refreshing)
      <3> DEFINE w == Awaits(i, "register") \cup Awaits(i, "refresh")
      <3>1. CASE w = {}
        BY <2>1, <3>1 DEF Awaits, Refreshing
      <3>2. CASE w # {}
        <4>1. i \in stopped' => Resting(s, p)
          BY <1>1, <1>5, <3>2 DEF Logout, StillInv, AllStill, Still
        <4>2. \E q \in p : q.op \in Refreshing
          BY <3>2 DEF Awaits, Refreshing
        <4> QED BY <1>2, <2>1, <4>1, <4>2 DEF Resting
      <3> QED BY <3>1, <3>2
    <2> HIDE DEF y, a
    <2> QED BY <1>4, <2>1, <2>2, <2>3, <2>4, <2>5
  <1>6. CASE Delete(i)
    <2> DEFINE y == [z EXCEPT !.deleted = TRUE]
               a == Call("delete", NextGen(i))
    <2>1. /\ y \in Session /\ y.cur = 0 /\ y.gen = z.gen /\ y.retries = z.retries
          /\ ~y.reconnect /\ y.deleted
      BY <1>2 DEF Session
    <2>2. a \in Awaited /\ a.op = "delete"
      BY <1>3, CallType DEF Op, Query, Delete_
    <2>3. Moves(i, y, p \cup {a}) /\ stopped' \subseteq stopped \cup {i}
      BY <1>6 DEF Delete, Moves, z
    <2> HIDE DEF y, a
    <2> QED BY <1>4, <2>1, <2>2, <2>3
  <1>7. CASE Shutdown(i)
    <2> DEFINE y == [z EXCEPT !.sock = 0]
               a == Call("shutdown", NextGen(i))
    <2>1. /\ y \in Session /\ y.cur = 0 /\ y.gen = z.gen /\ y.retries = z.retries
          /\ ~y.reconnect /\ y.deleted = z.deleted /\ y.active = z.active
      BY <1>2 DEF Session
    <2>2. a \in Awaited /\ a.op = "shutdown"
      BY <1>3, CallType DEF Op, Query, Delete_
    <2>3. Moves(i, y, p \cup {a}) /\ stopped' = stopped
      BY <1>7 DEF Shutdown, Moves, z
    <2>4. i \in stopped' => y.deleted \/ (~y.active /\ \A q \in p : q.op \notin Refreshing)
      <3>1. i \in stopped => Resting(s, p)
        BY <1>1 DEF StillInv, AllStill, Still
      <3> QED BY <1>2, <2>1, <2>3, <3>1 DEF Resting
    <2> HIDE DEF y, a
    <2> QED BY <1>4, <2>1, <2>2, <2>3, <2>4
  <1> QED BY <1>5, <1>6, <1>7

LEMMA StillGone ==
    ASSUME StillInv, NEW i \in Instances, Crash(i) \/ \E c : ShutdownReleased(i, c)
    PROVE  AllStill'
  <1>1. /\ stopped' = stopped /\ proc' = [proc EXCEPT ![i] = "down"]
        /\ \A j \in Instances \ {i} : session'[j] = session[j] /\ pending'[j] = pending[j]
    BY Local DEF Crash, ShutdownReleased, Gone, StillInv
  <1>2. proc'[i] = "down" /\ \A j \in Instances \ {i} : proc'[j] = proc[j]
    BY <1>1, Local DEF StillInv, Rest
  <1>3. ASSUME NEW j \in Instances PROVE Still(j)'
    BY <1>1, <1>2 DEF StillInv, AllStill, Still
  <1> QED BY <1>3 DEF AllStill

LEMMA StillReturns ==
    ASSUME StillInv, NEW i \in Instances, NEW c \in pending[i], Returns(i, c) \/ Fails(i, c)
    PROVE  AllStill'
  BY StillAcquire, StillAttempt, StillTimers, StillRenewal, StillReleases, StillRefreshed,
     StillRegistered, StillStatement, StillGone DEF Returns, Fails

LEMMA StillNext ==
    ASSUME StillInv, [Next]_vars
    PROVE  StillInv'
  <1>1. ASSUME UNCHANGED vars \/ Expire PROVE AllStill'
    BY <1>1 DEF vars, Expire, StillInv, AllStill, Still
  <1>2. ASSUME NEW i \in Instances,
               \/ Restore(i) \/ Reconnect(i) \/ RenewTick(i) \/ Opened(i) \/ Crash(i)
               \/ Refresh(i) \/ RequestPairingCode(i) \/ Logout(i) \/ Delete(i) \/ Shutdown(i)
        PROVE  AllStill'
    BY <1>2, StillRestore, StillTimers, StillCurrent, StillGone, StillWanted, StillStopped
  <1>3. ASSUME NEW i \in Instances, NEW g \in Gens, RetryFires(i, g) PROVE AllStill'
    BY <1>3, StillTimers
  <1>4. ASSUME NEW i \in Instances,
               NEW reason \in Reasons, Closed(i, reason)
        PROVE  AllStill'
    BY <1>4, StillCurrent
  <1>5. ASSUME NEW i \in Instances, NEW c \in pending[i], Returns(i, c) \/ Fails(i, c)
        PROVE  AllStill'
    BY <1>5, StillReturns
  <1>6. AllStill'
    <2>1. CASE Next
      BY <1>1, <1>2, <1>3, <1>4, <1>5, <2>1 DEF Next
    <2> QED BY <1>1, <2>1
  <1> QED BY <1>6, LeaseNext DEF StillInv

LEMMA StillInit == Init => StillInv
  BY LeaseInit DEF Init, StillInv, AllStill, Still

LEMMA RestingNotLive ==
    ASSUME StillInv
    PROVE  StoppedStaysStopped
  <1> SUFFICES ASSUME NEW i \in stopped PROVE ~Live(i)
    BY DEF StoppedStaysStopped
  <1>1. /\ i \in Instances /\ session[i] \in Session /\ Sound(i)
        /\ Still(i) /\ proc[i] \in {"new", "up", "down"}
    BY Local DEF StillInv, AllStill, Rest, LeaseInv, TypeOK
  <1>2. CASE proc[i] = "up"
    BY <1>1, <1>2 DEF Still, Resting, Live, Current, Session
  <1>3. CASE proc[i] # "up"
    BY <1>1, <1>3 DEF Sound, Empty, Live
  <1> QED BY <1>2, <1>3

\* After logoutSession or deleteSession the session never gets a current socket
\* again without a new request: raising the generation and clearing the timers
\* before the first await is enough against every attempt, retry, reconnect and
\* release that was under way, in every order they return.
THEOREM StoppedSessionStaysStopped == Spec => []StoppedStaysStopped
  <1>1. Spec => []StillInv
    BY StillInit, StillNext, PTL DEF Spec
  <1> QED BY <1>1, RestingNotLive, PTL
=============================================================================
