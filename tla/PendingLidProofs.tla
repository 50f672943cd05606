-------------------------- MODULE PendingLidProofs --------------------------
(***************************************************************************)
(* Theorems about PendingLid, for every set of messages, every number of   *)
(* deliveries and every number of failures.                                *)
(***************************************************************************)
EXTENDS PendingLid, TLAPS

USE LidAssumption

-----------------------------------------------------------------------------
(* The inductive invariant.  A row is deleted by a job that has the event  *)
(* in the outbox behind it, or that found the record it left when it had.  *)
(* What is under the LID was put there by a job whose INSERT had returned, *)
(* or failed and was queued, or by one that found the row in the index.    *)

LidTypes ==
    /\ rows \subseteq Msgs /\ outbox \subseteq Msgs /\ copies \subseteq Msgs
    /\ mapDb \in BOOLEAN /\ mapped \in BOOLEAN
    /\ index \subseteq Msgs /\ retry \subseteq Msgs /\ flush \subseteq Msgs
    /\ lidRec \in [Msgs -> {"none", "plain", "tagged"}]
    /\ phoneRec \in [Msgs -> {"none", "new", "emitted"}]
    /\ claims \subseteq Msgs
    /\ sweep \in {"idle", "listing", "running"} /\ todo \subseteq Msgs
    /\ again \in BOOLEAN
    /\ kept \subseteq Msgs /\ held \subseteq Msgs /\ dropped \subseteq Msgs
    /\ owed \subseteq Msgs
    /\ deliveries \in 0..MaxDeliveries /\ faults \in 0..MaxFaults

Safe == rows \cup outbox \cup copies \cup retry \cup dropped

Proven  == /\ \A j \in jobs : j.at = "mark" => j.msg \in outbox
           /\ \A m \in Msgs : phoneRec[m] = "emitted" => m \in outbox
Indexed == rows \subseteq kept /\ index \subseteq kept
Queued  == \A j \in jobs : j.hold /\ j.at \in {"media", "emit"} => j.msg \in Safe

LidInv == /\ LidTypes /\ jobs \subseteq Job
          /\ Proven /\ Indexed /\ Queued
          /\ RowUntilStored /\ HeldIsKept

LEMMA LidInvType == LidInv => LidTypeOK
  BY DEF LidInv, LidTypes, LidTypeOK

LEMMA LidInvInit == LidInit => LidInv
  <1> SUFFICES ASSUME LidInit PROVE LidInv
    OBVIOUS
  <1>1. LidTypes
    <2>1. deliveries \in 0..MaxDeliveries /\ faults \in 0..MaxFaults
      BY DEF LidInit
    <2>2. lidRec \in [Msgs -> {"none", "plain", "tagged"}]
      BY DEF LidInit
    <2>3. phoneRec \in [Msgs -> {"none", "new", "emitted"}]
      BY DEF LidInit
    <2> QED BY <2>1, <2>2, <2>3 DEF LidInit, LidTypes
  <1>2. Proven /\ Indexed /\ Queued
    BY DEF LidInit, Proven, Indexed, Queued
  <1>3. jobs \subseteq Job /\ RowUntilStored /\ HeldIsKept
    BY DEF LidInit, RowUntilStored, HeldIsKept
  <1> QED BY <1>1, <1>2, <1>3 DEF LidInv

\* What reaching the record changes
LEMMA FileKeeps ==
    ASSUME LidTypes, NEW j \in Job, NEW seen \in BOOLEAN, NEW rest \in SUBSET Job,
           NEW c \in SUBSET Msgs, File(j, seen, rest, c)
    PROVE  /\ jobs' \subseteq Job /\ claims' \subseteq Msgs
           /\ \A q \in jobs' : q \in rest \/ (/\ q.msg = j.msg /\ q.hold = j.hold
                                              /\ q.at \in {"media", "emit"})
           /\ lidRec' \in [Msgs -> {"none", "plain", "tagged"}]
           /\ phoneRec' \in [Msgs -> {"none", "new", "emitted"}]
           /\ \A m \in Msgs : phoneRec'[m] = "emitted" => phoneRec[m] = "emitted"
           /\ copies \subseteq copies' /\ copies' \subseteq Msgs
           /\ held' = held \/ (j.hold /\ held' = held \cup {j.msg})
  <1> DEFINE m == j.msg
             wait(stage) == jobs' = rest \cup {[j EXCEPT !.at = stage]} /\ claims' = c
             return == jobs' = rest /\ claims' = IF j.claimed THEN c \ {m} ELSE c
  <1>1. m \in Msgs /\ j.hold \in BOOLEAN
    BY DEF Job
  <1>2. ASSUME NEW stage \in {"media", "emit"}
        PROVE  LET q == [j EXCEPT !.at = stage]
               IN  q \in Job /\ q.msg = j.msg /\ q.hold = j.hold /\ q.at = stage
    BY DEF Job, Stage
  <1>3. wait("media") \/ wait("emit") \/ return
    BY DEF File
  <1>4. /\ jobs' \subseteq Job /\ claims' \subseteq Msgs
        /\ \A q \in jobs' : q \in rest \/ (/\ q.msg = j.msg /\ q.hold = j.hold
                                           /\ q.at \in {"media", "emit"})
    BY <1>1, <1>2, <1>3
  <1>5. /\ lidRec' = lidRec \/ \E t \in {"plain", "tagged"} : lidRec' = [lidRec EXCEPT ![m] = t]
        /\ phoneRec' = phoneRec \/ phoneRec' = [phoneRec EXCEPT ![m] = "new"]
        /\ copies' = copies \/ copies' = copies \cup {m}
        /\ held' = held \/ (j.hold /\ held' = held \cup {m})
    BY DEF File
  <1> HIDE DEF m
  <1> QED BY <1>1, <1>4, <1>5 DEF LidTypes, m

(* What holds of the sets of messages, however a step moves a job          *)

\* The sets only grow, but for a row whose event is in the outbox and a retry
\* that became a row or was dropped.
LEMMA SafeKeeps ==
    ASSUME LidInv, LidTypes', jobs' \subseteq Job, Indexed',
           outbox \subseteq outbox', copies \subseteq copies', dropped \subseteq dropped',
           rows \subseteq rows' \cup outbox', retry \subseteq retry' \cup rows' \cup dropped',
           kept' \subseteq kept \cup rows',
           \A m \in Msgs : phoneRec'[m] = "emitted" => phoneRec[m] = "emitted" \/ m \in outbox',
           \A q \in jobs' : \/ q \in jobs
                            \/ /\ q.at = "mark" => q.msg \in outbox'
                               /\ q.hold /\ q.at \in {"media", "emit"} => q.msg \in Safe',
           held' \subseteq held \cup Safe'
    PROVE  LidInv'
  <1>1. Safe \subseteq Safe'
    BY DEF Safe
  <1>2. Proven'
    BY DEF LidInv, Proven
  <1>3. Queued'
    BY <1>1 DEF LidInv, Queued
  <1>4. RowUntilStored'
    BY DEF LidInv, RowUntilStored
  <1>5. HeldIsKept'
    BY <1>1 DEF LidInv, HeldIsKept, Safe
  <1> QED BY <1>2, <1>3, <1>4, <1>5 DEF LidInv

LEMMA LidFaultType ==
    ASSUME LidTypes, LidFault
    PROVE  faults' \in 0..MaxFaults
  BY DEF LidTypes, LidFault

LEMMA DeliverKeeps ==
    ASSUME LidInv, NEW m \in Msgs, Deliver(m)
    PROVE  LidInv'
  <1> DEFINE pend == m \in index
             j == [msg |-> m, at |-> "persist", hold |-> ~mapped, det |-> pend,
                   tag |-> pend, by |-> "live", claimed |-> pend]
  <1>1. j \in Job /\ j.msg = m /\ j.at = "persist" /\ LidTypes /\ jobs \subseteq Job
    BY DEF Job, Stage, LidInv, LidTypes
  <1>2. /\ UNCHANGED <<rows, outbox, mapDb, mapped, index, retry, flush, sweep, todo, again,
                       kept, dropped, owed, faults>>
        /\ deliveries' \in 0..MaxDeliveries
    BY <1>1 DEF Deliver, LidTypes
  <1>3. CASE pend /\ m \in claims /\ UNCHANGED <<jobs, claims, lidRec, phoneRec, copies, held>>
    <2>1. LidTypes' /\ Indexed'
      BY <1>1, <1>2, <1>3 DEF LidTypes, LidInv, Indexed
    <2> QED BY <1>1, <1>2, <1>3, <2>1, SafeKeeps
  <1>4. CASE /\ jobs' = jobs \cup {j}
             /\ UNCHANGED <<claims, lidRec, phoneRec, copies, held>>
    <2>1. LidTypes' /\ Indexed'
      BY <1>1, <1>2, <1>4 DEF LidTypes, LidInv, Indexed
    <2> HIDE DEF j
    <2> QED BY <1>1, <1>2, <1>4, <2>1, SafeKeeps
  <1>5. CASE \E c \in SUBSET Msgs : (mapped \/ pend) /\ File(j, FALSE, jobs, c)
    <2>1. PICK c \in SUBSET Msgs : File(j, FALSE, jobs, c)
      BY <1>5
    <2>2. j.hold => m \in Safe
      BY <1>5 DEF LidInv, Indexed, RowUntilStored, Safe
    <2> HIDE DEF j
    <2>3. /\ jobs' \subseteq Job /\ claims' \subseteq Msgs
          /\ \A q \in jobs' : q \in jobs \/ (/\ q.msg = m /\ q.hold = j.hold
                                             /\ q.at \in {"media", "emit"})
          /\ lidRec' \in [Msgs -> {"none", "plain", "tagged"}]
          /\ phoneRec' \in [Msgs -> {"none", "new", "emitted"}]
          /\ \A x \in Msgs : phoneRec'[x] = "emitted" => phoneRec[x] = "emitted"
          /\ copies \subseteq copies' /\ copies' \subseteq Msgs
          /\ held' = held \/ (j.hold /\ held' = held \cup {m})
      BY <1>1, <2>1, FileKeeps
    <2>4. LidTypes' /\ Indexed'
      BY <1>1, <1>2, <2>3 DEF LidTypes, LidInv, Indexed
    <2>5. Safe \subseteq Safe'
      BY <1>2, <2>3 DEF Safe
    <2>6. \A q \in jobs' : q \in jobs \/ (/\ q.at # "mark" /\ (q.hold => q.msg \in Safe'))
      BY <2>2, <2>3, <2>5
    <2>7. held' \subseteq held \cup Safe'
      BY <2>2, <2>3, <2>5
    <2> QED BY <1>2, <2>3, <2>4, <2>6, <2>7, SafeKeeps
  <1>6. claims \in SUBSET Msgs /\ claims \cup {m} \in SUBSET Msgs
    BY <1>1 DEF LidTypes
  <1> QED BY <1>3, <1>4, <1>5, <1>6 DEF Deliver

LEMMA PersistedKeeps ==
    ASSUME LidInv, NEW j \in jobs, Persisted(j)
    PROVE  LidInv'
  <1> DEFINE k == [j EXCEPT !.tag = TRUE]
             m == j.msg
  <1>1. j \in Job /\ m \in Msgs /\ LidTypes /\ jobs \ {j} \in SUBSET Job
    BY DEF LidInv, Job
  <1>2. k \in Job /\ k.msg = m /\ k.hold = j.hold
    BY <1>1 DEF Job
  <1>3. PICK q \in Job : /\ File(q, FALSE, jobs \ {j}, claims) /\ q.msg = m /\ q.hold = j.hold
    BY <1>1, <1>2 DEF Persisted
  <1>4. /\ rows' = rows \/ rows' = rows \cup {m}
        /\ kept \subseteq kept' /\ kept' \subseteq kept \cup rows'
        /\ kept' = kept \/ kept' = kept \cup {m}
        /\ rows' \subseteq rows \cup kept'
        /\ index' = index \/ (index' = index \cup {m} /\ m \in kept')
        /\ retry' = retry \/ retry' = retry \cup {m}
        /\ m \in rows' \/ m \in retry'
        /\ faults' \in 0..MaxFaults
        /\ UNCHANGED <<outbox, mapDb, mapped, flush, sweep, todo, again, dropped, owed, deliveries>>
    <2>1. CASE /\ rows' = rows \cup {m} /\ kept' = kept \cup {m}
               /\ index' = index \cup {m}
               /\ UNCHANGED <<retry, faults>>
      BY <1>1, <2>1 DEF Persisted, LidTypes
    <2>2. CASE /\ LidFault
               /\ \E written \in BOOLEAN :
                     /\ rows' = IF written THEN rows \cup {m} ELSE rows
                     /\ kept' = IF written THEN kept \cup {m} ELSE kept
               /\ retry' = retry \cup {m}
               /\ UNCHANGED index
      BY <1>1, <2>2, LidFaultType DEF Persisted
    <2> QED BY <2>1, <2>2 DEF Persisted
  <1> HIDE DEF m
  <1>5. /\ jobs' \subseteq Job /\ claims' \subseteq Msgs
        /\ \A x \in jobs' : x \in jobs \/ (/\ x.msg = m /\ x.hold = j.hold
                                           /\ x.at \in {"media", "emit"})
        /\ lidRec' \in [Msgs -> {"none", "plain", "tagged"}]
        /\ phoneRec' \in [Msgs -> {"none", "new", "emitted"}]
        /\ \A x \in Msgs : phoneRec'[x] = "emitted" => phoneRec[x] = "emitted"
        /\ copies \subseteq copies' /\ copies' \subseteq Msgs
        /\ held' = held \/ held' = held \cup {m}
    <2>1. claims \in SUBSET Msgs /\ FALSE \in BOOLEAN
      BY <1>1 DEF LidTypes
    <2>2. j.hold \in BOOLEAN /\ q.hold = j.hold /\ q.msg = m
      BY <1>1, <1>3 DEF Job
    <2> HIDE DEF m
    <2>3. /\ jobs' \subseteq Job /\ claims' \subseteq Msgs
          /\ \A x \in jobs' : x \in jobs \ {j} \/ (/\ x.msg = q.msg /\ x.hold = q.hold
                                                  /\ x.at \in {"media", "emit"})
          /\ lidRec' \in [Msgs -> {"none", "plain", "tagged"}]
          /\ phoneRec' \in [Msgs -> {"none", "new", "emitted"}]
          /\ \A x \in Msgs : phoneRec'[x] = "emitted" => phoneRec[x] = "emitted"
          /\ copies \subseteq copies' /\ copies' \subseteq Msgs
          /\ held' = held \/ (q.hold /\ held' = held \cup {q.msg})
      BY <1>1, <1>3, <2>1, FileKeeps
    <2> QED BY <2>2, <2>3
  <1>6. LidTypes'
    BY <1>1, <1>4, <1>5 DEF LidTypes
  <1>7. Indexed'
    BY <1>4 DEF LidInv, Indexed
  <1>8. m \in Safe'
    BY <1>4 DEF Safe
  <1> QED BY <1>4, <1>5, <1>6, <1>7, <1>8, SafeKeeps

LEMMA StoredKeeps ==
    ASSUME LidInv, NEW j \in jobs, Stored(j)
    PROVE  LidInv'
  <1>1. j \in Job /\ j.msg \in Msgs /\ LidTypes /\ jobs \ {j} \in SUBSET Job
    BY DEF LidInv, Job
  <1>2. File(j, TRUE, jobs \ {j}, claims)
        /\ UNCHANGED <<rows, outbox, mapDb, mapped, index, retry, flush, sweep, todo, again,
                       kept, dropped, owed, deliveries, faults>>
    BY DEF Stored
  <1>3. j.hold => j.msg \in Safe
    <2>1. j.at = "media"
      BY DEF Stored, At
    <2> QED BY <2>1 DEF LidInv, Queued
  <1>4. /\ jobs' \subseteq Job /\ claims' \subseteq Msgs
        /\ \A x \in jobs' : x \in jobs \/ (/\ x.msg = j.msg /\ x.hold = j.hold
                                           /\ x.at \in {"media", "emit"})
        /\ lidRec' \in [Msgs -> {"none", "plain", "tagged"}]
        /\ phoneRec' \in [Msgs -> {"none", "new", "emitted"}]
        /\ \A x \in Msgs : phoneRec'[x] = "emitted" => phoneRec[x] = "emitted"
        /\ copies \subseteq copies' /\ copies' \subseteq Msgs
        /\ held' = held \/ (j.hold /\ held' = held \cup {j.msg})
    <2>1. claims \in SUBSET Msgs /\ TRUE \in BOOLEAN
      BY <1>1 DEF LidTypes
    <2> QED BY <1>1, <1>2, <2>1, FileKeeps
  <1>5. LidTypes' /\ Indexed'
    BY <1>1, <1>2, <1>4 DEF LidTypes, LidInv, Indexed
  <1>6. Safe \subseteq Safe'
    BY <1>2, <1>4 DEF Safe
  <1> QED BY <1>2, <1>3, <1>4, <1>5, <1>6, SafeKeeps

LEMMA EmittedKeeps ==
    ASSUME LidInv, NEW j \in jobs, Emitted(j)
    PROVE  LidInv'
  <1> DEFINE k == [j EXCEPT !.at = "mark"]
             m == j.msg
  <1>1. j \in Job /\ m \in Msgs /\ LidTypes
    BY DEF LidInv, Job
  <1>2. k \in Job /\ k.msg = m /\ k.hold = j.hold /\ k.at = "mark"
    BY <1>1 DEF Job, Stage
  <1>3. j.hold => m \in Safe
    <2>1. j.at = "emit"
      BY DEF Emitted, At
    <2> QED BY <2>1 DEF LidInv, Queued
  <1>4. UNCHANGED <<rows, copies, mapDb, mapped, index, lidRec, retry, flush, sweep, todo,
                    again, kept, held, dropped, deliveries>>
    BY DEF Emitted
  <1>5. CASE /\ outbox' = outbox \cup {m} /\ phoneRec' = [phoneRec EXCEPT ![m] = "emitted"]
             /\ jobs' = (jobs \ {j}) \cup {k}
             /\ UNCHANGED <<claims, owed, faults>>
    <2> HIDE DEF k, m
    <2>1. LidTypes' /\ Indexed' /\ jobs' \subseteq Job
      BY <1>1, <1>2, <1>4, <1>5 DEF LidTypes, LidInv, Indexed
    <2>2. Safe \subseteq Safe' /\ m \in outbox'
      BY <1>4, <1>5 DEF Safe
    <2>3. \A x \in Msgs : phoneRec'[x] = "emitted" => phoneRec[x] = "emitted" \/ x \in outbox'
      BY <1>1, <1>5 DEF LidTypes
    <2> QED BY <1>2, <1>3, <1>4, <1>5, <2>1, <2>2, <2>3, SafeKeeps
  <1>6. CASE LidFault /\ Return(j) /\ owed' = owed \ {m} /\ UNCHANGED <<outbox, phoneRec>>
    <2>1. LidTypes' /\ Indexed' /\ jobs' \subseteq jobs
      BY <1>1, <1>4, <1>6, LidFaultType DEF LidTypes, LidInv, Indexed, Return
    <2> QED BY <1>4, <1>6, <2>1, SafeKeeps DEF LidInv
  <1> QED BY <1>5, <1>6 DEF Emitted

LEMMA MarkedKeeps ==
    ASSUME LidInv, NEW j \in jobs, Marked(j)
    PROVE  LidInv'
  <1>1. LidTypes /\ j.msg \in outbox
    BY DEF LidInv, Proven, Marked, At
  <1>2. UNCHANGED <<outbox, copies, mapDb, mapped, lidRec, phoneRec, retry, flush, sweep,
                    todo, again, kept, held, dropped, deliveries>>
    BY DEF Marked
  <1>3. /\ rows' \subseteq rows /\ rows \subseteq rows' \cup {j.msg} /\ index' \subseteq index
        /\ owed' \subseteq owed /\ jobs' \subseteq jobs /\ claims' \subseteq claims
        /\ faults' \in 0..MaxFaults
    BY <1>1, LidFaultType DEF Marked, Return, LidTypes
  <1>4. LidTypes' /\ Indexed'
    BY <1>1, <1>2, <1>3 DEF LidTypes, LidInv, Indexed
  <1> QED BY <1>1, <1>2, <1>3, <1>4, SafeKeeps DEF LidInv

LEMMA RetriedKeeps ==
    ASSUME LidInv, NEW j \in jobs, Retried(j)
    PROVE  LidInv'
  <1>1. LidTypes /\ j.msg \in Msgs
    BY DEF LidInv, Job
  <1>2. UNCHANGED <<outbox, copies, mapDb, mapped, phoneRec, flush, claims, sweep, todo,
                    again, held, dropped, owed, deliveries>>
        /\ jobs' \subseteq jobs
    BY DEF Retried
  <1>3. CASE /\ rows' = rows \cup {j.msg} /\ kept' = kept \cup {j.msg}
             /\ index' = index \cup {j.msg} /\ retry' = retry \ {j.msg}
             /\ lidRec' = [lidRec EXCEPT ![j.msg] = IF @ = "plain" THEN "tagged" ELSE @]
             /\ UNCHANGED faults
    <2>1. LidTypes' /\ Indexed'
      BY <1>1, <1>2, <1>3 DEF LidTypes, LidInv, Indexed
    <2> QED BY <1>2, <1>3, <2>1, SafeKeeps DEF LidInv
  <1>4. CASE LidFault /\ UNCHANGED <<rows, kept, index, retry, lidRec>>
    <2>1. LidTypes' /\ Indexed'
      BY <1>1, <1>2, <1>4, LidFaultType DEF LidTypes, LidInv, Indexed
    <2> QED BY <1>2, <1>4, <2>1, SafeKeeps DEF LidInv
  <1> QED BY <1>3, <1>4 DEF Retried

(* The mapping, the sweep, the retries                                     *)

LEMMA TriggerType ==
    ASSUME LidTypes, NEW known, Trigger(known)
    PROVE  /\ sweep' \in {"idle", "listing", "running"} /\ again' \in BOOLEAN
           /\ owed' \subseteq Msgs
  BY DEF LidTypes, Trigger

LEMMA LearnKeeps ==
    ASSUME LidInv, NEW h \in BOOLEAN, Learn(h)
    PROVE  LidInv'
  <1> DEFINE moved == {m \in Msgs : lidRec[m] = "plain" /\ phoneRec[m] = "none"}
  <1>1. LidTypes
    BY DEF LidInv
  <1>2. UNCHANGED <<rows, outbox, index, retry, flush, claims, todo, jobs, kept, held,
                    dropped, deliveries>>
    BY DEF Learn
  <1>3. /\ sweep' \in {"idle", "listing", "running"} /\ again' \in BOOLEAN
        /\ owed' \subseteq Msgs
    BY <1>1, TriggerType DEF Learn, LidTypes
  <1>4. /\ mapped' \in BOOLEAN /\ mapDb' \in BOOLEAN /\ faults' \in 0..MaxFaults
        /\ lidRec' \in [Msgs -> {"none", "plain", "tagged"}]
        /\ phoneRec' \in [Msgs -> {"none", "new", "emitted"}]
        /\ \A m \in Msgs : phoneRec'[m] = "emitted" => phoneRec[m] = "emitted"
        /\ copies \subseteq copies' /\ copies' \subseteq Msgs
    <2>1. CASE mapped
      BY <1>1, <2>1 DEF Learn, LidTypes
    <2>2. CASE ~mapped
      <3>1. /\ lidRec' = [m \in Msgs |-> "none"]
            /\ phoneRec' = [m \in Msgs |-> IF m \in moved THEN "new" ELSE phoneRec[m]]
        BY <2>2 DEF Learn
      <3>2. /\ lidRec' \in [Msgs -> {"none", "plain", "tagged"}]
            /\ phoneRec' \in [Msgs -> {"none", "new", "emitted"}]
            /\ \A m \in Msgs : phoneRec'[m] = "emitted" => phoneRec[m] = "emitted"
        BY <1>1, <3>1 DEF LidTypes
      <3>3. copies' = copies \/ copies' = copies \cup moved
        BY <2>2 DEF Learn
      <3>4. mapped' \in BOOLEAN /\ mapDb' \in BOOLEAN /\ faults' \in 0..MaxFaults
        BY <1>1, <2>2, LidFaultType DEF Learn, LidTypes
      <3> QED BY <1>1, <3>2, <3>3, <3>4 DEF LidTypes
    <2> QED BY <2>1, <2>2
  <1>5. LidTypes' /\ Indexed'
    BY <1>1, <1>2, <1>3, <1>4 DEF LidTypes, LidInv, Indexed
  <1> QED BY <1>2, <1>4, <1>5, SafeKeeps DEF LidInv

LEMMA OpenKeeps ==
    ASSUME LidInv, Open
    PROVE  LidInv'
  <1>1. LidTypes' /\ Indexed'
    BY TriggerType DEF Open, LidTypes, LidInv, Indexed
  <1> QED BY <1>1, SafeKeeps DEF LidInv, Open

LEMMA SweepKeeps ==
    ASSUME LidInv, List \/ SweepEnds
    PROVE  LidInv'
  <1>1. LidTypes
    BY DEF LidInv
  <1>2. /\ UNCHANGED <<rows, index, phoneRec, claims, jobs, SweepVars>>
        /\ sweep' \in {"idle", "listing", "running"} /\ again' \in BOOLEAN
        /\ todo' \subseteq Msgs /\ owed' \subseteq Msgs /\ faults' \in 0..MaxFaults
    BY <1>1, LidFaultType DEF List, SweepEnds, LidTypes
  <1>3. LidTypes' /\ Indexed'
    BY <1>1, <1>2 DEF LidTypes, LidInv, Indexed, SweepVars
  <1> QED BY <1>2, <1>3, SafeKeeps DEF LidInv, SweepVars

LEMMA ReleaseRowKeeps ==
    ASSUME LidInv, NEW m \in Msgs, ReleaseRow(m)
    PROVE  LidInv'
  <1>1. LidTypes /\ jobs \subseteq Job
    BY DEF LidInv
  <1>2. UNCHANGED <<rows, index, sweep, again, faults, SweepVars>> /\ todo' \subseteq Msgs
    BY <1>1 DEF ReleaseRow, LidTypes
  <1>3. ASSUME NEW stage \in {"media", "emit", "mark"}
        PROVE  LET q == [Next_(m) EXCEPT !.at = stage]
               IN  q \in Job /\ q.msg = m /\ ~q.hold /\ q.at = stage
    BY DEF Next_, Job, Stage
  <1>4. Next_(m) \in Job /\ Next_(m).at = "emit" /\ ~Next_(m).hold
    BY DEF Next_, Job, Stage
  <1>5. /\ phoneRec' = phoneRec \/ phoneRec' = [phoneRec EXCEPT ![m] = "new"]
        /\ claims' \subseteq Msgs /\ owed' \subseteq Msgs
        /\ \/ jobs' = jobs \/ jobs' = jobs \cup {Next_(m)}
           \/ \E stage \in {"media", "emit", "mark"} :
                 /\ jobs' = jobs \cup {[Next_(m) EXCEPT !.at = stage]}
                 /\ stage = "mark" => phoneRec[m] = "emitted"
    BY <1>1 DEF ReleaseRow, LidTypes
  <1>6. /\ jobs' \subseteq Job
        /\ \A q \in jobs' : q \in jobs \/ (/\ q.at = "mark" => q.msg \in outbox
                                           /\ ~q.hold)
    BY <1>1, <1>3, <1>4, <1>5 DEF LidInv, Proven
  <1>7. LidTypes' /\ Indexed'
    BY <1>1, <1>2, <1>5 DEF LidTypes, LidInv, Indexed, SweepVars
  <1>8. \A x \in Msgs : phoneRec'[x] = "emitted" => phoneRec[x] = "emitted"
    BY <1>1, <1>5 DEF LidTypes
  <1> QED BY <1>2, <1>6, <1>7, <1>8, SafeKeeps DEF SweepVars

LEMMA RetriesKeep ==
    ASSUME LidInv, FlushStarts \/ \E m \in Msgs : Retry(m)
    PROVE  LidInv'
  <1>1. LidTypes /\ jobs \subseteq Job
    BY DEF LidInv
  <1>2. /\ UNCHANGED <<rows, outbox, copies, mapDb, mapped, index, lidRec, phoneRec, claims,
                       sweep, todo, again, kept, held, owed, deliveries, faults>>
        /\ flush' \subseteq Msgs
    BY <1>1 DEF FlushStarts, Retry, LidTypes, histVars
  <1>3. CASE FlushStarts
    <2>1. LidTypes' /\ Indexed' /\ UNCHANGED <<retry, jobs, dropped>>
      BY <1>1, <1>2, <1>3 DEF FlushStarts, LidTypes, LidInv, Indexed, histVars
    <2> QED BY <1>2, <2>1, SafeKeeps DEF LidInv
  <1>4. ASSUME NEW m \in Msgs, Retry(m) PROVE LidInv'
    <2> DEFINE k == [msg |-> m, at |-> "flush", hold |-> TRUE, det |-> FALSE,
                     tag |-> FALSE, by |-> "live", claimed |-> FALSE]
    <2>1. k \in Job /\ k.msg = m /\ k.at = "flush"
      BY DEF Job, Stage
    <2>3. CASE mapped
      <3>1. retry' = retry \ {m} /\ dropped' = dropped \cup (retry \cap {m}) /\ jobs' = jobs
        BY <1>4, <2>3 DEF Retry
      <3>2. LidTypes' /\ Indexed'
        BY <1>1, <1>2, <3>1 DEF LidTypes, LidInv, Indexed
      <3> QED BY <1>2, <3>1, <3>2, SafeKeeps DEF LidInv
    <2>4. CASE ~mapped
      <3>1. jobs' = jobs \cup {k} /\ UNCHANGED <<retry, dropped>>
        BY <1>4, <2>4 DEF Retry
      <3> HIDE DEF k
      <3>2. LidTypes' /\ Indexed' /\ jobs' \subseteq Job
        BY <1>1, <1>2, <2>1, <3>1 DEF LidTypes, LidInv, Indexed
      <3> QED BY <1>2, <2>1, <3>1, <3>2, SafeKeeps
    <2> QED BY <2>3, <2>4
  <1> QED BY <1>3, <1>4

LEMMA ClaimExpiresKeeps ==
    ASSUME LidInv, NEW m \in Msgs, ClaimExpires(m)
    PROVE  LidInv'
  <1>1. LidTypes' /\ Indexed'
    BY LidFaultType DEF ClaimExpires, LidTypes, LidInv, Indexed, histVars
  <1> QED BY <1>1, SafeKeeps DEF LidInv, ClaimExpires, histVars

\* Nothing is left in memory, so only the table and the outbox count.
LEMMA RestartKeeps ==
    ASSUME LidInv, Restart
    PROVE  LidInv'
  <1>1. LidTypes
    BY DEF LidInv
  <1>2. faults' \in 0..MaxFaults
    BY <1>1, LidFaultType DEF Restart
  <1>3. /\ lidRec' \in [Msgs -> {"none", "plain", "tagged"}]
        /\ phoneRec' \in [Msgs -> {"none", "new", "emitted"}]
        /\ \A m \in Msgs : phoneRec'[m] = "none"
    BY DEF Restart
  <1>4. LidTypes'
    BY <1>1, <1>2, <1>3 DEF Restart, LidTypes
  <1>5. Proven' /\ Queued' /\ HeldIsKept' /\ jobs' \subseteq Job
    BY <1>3 DEF Restart, Proven, Queued, HeldIsKept
  <1>6. Indexed' /\ RowUntilStored'
    BY DEF Restart, LidInv, Indexed, RowUntilStored
  <1> QED BY <1>4, <1>5, <1>6 DEF LidInv

LEMMA LidInvNext ==
    ASSUME LidInv, [LidNext]_lidVars
    PROVE  LidInv'
  <1>1. CASE UNCHANGED lidVars
    BY <1>1 DEF lidVars, memVars, histVars, LidInv, LidTypes, Proven, Indexed, Queued, Safe,
                RowUntilStored, HeldIsKept
  <1>2. ASSUME NEW j \in jobs, JobStep(j) PROVE LidInv'
    BY <1>2, PersistedKeeps, StoredKeeps, EmittedKeeps, MarkedKeeps, RetriedKeeps DEF JobStep
  <1>3. ASSUME SweepStep PROVE LidInv'
    BY <1>3, SweepKeeps, ReleaseRowKeeps DEF SweepStep
  <1>4. ASSUME NEW m \in Msgs, Deliver(m) \/ Retry(m) \/ ClaimExpires(m) PROVE LidInv'
    BY <1>4, DeliverKeeps, RetriesKeep, ClaimExpiresKeeps
  <1> QED BY <1>1, <1>2, <1>3, <1>4, LearnKeeps, OpenKeeps, RetriesKeep, RestartKeeps
      DEF LidNext

LEMMA LidInvariant == LidSpec => []LidInv
  BY LidInvInit, LidInvNext, PTL DEF LidSpec

-----------------------------------------------------------------------------
\* The types of the table, the outbox and what the process holds in memory
THEOREM LidTypeCorrect == LidSpec => []LidTypeOK
  BY LidInvariant, LidInvType, PTL

\* A row leaves lid_pending_messages only after the event with its id is in the
\* outbox, whatever fails, restarts, is delivered again or is learned meanwhile.
THEOREM RowsAreKept == LidSpec => []RowUntilStored
  BY LidInvariant, PTL DEF LidInv

\* A message that was filed under the LID is in the table, in the outbox, published
\* or queued for its INSERT, unless the queue dropped it as already emitted.
THEOREM HeldMessagesAreKept == LidSpec => []HeldIsKept
  BY LidInvariant, PTL DEF LidInv
=============================================================================
