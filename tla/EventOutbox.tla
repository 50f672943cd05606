---------------------------- MODULE EventOutbox ----------------------------
(***************************************************************************)
(* The gateway's durable event queue                                       *)
(* (whatsapp-gateway/src/outbox/postgres-event-outbox.js): one row per     *)
(* event in whatsapp_private.event_outbox.  A row is a column per variable *)
(* here; "ABSENT" stands for no row.  next_attempt_at is kept only as the  *)
(* question claimPending asks of it, "is it in the past": due[e].  The     *)
(* 30-second claim lease and the retry backoff both clear due, and Elapse  *)
(* is the passing of that time.  attempts is compared with MaxAttempts     *)
(* only, so it saturates there.                                            *)
(*                                                                         *)
(* Each action is one method of the queue and says nothing about the       *)
(* processes that call it: EventRelay composes them with the bridge and    *)
(* the backend.                                                            *)
(***************************************************************************)
EXTENDS Naturals, Sequences

CONSTANTS
    Events,       \* the event ids
    BatchSize,    \* claimPending(50)
    MaxAttempts,  \* the claim count at which a refusal becomes final (10)
    MaxSeq        \* bound on the rows ever inserted (BIGSERIAL in the code)

ASSUME OutboxAssumption ==
    /\ BatchSize \in Nat \ {0}
    /\ MaxAttempts \in Nat \ {0}
    /\ MaxSeq \in Nat

VARIABLES state, attempts, seq, due, nextSeq

outboxVars == <<state, attempts, seq, due, nextSeq>>

RowState == {"ABSENT", "PENDING", "IN_FLIGHT", "DELIVERED", "DEAD_LETTER"}
Active   == {"PENDING", "IN_FLIGHT"}
Terminal == {"DELIVERED", "DEAD_LETTER"}

OutboxTypeOK ==
    /\ state    \in [Events -> RowState]
    /\ attempts \in [Events -> 0..MaxAttempts]
    /\ seq      \in [Events -> Nat]
    /\ due      \in [Events -> BOOLEAN]
    /\ nextSeq  \in Nat

OutboxInit ==
    /\ state    = [e \in Events |-> "ABSENT"]
    /\ attempts = [e \in Events |-> 0]
    /\ seq      = [e \in Events |-> 0]
    /\ due      = [e \in Events |-> FALSE]
    /\ nextSeq  = 1

(* INSERT ... ON CONFLICT (event_id) DO NOTHING *)
Enqueue(e) ==
    \/ /\ state[e] # "ABSENT"
       /\ UNCHANGED outboxVars
    \/ /\ state[e] = "ABSENT"
       /\ nextSeq < MaxSeq
       /\ state'    = [state EXCEPT ![e] = "PENDING"]
       /\ attempts' = [attempts EXCEPT ![e] = 0]
       /\ seq'      = [seq EXCEPT ![e] = nextSeq]
       /\ due'      = [due EXCEPT ![e] = TRUE]
       /\ nextSeq'  = nextSeq + 1

Claimable == {e \in Events : state[e] \in Active /\ due[e]}

Taken(q) == {q[i] : i \in 1..Len(q)}

(* q is what the claiming statement returns: the oldest claimable rows, at *)
(* most BatchSize of them, in sequence order.                              *)
OldestFirst(q) ==
    /\ \A i, j \in 1..Len(q) : i < j => seq[q[i]] < seq[q[j]]
    /\ \A e \in Claimable \ Taken(q) :
          /\ Len(q) = BatchSize
          /\ \A i \in 1..Len(q) : seq[q[i]] < seq[e]

Batches == {q \in UNION {[1..n -> Claimable] : n \in 1..BatchSize} : OldestFirst(q)}

(* Mutant: a claim does not count as an attempt. *)
ClaimUncounted(q) ==
    /\ state' = [e \in Events |-> IF e \in Taken(q) THEN "IN_FLIGHT" ELSE state[e]]
    /\ due'   = [e \in Events |-> due[e] /\ e \notin Taken(q)]
    /\ UNCHANGED <<attempts, seq, nextSeq>>

ClaimPending(q) ==
    /\ state'    = [e \in Events |-> IF e \in Taken(q) THEN "IN_FLIGHT" ELSE state[e]]
    /\ attempts' = [e \in Events |-> IF e \in Taken(q) /\ attempts[e] < MaxAttempts
                                     THEN attempts[e] + 1 ELSE attempts[e]]
    /\ due'      = [e \in Events |-> due[e] /\ e \notin Taken(q)]
    /\ UNCHANGED <<seq, nextSeq>>

(* UPDATE ... SET state = 'DELIVERED' WHERE state <> 'DELIVERED': a row in *)
(* DEAD_LETTER is not excluded.                                            *)
Acknowledge(e) ==
    /\ state' = IF state[e] = "ABSENT" THEN state
                ELSE [state EXCEPT ![e] = "DELIVERED"]
    /\ UNCHANGED <<attempts, seq, due, nextSeq>>

(* Mutants: a refusal writes a state the table does not know; a refusal of   *)
(* one copy reopens a row that another copy's ACK has closed.                *)
RejectUnknownState(e, permanent) ==
    /\ state' = IF state[e] \in {"ABSENT", "DELIVERED"} THEN state
                ELSE [state EXCEPT ![e] = IF permanent THEN "DEAD" ELSE "PENDING"]
    /\ UNCHANGED <<attempts, seq, due, nextSeq>>

RejectReopens(e, permanent) ==
    /\ state' = IF state[e] = "ABSENT" THEN state
                ELSE [state EXCEPT ![e] = IF permanent THEN "DEAD_LETTER" ELSE "PENDING"]
    /\ due' = [due EXCEPT ![e] = FALSE]
    /\ UNCHANGED <<attempts, seq, nextSeq>>

Reject(e, permanent) ==
    /\ IF state[e] \in {"ABSENT", "DELIVERED"}
       THEN UNCHANGED <<state, due>>
       ELSE /\ state' = [state EXCEPT ![e] =
                            IF permanent \/ attempts[e] = MaxAttempts
                            THEN "DEAD_LETTER" ELSE "PENDING"]
            /\ due' = [due EXCEPT ![e] = FALSE]
    /\ UNCHANGED <<attempts, seq, nextSeq>>

RequeueInflight ==
    LET inFlight(e) == state[e] = "IN_FLIGHT" IN
    /\ state' = [e \in Events |-> IF inFlight(e) THEN "PENDING" ELSE state[e]]
    /\ due'   = [e \in Events |-> due[e] \/ inFlight(e)]
    /\ UNCHANGED <<attempts, seq, nextSeq>>

(* The retention sweep: DELIVERED rows after a day, DEAD_LETTER rows after *)
(* two.  S is the set of rows that have reached that age.                  *)
Cleanup(S) ==
    /\ \A e \in S : state[e] \in Terminal
    /\ state'    = [e \in Events |-> IF e \in S THEN "ABSENT" ELSE state[e]]
    /\ attempts' = [e \in Events |-> IF e \in S THEN 0 ELSE attempts[e]]
    /\ seq'      = [e \in Events |-> IF e \in S THEN 0 ELSE seq[e]]
    /\ due'      = [e \in Events |-> due[e] /\ e \notin S]
    /\ UNCHANGED nextSeq

(* next_attempt_at of a row that is neither final nor due moves into the past. *)
Elapse(e) ==
    /\ state[e] \in Active
    /\ ~due[e]
    /\ due' = [due EXCEPT ![e] = TRUE]
    /\ UNCHANGED <<state, attempts, seq, nextSeq>>
=============================================================================
