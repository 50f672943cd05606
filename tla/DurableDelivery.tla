-------------------------- MODULE DurableDelivery --------------------------
(***************************************************************************)
(* What the event relay promises, without connections, processes or        *)
(* retries: a row is marked done only after the backend has settled the    *)
(* event, that is committed its effect or decided to drop it.  A refused   *)
(* row may be revived by an answer to another copy of the same event, and  *)
(* rows that are done or dead are forgotten after their retention.         *)
(***************************************************************************)
CONSTANT Events

VARIABLES row, settled

dvars == <<row, settled>>

RowStage == {"none", "waiting", "done", "dead"}

DInit ==
    /\ row = [e \in Events |-> "none"]
    /\ settled = {}

Offer(e) ==
    /\ row[e] = "none"
    /\ row' = [row EXCEPT ![e] = "waiting"]
    /\ UNCHANGED settled

Settle(S) ==
    /\ settled' = settled \cup S
    /\ UNCHANGED row

Complete(e) ==
    /\ e \in settled
    /\ row[e] \in {"waiting", "dead"}
    /\ row' = [row EXCEPT ![e] = "done"]
    /\ UNCHANGED settled

Refuse(e) ==
    /\ row[e] = "waiting"
    /\ row' = [row EXCEPT ![e] = "dead"]
    /\ UNCHANGED settled

Revive(e) ==
    /\ row[e] = "dead"
    /\ row' = [row EXCEPT ![e] = "waiting"]
    /\ UNCHANGED settled

Forget(S) ==
    /\ \A e \in S : row[e] \in {"done", "dead"}
    /\ row' = [e \in Events |-> IF e \in S THEN "none" ELSE row[e]]
    /\ UNCHANGED settled

DNext ==
    \/ \E e \in Events : Offer(e) \/ Complete(e) \/ Refuse(e) \/ Revive(e)
    \/ \E S \in SUBSET Events : Settle(S) \/ Forget(S)

DSpec == DInit /\ [][DNext]_dvars
=============================================================================
