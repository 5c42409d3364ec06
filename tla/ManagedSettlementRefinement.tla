-------------------- MODULE ManagedSettlementRefinement --------------------
(* ManagedSettlement implements ReplayOutbox: a completed record is the       *)
(* decided outcome of its key, an acked stream message an acknowledged input. *)
EXTENDS ManagedSettlement

Decided == [k \in Key |-> IF rec[k].state = "completed"
                          THEN [body |-> rec[k].body, outcome |-> rec[k].outcome]
                          ELSE [body |-> None, outcome |-> None]]

Acked == {m \in Msg : stream[m] = "acked"}

Outbox == INSTANCE ReplayOutbox WITH decided <- Decided, seen <- published, acked <- Acked

(* Every behaviour of the worker's settlement, with all its crashes, lease   *)
(* losses and redeliveries, is a behaviour of the one-outcome outbox.        *)
ImplementsOutbox == Outbox!Spec
=============================================================================
