----------------------------- MODULE MCTransport -----------------------------
(* TLC instances of Transport: the capacities of the queues. *)
EXTENDS Transport

CONSTANT EachQueueCap

MCQueueCap == [q \in Queues |-> EachQueueCap]
==============================================================================
