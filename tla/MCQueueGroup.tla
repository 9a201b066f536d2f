---------------------------- MODULE MCQueueGroup ----------------------------
(* Two queues of a group that are scheduled through the same sched-queue. *)
EXTENDS QueueGroup

MCIdx == [q \in Queues |-> 0]
=============================================================================
