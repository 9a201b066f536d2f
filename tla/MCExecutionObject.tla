------------------------- MODULE MCExecutionObject -------------------------
(* An EO with its queues, created and deleted again, on two cores. *)
EXTENDS ExecutionObject
=============================================================================
