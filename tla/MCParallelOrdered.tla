-------------------------- MODULE MCParallelOrdered --------------------------
(* Parallel-ordered queues for TLC; the README explains the bounds.           *)
EXTENDS ParallelOrdered
==============================================================================
