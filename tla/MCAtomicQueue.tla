---------------------------- MODULE MCAtomicQueue ----------------------------
(* Atomic queues for TLC; the README explains the bounds.                      *)
EXTENDS AtomicQueue, TLC

\* Cores and buffers are interchangeable; used where only safety is checked.
Symmetry == Permutations(Cores) \cup Permutations(Events)
==============================================================================
