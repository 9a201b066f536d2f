----------------------------- MODULE MCCoreLoop -----------------------------
\* The core is in a group (5), and in the default one (63).
EXTENDS CoreLoop

MCSchedQueues == [t \in Types |->
  CASE t = "atomic"   -> {<<5, 15>>, <<63, 0>>}
    [] t = "parallel" -> {}
    [] t = "ordered"  -> {<<5, 0>>, <<5, 3>>}]

MCSwitched == [t \in Types |-> IF t = "atomic" THEN {<<5, 15>>} ELSE {}]
=============================================================================
