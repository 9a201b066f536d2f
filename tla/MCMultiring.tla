----------------------------- MODULE MCMultiring -----------------------------
(* Two priorities share a burst of two objects equally. *)
EXTENDS Multiring

MCQuota == [p \in Prios |-> IF p \in {0, 3} THEN 1 ELSE 0]
==============================================================================
