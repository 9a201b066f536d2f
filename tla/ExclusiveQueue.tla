--------------------------- MODULE ExclusiveQueue ---------------------------
(***************************************************************************)
(* What an atomic EM queue promises its application, without counters and  *)
(* schedulers: the events of a queue are received in the order in which    *)
(* they were accepted, by one core at a time.  Events of a queue that is   *)
(* not enabled may be discarded instead.                                   *)
(***************************************************************************)
EXTENDS Sequences

CONSTANTS
  Cores, Queues, Events,
  NoCore,      \* nobody is in the queue's receive function
  MayOvertake  \* TRUE: a packet can be received directly, ahead of the queue

VARIABLES
  queue,       \* [Queues -> Seq(Events)]: accepted, not yet received
  receiver,    \* [Queues -> Cores \cup {NoCore}]: who is in the receive function
  ready        \* the queues that are enabled

vars == <<queue, receiver, ready>>

Init ==
  /\ queue = [q \in Queues |-> <<>>]
  /\ receiver = [q \in Queues |-> NoCore]
  /\ ready = Queues

\* A send is accepted.
Accept(q, e) ==
  /\ queue' = [queue EXCEPT ![q] = Append(@, e)]
  /\ UNCHANGED <<receiver, ready>>

\* A core that receives a packet is about to handle it itself, before what
\* other cores are sending to the queue at the same time.
AcceptAhead(q, e) ==
  /\ MayOvertake
  /\ receiver[q] = NoCore
  /\ queue' = [queue EXCEPT ![q] = <<e>> \o @]
  /\ UNCHANGED <<receiver, ready>>

\* The oldest event is passed to the receive function on core c.
Begin(c, q) ==
  /\ queue[q] # <<>>
  /\ receiver[q] = NoCore
  /\ \A r \in Queues : receiver[r] # c
  /\ queue' = [queue EXCEPT ![q] = Tail(@)]
  /\ receiver' = [receiver EXCEPT ![q] = c]
  /\ UNCHANGED ready

End(q) ==
  /\ receiver[q] # NoCore
  /\ receiver' = [receiver EXCEPT ![q] = NoCore]
  /\ UNCHANGED <<queue, ready>>

\* The oldest event of a queue that is not enabled is dropped.
Discard(q) ==
  /\ queue[q] # <<>>
  /\ q \notin ready
  /\ receiver[q] = NoCore
  /\ queue' = [queue EXCEPT ![q] = Tail(@)]
  /\ UNCHANGED <<receiver, ready>>

\* The application enables a queue or disables it.
Toggle(q) ==
  /\ ready' = IF q \in ready THEN ready \ {q} ELSE ready \cup {q}
  /\ UNCHANGED <<queue, receiver>>

Next ==
  \E q \in Queues :
    \/ \E e \in Events : Accept(q, e) \/ AcceptAhead(q, e)
    \/ \E c \in Cores : Begin(c, q)
    \/ End(q)
    \/ Discard(q)
    \/ Toggle(q)

Spec == Init /\ [][Next]_vars
=============================================================================
