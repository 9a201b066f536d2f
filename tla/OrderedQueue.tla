---------------------------- MODULE OrderedQueue ----------------------------
(***************************************************************************)
(* What parallel-ordered EM queues that share a scheduling queue promise   *)
(* their application, without locks, bursts and headers: events are handed *)
(* out in the order in which they were accepted, by whichever of the       *)
(* queues, may be finished in any order, and those of a queue leave for    *)
(* where they were sent in the order in which they were handed out.        *)
(***************************************************************************)
EXTENDS Naturals, Sequences

CONSTANTS
  Queues,      \* parallel-ordered queues
  Events,
  Window,      \* events of a queue whose order is remembered
  Free, Out,   \* the ends of an event besides Queues: the pool, the output
  DirectRx     \* TRUE: a packet can be handed out ahead of the accepted ones

VARIABLES
  accepted,    \* Seq(Events \X Queues): not yet handed out, with their queue
  inOrder,     \* [Queues -> Seq(Events)]: handed out, their turn not yet come
  finished,    \* <<e, d>>: the application is done with e and sent it to d
  out          \* Seq(Events): sent to the output, in this order

vars == <<accepted, inOrder, finished, out>>

Ends == Queues \cup {Free, Out}

Init ==
  /\ accepted = <<>>
  /\ inOrder = [q \in Queues |-> <<>>]
  /\ finished = {}
  /\ out = <<>>

\* Where an event goes: to a queue, to the output, or out of sight.
Deliver(e, d) ==
  \/ d \in Queues /\ accepted' = Append(accepted, <<e, d>>) /\ UNCHANGED out
  \/ d = Out /\ out' = Append(out, e) /\ UNCHANGED accepted
  \/ d = Free /\ UNCHANGED <<accepted, out>>

\* An event that is bound by no order is sent.
Send(e, d) ==
  /\ Deliver(e, d)
  /\ UNCHANGED <<inOrder, finished>>

\* The oldest event is handed out, of all that were accepted; it is the next to leave.
HandOut(q) ==
  /\ accepted # <<>> /\ Head(accepted)[2] = q
  /\ accepted' = Tail(accepted)
  /\ inOrder' = [inOrder EXCEPT ![q] = Append(@, Head(accepted)[1])]
  /\ UNCHANGED <<finished, out>>

\* So many events are out that the order of this one is given up.
HandOutUnordered(q) ==
  /\ accepted # <<>> /\ Head(accepted)[2] = q
  /\ Len(inOrder[q]) >= Window
  /\ accepted' = Tail(accepted)
  /\ UNCHANGED <<inOrder, finished, out>>

\* A packet is handed out as it is received.
HandOutPacket(q, e) ==
  /\ DirectRx
  /\ inOrder' = [inOrder EXCEPT ![q] = Append(@, e)]
  /\ UNCHANGED <<accepted, finished, out>>

\* The application sends, outputs or frees an event whose turn may not have come.
Finish(e, d) ==
  /\ \E q \in Queues : \E i \in 1..Len(inOrder[q]) : inOrder[q][i] = e
  /\ \A o \in Ends : <<e, o>> \notin finished
  /\ finished' = finished \cup {<<e, d>>}
  /\ UNCHANGED <<accepted, inOrder, out>>

\* The first event in order leaves when it is finished, for where it was sent or,
\* when there is no room, out of sight.
Leave(q, d) ==
  /\ inOrder[q] # <<>>
  /\ <<Head(inOrder[q]), d>> \in finished
  /\ inOrder' = [inOrder EXCEPT ![q] = Tail(@)]
  /\ finished' = finished \ {<<Head(inOrder[q]), d>>}
  /\ Deliver(Head(inOrder[q]), d) \/ Deliver(Head(inOrder[q]), Free)

\* The receiver of the output takes the oldest event.
Consume ==
  /\ out # <<>>
  /\ out' = Tail(out)
  /\ UNCHANGED <<accepted, inOrder, finished>>

Next ==
  \/ \E q \in Queues : \/ HandOut(q)
                       \/ HandOutUnordered(q)
                       \/ \E e \in Events : HandOutPacket(q, e)
                       \/ \E d \in Ends : Leave(q, d)
  \/ \E e \in Events, d \in Ends : Send(e, d) \/ Finish(e, d)
  \/ Consume

Spec == Init /\ [][Next]_vars
=============================================================================
