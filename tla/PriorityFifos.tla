---------------------------- MODULE PriorityFifos ----------------------------
(***************************************************************************)
(* What a multiring promises: one FIFO per priority.  An enqueue adds one   *)
(* object; a dequeue takes some of the oldest objects of every priority at  *)
(* one moment, at most a burst in all, and its caller gets exactly these,   *)
(* highest priority first, whatever happens to the ring meanwhile.          *)
(***************************************************************************)
EXTENDS Integers, Sequences

CONSTANTS
  Consumers, Objects,
  Capacity,   \* objects a priority can hold
  MaxBurst    \* objects of one dequeue

Prios == 0..3

VARIABLES
  queue,      \* [Prios -> Seq(Objects)]: oldest first
  taken       \* [Consumers -> Seq(Objects)]: the burst of a dequeue in progress

vars == <<queue, taken>>

Init ==
  /\ queue = [p \in Prios |-> <<>>]
  /\ taken = [c \in Consumers |-> <<>>]

\* How many objects of p the step takes.
Number(p) == Len(queue[p]) - Len(queue'[p])

Put(p) ==
  /\ Number(p) = -1
  /\ Len(queue[p]) < Capacity
  /\ \E x \in Objects : queue' = [queue EXCEPT ![p] = Append(@, x)]
  /\ UNCHANGED taken

Oldest(p, n) == SubSeq(queue[p], 1, n)

Take(c) ==
  /\ taken[c] = <<>>
  /\ Number(0) + Number(1) + Number(2) + Number(3) \in 1..MaxBurst
  /\ \A p \in Prios :
       /\ Number(p) >= 0
       /\ queue'[p] = SubSeq(queue[p], Number(p) + 1, Len(queue[p]))
  /\ DOMAIN queue' = Prios
  /\ taken' = [taken EXCEPT ![c] = Oldest(3, Number(3)) \o Oldest(2, Number(2))
                                   \o Oldest(1, Number(1)) \o Oldest(0, Number(0))]

\* The dequeue returns with its burst.
Deliver(c) ==
  /\ taken[c] # <<>>
  /\ taken' = [taken EXCEPT ![c] = <<>>]
  /\ UNCHANGED queue

Next ==
  \/ \E p \in Prios : Put(p)
  \/ \E c \in Consumers : Take(c) \/ Deliver(c)

Spec == Init /\ [][Next]_vars
==============================================================================
