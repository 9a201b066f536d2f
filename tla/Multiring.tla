------------------------------- MODULE Multiring -------------------------------
(***************************************************************************)
(* The multiring: four lock-free rings in one, a priority each, used as the *)
(* scheduling queues of EM.  A producer reserves a slot by compare-and-set  *)
(* of its priority's prod.head; a consumer reserves a weighted burst of all *)
(* priorities by one 128-bit compare-and-set of the four cons.heads.  Both  *)
(* then touch the slots and wait until those that reserved before them have *)
(* moved the tail.                                                          *)
(*                                                                         *)
(* Every access to the shared ring is a step: the reads of a head and of    *)
(* the opposite tail (one vector load each for a consumer), the compare-    *)
(* and-set, each slot and each tail.  The rings have many producers and     *)
(* many consumers (flags 0), and mring_enqueue enqueues one object.         *)
(***************************************************************************)
EXTENDS Integers, Sequences, FiniteSets

CONSTANTS
  Producers,   \* cores in mring_enqueue
  Consumers,   \* cores in mring_dequeue_mp_burst
  None,        \* the content of a slot never written
  RingSize,    \* RING_SIZE
  IndexMod,    \* 2^32: head and tail indexes are taken modulo IndexMod
  MaxBurst,    \* max: objects of a dequeue
  Quota,       \* quota_ptr->val: [0..3 -> Nat]
  Start,       \* the indexes of the (empty) ring at the beginning
  UsedPrios,   \* bound: priorities enqueued to
  MaxObjects   \* bound: objects enqueued, too few for an index to come round to
               \* its old value during a call (in the code: 2^32 - RING_SIZE)

Prios == 0..3

ASSUME ConstantsAssumption ==
  /\ RingSize \in Nat /\ RingSize > 1
  /\ IndexMod \in Nat /\ IndexMod > RingSize /\ IndexMod % RingSize = 0
  /\ Quota \in [Prios -> Nat]
  /\ MaxBurst \in Nat \ {0}
  /\ MaxBurst = Quota[0] + Quota[1] + Quota[2] + Quota[3]
  /\ Start \in 0..IndexMod - 1
  /\ UsedPrios \subseteq Prios
  /\ MaxObjects \in 0..IndexMod - RingSize

Objects == 1..MaxObjects

VARIABLES
  prodHead, prodTail, consHead, consTail,  \* [Prios -> 0..IndexMod-1]
  slot,     \* [Prios -> [0..RingSize-1 -> Objects \cup {None}]]: ring[][]
  made,     \* objects given to mring_enqueue so far
  ppc,      \* [Producers -> control point]
  prio,     \* [Producers -> Prios]: priority
  object,   \* [Producers -> Objects or 0]: obj_table[0]
  head,     \* [Producers -> index]: prod_head
  cpc,      \* [Consumers -> control point]
  heads,    \* [Consumers -> [Prios -> index]]: cons_head
  entries,  \* [Consumers -> [Prios -> Nat]]: entries to dequeue
  at,       \* [Consumers -> Prios]: i, the priority being copied
  copied,   \* [Consumers -> Nat]: j, its slots copied already
  got       \* [Consumers -> Seq(Objects)]: obj_p[0..buf_idx-1]

ringVars == <<prodHead, prodTail, consHead, consTail, slot>>
prodVars == <<made, ppc, prio, object, head>>
consVars == <<cpc, heads, entries, at, copied, got>>
vars == <<ringVars, prodVars, consVars>>

AllPrios(x) == [p \in Prios |-> x]

Init ==
  /\ prodHead = AllPrios(Start) /\ prodTail = AllPrios(Start)
  /\ consHead = AllPrios(Start) /\ consTail = AllPrios(Start)
  /\ slot = AllPrios([i \in 0..RingSize - 1 |-> None])
  /\ made = 0
  /\ ppc = [c \in Producers |-> "idle"]
  /\ prio = [c \in Producers |-> 0]
  /\ object = [c \in Producers |-> 0]
  /\ head = [c \in Producers |-> 0]
  /\ cpc = [c \in Consumers |-> "idle"]
  /\ heads = [c \in Consumers |-> AllPrios(0)]
  /\ entries = [c \in Consumers |-> AllPrios(0)]
  /\ at = [c \in Consumers |-> 0]
  /\ copied = [c \in Consumers |-> 0]
  /\ got = [c \in Consumers |-> <<>>]

\* Unsigned arithmetic on indexes.
Plus(i, n)  == (i + n) % IndexMod
Minus(i, j) == (i - j) % IndexMod

PGoto(c, point) == ppc' = [ppc EXCEPT ![c] = point]
CGoto(c, point) == cpc' = [cpc EXCEPT ![c] = point]

-----------------------------------------------------------------------------
(* mring_enqueue, __mring_mp_do_enqueue *)

\* The call, up to the read of prod.head.
Enqueue(c, p) ==
  /\ ppc[c] = "idle"
  /\ made < MaxObjects
  /\ made' = made + 1
  /\ object' = [object EXCEPT ![c] = made + 1]
  /\ prio' = [prio EXCEPT ![c] = p]
  /\ head' = [head EXCEPT ![c] = prodHead[p]]
  /\ PGoto(c, "room")
  /\ UNCHANGED <<ringVars, consVars>>

\* The call is over.
EnqueueReturns(c) ==
  /\ PGoto(c, "idle")
  /\ object' = [object EXCEPT ![c] = 0]
  /\ head' = [head EXCEPT ![c] = 0]
  /\ prio' = [prio EXCEPT ![c] = 0]

\* RING_MASK + cons_tail - prod_head
FreeEntries(tail, hd) == Minus(RingSize - 1 + tail, hd)

\* Mutant: the last usable slot is not used.
RoomForLess(c) ==
  /\ ppc[c] = "room"
  /\ IF FreeEntries(consTail[prio[c]], head[c]) <= 1
     THEN EnqueueReturns(c)
     ELSE PGoto(c, "cas") /\ UNCHANGED <<object, head, prio>>
  /\ UNCHANGED <<ringVars, made, consVars>>

\* cons.tail is read: return 0 when there is no free entry.
Room(c) ==
  /\ ppc[c] = "room"
  /\ IF FreeEntries(consTail[prio[c]], head[c]) = 0
     THEN EnqueueReturns(c)
     ELSE PGoto(c, "cas") /\ UNCHANGED <<object, head, prio>>
  /\ UNCHANGED <<ringVars, made, consVars>>

\* rte_atomic32_cmpset of prod.head; on failure it is read again.
ReserveSlot(c) ==
  LET p == prio[c] IN
  /\ ppc[c] = "cas"
  /\ IF prodHead[p] = head[c]
     THEN prodHead' = [prodHead EXCEPT ![p] = Plus(@, 1)] /\ PGoto(c, "write")
     ELSE PGoto(c, "head") /\ UNCHANGED prodHead
  /\ UNCHANGED <<prodTail, consHead, consTail, slot, made, prio, object, head, consVars>>

ReadHeadAgain(c) ==
  /\ ppc[c] = "head"
  /\ head' = [head EXCEPT ![c] = prodHead[prio[c]]]
  /\ PGoto(c, "room")
  /\ UNCHANGED <<ringVars, made, prio, object, consVars>>

Write(c) ==
  /\ ppc[c] = "write"
  /\ slot' = [slot EXCEPT ![prio[c]][head[c] % RingSize] = object[c]]
  /\ PGoto(c, "publish")
  /\ UNCHANGED <<prodHead, prodTail, consHead, consTail, made, prio, object, head, consVars>>

\* When the producers before it are done: prod.tail = prod_next.
Publish(c) ==
  LET p == prio[c] IN
  /\ ppc[c] = "publish"
  /\ prodTail[p] = head[c]
  /\ prodTail' = [prodTail EXCEPT ![p] = Plus(head[c], 1)]
  /\ EnqueueReturns(c)
  /\ UNCHANGED <<prodHead, consHead, consTail, slot, made, consVars>>

-----------------------------------------------------------------------------
(* mring_dequeue_mp_burst *)

Total(e) == e[0] + e[1] + e[2] + e[3]

\* What priority p gives up when the burst is `over' objects too large: at most
\* what it has beyond its quota.
Cut(over, e, p) ==
  IF over <= 0 \/ e[p] <= Quota[p] THEN 0
  ELSE IF over < e[p] - Quota[p] THEN over ELSE e[p] - Quota[p]

\* Mutant: quotas are not looked at, the lowest priorities give up all they have.
WeighLowestOut(e) ==
  LET take(over, p) == IF over <= 0 THEN 0 ELSE IF over < e[p] THEN over ELSE e[p]
      o0 == Total(e) - MaxBurst
      c0 == take(o0, 0)
      c1 == take(o0 - c0, 1)
      c2 == take(o0 - c0 - c1, 2)
      c3 == take(o0 - c0 - c1 - c2, 3) IN
  [p \in Prios |-> e[p] - (CASE p = 0 -> c0 [] p = 1 -> c1 [] p = 2 -> c2 [] p = 3 -> c3)]

\* The loop that trims the entries to MaxBurst, from priority 0 upward.
Weigh(e) ==
  LET o0 == Total(e) - MaxBurst
      c0 == Cut(o0, e, 0)
      c1 == Cut(o0 - c0, e, 1)
      c2 == Cut(o0 - c0 - c1, e, 2)
      c3 == Cut(o0 - c0 - c1 - c2, e, 3) IN
  [p \in Prios |-> e[p] - (CASE p = 0 -> c0 [] p = 1 -> c1 [] p = 2 -> c2 [] p = 3 -> c3)]

\* The read of the four cons.heads, at the start of a call or after a failed
\* compare-and-set.
ReadHeads(c) ==
  /\ cpc[c] \in {"idle", "retry"}
  /\ heads' = [heads EXCEPT ![c] = consHead]
  /\ CGoto(c, "tails")
  /\ UNCHANGED <<ringVars, prodVars, entries, at, copied, got>>

DequeueReturns(c) ==
  /\ CGoto(c, "idle")
  /\ heads' = [heads EXCEPT ![c] = AllPrios(0)]
  /\ entries' = [entries EXCEPT ![c] = AllPrios(0)]
  /\ at' = [at EXCEPT ![c] = 0]
  /\ copied' = [copied EXCEPT ![c] = 0]
  /\ got' = [got EXCEPT ![c] = <<>>]

\* Objects there seem to be, by the heads read before and the tails now.
Seen(c) == [p \in Prios |-> Minus(prodTail[p], heads[c][p])]

\* The read of the four prod.tails: return 0 when all are empty, else weigh.
ReadTails(c) ==
  /\ cpc[c] = "tails"
  /\ IF Seen(c) = AllPrios(0)
     THEN DequeueReturns(c)
     ELSE /\ entries' = [entries EXCEPT ![c] = Weigh(Seen(c))]
          /\ CGoto(c, "cas")
          /\ UNCHANGED <<heads, at, copied, got>>
  /\ UNCHANGED <<ringVars, prodVars>>

\* The highest priority with entries, and the one below p.
Below(e, p) == {q \in Prios : q < p /\ e[q] > 0}
Highest(S) == CHOOSE p \in S : \A q \in S : q <= p

\* Mutant: only the heads of the priorities taken from are compared.
ReserveUncompared(c) ==
  /\ cpc[c] = "cas"
  /\ IF \E p \in Prios : consHead[p] = heads[c][p] /\ entries[c][p] > 0
     THEN /\ consHead' = [p \in Prios |-> Plus(heads[c][p], entries[c][p])]
          /\ at' = [at EXCEPT ![c] = Highest(Below(entries[c], 4))]
          /\ CGoto(c, "copy")
     ELSE CGoto(c, "retry") /\ UNCHANGED <<consHead, at>>
  /\ UNCHANGED <<prodHead, prodTail, consTail, slot, prodVars, heads, entries, copied, got>>

\* lock cmpxchg16b of the four cons.heads.
ReserveBurst(c) ==
  /\ cpc[c] = "cas"
  /\ IF consHead = heads[c]
     THEN /\ consHead' = [p \in Prios |-> Plus(heads[c][p], entries[c][p])]
          /\ at' = [at EXCEPT ![c] = Highest(Below(entries[c], 4))]
          /\ CGoto(c, "copy")
     ELSE CGoto(c, "retry") /\ UNCHANGED <<consHead, at>>
  /\ UNCHANGED <<prodHead, prodTail, consTail, slot, prodVars, heads, entries, copied, got>>

\* The next slot of the priority is copied to obj_p.
Copy(c) ==
  LET p == at[c] IN
  /\ cpc[c] = "copy"
  /\ got' = [got EXCEPT ![c] = Append(@, slot[p][Plus(heads[c][p], copied[c]) % RingSize])]
  /\ copied' = [copied EXCEPT ![c] = @ + 1]
  /\ CGoto(c, IF copied[c] + 1 = entries[c][p] THEN "release" ELSE "copy")
  /\ UNCHANGED <<ringVars, prodVars, heads, entries, at>>

\* The next priority to copy, or the end of the call.
NextPrio(c) ==
  LET lower == Below(entries[c], at[c]) IN
  IF lower = {} THEN DequeueReturns(c)
  ELSE /\ at' = [at EXCEPT ![c] = Highest(lower)]
       /\ copied' = [copied EXCEPT ![c] = 0]
       /\ CGoto(c, "copy")
       /\ UNCHANGED <<heads, entries, got>>

\* Mutant: cons.tail stays where it is.
ReleaseForgets(c) ==
  /\ cpc[c] = "release"
  /\ consTail[at[c]] = heads[c][at[c]]
  /\ NextPrio(c)
  /\ UNCHANGED <<ringVars, prodVars>>

\* When the consumers before it are done: cons.tail = cons_next.
Release(c) ==
  LET p == at[c] IN
  /\ cpc[c] = "release"
  /\ consTail[p] = heads[c][p]
  /\ consTail' = [consTail EXCEPT ![p] = Plus(heads[c][p], entries[c][p])]
  /\ NextPrio(c)
  /\ UNCHANGED <<prodHead, prodTail, consHead, slot, prodVars>>

-----------------------------------------------------------------------------

EnqueueStep(c) ==
  \/ \E p \in UsedPrios : Enqueue(c, p)
  \/ Room(c) \/ ReserveSlot(c) \/ ReadHeadAgain(c) \/ Write(c) \/ Publish(c)

DequeueStep(c) ==
  \/ ReadHeads(c) \/ ReadTails(c) \/ ReserveBurst(c) \/ Copy(c) \/ Release(c)

Next ==
  \/ \E c \in Producers : EnqueueStep(c)
  \/ \E c \in Consumers : DequeueStep(c)

Spec == Init /\ [][Next]_vars

\* A running core takes its next step ("A lcore must not be interrupted by another
\* task that uses the same ring", multiring.h:84).
Fairness ==
  /\ \A c \in Producers : WF_vars(EnqueueStep(c))
  /\ \A c \in Consumers : WF_vars(DequeueStep(c))

FairSpec == Spec /\ Fairness
-----------------------------------------------------------------------------
(* Properties *)

\* mring_enqueue reports a full ring, which EM takes for a fatal error, only when
\* every usable slot is taken at that moment, however old its prod_head is.
RefusedOnlyWhenFull ==
  [][\A c \in Producers : ppc[c] = "room" /\ ppc'[c] = "idle" =>
       Minus(prodHead[prio[c]], consTail[prio[c]]) = RingSize - 1]_vars

\* A burst is as large as can be, and no priority gets less than its quota while
\* it has objects (no priority starves behind a busier one).
Shared(seen, e) ==
  /\ Total(e) = IF Total(seen) < MaxBurst THEN Total(seen) ELSE MaxBurst
  /\ \A p \in Prios : e[p] <= seen[p] /\ (e[p] = seen[p] \/ e[p] >= Quota[p])
FairShare ==
  [][\A c \in Consumers : cpc[c] = "tails" /\ cpc'[c] = "cas" =>
       Shared(Seen(c), entries'[c])]_vars

\* A call that has reserved its slots ends: the cores that wait for each other's
\* tails, a consumer for those of four priorities, never wait in a circle.
CommittedEnds ==
  /\ \A c \in Producers : []<>(ppc[c] \notin {"write", "publish"})
  /\ \A c \in Consumers : []<>(cpc[c] \notin {"copy", "release"})

-----------------------------------------------------------------------------
(* The promise.  The objects of a priority are those between cons.head and       *)
(* prod.tail, the burst of a dequeue what it has copied and what it will copy    *)

Slots(p, first, n) == [i \in 1..n |-> slot[p][Plus(first, i - 1) % RingSize]]

\* What consumer c has yet to copy of priority p.
ToCopy(c, p) ==
  IF p > at[c] THEN <<>>
  ELSE IF p < at[c] THEN Slots(p, heads[c][p], entries[c][p])
  ELSE Slots(p, Plus(heads[c][p], copied[c]), entries[c][p] - copied[c])

Promise ==
  INSTANCE PriorityFifos
  WITH queue <- [p \in Prios |-> Slots(p, consHead[p], Minus(prodTail[p], consHead[p]))],
       taken <- [c \in Consumers |->
                   IF cpc[c] \notin {"copy", "release"} THEN <<>>
                   ELSE got[c] \o ToCopy(c, 3) \o ToCopy(c, 2) \o ToCopy(c, 1) \o ToCopy(c, 0)],
       Capacity <- RingSize - 1

\* The rings implement FIFOs, one per priority: no slot is read before it is
\* written or overwritten before it is read, in whatever order cores are delayed.
ImplementsPriorityFifos == Promise!Spec
==============================================================================
