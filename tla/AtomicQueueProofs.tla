-------------------------- MODULE AtomicQueueProofs --------------------------
(***************************************************************************)
(* Proofs about AtomicQueue, for any number of cores, queues and events,   *)
(* any ring and burst sizes, with and without direct dispatch.             *)
(***************************************************************************)
EXTENDS AtomicQueue, SequencesExt, SequenceTheorems, FiniteSetTheorems, TLAPS

USE DEF stateVars

-----------------------------------------------------------------------------
(* Sequences *)

(* Appending to a sequence.                                                    *)
LEMMA AppendFacts ==
  ASSUME NEW S, NEW s \in Seq(S), NEW x \in S
  PROVE  /\ Append(s, x) \in Seq(S)
         /\ Len(Append(s, x)) = Len(s) + 1
         /\ \A i \in 1..Len(s) : Append(s, x)[i] = s[i]
         /\ Append(s, x)[Len(s) + 1] = x
  OBVIOUS

(* Cutting a sequence in two.                                                  *)
LEMMA CutFacts ==
  ASSUME NEW S, NEW s \in Seq(S), NEW n \in 0..Len(s)
  PROVE  /\ SubSeq(s, 1, n) \in Seq(S)
         /\ Len(SubSeq(s, 1, n)) = n
         /\ \A i \in 1..n : SubSeq(s, 1, n)[i] = s[i]
         /\ SubSeq(s, n + 1, Len(s)) \in Seq(S)
         /\ Len(SubSeq(s, n + 1, Len(s))) = Len(s) - n
         /\ \A i \in 1..(Len(s) - n) : SubSeq(s, n + 1, Len(s))[i] = s[n + i]
<1> Len(s) \in Nat /\ n \in Int /\ n + 1 \in Int /\ Len(s) \in Int
  OBVIOUS
<1>1. \A i \in 1..n : s[i] \in S
  OBVIOUS
<1>2. \A i \in (n + 1)..Len(s) : s[i] \in S
  OBVIOUS
<1>3. /\ SubSeq(s, 1, n) \in Seq(S)
      /\ Len(SubSeq(s, 1, n)) = IF 1 <= n THEN n - 1 + 1 ELSE 0
      /\ \A i \in 1..(n - 1 + 1) : SubSeq(s, 1, n)[i] = s[1 + i - 1]
  BY <1>1, SubSeqProperties
<1>4. /\ SubSeq(s, n + 1, Len(s)) \in Seq(S)
      /\ Len(SubSeq(s, n + 1, Len(s))) = IF n + 1 <= Len(s) THEN Len(s) - (n + 1) + 1 ELSE 0
      /\ \A i \in 1..(Len(s) - (n + 1) + 1) : SubSeq(s, n + 1, Len(s))[i] = s[n + 1 + i - 1]
  BY <1>2, SubSeqProperties
<1>5. QED
  BY <1>3, <1>4

(* One sequence behind another.                                                *)
LEMMA ConcatFacts ==
  ASSUME NEW S, NEW s \in Seq(S), NEW t \in Seq(S)
  PROVE  /\ s \o t \in Seq(S)
         /\ Len(s) \in Nat /\ Len(t) \in Nat
         /\ Len(s \o t) = Len(s) + Len(t)
         /\ \A i \in 1..Len(s) : (s \o t)[i] = s[i]
         /\ \A i \in 1..Len(t) : (s \o t)[Len(s) + i] = t[i]
<1>1. /\ s \o t \in Seq(S) /\ Len(s \o t) = Len(s) + Len(t)
      /\ \A i \in 1..(Len(s) + Len(t)) :
           (s \o t)[i] = IF i <= Len(s) THEN s[i] ELSE t[i - Len(s)]
  BY ConcatProperties
<1>2. Len(s) \in Nat /\ Len(t) \in Nat
  OBVIOUS
<1>3. \A i \in 1..Len(t) : (s \o t)[Len(s) + i] = t[i]
  <2>1. TAKE i \in 1..Len(t)
  <2>2. /\ Len(s) + i \in 1..(Len(s) + Len(t)) /\ ~(Len(s) + i <= Len(s))
        /\ (Len(s) + i) - Len(s) = i
    BY <1>2
  <2>3. QED
    BY <1>1, <2>2
<1>4. QED
  BY <1>1, <1>2, <1>3

(* The size of a burst.                                                        *)
LEMMA BurstFacts ==
  ASSUME NEW m \in Nat \ {0}, NEW k \in Nat \ {0}
  PROVE  /\ (IF m < k THEN m ELSE k) \in 0..m
         /\ (IF m < k THEN m ELSE k) # 0
  OBVIOUS

(* Leaving out the first element of a sequence.                                *)
LEMMA TailFacts ==
  ASSUME NEW S, NEW s \in Seq(S), s # <<>>
  PROVE  /\ Head(s) = s[1] /\ Head(s) \in S
         /\ Len(s) \in Nat \ {0} /\ 1 \in 1..Len(s)
         /\ Tail(s) \in Seq(S)
         /\ Len(Tail(s)) = Len(s) - 1
         /\ \A i \in 1..Len(Tail(s)) : Tail(s)[i] = s[i + 1]
         /\ Len(s) > 1 => Tail(s) # <<>>
         /\ ~(Len(s) > 1) => Tail(s) = <<>>
<1>1. Len(s) \in Nat \ {0}
  OBVIOUS
<1>2. Tail(s) \in Seq(S) /\ Len(Tail(s)) = Len(s) - 1
  OBVIOUS
<1>3. \A i \in 1..Len(Tail(s)) : Tail(s)[i] = s[i + 1]
  OBVIOUS
<1>4. ASSUME Len(s) > 1 PROVE Tail(s) # <<>>
  <2>1. Len(Tail(s)) # 0
    BY <1>1, <1>2, <1>4
  <2>2. QED
    BY <1>2, <2>1, EmptySeq
<1>5. ASSUME ~(Len(s) > 1) PROVE Tail(s) = <<>>
  BY <1>1, <1>2, <1>5
<1>6. QED
  BY <1>1, <1>2, <1>3, <1>4, <1>5

(* A sequence without repetitions.                                             *)
LEMMA InjectiveFacts ==
  ASSUME NEW S, NEW s \in Seq(S)
  PROVE  IsInjective(s) <=> \A i, j \in 1..Len(s) : s[i] = s[j] => i = j
<1>1. DOMAIN s = 1..Len(s)
  OBVIOUS
<1>2. QED
  BY <1>1 DEF IsInjective

(* What a sequence holds when an element is put behind it.                     *)
LEMMA AppendMembers ==
  ASSUME NEW S, NEW s \in Seq(S), NEW x \in S, NEW t, t = Append(s, x)
  PROVE  /\ \A y : Contains(t, y) <=> Contains(s, y) \/ y = x
         /\ IsInjective(s) /\ ~Contains(s, x) => IsInjective(t)
<1>1. t \in Seq(S) /\ Len(s) \in Nat
  BY AppendFacts
<1>2. Len(t) = Len(s) + 1 /\ t[Len(s) + 1] = x /\ \A i \in 1..Len(s) : t[i] = s[i]
  BY AppendFacts
<1>3. /\ \A i \in 1..Len(t) : i \in 1..Len(s) \/ i = Len(s) + 1
      /\ \A i \in 1..Len(s) : i \in 1..Len(t) /\ i # Len(s) + 1
      /\ Len(s) + 1 \in 1..Len(t)
  BY <1>1, <1>2
<1>4. \A y : Contains(t, y) <=> Contains(s, y) \/ y = x
  BY <1>2, <1>3 DEF Contains
<1>5. ASSUME IsInjective(s), ~Contains(s, x)
      PROVE  IsInjective(t)
  <2>1. \A i, j \in 1..Len(s) : s[i] = s[j] => i = j
    BY <1>5, InjectiveFacts
  <2>2. \A i \in 1..Len(s) : s[i] # x
    BY <1>5 DEF Contains
  <2>3. \A i, j \in 1..Len(t) : t[i] = t[j] => i = j
    BY <1>2, <1>3, <2>1, <2>2
  <2>4. QED
    BY <1>1, <2>3, InjectiveFacts
<1>6. QED
  BY <1>4, <1>5

(* What it holds when its first element is left out.                           *)
LEMMA TailMembers ==
  ASSUME NEW S, NEW s \in Seq(S), s # <<>>, NEW t, t = Tail(s)
  PROVE  /\ \A y : Contains(s, y) <=> y = Head(s) \/ Contains(t, y)
         /\ IsInjective(s) => IsInjective(t) /\ ~Contains(t, Head(s))
<1>1. /\ Head(s) = s[1] /\ Len(s) \in Nat \ {0} /\ Len(t) = Len(s) - 1 /\ t \in Seq(S)
      /\ \A i \in 1..Len(t) : t[i] = s[i + 1]
  BY TailFacts
<1>2. /\ \A i \in 1..Len(t) : i + 1 \in 1..Len(s) /\ i + 1 # 1
      /\ \A i \in 1..Len(s) : i = 1 \/ \E j \in 1..Len(t) : i = j + 1
      /\ 1 \in 1..Len(s)
  <2>1. \A i \in 1..Len(s) : i # 1 => i - 1 \in 1..Len(t) /\ i = (i - 1) + 1
    BY <1>1
  <2>2. QED
    BY <1>1, <2>1
<1>3. \A y : Contains(s, y) <=> y = Head(s) \/ Contains(t, y)
  <2>1. \A i \in 1..Len(s) : s[i] = Head(s) \/ \E j \in 1..Len(t) : t[j] = s[i]
    BY <1>1, <1>2
  <2>2. \A j \in 1..Len(t) : \E i \in 1..Len(s) : s[i] = t[j]
    BY <1>1, <1>2
  <2>3. \E i \in 1..Len(s) : s[i] = Head(s)
    BY <1>1, <1>2
  <2>4. QED
    BY <2>1, <2>2, <2>3 DEF Contains
<1>4. ASSUME IsInjective(s)
      PROVE  IsInjective(t) /\ ~Contains(t, Head(s))
  <2>1. \A i, j \in 1..Len(s) : s[i] = s[j] => i = j
    BY <1>4, InjectiveFacts
  <2>2. ASSUME NEW i \in 1..Len(t), NEW j \in 1..Len(t), t[i] = t[j]
        PROVE  i = j
    <3>1. i + 1 = j + 1
      BY <1>1, <1>2, <2>1, <2>2
    <3>2. QED
      BY <3>1
  <2>3. \A i \in 1..Len(t) : t[i] # Head(s)
    BY <1>1, <1>2, <2>1
  <2>4. IsInjective(t)
    <3>1. t \in Seq(S) /\ \A i, j \in 1..Len(t) : t[i] = t[j] => i = j
      BY <1>1, <2>2
    <3>2. QED
      BY <3>1, InjectiveFacts
  <2>5. QED
    BY <2>3, <2>4 DEF Contains
<1>5. QED
  BY <1>3, <1>4

(* What s holds is in a or in b; in one of them, if nothing is in s twice.     *)
Parts(s, a, b) ==
  /\ \A y : Contains(s, y) <=> Contains(a, y) \/ Contains(b, y)
  /\ IsInjective(s) => /\ IsInjective(a) /\ IsInjective(b)
                       /\ \A y : ~(Contains(a, y) /\ Contains(b, y))

(* What the parts hold when it is cut in two.                                  *)
LEMMA CutMembers ==
  ASSUME NEW S, NEW s \in Seq(S), NEW n \in 0..Len(s)
  PROVE  Parts(s, SubSeq(s, 1, n), SubSeq(s, n + 1, Len(s)))
<1>0. PICK a, b : a = SubSeq(s, 1, n) /\ b = SubSeq(s, n + 1, Len(s))
  OBVIOUS
<1>1. /\ Len(s) \in Nat /\ n \in Nat /\ n <= Len(s)
      /\ Len(a) = n /\ \A i \in 1..n : a[i] = s[i]
      /\ Len(b) = Len(s) - n /\ \A i \in 1..(Len(s) - n) : b[i] = s[n + i]
      /\ a \in Seq(S) /\ b \in Seq(S)
  BY <1>0, CutFacts
<1>2. /\ \A i \in 1..Len(a) : i \in 1..Len(s) /\ a[i] = s[i] /\ i <= n
      /\ \A i \in 1..Len(b) : n + i \in 1..Len(s) /\ b[i] = s[n + i] /\ ~(n + i <= n)
  <2>1. \A i \in 1..Len(a) : i \in 1..n
    BY <1>1
  <2>2. \A i \in 1..Len(b) : i \in 1..(Len(s) - n)
    BY <1>1
  <2>3. \A i \in 1..(Len(s) - n) : n + i \in 1..Len(s) /\ ~(n + i <= n)
    <3>1. Len(s) \in Nat /\ n \in Nat /\ n <= Len(s)
      BY <1>1
    <3>2. QED
      BY <3>1
  <2>4. \A i \in 1..n : i \in 1..Len(s) /\ i <= n
    <3>1. Len(s) \in Nat /\ n \in Nat /\ n <= Len(s)
      BY <1>1
    <3>2. QED
      BY <3>1
  <2>5. QED
    BY <1>1, <2>1, <2>2, <2>3, <2>4
<1>3. \A i \in 1..Len(s) : i \in 1..Len(a) \/ \E j \in 1..Len(b) : i = n + j
  <2>1. \A i \in 1..Len(s) : i \in 1..Len(a) \/ (i - n \in 1..Len(b) /\ i = n + (i - n))
    <3>1. Len(s) \in Nat /\ n \in Nat /\ Len(a) = n /\ Len(b) = Len(s) - n
      BY <1>1
    <3>2. QED
      BY <3>1
  <2>2. QED
    BY <2>1
<1>4. \A y : Contains(s, y) <=> Contains(a, y) \/ Contains(b, y)
  <2>1. \A i \in 1..Len(s) : Contains(a, s[i]) \/ Contains(b, s[i])
    <3> SUFFICES ASSUME NEW i \in 1..Len(s)
                 PROVE  Contains(a, s[i]) \/ Contains(b, s[i])
      OBVIOUS
    <3>1. CASE i \in 1..Len(a)
      BY <1>2, <3>1 DEF Contains
    <3>2. CASE \E j \in 1..Len(b) : i = n + j
      BY <1>2, <3>2 DEF Contains
    <3>3. QED
      BY <1>3, <3>1, <3>2
  <2>2. \A j \in 1..Len(a) : Contains(s, a[j])
    BY <1>2 DEF Contains
  <2>3. \A j \in 1..Len(b) : Contains(s, b[j])
    BY <1>2 DEF Contains
  <2>4. ASSUME NEW y
        PROVE  Contains(s, y) <=> Contains(a, y) \/ Contains(b, y)
    <3>1. Contains(s, y) => Contains(a, y) \/ Contains(b, y)
      BY <2>1, Zenon DEF Contains
    <3>2. Contains(a, y) => Contains(s, y)
      BY <2>2, Zenon DEF Contains
    <3>3. Contains(b, y) => Contains(s, y)
      BY <2>3, Zenon DEF Contains
    <3>4. QED
      BY <3>1, <3>2, <3>3
  <2>5. QED
    BY <2>4
<1>5. ASSUME IsInjective(s)
      PROVE  /\ IsInjective(a) /\ IsInjective(b)
             /\ \A y : ~(Contains(a, y) /\ Contains(b, y))
  <2>1. \A i, j \in 1..Len(s) : s[i] = s[j] => i = j
    BY <1>5, InjectiveFacts
  <2>2. ASSUME NEW i \in 1..Len(b), NEW j \in 1..Len(b), b[i] = b[j]
        PROVE  i = j
    <3>1. n + i = n + j
      BY <1>2, <2>1, <2>2
    <3>2. QED
      BY <1>1, <3>1
  <2>3. \A i, j \in 1..Len(a) : a[i] = a[j] => i = j
    BY <1>2, <2>1
  <2>4. \A i \in 1..Len(a), j \in 1..Len(b) : a[i] # b[j]
    BY <1>2, <2>1
  <2>5. IsInjective(a) /\ IsInjective(b)
    BY <1>1, <2>2, <2>3, InjectiveFacts
  <2>6. QED
    BY <2>4, <2>5 DEF Contains
<1>6. QED
  BY <1>0, <1>4, <1>5 DEF Parts

-----------------------------------------------------------------------------
(* The invariant *)

(* How a core's local state goes with its control point.                       *)
Shape(c) ==
  /\ pc[c] \in {"count", "take", "loop", "recv", "cas", "resched"} => held[c] # <<>>
  /\ pc[c] \in {"idle", "grab"} => held[c] = <<>>
  /\ pc[c] \in {"add", "tas", "push"} /\ current[c] = NoQueue => held[c] = <<>>
  /\ pc[c] \in {"add", "tas", "push", "grab"} => dstQ[c] \in Queues
  /\ pc[c] = "grab" => batch[c] # <<>>
  /\ pc[c] = "recv" => current[c] # NoQueue
  /\ pc[c] \notin {"recv", "add", "tas", "push"} => current[c] = NoQueue
  /\ current[c] # NoQueue => held[c] # <<>> /\ current[c] = Head(held[c])

(* The events a core has taken are still counted.                              *)
TakenCounted(c) ==
  /\ held[c] = <<>> => taken[c] = 0
  /\ pc[c] \in {"count", "cas", "resched"} => taken[c] = 0
  /\ held[c] # <<>> => taken[c] <= eventCount[Head(held[c])]

(* Whoever has a queue's element has set its sched_count.                      *)
ElementIsMarked ==
  \A q \in Queues : Scheduled(q) \/ (\E c \in Cores : Owns(c, q)) => schedCount[q] = 1

(* The inductive invariant behind mutual exclusion.                            *)
IInv ==
  /\ TypeOK
  /\ \A c \in Cores : Shape(c) /\ TakenCounted(c)
  /\ OneElement
  /\ ElementIsMarked

(* The sched-queue has room for every queue.                                   *)
QueuesFit == IsFiniteSet(Queues) /\ Cardinality(Queues) <= SchedQCap

(* Nothing marks a queue but its element, and a counted event has it marked    *)
(* or a sender about to mark it.                                               *)
MarkIsElement ==
  \A q \in Queues : schedCount[q] = 1 => Scheduled(q) \/ \E c \in Cores : Owns(c, q)

CountedIsMarked ==
  \A q \in Queues :
    eventCount[q] = 0 \/ schedCount[q] = 1
    \/ \E c \in Cores : pc[c] = "tas" /\ dstQ[c] = q

-----------------------------------------------------------------------------
(* Types *)

(* What a send leaves behind when it returns.                                  *)
LEMMA ReturnTypes ==
  ASSUME TypeOK, NEW c \in Cores, SendReturns(c)
  PROVE  pc' \in [Cores -> ControlPoints] /\ dstQ' \in [Cores -> Queues \cup {NoQueue}]
BY DEF TypeOK, SendReturns, Goto, ControlPoints

(* Every step keeps the types, given that a core never subtracts more than was*)
(* counted.                                                                   *)
LEMMA TypeStep ==
  ASSUME IInv, [Next]_vars
  PROVE  TypeOK'
<1> USE ConstantsAssumption DEF IInv, TypeOK, ControlPoints, Goto
<1>1. ASSUME NEW c \in Cores, NEW e \in Events, Alloc(c, e)
      PROVE  TypeOK'
  BY <1>1 DEF Alloc, countVars, coreVars, sendVars
<1>2. ASSUME NEW c \in Cores, NEW e \in Events, Free(c, e)
      PROVE  TypeOK'
  BY <1>2 DEF Free, PoolPut, countVars, coreVars, sendVars
<1>3. ASSUME NEW c \in Cores, NEW e \in Events, NEW q \in Queues, Send(c, e, q)
      PROVE  TypeOK'
  BY <1>3 DEF Send, KeepsRule, RingEnqueue, countVars, coreVars
<1>4. ASSUME NEW c \in Cores, NEW e \in Events, NEW q \in Queues, SendFails(c, e, q)
      PROVE  TypeOK'
  BY <1>4 DEF SendFails, countVars, coreVars, sendVars
<1>5. ASSUME NEW c \in Cores, NEW e \in Events, NEW q \in Queues, Receive(c, e, q)
      PROVE  TypeOK'
  BY <1>5 DEF Receive, RingEnqueue, countVars, coreVars
<1>6. ASSUME NEW c \in Cores, NEW e \in Events, NEW q \in Queues, ReceiveDirect(c, e, q)
      PROVE  TypeOK'
  BY <1>6 DEF ReceiveDirect, countVars
<1>7. ASSUME NEW c \in Cores, CountEvent(c)
      PROVE  TypeOK'
  <2>1. dstQ[c] \in Queues /\ eventCount[dstQ[c]] + 1 \in Nat
    BY <1>7 DEF CountEvent, Shape
  <2>2. eventCount' \in [Queues -> Nat]
    BY <1>7, <2>1 DEF CountEvent
  <2>3. srcQ' \in [Cores -> Queues \cup {NoQueue}] /\ dstQ' \in [Cores -> Queues \cup {NoQueue}]
    BY <1>7 DEF CountEvent, SendReturns
  <2>4. pc' \in [Cores -> ControlPoints]
    <3>1. Goto(c, "tas") \/ Goto(c, "recv") \/ Goto(c, "idle")
      BY <1>7 DEF CountEvent, SendReturns
    <3>2. QED
      BY <3>1
  <2>5. QED
    BY <1>7, <2>2, <2>3, <2>4 DEF CountEvent, ringVars, coreVars
<1>8. ASSUME NEW c \in Cores, TestAndSet(c)
      PROVE  TypeOK'
  <2>1. dstQ[c] \in Queues /\ schedCount' \in [Queues -> {0, 1}]
    BY <1>8 DEF TestAndSet, Shape
  <2>2. CASE Goto(c, "push") /\ UNCHANGED dstQ
    <3>1. pc' \in [Cores -> ControlPoints]
      BY <2>2
    <3>2. QED
      BY <1>8, <2>1, <2>2, <3>1 DEF TestAndSet, ringVars, coreVars
  <2>3. CASE SendReturns(c)
    <3>1. pc' \in [Cores -> ControlPoints] /\ dstQ' \in [Cores -> Queues \cup {NoQueue}]
      BY <2>3, ReturnTypes
    <3>2. QED
      BY <1>8, <2>1, <3>1 DEF TestAndSet, ringVars, coreVars
  <2>4. QED
    BY <1>8, <2>2, <2>3 DEF TestAndSet
<1>9. ASSUME NEW c \in Cores, Push(c)
      PROVE  TypeOK'
  <2>1. schedQ' \in Seq(Queues)
    BY <1>9, AppendFacts DEF Push, SchedEnqueue, Shape
  <2>2. pc' \in [Cores -> ControlPoints] /\ dstQ' \in [Cores -> Queues \cup {NoQueue}]
    BY <1>9, ReturnTypes DEF Push
  <2>3. QED
    BY <1>9, <2>1, <2>2 DEF Push, ringVars, countVars, coreVars
<1>10. ASSUME NEW c \in Cores, GrabContext(c)
      PROVE  TypeOK'
  BY <1>10 DEF GrabContext, Shape
<1>11. ASSUME NEW c \in Cores, GrabFails(c)
      PROVE  TypeOK'
  <2>1. dstQ[c] \in Queues /\ Head(batch[c]) \in Events
    BY <1>11 DEF GrabFails, Shape
  <2>2. batch' \in [Cores -> Seq(Events)]
    BY <1>11 DEF GrabFails
  <2>3. CASE RingEnqueue(c, Head(batch[c]), dstQ[c], NoQueue) /\ UNCHANGED free
    <3>1. ring' \in [Queues -> Seq(Events)] /\ hdrQ' \in [Events -> Queues \cup {NoQueue}]
      BY <2>1, <2>3 DEF RingEnqueue
    <3>2. /\ dstQ' \in [Cores -> Queues \cup {NoQueue}]
          /\ srcQ' \in [Cores -> Queues \cup {NoQueue}]
          /\ pc' \in [Cores -> ControlPoints]
      BY <2>1, <2>3 DEF RingEnqueue
    <3>3. QED
      BY <1>11, <2>2, <2>3, <3>1, <3>2 DEF GrabFails, countVars
  <2>4. CASE PoolPut(Head(batch[c])) /\ SendReturns(c) /\ UNCHANGED <<ring, srcQ>>
    BY <1>11, <2>1, <2>2, <2>4 DEF GrabFails, PoolPut, SendReturns, countVars
  <2>5. QED
    BY <1>11, <2>3, <2>4 DEF GrabFails
<1>12. ASSUME NEW c \in Cores, Schedule(c)
      PROVE  TypeOK'
  <2> DEFINE n == IF Len(schedQ) < MaxQBulk THEN Len(schedQ) ELSE MaxQBulk
  <2>1. schedQ # <<>> /\ n \in 0..Len(schedQ)
    BY <1>12, TailFacts, BurstFacts DEF Schedule
  <2>2. SubSeq(schedQ, 1, n) \in Seq(Queues) /\ SubSeq(schedQ, n + 1, Len(schedQ)) \in Seq(Queues)
    BY <2>1, CutFacts
  <2>3. schedQ' \in Seq(Queues) /\ held' \in [Cores -> Seq(Queues)]
    BY <1>12, <2>2 DEF Schedule
  <2>4. pc' \in [Cores -> ControlPoints]
    BY <1>12 DEF Schedule
  <2>5. QED
    BY <1>12, <2>3, <2>4 DEF Schedule, ringVars, countVars, sendVars
<1>13. ASSUME NEW c \in Cores, ReadCount(c)
      PROVE  TypeOK'
  <2>1. Head(held[c]) \in Queues
    BY <1>13, TailFacts DEF ReadCount, Shape
  <2>2. eventCount[Head(held[c])] \in Nat /\ MaxEBulk \in Nat
    BY <2>1
  <2>3. taken' \in [Cores -> Nat] /\ pc' \in [Cores -> ControlPoints]
    BY <1>13, <2>2 DEF ReadCount
  <2>4. QED
    BY <1>13, <2>3 DEF ReadCount, ringVars, countVars, sendVars
<1>14. ASSUME NEW c \in Cores, TakeEvents(c)
      PROVE  TypeOK'
  <2>1. Head(held[c]) \in Queues /\ taken[c] \in 0..Len(ring[Head(held[c])])
    BY <1>14 DEF TakeEvents, Shape
  <2>2. batch' \in [Cores -> Seq(Events)] /\ ring' \in [Queues -> Seq(Events)]
    <3>1. ring[Head(held[c])] \in Seq(Events)
      BY <2>1
    <3>2. /\ SubSeq(ring[Head(held[c])], 1, taken[c]) \in Seq(Events)
          /\ SubSeq(ring[Head(held[c])], taken[c] + 1, Len(ring[Head(held[c])])) \in Seq(Events)
      BY <2>1, <3>1, CutFacts
    <3>3. QED
      BY <1>14, <2>1, <3>2 DEF TakeEvents
  <2>3. pc' \in [Cores -> ControlPoints]
    BY <1>14 DEF TakeEvents
  <2>4. QED
    BY <1>14, <2>2, <2>3 DEF TakeEvents, countVars, sendVars
<1>15. ASSUME NEW c \in Cores, Dispatch(c)
      PROVE  TypeOK'
  <2>1. Head(held[c]) \in Queues
    BY <1>15, TailFacts DEF Dispatch, Shape
  <2>2. Head(batch[c]) \in Events /\ Tail(batch[c]) \in Seq(Events)
    BY <1>15, TailFacts DEF Dispatch
  <2>3. batch' \in [Cores -> Seq(Events)] /\ app' \subseteq Events
    BY <1>15, <2>2 DEF Dispatch
  <2>4. current' \in [Cores -> Queues \cup {NoQueue}] /\ pc' \in [Cores -> ControlPoints]
    BY <1>15, <2>1 DEF Dispatch
  <2>5. QED
    BY <1>15, <2>3, <2>4 DEF Dispatch, countVars, sendVars
<1>16. ASSUME NEW c \in Cores, DropEvent(c)
      PROVE  TypeOK'
  BY <1>16 DEF DropEvent, PoolPut, countVars, sendVars, Shape
<1>17. ASSUME NEW c \in Cores, ReceiveReturns(c)
      PROVE  TypeOK'
  BY <1>17 DEF ReceiveReturns, ringVars, countVars, sendVars
<1>18. ASSUME NEW c \in Cores, Subtract(c)
      PROVE  TypeOK'
  <2>1. Head(held[c]) \in Queues /\ eventCount[Head(held[c])] - taken[c] \in Nat
    <3>1. held[c] # <<>> /\ held[c] \in Seq(Queues)
      BY <1>18 DEF Subtract, Shape
    <3>2. Head(held[c]) \in Queues
      BY <3>1, TailFacts
    <3>3. taken[c] \in Nat /\ eventCount[Head(held[c])] \in Nat
      BY <3>2
    <3>4. taken[c] <= eventCount[Head(held[c])]
      BY <3>1 DEF TakenCounted
    <3>5. QED
      BY <3>2, <3>3, <3>4
  <2>2. eventCount' \in [Queues -> Nat] /\ taken' \in [Cores -> Nat]
    BY <1>18, <2>1 DEF Subtract
  <2>3. QED
    BY <1>18, <2>2 DEF Subtract, ringVars, sendVars
<1>19. ASSUME NEW c \in Cores, Release(c)
      PROVE  TypeOK'
  BY <1>19 DEF Release, NextElement, ringVars, sendVars, Shape
<1>20. ASSUME NEW c \in Cores, ReleaseFails(c)
      PROVE  TypeOK'
  BY <1>20 DEF ReleaseFails, ringVars, countVars, coreVars, sendVars
<1>21. ASSUME NEW c \in Cores, Reschedule(c)
      PROVE  TypeOK'
  <2>1. Head(held[c]) \in Queues /\ Tail(held[c]) \in Seq(Queues)
    BY <1>21 DEF Reschedule, Shape
  <2>2. schedQ' \in Seq(Queues)
    BY <1>21, <2>1 DEF Reschedule, SchedEnqueue
  <2>3. held' \in [Cores -> Seq(Queues)] /\ pc' \in [Cores -> ControlPoints]
    BY <1>21, <2>1 DEF Reschedule, NextElement
  <2>4. QED
    BY <1>21, <2>2, <2>3 DEF Reschedule, ringVars, countVars, sendVars
<1>22. ASSUME NEW q \in Queues, ToggleStatus(q) \/ ChangeMasks(q)
      PROVE  TypeOK'
  BY <1>22 DEF ToggleStatus, ChangeMasks, ringVars, countVars, coreVars, sendVars
<1>23. CASE UNCHANGED vars
  BY <1>23 DEF vars, ringVars, countVars, coreVars, sendVars
<1>24. QED
  BY <1>1, <1>2, <1>3, <1>4, <1>5, <1>6, <1>7, <1>8, <1>9, <1>10, <1>11, <1>12,
     <1>13, <1>14, <1>15, <1>16, <1>17, <1>18, <1>19, <1>20, <1>21, <1>22, <1>23
  DEF Next, AppStep, EMStep

-----------------------------------------------------------------------------
(* Local states *)

(* Every step keeps each core's local state in the shape its control point asks*)
(* for.                                                                       *)
LEMMA ShapeStep ==
  ASSUME IInv, [Next]_vars, NEW d \in Cores
  PROVE  Shape(d)'
<1> USE DEF IInv, TypeOK, ControlPoints, Goto
<1>0. Shape(d)
  OBVIOUS
<1>1. ASSUME NEW c \in Cores, NEW e \in Events, Alloc(c, e)
      PROVE  Shape(d)'
  BY <1>0, <1>1 DEF Shape, Alloc, countVars, coreVars, sendVars
<1>2. ASSUME NEW c \in Cores, NEW e \in Events, Free(c, e)
      PROVE  Shape(d)'
  BY <1>0, <1>2 DEF Shape, Free, PoolPut, countVars, coreVars, sendVars
<1>3. ASSUME NEW c \in Cores, NEW e \in Events, NEW q \in Queues, Send(c, e, q)
      PROVE  Shape(d)'
  <2>1. CASE d # c
    BY <1>0, <1>3, <2>1 DEF Shape, Send, RingEnqueue, coreVars
  <2>2. CASE d = c
    BY <1>0, <1>3, <2>2 DEF Shape, Send, AppRuns, RingEnqueue, coreVars
  <2>3. QED
    BY <2>1, <2>2
<1>4. ASSUME NEW c \in Cores, NEW e \in Events, NEW q \in Queues, SendFails(c, e, q)
      PROVE  Shape(d)'
  BY <1>0, <1>4 DEF Shape, SendFails, countVars, coreVars, sendVars
<1>5. ASSUME NEW c \in Cores, NEW e \in Events, NEW q \in Queues, Receive(c, e, q)
      PROVE  Shape(d)'
  BY <1>0, <1>5 DEF Shape, Receive, RingEnqueue, countVars, coreVars, sendVars
<1>6. ASSUME NEW c \in Cores, NEW e \in Events, NEW q \in Queues, ReceiveDirect(c, e, q)
      PROVE  Shape(d)'
  BY <1>0, <1>6 DEF Shape, ReceiveDirect, countVars, coreVars, sendVars
<1>7. ASSUME NEW c \in Cores, CountEvent(c)
      PROVE  Shape(d)'
  <2>1. CASE d # c
    BY <1>0, <1>7, <2>1 DEF Shape, CountEvent, SendReturns, coreVars
  <2>2. CASE d = c /\ Goto(c, "tas") /\ UNCHANGED dstQ
    BY <1>0, <1>7, <2>2 DEF Shape, CountEvent, coreVars
  <2>3. CASE d = c /\ SendReturns(c)
    BY <1>0, <1>7, <2>3 DEF Shape, CountEvent, SendReturns, coreVars
  <2>4. QED
    BY <1>7, <2>1, <2>2, <2>3 DEF CountEvent
<1>8. ASSUME NEW c \in Cores, TestAndSet(c)
      PROVE  Shape(d)'
  <2>1. CASE d # c
    BY <1>0, <1>8, <2>1 DEF Shape, TestAndSet, SendReturns, coreVars
  <2>2. CASE d = c /\ Goto(c, "push") /\ UNCHANGED dstQ
    BY <1>0, <1>8, <2>2 DEF Shape, TestAndSet, coreVars
  <2>3. CASE d = c /\ SendReturns(c)
    BY <1>0, <1>8, <2>3 DEF Shape, TestAndSet, SendReturns, coreVars
  <2>4. QED
    BY <1>8, <2>1, <2>2, <2>3 DEF TestAndSet
<1>9. ASSUME NEW c \in Cores, Push(c)
      PROVE  Shape(d)'
  BY <1>0, <1>9 DEF Shape, Push, SendReturns, countVars, coreVars, sendVars
<1>10. ASSUME NEW c \in Cores, GrabContext(c)
      PROVE  Shape(d)'
  BY <1>0, <1>10 DEF Shape, GrabContext, countVars, coreVars, sendVars
<1>11. ASSUME NEW c \in Cores, GrabFails(c)
      PROVE  Shape(d)'
  <2>1. CASE d # c
    <3>1. /\ pc'[d] = pc[d] /\ dstQ'[d] = dstQ[d] /\ batch'[d] = batch[d]
          /\ held' = held /\ current' = current
      BY <1>11, <2>1 DEF GrabFails, RingEnqueue, SendReturns
    <3>2. QED
      BY <1>0, <3>1 DEF Shape
  <2>2. CASE d = c /\ RingEnqueue(c, Head(batch[c]), dstQ[c], NoQueue)
    BY <1>0, <1>11, <2>2 DEF Shape, GrabFails, RingEnqueue
  <2>3. CASE d = c /\ SendReturns(c)
    BY <1>0, <1>11, <2>3 DEF Shape, GrabFails, SendReturns
  <2>4. QED
    BY <1>11, <2>1, <2>2, <2>3 DEF GrabFails
<1>12. ASSUME NEW c \in Cores, Schedule(c)
      PROVE  Shape(d)'
  <2>1. CASE d # c
    BY <1>0, <1>12, <2>1 DEF Shape, Schedule, sendVars
  <2>2. CASE d = c
    <3>1. held'[c] # <<>>
      <4> DEFINE n == IF Len(schedQ) < MaxQBulk THEN Len(schedQ) ELSE MaxQBulk
      <4>1. n \in 0..Len(schedQ) /\ n # 0
        BY <1>12, TailFacts, BurstFacts, ConstantsAssumption DEF Schedule
      <4>2. Len(SubSeq(schedQ, 1, n)) = n
        BY <4>1, CutFacts
      <4>3. held'[c] = SubSeq(schedQ, 1, n)
        BY <1>12 DEF Schedule
      <4>4. SubSeq(schedQ, 1, n) # <<>>
        BY <4>1, <4>2
      <4>5. QED
        BY <4>3, <4>4
    <3>2. QED
      BY <1>0, <1>12, <2>2, <3>1 DEF Shape, Schedule, sendVars
  <2>3. QED
    BY <2>1, <2>2
<1>13. ASSUME NEW c \in Cores, ReadCount(c)
      PROVE  Shape(d)'
  BY <1>0, <1>13 DEF Shape, ReadCount, countVars, coreVars, sendVars
<1>14. ASSUME NEW c \in Cores, TakeEvents(c)
      PROVE  Shape(d)'
  BY <1>0, <1>14 DEF Shape, TakeEvents, countVars, coreVars, sendVars
<1>15. ASSUME NEW c \in Cores, Dispatch(c)
      PROVE  Shape(d)'
  <2>1. CASE d # c
    BY <1>0, <1>15, <2>1 DEF Shape, Dispatch, sendVars
  <2>2. CASE d = c
    <3>1. held[c] # <<>> /\ Head(held[c]) \in Queues
      BY <1>0, <1>15, <2>2 DEF Dispatch, Shape
    <3>2. QED
      BY <1>0, <1>15, <2>2, <3>1, ConstantsAssumption DEF Shape, Dispatch, sendVars
  <2>3. QED
    BY <2>1, <2>2
<1>16. ASSUME NEW c \in Cores, DropEvent(c)
      PROVE  Shape(d)'
  BY <1>0, <1>16 DEF Shape, DropEvent, PoolPut, countVars, coreVars, sendVars
<1>17. ASSUME NEW c \in Cores, ReceiveReturns(c)
      PROVE  Shape(d)'
  BY <1>0, <1>17 DEF Shape, ReceiveReturns, countVars, coreVars, sendVars
<1>18. ASSUME NEW c \in Cores, Subtract(c)
      PROVE  Shape(d)'
  BY <1>0, <1>18 DEF Shape, Subtract, countVars, coreVars, sendVars
<1>19. ASSUME NEW c \in Cores, Release(c)
      PROVE  Shape(d)'
  <2>1. CASE d # c
    BY <1>0, <1>19, <2>1 DEF Shape, Release, NextElement, sendVars
  <2>2. CASE d = c
    <3>1. held[c] # <<>> /\ current[c] = NoQueue /\ held[c] \in Seq(Queues)
      BY <1>0, <1>19, <2>2 DEF Release, Shape
    <3>2. IF Len(held[c]) > 1 THEN Tail(held[c]) # <<>> ELSE Tail(held[c]) = <<>>
      BY <3>1, TailFacts
    <3>3. /\ held \in [Cores -> Seq(Queues)] /\ pc \in [Cores -> ControlPoints]
          /\ current' = current
      BY <1>19 DEF Release
    <3> HIDE DEF IInv, TypeOK, ControlPoints
    <3>4. held'[c] = Tail(held[c]) /\ current'[c] = NoQueue
      BY <1>19, <3>1, <3>3 DEF Release, NextElement
    <3>5. pc'[c] = IF Len(held[c]) > 1 THEN "count" ELSE "idle"
      BY <1>19, <3>3 DEF Release, NextElement
    <3>6. QED
      BY <2>2, <3>2, <3>4, <3>5 DEF Shape
  <2>3. QED
    BY <2>1, <2>2
<1>20. ASSUME NEW c \in Cores, ReleaseFails(c)
      PROVE  Shape(d)'
  BY <1>0, <1>20 DEF Shape, ReleaseFails, countVars, coreVars, sendVars
<1>21. ASSUME NEW c \in Cores, Reschedule(c)
      PROVE  Shape(d)'
  <2>1. CASE d # c
    BY <1>0, <1>21, <2>1 DEF Shape, Reschedule, NextElement, sendVars
  <2>2. CASE d = c
    <3>1. held[c] # <<>> /\ current[c] = NoQueue /\ held[c] \in Seq(Queues)
      BY <1>0, <1>21, <2>2 DEF Reschedule, Shape
    <3>2. IF Len(held[c]) > 1 THEN Tail(held[c]) # <<>> ELSE Tail(held[c]) = <<>>
      BY <3>1, TailFacts
    <3>3. /\ held \in [Cores -> Seq(Queues)] /\ pc \in [Cores -> ControlPoints]
          /\ current' = current
      BY <1>21 DEF Reschedule
    <3> HIDE DEF IInv, TypeOK, ControlPoints
    <3>4. held'[c] = Tail(held[c]) /\ current'[c] = NoQueue
      BY <1>21, <3>1, <3>3 DEF Reschedule, NextElement
    <3>5. pc'[c] = IF Len(held[c]) > 1 THEN "count" ELSE "idle"
      BY <1>21, <3>3 DEF Reschedule, NextElement
    <3>6. QED
      BY <2>2, <3>2, <3>4, <3>5 DEF Shape
  <2>3. QED
    BY <2>1, <2>2
<1>22. ASSUME NEW q \in Queues, ToggleStatus(q) \/ ChangeMasks(q)
      PROVE  Shape(d)'
  BY <1>0, <1>22 DEF Shape, ToggleStatus, ChangeMasks, coreVars, sendVars
<1>23. CASE UNCHANGED vars
  BY <1>0, <1>23 DEF Shape, vars, coreVars, sendVars
<1>24. QED
  BY <1>1, <1>2, <1>3, <1>4, <1>5, <1>6, <1>7, <1>8, <1>9, <1>10, <1>11, <1>12,
     <1>13, <1>14, <1>15, <1>16, <1>17, <1>18, <1>19, <1>20, <1>21, <1>22, <1>23
  DEF Next, AppStep, EMStep

-----------------------------------------------------------------------------
(* Counts *)

(* Every step keeps event_count at least as large as what the core in the     *)
(* queue's context has taken of it.                                           *)
LEMMA TakenStep ==
  ASSUME IInv, [Next]_vars, NEW d \in Cores
  PROVE  TakenCounted(d)'
<1> USE DEF IInv, TypeOK, ControlPoints, Goto
<1>0. Shape(d) /\ TakenCounted(d)
  OBVIOUS
<1>a. ASSUME taken'[d] = 0
      PROVE  TakenCounted(d)'
  <2>1. TypeOK'
    BY TypeStep
  <2>2. held'[d] # <<>> => Head(held'[d]) \in Queues
    BY <2>1, TailFacts
  <2>3. held'[d] # <<>> => 0 <= eventCount'[Head(held'[d])]
    BY <2>1, <2>2
  <2>4. QED
    BY <1>a, <2>3 DEF TakenCounted
<1>b. held[d] # <<>> => Head(held[d]) \in Queues
  BY TailFacts
<1>1. ASSUME NEW c \in Cores, NEW e \in Events, Alloc(c, e)
      PROVE  TakenCounted(d)'
  BY <1>0, <1>1 DEF Shape, TakenCounted, Alloc, countVars, coreVars
<1>2. ASSUME NEW c \in Cores, NEW e \in Events, Free(c, e)
      PROVE  TakenCounted(d)'
  BY <1>0, <1>2 DEF Shape, TakenCounted, Free, countVars, coreVars
<1>3. ASSUME NEW c \in Cores, NEW e \in Events, NEW q \in Queues, Send(c, e, q)
      PROVE  TakenCounted(d)'
  BY <1>0, <1>3 DEF Shape, TakenCounted, Send, RingEnqueue, countVars, coreVars
<1>4. ASSUME NEW c \in Cores, NEW e \in Events, NEW q \in Queues, SendFails(c, e, q)
      PROVE  TakenCounted(d)'
  BY <1>0, <1>4 DEF Shape, TakenCounted, SendFails, countVars, coreVars
<1>5. ASSUME NEW c \in Cores, NEW e \in Events, NEW q \in Queues, Receive(c, e, q)
      PROVE  TakenCounted(d)'
  BY <1>0, <1>5 DEF Shape, TakenCounted, Receive, RingEnqueue, countVars, coreVars
<1>6. ASSUME NEW c \in Cores, NEW e \in Events, NEW q \in Queues, ReceiveDirect(c, e, q)
      PROVE  TakenCounted(d)'
  BY <1>0, <1>6 DEF Shape, TakenCounted, ReceiveDirect, countVars, coreVars
<1>7. ASSUME NEW c \in Cores, CountEvent(c)
      PROVE  TakenCounted(d)'
  <2>1. dstQ[c] \in Queues /\ taken' = taken /\ held' = held
    BY <1>7 DEF CountEvent, Shape, coreVars
  <2>2. pc'[d] \in {"count", "cas", "resched"} => pc[d] \in {"count", "cas", "resched"}
    BY <1>7 DEF CountEvent, SendReturns
  <2>3. held[d] # <<>> => eventCount[Head(held[d])] <= eventCount'[Head(held[d])]
    BY <1>7, <1>b, <2>1 DEF CountEvent
  <2>4. ASSUME held[d] # <<>>
        PROVE  taken[d] <= eventCount'[Head(held[d])]
    <3>1. TypeOK'
      BY TypeStep
    <3>2. /\ taken[d] \in Nat /\ eventCount[Head(held[d])] \in Nat
          /\ eventCount'[Head(held[d])] \in Nat
      BY <1>b, <2>4, <3>1
    <3>3. taken[d] <= eventCount[Head(held[d])]
      BY <1>0, <2>4 DEF TakenCounted
    <3>4. QED
      BY <2>3, <2>4, <3>2, <3>3
  <2>5. QED
    BY <1>0, <2>1, <2>2, <2>4 DEF TakenCounted
<1>8. ASSUME NEW c \in Cores, TestAndSet(c)
      PROVE  TakenCounted(d)'
  <2>1. held' = held /\ taken' = taken /\ eventCount' = eventCount
    BY <1>8 DEF TestAndSet, coreVars
  <2>2. pc'[d] \in {"count", "cas", "resched"} => pc[d] \in {"count", "cas", "resched"}
    BY <1>8 DEF TestAndSet, SendReturns
  <2>3. QED
    BY <1>0, <2>1, <2>2 DEF TakenCounted
<1>9. ASSUME NEW c \in Cores, Push(c)
      PROVE  TakenCounted(d)'
  BY <1>0, <1>9 DEF Shape, TakenCounted, Push, SendReturns, countVars, coreVars
<1>10. ASSUME NEW c \in Cores, GrabContext(c)
      PROVE  TakenCounted(d)'
  BY <1>0, <1>10 DEF Shape, TakenCounted, GrabContext, countVars, coreVars
<1>11. ASSUME NEW c \in Cores, GrabFails(c)
      PROVE  TakenCounted(d)'
  BY <1>0, <1>11 DEF Shape, TakenCounted, GrabFails, RingEnqueue, SendReturns, countVars, coreVars
<1>12. ASSUME NEW c \in Cores, Schedule(c)
      PROVE  TakenCounted(d)'
  <2>1. taken'[c] = 0 /\ taken' = taken
    BY <1>12 DEF Schedule, Shape, TakenCounted
  <2>2. CASE d # c
    <3>1. held'[d] = held[d] /\ pc'[d] = pc[d] /\ eventCount' = eventCount
      BY <1>12, <2>2 DEF Schedule, countVars
    <3>2. QED
      BY <1>0, <2>1, <3>1 DEF TakenCounted
  <2>3. QED
    BY <1>a, <2>1, <2>2
<1>13. ASSUME NEW c \in Cores, ReadCount(c)
      PROVE  TakenCounted(d)'
  <2>1. CASE d # c
    <3>1. held'[d] = held[d] /\ pc'[d] = pc[d] /\ taken'[d] = taken[d] /\ eventCount' = eventCount
      BY <1>13, <2>1 DEF ReadCount, countVars
    <3>2. QED
      BY <1>0, <3>1 DEF TakenCounted
  <2>2. CASE d = c
    <3>1. held[c] # <<>> /\ held'[c] = held[c] /\ pc'[c] = "take" /\ eventCount' = eventCount
      BY <1>0, <1>13, <2>2 DEF ReadCount, Shape, countVars
    <3>2. /\ taken'[c] = IF eventCount[Head(held[c])] < MaxEBulk
                          THEN eventCount[Head(held[c])] ELSE MaxEBulk
          /\ eventCount[Head(held[c])] \in Nat
      BY <1>13, <1>b, <2>2, <3>1 DEF ReadCount
    <3>3. taken'[c] <= eventCount[Head(held[c])]
      BY <3>2, ConstantsAssumption
    <3>4. QED
      BY <2>2, <3>1, <3>3 DEF TakenCounted
  <2>3. QED
    BY <2>1, <2>2
<1>14. ASSUME NEW c \in Cores, TakeEvents(c)
      PROVE  TakenCounted(d)'
  BY <1>0, <1>14 DEF Shape, TakenCounted, TakeEvents, countVars, coreVars
<1>15. ASSUME NEW c \in Cores, Dispatch(c)
      PROVE  TakenCounted(d)'
  BY <1>0, <1>15 DEF Shape, TakenCounted, Dispatch, countVars, coreVars
<1>16. ASSUME NEW c \in Cores, DropEvent(c)
      PROVE  TakenCounted(d)'
  BY <1>0, <1>16 DEF Shape, TakenCounted, DropEvent, countVars, coreVars
<1>17. ASSUME NEW c \in Cores, ReceiveReturns(c)
      PROVE  TakenCounted(d)'
  BY <1>0, <1>17 DEF Shape, TakenCounted, ReceiveReturns, countVars, coreVars
<1>18. ASSUME NEW c \in Cores, Subtract(c)
      PROVE  TakenCounted(d)'
  <2>1. CASE d # c
    <3>1. held'[d] = held[d] /\ pc'[d] = pc[d] /\ taken'[d] = taken[d]
      BY <1>18, <2>1 DEF Subtract
    <3>2. ASSUME held[d] # <<>>
          PROVE  eventCount'[Head(held[d])] = eventCount[Head(held[d])]
      <4>1. held[c] # <<>> /\ Head(held[c]) \in Queues
        BY <1>18, TailFacts DEF Subtract, Shape
      <4>2. Owns(c, Head(held[c])) /\ Owns(d, Head(held[d]))
        BY <3>2, <4>1, TailFacts DEF Owns
      <4>3. Head(held[d]) # Head(held[c])
        BY <1>b, <2>1, <3>2, <4>1, <4>2 DEF OneElement
      <4>4. QED
        BY <1>18, <1>b, <3>2, <4>1, <4>3 DEF Subtract
    <3>3. QED
      BY <1>0, <3>1, <3>2 DEF TakenCounted
  <2>2. taken'[c] = 0
    BY <1>18 DEF Subtract
  <2>3. QED
    BY <1>a, <2>1, <2>2
<1>19. ASSUME NEW c \in Cores, Release(c)
      PROVE  TakenCounted(d)'
  <2>1. taken'[c] = 0 /\ taken' = taken
    BY <1>19 DEF Release, Shape, TakenCounted
  <2>2. CASE d # c
    <3>1. held'[d] = held[d] /\ pc'[d] = pc[d] /\ eventCount' = eventCount
      BY <1>19, <2>2 DEF Release, NextElement
    <3>2. QED
      BY <1>0, <2>1, <3>1 DEF TakenCounted
  <2>3. QED
    BY <1>a, <2>1, <2>2
<1>20. ASSUME NEW c \in Cores, ReleaseFails(c)
      PROVE  TakenCounted(d)'
  BY <1>0, <1>20 DEF Shape, TakenCounted, ReleaseFails, countVars, coreVars
<1>21. ASSUME NEW c \in Cores, Reschedule(c)
      PROVE  TakenCounted(d)'
  <2>1. taken'[c] = 0 /\ taken' = taken
    BY <1>21 DEF Reschedule, Shape, TakenCounted
  <2>2. CASE d # c
    <3>1. held'[d] = held[d] /\ pc'[d] = pc[d] /\ eventCount' = eventCount
      BY <1>21, <2>2 DEF Reschedule, NextElement, countVars
    <3>2. QED
      BY <1>0, <2>1, <3>1 DEF TakenCounted
  <2>3. QED
    BY <1>a, <2>1, <2>2
<1>22. ASSUME NEW q \in Queues, ToggleStatus(q) \/ ChangeMasks(q)
      PROVE  TakenCounted(d)'
  BY <1>0, <1>22 DEF TakenCounted, ToggleStatus, ChangeMasks, countVars, coreVars
<1>23. CASE UNCHANGED vars
  BY <1>0, <1>23 DEF TakenCounted, vars, countVars, coreVars
<1>24. QED
  BY <1>1, <1>2, <1>3, <1>4, <1>5, <1>6, <1>7, <1>8, <1>9, <1>10, <1>11, <1>12,
     <1>13, <1>14, <1>15, <1>16, <1>17, <1>18, <1>19, <1>20, <1>21, <1>22, <1>23
  DEF Next, AppStep, EMStep

-----------------------------------------------------------------------------
(* Queue elements *)

(* A step that leaves the sched-queue, the burst elements and the marks alone,  *)
(* and brings no sender to its push.                                           *)
LEMMA QuietElements ==
  ASSUME OneElement, ElementIsMarked,
         schedQ' = schedQ, held' = held, schedCount' = schedCount,
         \A c \in Cores : pc'[c] = "push" => pc[c] = "push" /\ dstQ'[c] = dstQ[c]
  PROVE  OneElement' /\ ElementIsMarked'
<1>1. \A c \in Cores : \A q \in Queues : Owns(c, q)' => Owns(c, q)
  BY DEF Owns
<1>2. \A q \in Queues : Scheduled(q)' => Scheduled(q)
  BY DEF Scheduled
<1>3. ElementIsMarked'
  BY <1>1, <1>2 DEF ElementIsMarked
<1>4. OneElement'
  BY <1>1, <1>2 DEF OneElement
<1>5. QED
  BY <1>3, <1>4

(* An unmarked queue's element is nowhere, so its sender may make it.           *)
LEMMA TestAndSetElements ==
  ASSUME IInv, NEW c \in Cores, TestAndSet(c)
  PROVE  OneElement' /\ ElementIsMarked'
<1> DEFINE q == dstQ[c]
<1>1. /\ q \in Queues /\ pc[c] = "tas"
      /\ schedQ' = schedQ /\ held' = held
      /\ OneElement /\ ElementIsMarked
  BY DEF IInv, Shape, TestAndSet, coreVars
<1>2. schedCount' = [schedCount EXCEPT ![q] = 1] /\ schedCount[q] \in {0, 1}
  BY <1>1 DEF IInv, TypeOK, TestAndSet
<1>3. CASE schedCount[q] = 1
  <2>1. schedCount' = schedCount
    BY <1>1, <1>2, <1>3 DEF IInv, TypeOK
  <2>2. \A d \in Cores : pc'[d] = "push" => pc[d] = "push" /\ dstQ'[d] = dstQ[d]
    BY <1>3 DEF IInv, TypeOK, TestAndSet, SendReturns, Goto
  <2>3. QED
    BY <1>1, <2>1, <2>2, QuietElements
<1>4. CASE schedCount[q] = 0
  <2>1. ~Scheduled(q) /\ \A d \in Cores : ~Owns(d, q)
    BY <1>1, <1>4 DEF ElementIsMarked
  <2>2. dstQ' = dstQ /\ pc' = [pc EXCEPT ![c] = "push"]
    BY <1>4 DEF TestAndSet, Goto
  <2>3. \A d \in Cores : pc'[d] = "push" <=> pc[d] = "push" \/ d = c
    BY <2>2 DEF IInv, TypeOK
  <2>4. \A d \in Cores, r \in Queues : Owns(d, r)' => Owns(d, r) \/ (d = c /\ r = q)
    BY <1>1, <2>2, <2>3 DEF Owns
  <2>5. \A r \in Queues : Scheduled(r)' => Scheduled(r)
    BY <1>1 DEF Scheduled
  <2>6. ElementIsMarked'
    BY <1>1, <1>2, <2>4, <2>5 DEF IInv, TypeOK, ElementIsMarked
  <2>7. \A i \in 1..Len(held[c]) : held[c][i] # q
    BY <2>1 DEF Owns
  <2>8. OneElement'
    BY <1>1, <2>1, <2>2, <2>3, <2>4, <2>5, <2>7 DEF OneElement
  <2>9. QED
    BY <2>6, <2>8
<1>5. QED
  BY <1>2, <1>3, <1>4

(* A marked queue's element goes from a sender to the end of the sched-queue.   *)
LEMMA PushElements ==
  ASSUME IInv, NEW c \in Cores, Push(c)
  PROVE  OneElement' /\ ElementIsMarked'
<1>0. PICK q \in Queues : q = dstQ[c]
  BY DEF IInv, Shape, Push
<1>1. /\ q = dstQ[c] /\ pc[c] = "push" /\ schedQ \in Seq(Queues)
      /\ schedCount' = schedCount /\ held' = held
      /\ OneElement /\ ElementIsMarked
  BY <1>0 DEF IInv, TypeOK, Shape, Push, countVars, coreVars
<1>2. pc'[c] # "push" /\ \A d \in Cores : d # c => pc'[d] = pc[d] /\ dstQ'[d] = dstQ[d]
  BY DEF IInv, TypeOK, Push, SendReturns, Goto
<1>3. Owns(c, q) /\ ~Scheduled(q) /\ schedCount[q] = 1
  BY <1>1 DEF Owns, OneElement, ElementIsMarked
<1>4. \A i \in 1..Len(held[c]) : held[c][i] # q
  BY <1>1 DEF OneElement
<1>5. \A d \in Cores, r \in Queues : Owns(d, r)' => Owns(d, r) /\ r # q
  <2>1. ASSUME NEW d \in Cores, NEW r \in Queues, Owns(d, r)'
        PROVE  Owns(d, r)
    BY <1>1, <1>2, <2>1 DEF Owns
  <2>2. ~Owns(c, q)'
    BY <1>1, <1>2, <1>4 DEF Owns
  <2>3. QED
    BY <1>1, <1>3, <2>1, <2>2 DEF OneElement
<1>6. schedQ' = schedQ \/ schedQ' = Append(schedQ, q)
  BY <1>1 DEF Push, SchedEnqueue
<1>7. \A r \in Queues : Scheduled(r)' => Scheduled(r) \/ r = q
  BY <1>1, <1>6, AppendFacts DEF Scheduled
<1>8. \A i, j \in 1..Len(schedQ') : schedQ'[i] = schedQ'[j] => i = j
  <2>1. \A i, j \in 1..Len(schedQ) : schedQ[i] = schedQ[j] => i = j
    BY <1>1 DEF OneElement
  <2>2. CASE schedQ' = schedQ
    BY <2>1, <2>2
  <2>3. CASE schedQ' = Append(schedQ, q)
    <3>1. \A i \in 1..Len(schedQ) : schedQ[i] # q
      BY <1>3 DEF Scheduled
    <3>2. /\ Len(schedQ') = Len(schedQ) + 1 /\ Len(schedQ) \in Nat
          /\ \A i \in 1..Len(schedQ) : schedQ'[i] = schedQ[i]
          /\ schedQ'[Len(schedQ) + 1] = q
      BY <1>1, <2>3, AppendFacts
    <3>3. \A i \in 1..Len(schedQ') : i \in 1..Len(schedQ) \/ i = Len(schedQ) + 1
      BY <3>2
    <3>4. QED
      BY <2>1, <3>1, <3>2, <3>3
  <2>4. QED
    BY <1>6, <2>2, <2>3
<1>9. ElementIsMarked'
  BY <1>1, <1>3, <1>5, <1>7 DEF ElementIsMarked
<1>10. \A d \in Cores : pc'[d] = "push" => \A i \in 1..Len(held'[d]) : held'[d][i] # dstQ'[d]
  BY <1>1, <1>2 DEF OneElement
<1>11. OneElement'
  BY <1>1, <1>5, <1>7, <1>8, <1>10 DEF OneElement
<1>12. QED
  BY <1>9, <1>11

(* Direct dispatch makes the element of an unmarked queue in the core's hands.  *)
LEMMA GrabElements ==
  ASSUME IInv, NEW c \in Cores, GrabContext(c)
  PROVE  OneElement' /\ ElementIsMarked'
<1>0. PICK q \in Queues : q = dstQ[c]
  BY DEF IInv, Shape, GrabContext
<1>1. /\ pc[c] = "grab" /\ schedCount[q] = 0 /\ held[c] = <<>>
      /\ schedQ' = schedQ
      /\ schedCount' = [schedCount EXCEPT ![q] = 1]
      /\ held' = [held EXCEPT ![c] = <<q>>]
      /\ OneElement /\ ElementIsMarked
      /\ held \in [Cores -> Seq(Queues)] /\ schedCount \in [Queues -> {0, 1}]
  BY <1>0 DEF IInv, TypeOK, Shape, GrabContext
<1>2. /\ pc'[c] = "loop"
      /\ \A d \in Cores : d # c => pc'[d] = pc[d] /\ dstQ'[d] = dstQ[d] /\ held'[d] = held[d]
  BY DEF IInv, TypeOK, GrabContext, Goto
<1>3. ~Scheduled(q) /\ \A d \in Cores : ~Owns(d, q)
  BY <1>1 DEF ElementIsMarked
<1>4. held'[c] = <<q>> /\ Len(<<q>>) = 1 /\ \A i \in 1..Len(<<q>>) : i = 1 /\ <<q>>[i] = q
  BY <1>1
<1>5. \A d \in Cores, r \in Queues : Owns(d, r)' => Owns(d, r) \/ (d = c /\ r = q)
  BY <1>2, <1>4 DEF Owns
<1>6. \A r \in Queues : Scheduled(r)' => Scheduled(r)
  BY <1>1 DEF Scheduled
<1>7. ~Owns(c, q) /\ \A r \in Queues : Owns(c, r)' => r = q
  BY <1>2, <1>3, <1>4 DEF Owns
<1>8. ElementIsMarked'
  BY <1>1, <1>5, <1>6 DEF ElementIsMarked
<1>9. OneElement'
  <2>1. \A i, j \in 1..Len(schedQ') : schedQ'[i] = schedQ'[j] => i = j
    BY <1>1 DEF OneElement
  <2>2. \A d \in Cores : \A i, j \in 1..Len(held'[d]) : held'[d][i] = held'[d][j] => i = j
    <3>1. ASSUME NEW d \in Cores, d # c
          PROVE  \A i, j \in 1..Len(held'[d]) : held'[d][i] = held'[d][j] => i = j
      BY <1>1, <1>2, <3>1 DEF OneElement
    <3>2. \A i, j \in 1..Len(held'[c]) : held'[c][i] = held'[c][j] => i = j
      BY <1>4
    <3>3. QED
      BY <3>1, <3>2
  <2>3. \A d \in Cores : pc'[d] = "push" => \A i \in 1..Len(held'[d]) : held'[d][i] # dstQ'[d]
    <3>1. \A d \in Cores : pc'[d] = "push" => d # c
      BY <1>2
    <3>2. \A d \in Cores : pc[d] = "push" => \A i \in 1..Len(held[d]) : held[d][i] # dstQ[d]
      BY <1>1 DEF OneElement
    <3>3. QED
      BY <1>2, <3>1, <3>2
  <2>4. \A b, d \in Cores : \A r \in Queues : Owns(b, r)' /\ Owns(d, r)' => b = d
    BY <1>1, <1>3, <1>5 DEF OneElement
  <2>5. \A d \in Cores : \A r \in Queues : Owns(d, r)' => ~Scheduled(r)'
    BY <1>1, <1>3, <1>5, <1>6 DEF OneElement
  <2>6. QED
    BY <2>1, <2>2, <2>3, <2>4, <2>5 DEF OneElement
<1>10. QED
  BY <1>8, <1>9

(* A burst of elements goes from the sched-queue to an idle core.               *)
LEMMA ScheduleElements ==
  ASSUME IInv, NEW c \in Cores, Schedule(c)
  PROVE  OneElement' /\ ElementIsMarked'
<1>0. PICK n \in 0..Len(schedQ) :
        /\ held' = [held EXCEPT ![c] = SubSeq(schedQ, 1, n)]
        /\ schedQ' = SubSeq(schedQ, n + 1, Len(schedQ))
  <2>1. schedQ # <<>> /\ schedQ \in Seq(Queues)
    BY DEF IInv, TypeOK, Schedule
  <2>2. (IF Len(schedQ) < MaxQBulk THEN Len(schedQ) ELSE MaxQBulk) \in 0..Len(schedQ)
    BY <2>1, TailFacts, BurstFacts, ConstantsAssumption
  <2>3. QED
    BY <2>2 DEF Schedule
<1>1. /\ pc[c] = "idle" /\ held[c] = <<>> /\ schedCount' = schedCount /\ dstQ' = dstQ
      /\ OneElement /\ ElementIsMarked
      /\ held \in [Cores -> Seq(Queues)] /\ schedQ \in Seq(Queues)
  BY DEF IInv, TypeOK, Shape, Schedule, countVars, sendVars
<1>2. /\ pc'[c] = "count"
      /\ \A d \in Cores : d # c => pc'[d] = pc[d] /\ held'[d] = held[d]
  BY <1>0 DEF IInv, TypeOK, Schedule, Goto
<1>3. /\ Len(schedQ) \in Nat
      /\ Len(held'[c]) = n /\ \A i \in 1..n : held'[c][i] = schedQ[i]
      /\ Len(schedQ') = Len(schedQ) - n
      /\ \A i \in 1..(Len(schedQ) - n) : schedQ'[i] = schedQ[n + i]
  BY <1>0, <1>1, CutFacts
<1>4. \A r \in Queues : Owns(c, r)' => \E i \in 1..n : schedQ[i] = r
  BY <1>2, <1>3 DEF Owns
<1>5. \A r \in Queues : Scheduled(r)' => \E i \in 1..Len(schedQ) : i > n /\ schedQ[i] = r
  <2>1. \A i \in 1..(Len(schedQ) - n) : n + i \in 1..Len(schedQ) /\ n + i > n
    BY <1>3
  <2>2. QED
    BY <1>3, <2>1 DEF Scheduled
<1>6. \A d \in Cores, r \in Queues : d # c /\ Owns(d, r)' => Owns(d, r)
  BY <1>1, <1>2 DEF Owns
<1>7. \A r \in Queues : Owns(c, r)' => Scheduled(r)
  <2>1. 1..n \subseteq 1..Len(schedQ)
    BY <1>3
  <2>2. QED
    BY <1>4, <2>1 DEF Scheduled
<1>8. \A r \in Queues : Scheduled(r)' => Scheduled(r)
  BY <1>5 DEF Scheduled
<1>9. ElementIsMarked'
  BY <1>1, <1>6, <1>7, <1>8 DEF ElementIsMarked
<1>10. OneElement'
  <2>1. \A i, j \in 1..Len(schedQ') : schedQ'[i] = schedQ'[j] => i = j
    <3>1. SUFFICES ASSUME NEW i \in 1..Len(schedQ'), NEW j \in 1..Len(schedQ'),
                          schedQ'[i] = schedQ'[j]
                   PROVE  i = j
      OBVIOUS
    <3>2. n + i \in 1..Len(schedQ) /\ n + j \in 1..Len(schedQ)
      BY <1>3
    <3>3. schedQ[n + i] = schedQ[n + j]
      BY <1>3, <3>1
    <3>4. n + i = n + j
      BY <1>1, <3>2, <3>3 DEF OneElement
    <3>5. QED
      BY <1>3, <3>4
  <2>2. \A d \in Cores : \A i, j \in 1..Len(held'[d]) : held'[d][i] = held'[d][j] => i = j
    <3>1. \A i, j \in 1..n : schedQ[i] = schedQ[j] => i = j
      BY <1>1, <1>3 DEF OneElement
    <3>2. QED
      BY <1>1, <1>2, <1>3, <3>1 DEF OneElement
  <2>3. \A d \in Cores : pc'[d] = "push" => \A i \in 1..Len(held'[d]) : held'[d][i] # dstQ'[d]
    BY <1>1, <1>2 DEF OneElement
  <2>4. \A b, d \in Cores : \A r \in Queues : Owns(b, r)' /\ Owns(d, r)' => b = d
    <3>1. SUFFICES ASSUME NEW b \in Cores, NEW d \in Cores, NEW r \in Queues,
                          Owns(b, r)', Owns(d, r)', b # d
                   PROVE  FALSE
      OBVIOUS
    <3>2. CASE b # c /\ d # c
      BY <1>1, <1>6, <3>1, <3>2 DEF OneElement
    <3>3. CASE b = c \/ d = c
      <4>1. PICK x \in Cores : Owns(x, r)
        BY <1>6, <3>1, <3>3
      <4>2. Scheduled(r)
        BY <1>7, <3>1, <3>3
      <4>3. QED
        BY <1>1, <4>1, <4>2 DEF OneElement
    <3>4. QED
      BY <3>2, <3>3
  <2>5. \A d \in Cores : \A r \in Queues : Owns(d, r)' => ~Scheduled(r)'
    <3>1. ASSUME NEW r \in Queues, Owns(c, r)', Scheduled(r)'
          PROVE  FALSE
      <4>1. PICK i \in 1..n : schedQ[i] = r
        BY <1>4, <3>1
      <4>2. PICK j \in 1..Len(schedQ) : j > n /\ schedQ[j] = r
        BY <1>5, <3>1
      <4>3. i \in 1..Len(schedQ) /\ i # j
        BY <1>3, <4>2
      <4>4. QED
        BY <1>1, <4>1, <4>2, <4>3 DEF OneElement
    <3>2. QED
      BY <1>1, <1>6, <1>8, <3>1 DEF OneElement
  <2>6. QED
    BY <2>1, <2>2, <2>3, <2>4, <2>5 DEF OneElement
<1>11. QED
  BY <1>9, <1>10

(* The first element of a core's burst leaves it, for the sched-queue or, its   *)
(* mark cleared, for good.                                                     *)
LEMMA NextElements ==
  ASSUME IInv, NEW c \in Cores, NEW q \in Queues,
         held[c] # <<>>, q = Head(held[c]), pc[c] # "push",
         NextElement(c), dstQ' = dstQ,
         \/ UNCHANGED schedCount /\ (schedQ' = schedQ \/ schedQ' = Append(schedQ, q))
         \/ schedCount' = [schedCount EXCEPT ![q] = 0] /\ schedQ' = schedQ
  PROVE  OneElement' /\ ElementIsMarked'
<1>1. /\ OneElement /\ ElementIsMarked
      /\ held \in [Cores -> Seq(Queues)] /\ schedQ \in Seq(Queues)
      /\ schedCount \in [Queues -> {0, 1}]
  BY DEF IInv, TypeOK
<1>2. /\ held'[c] = Tail(held[c])
      /\ \A d \in Cores : d # c => pc'[d] = pc[d] /\ held'[d] = held[d]
  BY <1>1 DEF IInv, TypeOK, NextElement, Goto
<1>3. pc'[c] # "push"
  BY DEF IInv, TypeOK, NextElement, Goto
<1>4. /\ Len(held[c]) \in Nat \ {0} /\ held[c][1] = q
      /\ Len(held'[c]) = Len(held[c]) - 1
      /\ \A i \in 1..Len(held'[c]) : held'[c][i] = held[c][i + 1]
  BY <1>1, <1>2, TailFacts
<1>5. \A i \in 1..Len(held'[c]) : i + 1 \in 1..Len(held[c]) /\ i + 1 # 1
  BY <1>4
<1>6. Owns(c, q) /\ ~Scheduled(q) /\ schedCount[q] = 1
  BY <1>1, <1>4 DEF Owns, OneElement, ElementIsMarked
<1>7. \A i, j \in 1..Len(held[c]) : held[c][i] = held[c][j] => i = j
  BY <1>1 DEF OneElement
<1>8. \A i \in 1..Len(held'[c]) : held'[c][i] # q
  BY <1>4, <1>5, <1>7
<1>9. \A d \in Cores, r \in Queues : Owns(d, r)' => Owns(d, r) /\ r # q
  <2>1. ASSUME NEW r \in Queues, Owns(c, r)'
        PROVE  Owns(c, r) /\ r # q
    BY <1>3, <1>4, <1>5, <1>8, <2>1 DEF Owns
  <2>2. ASSUME NEW d \in Cores, d # c, NEW r \in Queues, Owns(d, r)'
        PROVE  Owns(d, r) /\ r # q
    <3>1. Owns(d, r)
      BY <1>2, <2>2 DEF Owns
    <3>2. QED
      BY <1>1, <1>6, <2>2, <3>1 DEF OneElement
  <2>3. QED
    BY <2>1, <2>2
<1>10. \A r \in Queues : Scheduled(r)' => Scheduled(r) \/ (r = q /\ schedCount' = schedCount)
  <2>1. CASE schedQ' = schedQ
    BY <2>1 DEF Scheduled
  <2>2. CASE schedQ' = Append(schedQ, q) /\ UNCHANGED schedCount
    <3>1. \A i \in 1..Len(schedQ') : (i \in 1..Len(schedQ) /\ schedQ'[i] = schedQ[i]) \/ schedQ'[i] = q
      BY <1>1, <2>2, AppendFacts
    <3>2. QED
      BY <2>2, <3>1 DEF Scheduled
  <2>3. QED
    BY <2>1, <2>2
<1>11. ElementIsMarked'
  BY <1>1, <1>6, <1>9, <1>10 DEF ElementIsMarked
<1>12. OneElement'
  <2>1. \A i, j \in 1..Len(schedQ') : schedQ'[i] = schedQ'[j] => i = j
    <3>1. CASE schedQ' = schedQ
      BY <1>1, <3>1 DEF OneElement
    <3>2. CASE schedQ' = Append(schedQ, q)
      BY <1>1, <1>6, <3>2, AppendFacts DEF Scheduled, OneElement
    <3>3. QED
      BY <3>1, <3>2
  <2>2. \A d \in Cores : \A i, j \in 1..Len(held'[d]) : held'[d][i] = held'[d][j] => i = j
    <3>1. ASSUME NEW i \in 1..Len(held'[c]), NEW j \in 1..Len(held'[c]), held'[c][i] = held'[c][j]
          PROVE  i = j
      <4>1. held[c][i + 1] = held[c][j + 1]
        BY <1>4, <3>1
      <4>2. i + 1 = j + 1
        BY <1>5, <1>7, <4>1
      <4>3. QED
        BY <1>4, <4>2
    <3>2. QED
      BY <1>1, <1>2, <3>1 DEF OneElement
  <2>3. \A d \in Cores : pc'[d] = "push" => \A i \in 1..Len(held'[d]) : held'[d][i] # dstQ'[d]
    <3>1. \A d \in Cores : pc[d] = "push" => \A i \in 1..Len(held[d]) : held[d][i] # dstQ[d]
      BY <1>1 DEF OneElement
    <3>2. QED
      BY <1>2, <1>3, <3>1
  <2>4. \A b, d \in Cores : \A r \in Queues : Owns(b, r)' /\ Owns(d, r)' => b = d
    BY <1>1, <1>9 DEF OneElement
  <2>5. \A d \in Cores : \A r \in Queues : Owns(d, r)' => ~Scheduled(r)'
    BY <1>1, <1>9, <1>10 DEF OneElement
  <2>6. QED
    BY <2>1, <2>2, <2>3, <2>4, <2>5 DEF OneElement
<1>13. QED
  BY <1>11, <1>12

(* Every step keeps one copy of every queue element, and a mark on each that is*)
(* somewhere.                                                                 *)
LEMMA ElementStep ==
  ASSUME IInv, [Next]_vars
  PROVE  OneElement' /\ ElementIsMarked'
<1> USE DEF Goto
<1>0. /\ OneElement /\ ElementIsMarked
      /\ held \in [Cores -> Seq(Queues)] /\ dstQ \in [Cores -> Queues \cup {NoQueue}]
      /\ pc \in [Cores -> ControlPoints]
  BY DEF IInv, TypeOK
<1> DEFINE Quiet == /\ schedQ' = schedQ /\ held' = held /\ schedCount' = schedCount
                    /\ \A c \in Cores : pc'[c] = "push" => pc[c] = "push" /\ dstQ'[c] = dstQ[c]
<1>q. ASSUME Quiet
      PROVE  OneElement' /\ ElementIsMarked'
  BY <1>0, <1>q, QuietElements
<1>1. ASSUME NEW c \in Cores, NEW e \in Events, Alloc(c, e)
      PROVE  Quiet
  BY <1>0, <1>1 DEF Alloc, countVars, coreVars, sendVars
<1>2. ASSUME NEW c \in Cores, NEW e \in Events, Free(c, e)
      PROVE  Quiet
  BY <1>0, <1>2 DEF Free, countVars, coreVars, sendVars
<1>3. ASSUME NEW c \in Cores, NEW e \in Events, NEW q \in Queues, Send(c, e, q)
      PROVE  Quiet
  BY <1>0, <1>3 DEF Send, RingEnqueue, countVars, coreVars, sendVars
<1>4. ASSUME NEW c \in Cores, NEW e \in Events, NEW q \in Queues, SendFails(c, e, q)
      PROVE  Quiet
  BY <1>0, <1>4 DEF SendFails, countVars, coreVars, sendVars
<1>5. ASSUME NEW c \in Cores, NEW e \in Events, NEW q \in Queues, Receive(c, e, q)
      PROVE  Quiet
  BY <1>0, <1>5 DEF Receive, RingEnqueue, countVars, coreVars, sendVars
<1>6. ASSUME NEW c \in Cores, NEW e \in Events, NEW q \in Queues, ReceiveDirect(c, e, q)
      PROVE  Quiet
  BY <1>0, <1>6 DEF ReceiveDirect, countVars, coreVars, sendVars
<1>7. ASSUME NEW c \in Cores, CountEvent(c)
      PROVE  Quiet
  BY <1>0, <1>7 DEF CountEvent, SendReturns, countVars, coreVars, sendVars
<1>8. ASSUME NEW c \in Cores, GrabFails(c)
      PROVE  Quiet
  BY <1>0, <1>8 DEF GrabFails, RingEnqueue, SendReturns, countVars, coreVars, sendVars
<1>9. ASSUME NEW c \in Cores, ReadCount(c)
      PROVE  Quiet
  BY <1>0, <1>9 DEF ReadCount, countVars, coreVars, sendVars
<1>10. ASSUME NEW c \in Cores, TakeEvents(c)
      PROVE  Quiet
  BY <1>0, <1>10 DEF TakeEvents, countVars, coreVars, sendVars
<1>11. ASSUME NEW c \in Cores, Dispatch(c)
      PROVE  Quiet
  BY <1>0, <1>11 DEF Dispatch, countVars, coreVars, sendVars
<1>12. ASSUME NEW c \in Cores, DropEvent(c)
      PROVE  Quiet
  BY <1>0, <1>12 DEF DropEvent, countVars, coreVars, sendVars
<1>13. ASSUME NEW c \in Cores, ReceiveReturns(c)
      PROVE  Quiet
  BY <1>0, <1>13 DEF ReceiveReturns, countVars, coreVars, sendVars
<1>14. ASSUME NEW c \in Cores, Subtract(c)
      PROVE  Quiet
  BY <1>0, <1>14 DEF Subtract, countVars, coreVars, sendVars
<1>15. ASSUME NEW c \in Cores, ReleaseFails(c)
      PROVE  Quiet
  BY <1>0, <1>15 DEF ReleaseFails, countVars, coreVars, sendVars
<1>16. ASSUME NEW q \in Queues, ToggleStatus(q) \/ ChangeMasks(q)
      PROVE  Quiet
  BY <1>0, <1>16 DEF ToggleStatus, ChangeMasks, countVars, coreVars, sendVars
<1>17. ASSUME UNCHANGED vars
      PROVE  Quiet
  BY <1>0, <1>17 DEF vars, countVars, coreVars, sendVars
<1>18. ASSUME NEW c \in Cores, Release(c)
      PROVE  OneElement' /\ ElementIsMarked'
  <2>1. held[c] # <<>> /\ Head(held[c]) \in Queues /\ pc[c] # "push"
    BY <1>18, TailFacts DEF IInv, TypeOK, Shape, Release
  <2>2. /\ schedCount' = [schedCount EXCEPT ![Head(held[c])] = 0]
        /\ schedQ' = schedQ /\ dstQ' = dstQ /\ NextElement(c)
    BY <1>18 DEF Release, sendVars
  <2>3. QED
    BY <2>1, <2>2, NextElements
<1>19. ASSUME NEW c \in Cores, Reschedule(c)
      PROVE  OneElement' /\ ElementIsMarked'
  <2>1. held[c] # <<>> /\ Head(held[c]) \in Queues /\ pc[c] # "push"
    BY <1>19, TailFacts DEF IInv, TypeOK, Shape, Reschedule
  <2>2. /\ schedQ' = schedQ \/ schedQ' = Append(schedQ, Head(held[c]))
        /\ UNCHANGED schedCount /\ dstQ' = dstQ /\ NextElement(c)
    BY <1>19 DEF Reschedule, SchedEnqueue, countVars, sendVars
  <2>3. QED
    BY <2>1, <2>2, NextElements
<1>20. QED
  <2> HIDE DEF Quiet
  <2>1. ASSUME NEW c \in Cores, AppStep(c) PROVE Quiet
    BY <2>1, <1>1, <1>2, <1>3, <1>4, <1>5, <1>6 DEF AppStep
  <2>2. ASSUME NEW c \in Cores, EMStep(c) PROVE OneElement' /\ ElementIsMarked'
    BY <2>2, <1>q, <1>7, <1>8, <1>9, <1>10, <1>11, <1>12, <1>14, <1>15, <1>18, <1>19,
       TestAndSetElements, PushElements, GrabElements DEF EMStep
  <2>3. QED
    BY <2>1, <2>2, <1>q, <1>13, <1>16, <1>17, ScheduleElements DEF Next

-----------------------------------------------------------------------------
(* Theorems *)

(* The inductive invariant holds in every reachable state.                    *)
LEMMA Invariance == Spec => []IInv
<1>1. Init => IInv
  <2> USE DEF Init
  <2>1. ASSUME Init PROVE TypeOK
    BY <2>1 DEF TypeOK, ControlPoints
  <2>2. ASSUME Init PROVE \A c \in Cores : Shape(c) /\ TakenCounted(c)
    BY <2>2 DEF Shape, TakenCounted
  <2>3. ASSUME Init PROVE OneElement /\ ElementIsMarked
    BY <2>3 DEF OneElement, ElementIsMarked, Owns, Scheduled
  <2>4. QED
    BY <2>1, <2>2, <2>3 DEF IInv
<1>2. IInv /\ [Next]_vars => IInv'
  BY TypeStep, ShapeStep, TakenStep, ElementStep DEF IInv
<1>3. QED
  BY <1>1, <1>2, PTL DEF Spec

(* Every variable keeps its type; in particular event_count never goes below   *)
(* zero: a core subtracts only events that were counted.                       *)
THEOREM TypeCorrect == Spec => []TypeOK
  BY Invariance, PTL DEF IInv

(* There is one copy of a queue element, whoever has it: the fetch-and-add,    *)
(* test-and-set and compare-and-set of em_intel_sched.c pass it on correctly.  *)
THEOREM OneElementAlways == Spec => []OneElement
  BY Invariance, PTL DEF IInv

(* The atomic context: two cores never run the receive function of the same    *)
(* atomic queue.                                                               *)
THEOREM Atomicity == Spec => []MutualExclusion
<1>1. IInv => MutualExclusion
  <2>1. SUFFICES ASSUME IInv, NEW c \in Cores, NEW d \in Cores,
                        current[c] = current[d], current[c] # NoQueue
                 PROVE  c = d
    BY DEF MutualExclusion
  <2>2. /\ held[c] # <<>> /\ current[c] = Head(held[c])
        /\ held[d] # <<>> /\ current[c] = Head(held[d])
        /\ held[c] \in Seq(Queues) /\ held[d] \in Seq(Queues)
    BY <2>1 DEF IInv, TypeOK, Shape
  <2>3. current[c] \in Queues /\ Owns(c, current[c]) /\ Owns(d, current[c])
    BY <2>2, TailFacts DEF Owns
  <2>4. QED
    BY <2>1, <2>3 DEF IInv, OneElement
<1>2. QED
  BY <1>1, Invariance, PTL

-----------------------------------------------------------------------------
(* No lost wakeup *)

(* A send whose header named its destination came from within its context.     *)
SentFromContext ==
  \A c \in Cores : pc[c] = "add" /\ srcQ[c] = dstQ[c] => current[c] = dstQ[c]

(* What is added to IInv for a disciplined application and a sched-queue with   *)
(* room for every queue.                                                       *)
LiveInv == MarkIsElement /\ CountedIsMarked /\ SentFromContext

(* A queue that is not in the sched-queue finds room there.                     *)
LEMMA RoomInSchedQ ==
  ASSUME QueuesFit, IInv, NEW q \in Queues, ~Scheduled(q)
  PROVE  Len(schedQ) < SchedQCap /\ SchedQCap \in Nat
<1>1. /\ schedQ \in Seq(Queues) /\ Len(schedQ) \in Nat
      /\ \A i, j \in 1..Len(schedQ) : schedQ[i] = schedQ[j] => i = j
      /\ \A i \in 1..Len(schedQ) : schedQ[i] \in Queues \ {q}
  BY DEF IInv, TypeOK, OneElement, Scheduled
<1>2. /\ IsFiniteSet(Queues \ {q}) /\ IsFiniteSet(Queues)
      /\ Cardinality(Queues \ {q}) = Cardinality(Queues) - 1
      /\ Cardinality(Queues) \in Nat
  BY FS_RemoveElement, FS_CardinalityType DEF QueuesFit
<1>3. IsFiniteSet(1..Len(schedQ)) /\ Cardinality(1..Len(schedQ)) = Len(schedQ)
  BY <1>1, FS_Interval
<1>4. SchedQCap \in Nat /\ Cardinality(Queues) <= SchedQCap
  BY ConstantsAssumption DEF QueuesFit
<1>5. ASSUME Len(schedQ) >= SchedQCap
      PROVE  FALSE
  <2> DEFINE f == [i \in 1..Len(schedQ) |-> schedQ[i]]
  <2>1. f \in [1..Len(schedQ) -> Queues \ {q}]
    BY <1>1
  <2>2. Cardinality(Queues \ {q}) < Cardinality(1..Len(schedQ))
    BY <1>1, <1>2, <1>3, <1>4, <1>5
  <2> DEFINE T == Queues \ {q}
             I == 1..Len(schedQ)
  <2>3. IsFiniteSet(I) /\ IsFiniteSet(T) /\ Cardinality(T) < Cardinality(I) /\ f \in [I -> T]
    BY <1>2, <1>3, <2>1, <2>2
  <2>4. \E x, y \in I : x # y /\ f[x] = f[y]
    <3> HIDE DEF f, T, I
    <3>1. QED
      BY <2>3, FS_PigeonHole
  <2>5. QED
    BY <1>1, <2>4
<1>6. QED
  BY <1>1, <1>4, <1>5

(* A mark is left only by the one who has the element, and an element is never  *)
(* dropped.                                                                    *)
LEMMA MarkStep ==
  ASSUME QueuesFit, IInv, MarkIsElement, [Next]_vars
  PROVE  MarkIsElement'
<1> USE DEF Goto
<1>0. /\ OneElement /\ ElementIsMarked
      /\ held \in [Cores -> Seq(Queues)] /\ dstQ \in [Cores -> Queues \cup {NoQueue}]
      /\ pc \in [Cores -> ControlPoints] /\ schedQ \in Seq(Queues)
      /\ schedCount \in [Queues -> {0, 1}]
  BY DEF IInv, TypeOK
<1> DEFINE Quiet == /\ schedQ' = schedQ /\ held' = held /\ schedCount' = schedCount
                    /\ \A c \in Cores : pc[c] = "push" => pc'[c] = "push" /\ dstQ'[c] = dstQ[c]
<1>q. ASSUME Quiet
      PROVE  MarkIsElement'
  <2>1. \A c \in Cores, q \in Queues : Owns(c, q) => Owns(c, q)'
    BY <1>q DEF Owns
  <2>2. \A q \in Queues : Scheduled(q) => Scheduled(q)'
    BY <1>q DEF Scheduled
  <2>3. QED
    BY <1>q, <2>1, <2>2 DEF MarkIsElement
<1>1. ASSUME NEW c \in Cores, NEW e \in Events, Alloc(c, e)
      PROVE  Quiet
  BY <1>0, <1>1 DEF Alloc, AppRuns, countVars, coreVars, sendVars
<1>2. ASSUME NEW c \in Cores, NEW e \in Events, Free(c, e)
      PROVE  Quiet
  BY <1>0, <1>2 DEF Free, AppRuns, countVars, coreVars, sendVars
<1>3. ASSUME NEW c \in Cores, NEW e \in Events, NEW q \in Queues, Send(c, e, q)
      PROVE  Quiet
  BY <1>0, <1>3 DEF Send, RingEnqueue, AppRuns, countVars, coreVars, sendVars
<1>4. ASSUME NEW c \in Cores, NEW e \in Events, NEW q \in Queues, SendFails(c, e, q)
      PROVE  Quiet
  BY <1>0, <1>4 DEF SendFails, AppRuns, countVars, coreVars, sendVars
<1>5. ASSUME NEW c \in Cores, NEW e \in Events, NEW q \in Queues, Receive(c, e, q)
      PROVE  Quiet
  BY <1>0, <1>5 DEF Receive, RingEnqueue, countVars, coreVars, sendVars
<1>6. ASSUME NEW c \in Cores, NEW e \in Events, NEW q \in Queues, ReceiveDirect(c, e, q)
      PROVE  Quiet
  BY <1>0, <1>6 DEF ReceiveDirect, countVars, coreVars, sendVars
<1>7. ASSUME NEW c \in Cores, CountEvent(c)
      PROVE  Quiet
  BY <1>0, <1>7 DEF CountEvent, SendReturns, countVars, coreVars, sendVars
<1>8. ASSUME NEW c \in Cores, GrabFails(c)
      PROVE  Quiet
  BY <1>0, <1>8 DEF GrabFails, RingEnqueue, SendReturns, countVars, coreVars, sendVars
<1>9. ASSUME NEW c \in Cores, ReadCount(c)
      PROVE  Quiet
  BY <1>0, <1>9 DEF ReadCount, countVars, coreVars, sendVars
<1>10. ASSUME NEW c \in Cores, TakeEvents(c)
      PROVE  Quiet
  BY <1>0, <1>10 DEF TakeEvents, countVars, coreVars, sendVars
<1>11. ASSUME NEW c \in Cores, Dispatch(c)
      PROVE  Quiet
  BY <1>0, <1>11 DEF Dispatch, countVars, coreVars, sendVars
<1>12. ASSUME NEW c \in Cores, DropEvent(c)
      PROVE  Quiet
  BY <1>0, <1>12 DEF DropEvent, countVars, coreVars, sendVars
<1>13. ASSUME NEW c \in Cores, ReceiveReturns(c)
      PROVE  Quiet
  BY <1>0, <1>13 DEF ReceiveReturns, countVars, coreVars, sendVars
<1>14. ASSUME NEW c \in Cores, Subtract(c)
      PROVE  Quiet
  BY <1>0, <1>14 DEF Subtract, countVars, coreVars, sendVars
<1>15. ASSUME NEW c \in Cores, ReleaseFails(c)
      PROVE  Quiet
  BY <1>0, <1>15 DEF ReleaseFails, countVars, coreVars, sendVars
<1>16. ASSUME NEW q \in Queues, ToggleStatus(q) \/ ChangeMasks(q)
      PROVE  Quiet
  BY <1>0, <1>16 DEF ToggleStatus, ChangeMasks, countVars, coreVars, sendVars
<1>17. ASSUME UNCHANGED vars
      PROVE  Quiet
  BY <1>0, <1>17 DEF vars, countVars, coreVars, sendVars
<1>18. ASSUME NEW c \in Cores, TestAndSet(c)
      PROVE  MarkIsElement'
  <2>0. PICK q \in Queues : q = dstQ[c]
    BY <1>18 DEF IInv, Shape, TestAndSet
  <2>1. /\ schedQ' = schedQ /\ held' = held /\ schedCount' = [schedCount EXCEPT ![q] = 1]
        /\ \A d \in Cores : pc[d] = "push" => pc'[d] = "push" /\ dstQ'[d] = dstQ[d]
    BY <1>0, <1>18, <2>0 DEF TestAndSet, SendReturns, coreVars
  <2>2. /\ \A d \in Cores, r \in Queues : Owns(d, r) => Owns(d, r)'
        /\ \A r \in Queues : Scheduled(r) => Scheduled(r)'
    BY <2>1 DEF Owns, Scheduled
  <2>3. schedCount[q] # 0 \/ Owns(c, q)'
    BY <1>0, <1>18, <2>0 DEF TestAndSet, Owns
  <2>4. QED
    BY <1>0, <2>1, <2>2, <2>3 DEF MarkIsElement
<1>19. ASSUME NEW c \in Cores, Push(c)
      PROVE  MarkIsElement'
  <2>0. PICK q \in Queues : q = dstQ[c]
    BY <1>19 DEF IInv, Shape, Push
  <2>1. Owns(c, q) /\ ~Scheduled(q)
    BY <1>0, <1>19, <2>0 DEF Push, Owns, OneElement
  <2>2. schedQ' = Append(schedQ, q)
    BY <1>19, <2>0, <2>1, RoomInSchedQ DEF Push, SchedEnqueue
  <2>3. Scheduled(q)' /\ \A r \in Queues : Scheduled(r) => Scheduled(r)'
    <3>1. /\ Len(schedQ) \in Nat /\ Len(schedQ') = Len(schedQ) + 1
          /\ \A i \in 1..Len(schedQ) : schedQ'[i] = schedQ[i]
          /\ schedQ'[Len(schedQ) + 1] = q
      BY <1>0, <2>2, AppendFacts
    <3>2. /\ Len(schedQ) + 1 \in 1..Len(schedQ')
          /\ \A i \in 1..Len(schedQ) : i \in 1..Len(schedQ')
      BY <3>1
    <3>3. QED
      BY <3>1, <3>2 DEF Scheduled
  <2>4. \A d \in Cores, r \in Queues : Owns(d, r) => Owns(d, r)' \/ r = q
    BY <1>0, <1>19, <2>0 DEF Push, SendReturns, Owns, coreVars
  <2>5. QED
    BY <1>19, <2>3, <2>4 DEF MarkIsElement, Push, countVars
<1>20. ASSUME NEW c \in Cores, GrabContext(c)
      PROVE  MarkIsElement'
  <2>0. PICK q \in Queues : q = dstQ[c]
    BY <1>20 DEF IInv, Shape, GrabContext
  <2>1. /\ schedQ' = schedQ /\ schedCount' = [schedCount EXCEPT ![q] = 1]
        /\ held'[c] = <<q>> /\ \A d \in Cores : d # c => held'[d] = held[d]
        /\ held[c] = <<>> /\ pc[c] = "grab"
        /\ \A d \in Cores : pc[d] = "push" => pc'[d] = "push" /\ dstQ'[d] = dstQ[d]
    BY <1>0, <1>20, <2>0 DEF IInv, Shape, GrabContext
  <2>2. Owns(c, q)'
    <3>1. 1 \in 1..Len(held'[c]) /\ held'[c][1] = q
      BY <2>1
    <3>2. QED
      BY <3>1 DEF Owns
  <2>3. /\ \A d \in Cores, r \in Queues : Owns(d, r) => Owns(d, r)'
        /\ \A r \in Queues : Scheduled(r) => Scheduled(r)'
    BY <2>1 DEF Owns, Scheduled
  <2>4. QED
    BY <1>0, <2>1, <2>2, <2>3 DEF MarkIsElement
<1>21. ASSUME NEW c \in Cores, Schedule(c)
      PROVE  MarkIsElement'
  <2>1. PICK n \in 0..Len(schedQ) :
          /\ held' = [held EXCEPT ![c] = SubSeq(schedQ, 1, n)]
          /\ schedQ' = SubSeq(schedQ, n + 1, Len(schedQ))
    <3>1. schedQ # <<>>
      BY <1>21 DEF Schedule
    <3>2. (IF Len(schedQ) < MaxQBulk THEN Len(schedQ) ELSE MaxQBulk) \in 0..Len(schedQ)
      BY <1>0, <3>1, TailFacts, BurstFacts, ConstantsAssumption
    <3>3. QED
      BY <1>21, <3>2 DEF Schedule
  <2>2. /\ Len(schedQ) \in Nat
        /\ Len(held'[c]) = n /\ \A i \in 1..n : held'[c][i] = schedQ[i]
        /\ Len(schedQ') = Len(schedQ) - n
        /\ \A i \in 1..(Len(schedQ) - n) : schedQ'[i] = schedQ[n + i]
    BY <1>0, <2>1, CutFacts
  <2>3. ASSUME NEW q \in Queues, Scheduled(q)
        PROVE  Scheduled(q)' \/ Owns(c, q)'
    <3>1. PICK i \in 1..Len(schedQ) : schedQ[i] = q
      BY <2>3 DEF Scheduled
    <3>2. CASE i <= n
      <4>1. i \in 1..n
        BY <2>2, <3>2
      <4>2. QED
        BY <2>2, <3>1, <4>1 DEF Owns
    <3>3. CASE i > n
      <4>1. i - n \in 1..(Len(schedQ) - n) /\ n + (i - n) = i
        BY <2>2, <3>3
      <4>2. QED
        BY <2>2, <3>1, <4>1 DEF Scheduled
    <3>4. QED
      BY <2>2, <3>2, <3>3
  <2>4. \A d \in Cores, q \in Queues : Owns(d, q) => Owns(d, q)'
    <3>1. held[c] = <<>> /\ pc[c] = "idle" /\ dstQ' = dstQ
      BY <1>21 DEF Schedule, IInv, Shape, sendVars
    <3>2. ~\E q \in Queues : Owns(c, q)
      BY <3>1 DEF Owns
    <3>3. \A d \in Cores : d # c => held'[d] = held[d] /\ pc'[d] = pc[d]
      BY <1>0, <1>21, <2>1 DEF Schedule
    <3>4. QED
      BY <3>1, <3>2, <3>3 DEF Owns
  <2>5. QED
    BY <1>21, <2>3, <2>4 DEF MarkIsElement, Schedule, countVars
<1>22. ASSUME NEW c \in Cores, Release(c) \/ Reschedule(c)
      PROVE  MarkIsElement'
  <2>0. PICK q \in Queues : held[c] # <<>> /\ q = Head(held[c])
    BY <1>22, TailFacts DEF IInv, TypeOK, Shape, Release, Reschedule
  <2>1. /\ NextElement(c) /\ dstQ' = dstQ /\ pc[c] # "push"
    BY <1>22 DEF Release, Reschedule, sendVars
  <2>2. /\ held'[c] = Tail(held[c])
        /\ \A d \in Cores : d # c => held'[d] = held[d] /\ pc'[d] = pc[d]
    BY <1>0, <2>1 DEF NextElement
  <2>3. ASSUME NEW r \in Queues, r # q, Owns(c, r)
        PROVE  Owns(c, r)'
    <3>1. PICK i \in 1..Len(held[c]) : held[c][i] = r
      BY <2>1, <2>3 DEF Owns
    <3>2. /\ Len(held[c]) \in Nat \ {0} /\ held[c][1] = q
          /\ Len(held'[c]) = Len(held[c]) - 1
          /\ \A j \in 1..Len(held'[c]) : held'[c][j] = held[c][j + 1]
      BY <1>0, <2>0, <2>2, TailFacts
    <3>3. i # 1
      BY <2>3, <3>1, <3>2
    <3>4. i - 1 \in 1..Len(held'[c]) /\ (i - 1) + 1 = i
      BY <3>1, <3>2, <3>3
    <3>5. held'[c][i - 1] = r
      BY <3>1, <3>2, <3>4
    <3>6. QED
      BY <3>4, <3>5 DEF Owns
  <2>4. \A d \in Cores, r \in Queues : r # q /\ Owns(d, r) => Owns(d, r)'
    <3>1. \A d \in Cores, r \in Queues : d # c /\ Owns(d, r) => Owns(d, r)'
      BY <2>1, <2>2 DEF Owns
    <3>2. QED
      BY <2>3, <3>1
  <2>5. CASE Release(c)
    <3>1. schedQ' = schedQ /\ schedCount' = [schedCount EXCEPT ![q] = 0]
      BY <2>0, <2>5 DEF Release
    <3>2. \A r \in Queues : Scheduled(r) => Scheduled(r)'
      BY <3>1 DEF Scheduled
    <3>3. QED
      BY <1>0, <2>4, <3>1, <3>2 DEF MarkIsElement
  <2>6. CASE Reschedule(c)
    <3>1. Owns(c, q) /\ ~Scheduled(q)
      BY <1>0, <2>0, TailFacts DEF Owns, OneElement
    <3>2. schedQ' = Append(schedQ, q) /\ schedCount' = schedCount
      BY <2>0, <2>6, <3>1, RoomInSchedQ DEF Reschedule, SchedEnqueue, countVars
    <3>3. Scheduled(q)' /\ \A r \in Queues : Scheduled(r) => Scheduled(r)'
      <4>1. /\ Len(schedQ) \in Nat /\ Len(schedQ') = Len(schedQ) + 1
            /\ \A i \in 1..Len(schedQ) : schedQ'[i] = schedQ[i]
            /\ schedQ'[Len(schedQ) + 1] = q
        BY <1>0, <3>2, AppendFacts
      <4>2. /\ Len(schedQ) + 1 \in 1..Len(schedQ')
            /\ \A i \in 1..Len(schedQ) : i \in 1..Len(schedQ')
        BY <4>1
      <4>3. QED
        BY <4>1, <4>2 DEF Scheduled
    <3>4. QED
      BY <2>4, <3>2, <3>3 DEF MarkIsElement
  <2>7. QED
    BY <1>22, <2>5, <2>6
<1>23. QED
  <2> HIDE DEF Quiet
  <2>1. ASSUME NEW c \in Cores, AppStep(c) PROVE Quiet
    BY <2>1, <1>1, <1>2, <1>3, <1>4, <1>5, <1>6 DEF AppStep
  <2>2. ASSUME NEW c \in Cores, EMStep(c) PROVE MarkIsElement'
    BY <2>2, <1>q, <1>7, <1>8, <1>9, <1>10, <1>11, <1>12, <1>14, <1>15,
       <1>18, <1>19, <1>20, <1>22 DEF EMStep
  <2>3. QED
    BY <2>1, <2>2, <1>q, <1>13, <1>16, <1>17, <1>21 DEF Next

(* Discipline of the application is what the sender finds in the header.        *)
LEMMA SourceStep ==
  ASSUME Disciplined, IInv, SentFromContext, [Next]_vars
  PROVE  SentFromContext'
<1> USE DEF Goto, SentFromContext
<1>0. /\ dstQ \in [Cores -> Queues \cup {NoQueue}] /\ srcQ \in [Cores -> Queues \cup {NoQueue}]
      /\ current \in [Cores -> Queues \cup {NoQueue}] /\ pc \in [Cores -> ControlPoints]
      /\ NoQueue \notin Queues
      /\ \A c \in Cores : pc[c] = "grab" => dstQ[c] \in Queues
  BY ConstantsAssumption DEF IInv, TypeOK, Shape
<1>1. ASSUME NEW c \in Cores, NEW e \in Events, Alloc(c, e)
      PROVE  SentFromContext'
  BY <1>0, <1>1 DEF Alloc, AppRuns, countVars, coreVars, sendVars
<1>2. ASSUME NEW c \in Cores, NEW e \in Events, Free(c, e)
      PROVE  SentFromContext'
  BY <1>0, <1>2 DEF Free, AppRuns, countVars, coreVars, sendVars
<1>3. ASSUME NEW c \in Cores, NEW e \in Events, NEW q \in Queues, Send(c, e, q)
      PROVE  SentFromContext'
  BY <1>0, <1>3 DEF Send, RingEnqueue, KeepsRule, AppRuns, countVars, coreVars, sendVars
<1>4. ASSUME NEW c \in Cores, NEW e \in Events, NEW q \in Queues, SendFails(c, e, q)
      PROVE  SentFromContext'
  BY <1>0, <1>4 DEF SendFails, AppRuns, countVars, coreVars, sendVars
<1>5. ASSUME NEW c \in Cores, NEW e \in Events, NEW q \in Queues, Receive(c, e, q)
      PROVE  SentFromContext'
  BY <1>0, <1>5 DEF Receive, RingEnqueue, countVars, coreVars, sendVars
<1>6. ASSUME NEW c \in Cores, NEW e \in Events, NEW q \in Queues, ReceiveDirect(c, e, q)
      PROVE  SentFromContext'
  BY <1>0, <1>6 DEF ReceiveDirect, countVars, coreVars, sendVars
<1>7. ASSUME NEW c \in Cores, CountEvent(c)
      PROVE  SentFromContext'
  BY <1>0, <1>7 DEF CountEvent, SendReturns, countVars, coreVars, sendVars
<1>8. ASSUME NEW c \in Cores, TestAndSet(c)
      PROVE  SentFromContext'
  BY <1>0, <1>8 DEF TestAndSet, SendReturns, countVars, coreVars, sendVars
<1>9. ASSUME NEW c \in Cores, Push(c)
      PROVE  SentFromContext'
  BY <1>0, <1>9 DEF Push, SendReturns, countVars, coreVars, sendVars
<1>10. ASSUME NEW c \in Cores, GrabContext(c)
      PROVE  SentFromContext'
  BY <1>0, <1>10 DEF GrabContext, countVars, coreVars, sendVars
<1>11. ASSUME NEW c \in Cores, GrabFails(c)
      PROVE  SentFromContext'
  BY <1>0, <1>11 DEF GrabFails, RingEnqueue, SendReturns, countVars, coreVars, sendVars
<1>12. ASSUME NEW c \in Cores, Schedule(c)
      PROVE  SentFromContext'
  BY <1>0, <1>12 DEF Schedule, countVars, coreVars, sendVars
<1>13. ASSUME NEW c \in Cores, ReadCount(c)
      PROVE  SentFromContext'
  BY <1>0, <1>13 DEF ReadCount, countVars, coreVars, sendVars
<1>14. ASSUME NEW c \in Cores, TakeEvents(c)
      PROVE  SentFromContext'
  BY <1>0, <1>14 DEF TakeEvents, countVars, coreVars, sendVars
<1>15. ASSUME NEW c \in Cores, Dispatch(c)
      PROVE  SentFromContext'
  BY <1>0, <1>15 DEF Dispatch, countVars, coreVars, sendVars
<1>16. ASSUME NEW c \in Cores, DropEvent(c)
      PROVE  SentFromContext'
  BY <1>0, <1>16 DEF DropEvent, countVars, coreVars, sendVars
<1>17. ASSUME NEW c \in Cores, ReceiveReturns(c)
      PROVE  SentFromContext'
  BY <1>0, <1>17 DEF ReceiveReturns, countVars, coreVars, sendVars
<1>18. ASSUME NEW c \in Cores, Subtract(c)
      PROVE  SentFromContext'
  BY <1>0, <1>18 DEF Subtract, countVars, coreVars, sendVars
<1>19. ASSUME NEW c \in Cores, Release(c)
      PROVE  SentFromContext'
  BY <1>0, <1>19 DEF Release, NextElement, countVars, coreVars, sendVars
<1>20. ASSUME NEW c \in Cores, ReleaseFails(c)
      PROVE  SentFromContext'
  BY <1>0, <1>20 DEF ReleaseFails, countVars, coreVars, sendVars
<1>21. ASSUME NEW c \in Cores, Reschedule(c)
      PROVE  SentFromContext'
  BY <1>0, <1>21 DEF Reschedule, NextElement, countVars, coreVars, sendVars
<1>22. ASSUME NEW q \in Queues, ToggleStatus(q) \/ ChangeMasks(q)
      PROVE  SentFromContext'
  BY <1>0, <1>22 DEF ToggleStatus, ChangeMasks, coreVars, sendVars
<1>23. CASE UNCHANGED vars
  BY <1>0, <1>23 DEF vars, coreVars, sendVars
<1>24. QED
  BY <1>1, <1>2, <1>3, <1>4, <1>5, <1>6, <1>7, <1>8, <1>9, <1>10, <1>11, <1>12,
     <1>13, <1>14, <1>15, <1>16, <1>17, <1>18, <1>19, <1>20, <1>21, <1>22, <1>23
  DEF Next, AppStep, EMStep

(* The sender that counts the first event goes on to mark the queue, unless the *)
(* queue is marked by the core that sends.                                     *)
LEMMA CountedStep ==
  ASSUME IInv, CountedIsMarked, SentFromContext, [Next]_vars
  PROVE  CountedIsMarked'
<1> USE DEF Goto
<1>0. /\ eventCount \in [Queues -> Nat] /\ schedCount \in [Queues -> {0, 1}]
      /\ pc \in [Cores -> ControlPoints] /\ dstQ \in [Cores -> Queues \cup {NoQueue}]
  BY DEF IInv, TypeOK
<1> DEFINE Quiet == /\ eventCount' = eventCount /\ schedCount' = schedCount
                    /\ \A c \in Cores : pc[c] = "tas" => pc'[c] = "tas" /\ dstQ'[c] = dstQ[c]
<1>q. ASSUME Quiet
      PROVE  CountedIsMarked'
  BY <1>q DEF CountedIsMarked
<1>1. ASSUME NEW c \in Cores, NEW e \in Events, Alloc(c, e)
      PROVE  Quiet
  BY <1>0, <1>1 DEF Alloc, AppRuns, countVars, coreVars, sendVars
<1>2. ASSUME NEW c \in Cores, NEW e \in Events, Free(c, e)
      PROVE  Quiet
  BY <1>0, <1>2 DEF Free, AppRuns, countVars, coreVars, sendVars
<1>3. ASSUME NEW c \in Cores, NEW e \in Events, NEW q \in Queues, Send(c, e, q)
      PROVE  Quiet
  BY <1>0, <1>3 DEF Send, RingEnqueue, AppRuns, countVars, coreVars, sendVars
<1>4. ASSUME NEW c \in Cores, NEW e \in Events, NEW q \in Queues, SendFails(c, e, q)
      PROVE  Quiet
  BY <1>0, <1>4 DEF SendFails, AppRuns, countVars, coreVars, sendVars
<1>5. ASSUME NEW c \in Cores, NEW e \in Events, NEW q \in Queues, Receive(c, e, q)
      PROVE  Quiet
  BY <1>0, <1>5 DEF Receive, RingEnqueue, countVars, coreVars, sendVars
<1>6. ASSUME NEW c \in Cores, NEW e \in Events, NEW q \in Queues, ReceiveDirect(c, e, q)
      PROVE  Quiet
  BY <1>0, <1>6 DEF ReceiveDirect, countVars, coreVars, sendVars
<1>7. ASSUME NEW c \in Cores, Push(c)
      PROVE  Quiet
  BY <1>0, <1>7 DEF Push, SendReturns, countVars, coreVars, sendVars
<1>8. ASSUME NEW c \in Cores, GrabFails(c)
      PROVE  Quiet
  BY <1>0, <1>8 DEF GrabFails, RingEnqueue, SendReturns, countVars, coreVars, sendVars
<1>9. ASSUME NEW c \in Cores, Schedule(c)
      PROVE  Quiet
  BY <1>0, <1>9 DEF Schedule, countVars, coreVars, sendVars
<1>10. ASSUME NEW c \in Cores, ReadCount(c)
      PROVE  Quiet
  BY <1>0, <1>10 DEF ReadCount, countVars, coreVars, sendVars
<1>11. ASSUME NEW c \in Cores, TakeEvents(c)
      PROVE  Quiet
  BY <1>0, <1>11 DEF TakeEvents, countVars, coreVars, sendVars
<1>12. ASSUME NEW c \in Cores, Dispatch(c)
      PROVE  Quiet
  BY <1>0, <1>12 DEF Dispatch, countVars, coreVars, sendVars
<1>13. ASSUME NEW c \in Cores, DropEvent(c)
      PROVE  Quiet
  BY <1>0, <1>13 DEF DropEvent, countVars, coreVars, sendVars
<1>14. ASSUME NEW c \in Cores, ReceiveReturns(c)
      PROVE  Quiet
  BY <1>0, <1>14 DEF ReceiveReturns, countVars, coreVars, sendVars
<1>15. ASSUME NEW c \in Cores, ReleaseFails(c)
      PROVE  Quiet
  BY <1>0, <1>15 DEF ReleaseFails, countVars, coreVars, sendVars
<1>16. ASSUME NEW c \in Cores, Reschedule(c)
      PROVE  Quiet
  BY <1>0, <1>16 DEF Reschedule, NextElement, countVars, coreVars, sendVars
<1>17. ASSUME NEW q \in Queues, ToggleStatus(q) \/ ChangeMasks(q)
      PROVE  Quiet
  BY <1>0, <1>17 DEF ToggleStatus, ChangeMasks, countVars, sendVars
<1>18. ASSUME UNCHANGED vars
      PROVE  Quiet
  BY <1>0, <1>18 DEF vars, countVars, sendVars
<1>19. ASSUME NEW c \in Cores, CountEvent(c)
      PROVE  CountedIsMarked'
  <2>0. PICK q \in Queues : q = dstQ[c]
    BY <1>19 DEF IInv, Shape, CountEvent
  <2>1. /\ eventCount' = [eventCount EXCEPT ![q] = @ + 1] /\ schedCount' = schedCount
        /\ pc[c] = "add"
        /\ \A d \in Cores : d # c => pc'[d] = pc[d] /\ dstQ'[d] = dstQ[d]
    BY <1>0, <1>19, <2>0 DEF CountEvent, SendReturns
  <2>2. \A r \in Queues : (\E d \in Cores : pc[d] = "tas" /\ dstQ[d] = r)
          => \E d \in Cores : pc'[d] = "tas" /\ dstQ'[d] = r
    BY <2>1
  <2>3. CASE eventCount[q] # 0
    BY <1>0, <2>1, <2>2, <2>3 DEF CountedIsMarked
  <2>4. CASE eventCount[q] = 0 /\ srcQ[c] # q
    <3>1. pc'[c] = "tas" /\ dstQ'[c] = q
      BY <1>0, <1>19, <2>0, <2>4 DEF CountEvent
    <3>2. QED
      BY <1>0, <2>1, <2>2, <3>1 DEF CountedIsMarked
  <2>5. CASE srcQ[c] = q
    <3>1. current[c] = q /\ q # NoQueue
      BY <2>0, <2>1, <2>5, ConstantsAssumption DEF SentFromContext
    <3>2. held[c] # <<>> /\ Head(held[c]) = q /\ held[c] \in Seq(Queues)
      BY <3>1 DEF IInv, TypeOK, Shape
    <3>3. Owns(c, q)
      BY <3>2, TailFacts DEF Owns
    <3>4. schedCount[q] = 1
      BY <3>3 DEF IInv, ElementIsMarked
    <3>5. QED
      BY <1>0, <2>1, <2>2, <3>4 DEF CountedIsMarked
  <2>6. QED
    BY <2>3, <2>4, <2>5
<1>20. ASSUME NEW c \in Cores, TestAndSet(c) \/ GrabContext(c)
      PROVE  CountedIsMarked'
  <2>0. PICK q \in Queues : q = dstQ[c]
    BY <1>20 DEF IInv, Shape, TestAndSet, GrabContext
  <2>1. /\ eventCount' = eventCount /\ schedCount' = [schedCount EXCEPT ![q] = 1]
        /\ \A d \in Cores : d # c => pc'[d] = pc[d] /\ dstQ'[d] = dstQ[d]
    BY <1>0, <1>20, <2>0 DEF TestAndSet, GrabContext, SendReturns
  <2>2. QED
    BY <1>0, <2>0, <2>1 DEF CountedIsMarked
<1>21. ASSUME NEW c \in Cores, Subtract(c)
      PROVE  CountedIsMarked'
  <2>0. PICK q \in Queues : held[c] # <<>> /\ q = Head(held[c])
    BY <1>21, TailFacts DEF IInv, TypeOK, Shape, Subtract
  <2>1. schedCount[q] = 1
    <3>1. held[c] \in Seq(Queues)
      BY DEF IInv, TypeOK
    <3>2. Owns(c, q)
      BY <2>0, <3>1, TailFacts DEF Owns
    <3>3. QED
      BY <3>2 DEF IInv, ElementIsMarked
  <2>2. /\ \A r \in Queues : r # q => eventCount'[r] = eventCount[r]
        /\ schedCount' = schedCount
        /\ \A d \in Cores : pc[d] = "tas" => pc'[d] = "tas" /\ dstQ'[d] = dstQ[d]
    BY <1>0, <1>21, <2>0 DEF Subtract, sendVars
  <2>3. QED
    BY <2>1, <2>2 DEF CountedIsMarked
<1>22. ASSUME NEW c \in Cores, Release(c)
      PROVE  CountedIsMarked'
  <2>0. PICK q \in Queues : held[c] # <<>> /\ q = Head(held[c])
    BY <1>22, TailFacts DEF IInv, TypeOK, Shape, Release
  <2>1. /\ eventCount' = eventCount /\ eventCount[q] = 0
        /\ schedCount' = [schedCount EXCEPT ![q] = 0]
        /\ \A d \in Cores : pc[d] = "tas" => pc'[d] = "tas" /\ dstQ'[d] = dstQ[d]
    BY <1>0, <1>22, <2>0 DEF Release, NextElement, sendVars
  <2>2. QED
    BY <1>0, <2>1 DEF CountedIsMarked
<1>23. QED
  <2> HIDE DEF Quiet
  <2>1. ASSUME NEW c \in Cores, AppStep(c) PROVE Quiet
    BY <2>1, <1>1, <1>2, <1>3, <1>4, <1>5, <1>6 DEF AppStep
  <2>2. ASSUME NEW c \in Cores, EMStep(c) PROVE CountedIsMarked'
    BY <2>2, <1>q, <1>7, <1>8, <1>9, <1>10, <1>11, <1>12, <1>13, <1>14, <1>15, <1>16,
       <1>19, <1>20, <1>21, <1>22 DEF EMStep
  <2>3. QED
    BY <2>1, <2>2, <1>q, <1>9, <1>14, <1>17, <1>18 DEF Next

(* A counted event always has its queue in the sched-queue, with a core, or     *)
(* with a sender about to see to it: the three-way race of a sender's fetch-   *)
(* and-add and test-and-set with the dispatcher's subtraction and              *)
(* compare-and-set loses no wakeup, provided that the application sends an     *)
(* event back to its own queue only from that queue's context and that the     *)
(* sched-queue has room for every queue.                                       *)
THEOREM NoWakeupLost ==
  ASSUME Disciplined, QueuesFit
  PROVE  Spec => []NoLostWakeup
<1>1. Init => LiveInv
  BY DEF Init, LiveInv, MarkIsElement, CountedIsMarked, SentFromContext
<1>2. IInv /\ LiveInv /\ [Next]_vars => LiveInv'
  BY MarkStep, SourceStep, CountedStep DEF LiveInv
<1>3. LiveInv => NoLostWakeup
  BY DEF LiveInv, MarkIsElement, CountedIsMarked, NoLostWakeup
<1>4. QED
  BY <1>1, <1>2, <1>3, Invariance, PTL DEF Spec

-----------------------------------------------------------------------------
(* Events in the hands of a core *)

(* When a core has events in its hands, and which.                             *)
BatchShape(c) ==
  /\ pc[c] \in {"count", "take", "cas", "resched"} => batch[c] = <<>>
  /\ held[c] = <<>> /\ pc[c] # "grab" => batch[c] = <<>>
  /\ pc[c] = "grab" => DirectDispatch /\ \E e \in Events : batch[c] = <<e>>

RInv == IInv /\ \A c \in Cores : BatchShape(c)

(* Every step keeps the shape of the batches.                                  *)
LEMMA BatchStep ==
  ASSUME RInv, TypeOK', [Next]_vars
  PROVE  \A c \in Cores : BatchShape(c)'
<1>0. /\ TypeOK /\ \A c \in Cores : Shape(c) /\ BatchShape(c)
  BY DEF RInv, IInv
<1>a. ASSUME pc' = pc, held' = held, batch' = batch PROVE \A c \in Cores : BatchShape(c)'
  BY <1>0, <1>a DEF BatchShape
<1>b. ASSUME NEW c \in Cores, BatchShape(c)',
             \A d \in Cores : d # c =>
               pc'[d] = pc[d] /\ held'[d] = held[d] /\ batch'[d] = batch[d]
      PROVE  \A d \in Cores : BatchShape(d)'
  BY <1>0, <1>b DEF BatchShape
<1>1. ASSUME NEW c \in Cores, NEW e \in Events, Alloc(c, e) \/ Free(c, e)
      PROVE  \A d \in Cores : BatchShape(d)'
  BY <1>1, <1>a DEF Alloc, Free, coreVars
<1>2. ASSUME NEW c \in Cores, NEW e \in Events, NEW q \in Queues, SendFails(c, e, q)
      PROVE  \A d \in Cores : BatchShape(d)'
  BY <1>2, <1>a DEF SendFails, coreVars
<1>3. ASSUME NEW q \in Queues, ToggleStatus(q) \/ ChangeMasks(q) PROVE \A d \in Cores : BatchShape(d)'
  BY <1>3, <1>a DEF ToggleStatus, ChangeMasks, coreVars
<1>4. ASSUME NEW c \in Cores, NEW e \in Events, NEW q \in Queues,
             Send(c, e, q) \/ Receive(c, e, q)
      PROVE  \A d \in Cores : BatchShape(d)'
  <2>1. /\ pc' = [pc EXCEPT ![c] = "add"] /\ held' = held /\ batch' = batch
        /\ pc[c] \in {"idle", "recv"}
    BY <1>4 DEF Send, Receive, RingEnqueue, AppRuns, Goto, coreVars
  <2>2. pc'[c] = "add" /\ \A d \in Cores : d # c => pc'[d] = pc[d]
    BY <1>0, <2>1 DEF TypeOK
  <2>3. QED
    BY <1>0, <1>b, <2>1, <2>2 DEF BatchShape
<1>5. ASSUME NEW c \in Cores, NEW e \in Events, NEW q \in Queues, ReceiveDirect(c, e, q)
      PROVE  \A d \in Cores : BatchShape(d)'
  <2>1. /\ DirectDispatch /\ pc'[c] = "grab" /\ batch'[c] = <<e>> /\ held' = held
        /\ \A d \in Cores : d # c => pc'[d] = pc[d] /\ batch'[d] = batch[d]
    BY <1>0, <1>5 DEF TypeOK, ReceiveDirect, Goto
  <2>2. QED
    BY <1>b, <2>1 DEF BatchShape
<1>6. ASSUME NEW c \in Cores, CountEvent(c) \/ TestAndSet(c) \/ Push(c)
      PROVE  \A d \in Cores : BatchShape(d)'
  <2>1. /\ pc[c] \in {"add", "tas", "push"} /\ held' = held /\ batch' = batch
        /\ pc'[c] \in {"tas", "push", "recv", "idle"}
        /\ \A d \in Cores : d # c => pc'[d] = pc[d]
    BY <1>0, <1>6 DEF TypeOK, CountEvent, TestAndSet, Push, SendReturns, Goto, coreVars
  <2>2. QED
    BY <1>0, <1>b, <2>1 DEF BatchShape
<1>7. ASSUME NEW c \in Cores, GrabContext(c) PROVE \A d \in Cores : BatchShape(d)'
  <2>1. /\ pc'[c] = "loop" /\ held'[c] # <<>> /\ batch' = batch
        /\ \A d \in Cores : d # c => pc'[d] = pc[d] /\ held'[d] = held[d]
    BY <1>0, <1>7 DEF TypeOK, GrabContext, Goto
  <2>2. QED
    BY <1>b, <2>1 DEF BatchShape
<1>8. ASSUME NEW c \in Cores, GrabFails(c) PROVE \A d \in Cores : BatchShape(d)'
  <2>1. /\ batch'[c] = <<>> /\ held' = held
        /\ \A d \in Cores : d # c => batch'[d] = batch[d]
    BY <1>0, <1>8 DEF TypeOK, GrabFails
  <2>2. /\ pc'[c] \in {"add", "recv", "idle"}
        /\ \A d \in Cores : d # c => pc'[d] = pc[d]
    <3>1. CASE RingEnqueue(c, Head(batch[c]), dstQ[c], NoQueue)
      BY <1>0, <3>1 DEF TypeOK, RingEnqueue, Goto
    <3>2. CASE SendReturns(c)
      BY <1>0, <3>2 DEF TypeOK, SendReturns, Goto
    <3>3. QED
      BY <1>8, <3>1, <3>2 DEF GrabFails
  <2>3. QED
    BY <1>b, <2>1, <2>2 DEF BatchShape
<1>9. ASSUME NEW c \in Cores, Schedule(c) PROVE \A d \in Cores : BatchShape(d)'
  <2>1. /\ pc[c] = "idle" /\ pc'[c] = "count" /\ held[c] = <<>> /\ batch' = batch
        /\ \A d \in Cores : d # c => pc'[d] = pc[d] /\ held'[d] = held[d]
    BY <1>0, <1>9 DEF TypeOK, Shape, Schedule, Goto
  <2>2. QED
    BY <1>0, <1>b, <2>1 DEF BatchShape
<1>10. ASSUME NEW c \in Cores, ReadCount(c) \/ ReleaseFails(c)
       PROVE  \A d \in Cores : BatchShape(d)'
  <2>1. /\ pc[c] \in {"count", "cas"} /\ pc'[c] \in {"take", "resched"}
        /\ held' = held /\ batch' = batch
        /\ \A d \in Cores : d # c => pc'[d] = pc[d]
    BY <1>0, <1>10 DEF TypeOK, ReadCount, ReleaseFails, Goto, coreVars
  <2>2. QED
    BY <1>0, <1>b, <2>1 DEF BatchShape
<1>11. ASSUME NEW c \in Cores, TakeEvents(c) \/ Dispatch(c) \/ DropEvent(c) \/ ReceiveReturns(c)
       PROVE  \A d \in Cores : BatchShape(d)'
  <2>1. /\ pc[c] \in {"take", "loop", "recv"} /\ pc'[c] \in {"loop", "recv"} /\ held' = held
        /\ \A d \in Cores : d # c => pc'[d] = pc[d] /\ batch'[d] = batch[d]
    BY <1>0, <1>11 DEF TypeOK, TakeEvents, Dispatch, DropEvent, ReceiveReturns, Goto
  <2>2. held[c] # <<>>
    BY <1>0, <2>1 DEF Shape
  <2>3. QED
    BY <1>b, <2>1, <2>2 DEF BatchShape
<1>12. ASSUME NEW c \in Cores, Subtract(c) PROVE \A d \in Cores : BatchShape(d)'
  <2>1. /\ pc'[c] \in {"resched", "cas"} /\ held' = held /\ batch' = batch /\ batch[c] = <<>>
        /\ \A d \in Cores : d # c => pc'[d] = pc[d]
    BY <1>0, <1>12 DEF TypeOK, Subtract, Goto
  <2>2. QED
    BY <1>b, <2>1 DEF BatchShape
<1>13. ASSUME NEW c \in Cores, Release(c) \/ Reschedule(c)
       PROVE  \A d \in Cores : BatchShape(d)'
  <2>1. pc[c] \in {"cas", "resched"} /\ NextElement(c) /\ batch' = batch
    BY <1>13 DEF Release, Reschedule
  <2>2. /\ pc'[c] \in {"count", "idle"} /\ batch'[c] = <<>>
        /\ \A d \in Cores : d # c => pc'[d] = pc[d] /\ held'[d] = held[d]
    BY <1>0, <2>1 DEF TypeOK, BatchShape, NextElement, Goto
  <2>3. QED
    BY <1>b, <2>1, <2>2 DEF BatchShape
<1>14. CASE UNCHANGED vars
  BY <1>14, <1>a DEF vars, coreVars
<1>15. QED
  BY <1>1, <1>2, <1>3, <1>4, <1>5, <1>6, <1>7, <1>8, <1>9, <1>10, <1>11, <1>12, <1>13, <1>14
  DEF Next, AppStep, EMStep

(* Both hold in every state.                                                   *)
LEMMA RInvariance == Spec => []RInv
<1>1. Init => \A c \in Cores : BatchShape(c)
  BY DEF Init, BatchShape
<1>2. RInv /\ IInv' /\ [Next]_vars => RInv'
  BY BatchStep DEF RInv, IInv
<1>3. IInv /\ (\A c \in Cores : BatchShape(c)) <=> RInv
  BY DEF RInv
<1>4. QED
  BY <1>1, <1>2, <1>3, Invariance, PTL DEF Spec

-----------------------------------------------------------------------------
(* What event_count says of the ring: the bulk dequeue never fails *)

(* The senders that have put an event into q's ring and not yet counted it.    *)
Adding(q) == {c \in Cores : pc[c] = "add" /\ dstQ[c] = q}

(* Core c has taken its burst from q's ring and not yet gone on from q.        *)
Removes(c, q) == held[c] # <<>> /\ Head(held[c]) = q /\ pc[c] \notin {"count", "take"}

(* The events counted or about to be are those in the ring and those taken     *)
(* from it and not yet subtracted.                                             *)
BalanceOf(q) ==
  /\ IsFiniteSet(Adding(q))
  /\ \A c \in Cores : Removes(c, q) =>
       eventCount[q] + Cardinality(Adding(q)) = Len(ring[q]) + taken[c]
  /\ (\A c \in Cores : ~Removes(c, q)) =>
       eventCount[q] + Cardinality(Adding(q)) = Len(ring[q])

Balance == \A q \in Queues : BalanceOf(q)

-----------------------------------------------------------------------------
(* Steps by what they do to one queue *)

(* The numbers that the balance adds up.                                       *)
LEMMA Numbers ==
  ASSUME TypeOK, NEW q \in Queues, IsFiniteSet(Adding(q))
  PROVE  /\ eventCount[q] \in Nat /\ Len(ring[q]) \in Nat
         /\ Cardinality(Adding(q)) \in Nat
         /\ \A c \in Cores : taken[c] \in Nat
<1>1. Cardinality(Adding(q)) \in Nat
  BY FS_CardinalityType
<1>2. QED
  BY <1>1 DEF TypeOK

(* The core that has taken events from q has q's element.                      *)
LEMMA RemovesOwns ==
  ASSUME TypeOK, NEW c \in Cores, NEW q \in Queues, held[c] # <<>>, Head(held[c]) = q
  PROVE  Owns(c, q)
<1>1. held[c] \in Seq(Queues)
  BY DEF TypeOK
<1>2. QED
  BY <1>1, TailFacts DEF Owns

(* A step that neither counts an event of q nor moves one into or out of its   *)
(* ring, and begins or ends the dispatch of q with nothing taken.              *)
LEMMA Undisturbed ==
  ASSUME NEW q \in Queues, BalanceOf(q), TypeOK, TypeOK',
         eventCount'[q] = eventCount[q], Len(ring'[q]) = Len(ring[q]),
         \A d \in Cores : (pc'[d] = "add" /\ dstQ'[d] = q) <=> (pc[d] = "add" /\ dstQ[d] = q),
         \A d \in Cores : Removes(d, q) => \/ Removes(d, q)' /\ taken'[d] = taken[d]
                                           \/ taken[d] = 0,
         \A d \in Cores : Removes(d, q)' =>
           \/ Removes(d, q) /\ taken'[d] = taken[d]
           \/ taken'[d] = 0 /\ \A b \in Cores : ~Removes(b, q)
  PROVE  BalanceOf(q)'
<1>1. Adding(q)' = Adding(q)
  BY DEF Adding
<1>2. /\ IsFiniteSet(Adding(q)) /\ Cardinality(Adding(q)) \in Nat
      /\ eventCount[q] \in Nat /\ Len(ring[q]) \in Nat
  BY Numbers DEF BalanceOf
<1>3. ASSUME NEW d \in Cores, Removes(d, q)'
      PROVE  eventCount[q] + Cardinality(Adding(q)) = Len(ring[q]) + taken'[d]
  BY <1>2, <1>3 DEF BalanceOf
<1>4. ASSUME \A d \in Cores : ~Removes(d, q)'
      PROVE  eventCount[q] + Cardinality(Adding(q)) = Len(ring[q])
  <2>1. CASE \E d \in Cores : Removes(d, q)
    <3>1. PICK d \in Cores : Removes(d, q)
      BY <2>1
    <3>2. taken[d] = 0
      BY <1>4, <3>1
    <3>3. QED
      BY <1>2, <3>1, <3>2 DEF BalanceOf
  <2>2. CASE \A d \in Cores : ~Removes(d, q)
    BY <2>2 DEF BalanceOf
  <2>3. QED
    BY <2>1, <2>2
<1>5. QED
  BY <1>1, <1>2, <1>3, <1>4 DEF BalanceOf

(* One on either side.                                                         *)
LEMMA OneMore ==
  ASSUME NEW n \in Nat, NEW a \in Nat, NEW l \in Nat, NEW t \in Nat, n + a = l + t
  PROVE  n + (a + 1) = (l + 1) + t
  OBVIOUS

(* An event goes into the ring of a queue: its sender has yet to count it.     *)
LEMMA EnqueueBalance ==
  ASSUME Balance, TypeOK, TypeOK',
         NEW c \in Cores, NEW e \in Events, NEW q \in Queues, NEW src,
         RingEnqueue(c, e, q, src), pc[c] \in {"idle", "recv", "grab"},
         UNCHANGED <<eventCount, held, taken>>
  PROVE  Balance'
<1>1. SUFFICES ASSUME NEW r \in Queues PROVE BalanceOf(r)'
  BY DEF Balance
<1>2. /\ pc' = [pc EXCEPT ![c] = "add"] /\ dstQ' = [dstQ EXCEPT ![c] = q]
      /\ ring' = [ring EXCEPT ![q] = Append(@, e)]
  BY DEF RingEnqueue, Goto
<1>3. \A d \in Cores, x \in Queues : Removes(d, x)' <=> Removes(d, x)
  BY <1>2 DEF TypeOK, Removes
<1>4. BalanceOf(r)
  BY DEF Balance
<1>5. CASE r # q
  <2>1. Len(ring'[r]) = Len(ring[r])
    BY <1>2, <1>5 DEF TypeOK
  <2>2. \A d \in Cores : (pc'[d] = "add" /\ dstQ'[d] = r) <=> (pc[d] = "add" /\ dstQ[d] = r)
    BY <1>2, <1>5 DEF TypeOK
  <2>3. QED
    BY <1>3, <1>4, <2>1, <2>2, Undisturbed
<1>6. CASE r = q
  <2>1. Adding(r)' = Adding(r) \cup {c} /\ c \notin Adding(r)
    BY <1>2, <1>6 DEF TypeOK, Adding
  <2>2. IsFiniteSet(Adding(r))
    BY <1>4 DEF BalanceOf
  <2>3. IsFiniteSet(Adding(r)') /\ Cardinality(Adding(r)') = Cardinality(Adding(r)) + 1
    BY <2>1, <2>2, FS_AddElement
  <2>4. Len(ring'[r]) = Len(ring[r]) + 1
    <3>1. ring[r] \in Seq(Events) /\ ring'[r] = Append(ring[r], e)
      BY <1>2, <1>6 DEF TypeOK
    <3>2. QED
      BY <3>1, AppendFacts
  <2>5. /\ eventCount[r] \in Nat /\ Len(ring[r]) \in Nat /\ Cardinality(Adding(r)) \in Nat
        /\ \A d \in Cores : taken[d] \in Nat
    BY <2>2, Numbers
  <2>6. \A d \in Cores : Removes(d, r)' <=> Removes(d, r)
    BY <1>3
  <2>7. ASSUME NEW d \in Cores, Removes(d, r)
        PROVE  eventCount[r] + Cardinality(Adding(r)') = Len(ring'[r]) + taken[d]
    <3>1. eventCount[r] + Cardinality(Adding(r)) = Len(ring[r]) + taken[d]
      BY <1>4, <2>7 DEF BalanceOf
    <3>2. Cardinality(Adding(r)') = Cardinality(Adding(r)) + 1
      BY <2>3
    <3>3. /\ eventCount[r] \in Nat /\ Len(ring[r]) \in Nat
          /\ Cardinality(Adding(r)) \in Nat /\ taken[d] \in Nat
      BY <2>5
    <3>4. eventCount[r] + (Cardinality(Adding(r)) + 1) = (Len(ring[r]) + 1) + taken[d]
      BY <3>1, <3>3, OneMore
    <3>5. eventCount[r] + Cardinality(Adding(r)') = (Len(ring[r]) + 1) + taken[d]
      BY <3>2, <3>4
    <3>6. QED
      BY <2>4, <3>5
  <2>8. ASSUME \A d \in Cores : ~Removes(d, r)
        PROVE  eventCount[r] + Cardinality(Adding(r)') = Len(ring'[r])
    <3>1. eventCount[r] + Cardinality(Adding(r)) = Len(ring[r])
      BY <1>4, <2>8 DEF BalanceOf
    <3>2. Cardinality(Adding(r)') = Cardinality(Adding(r)) + 1
      BY <2>3
    <3>3. eventCount[r] + (Cardinality(Adding(r)) + 1) = Len(ring[r]) + 1
      BY <2>5, <3>1
    <3>4. eventCount[r] + Cardinality(Adding(r)') = Len(ring[r]) + 1
      BY <3>2, <3>3
    <3>5. QED
      BY <2>4, <3>4
  <2>9. QED
    BY <2>3, <2>6, <2>7, <2>8 DEF BalanceOf
<1>7. QED
  BY <1>5, <1>6

(* The sender counts its event.                                                *)
LEMMA CountBalance ==
  ASSUME Balance, TypeOK, TypeOK', NEW c \in Cores, Shape(c), CountEvent(c)
  PROVE  Balance'
<1> DEFINE q == dstQ[c]
<1>1. SUFFICES ASSUME NEW r \in Queues PROVE BalanceOf(r)'
  BY DEF Balance
<1>2. /\ q \in Queues /\ pc[c] = "add" /\ eventCount' = [eventCount EXCEPT ![q] = @ + 1]
      /\ ring' = ring /\ held' = held /\ taken' = taken
  BY DEF Shape, CountEvent, ringVars, coreVars
<1>3. /\ pc'[c] \in {"tas", "recv", "idle"}
      /\ \A d \in Cores : d # c => pc'[d] = pc[d] /\ dstQ'[d] = dstQ[d]
  BY DEF TypeOK, CountEvent, SendReturns, Goto
<1>4. \A d \in Cores, x \in Queues : Removes(d, x)' <=> Removes(d, x)
  BY <1>2, <1>3 DEF Removes
<1>5. BalanceOf(r)
  BY DEF Balance
<1>6. CASE r # q
  <2>1. eventCount'[r] = eventCount[r]
    BY <1>2, <1>6 DEF TypeOK
  <2>2. \A d \in Cores : (pc'[d] = "add" /\ dstQ'[d] = r) <=> (pc[d] = "add" /\ dstQ[d] = r)
    BY <1>2, <1>3, <1>6
  <2>3. QED
    BY <1>2, <1>4, <1>5, <2>1, <2>2, Undisturbed
<1>7. CASE r = q
  <2>1. Adding(r)' = Adding(r) \ {c} /\ c \in Adding(r)
    BY <1>2, <1>3, <1>7 DEF Adding
  <2>2. IsFiniteSet(Adding(r))
    BY <1>5 DEF BalanceOf
  <2>3. IsFiniteSet(Adding(r)') /\ Cardinality(Adding(r)') = Cardinality(Adding(r)) - 1
    BY <2>1, <2>2, FS_RemoveElement
  <2>4. eventCount'[r] = eventCount[r] + 1
    BY <1>2, <1>7 DEF TypeOK
  <2>5. /\ eventCount[r] \in Nat /\ Len(ring[r]) \in Nat /\ Cardinality(Adding(r)) \in Nat
        /\ \A d \in Cores : taken[d] \in Nat
    BY <2>2, Numbers
  <2>6. QED
    BY <1>2, <1>4, <1>5, <2>3, <2>4, <2>5 DEF BalanceOf
<1>8. QED
  BY <1>6, <1>7

(* The dispatcher takes its burst from the ring.                               *)
LEMMA TakeBalance ==
  ASSUME Balance, IInv, TypeOK', NEW c \in Cores, TakeEvents(c)
  PROVE  Balance'
<1> DEFINE q == Head(held[c])
<1>1. SUFFICES ASSUME NEW r \in Queues PROVE BalanceOf(r)'
  BY DEF Balance
<1>2. /\ TypeOK /\ OneElement /\ pc[c] = "take" /\ held[c] # <<>> /\ q \in Queues
  <2>1. TypeOK /\ OneElement /\ pc[c] = "take" /\ held[c] # <<>> /\ held[c] \in Seq(Queues)
    BY DEF IInv, TypeOK, Shape, TakeEvents
  <2>2. QED
    BY <2>1, TailFacts
<1>3. /\ pc' = [pc EXCEPT ![c] = "loop"] /\ held' = held /\ taken' = taken
      /\ dstQ' = dstQ /\ eventCount' = eventCount
      /\ ring' = [ring EXCEPT ![q] = SubSeq(@, taken[c] + 1, Len(@))]
      /\ Len(ring[q]) >= taken[c]
  BY DEF TakeEvents, Goto, countVars, sendVars
<1>4. \A d \in Cores : pc'[d] = (IF d = c THEN "loop" ELSE pc[d])
  BY <1>2, <1>3 DEF TypeOK
<1>5. BalanceOf(r)
  BY DEF Balance
<1>6. CASE r # q
  <2>1. \A d \in Cores : Removes(d, r)' <=> Removes(d, r)
    BY <1>3, <1>4, <1>6 DEF Removes
  <2>2. ring'[r] = ring[r]
    BY <1>2, <1>3, <1>6 DEF TypeOK
  <2>3. \A d \in Cores : (pc'[d] = "add" /\ dstQ'[d] = r) <=> (pc[d] = "add" /\ dstQ[d] = r)
    BY <1>2, <1>3, <1>4
  <2>4. QED
    BY <1>2, <1>3, <1>5, <2>1, <2>2, <2>3, Undisturbed
<1>7. CASE r = q
  <2>1. \A d \in Cores : held[d] # <<>> /\ Head(held[d]) = q => d = c
    BY <1>2, RemovesOwns DEF OneElement
  <2>2. \A d \in Cores : ~Removes(d, r)
    BY <1>2, <1>7, <2>1 DEF Removes
  <2>3. Removes(c, r)' /\ \A d \in Cores : Removes(d, r)' => d = c
    BY <1>2, <1>3, <1>4, <1>7, <2>1 DEF Removes
  <2>4. Adding(r)' = Adding(r)
    BY <1>2, <1>3, <1>4 DEF Adding
  <2>5. /\ IsFiniteSet(Adding(r)) /\ eventCount[r] \in Nat /\ Len(ring[r]) \in Nat
        /\ Cardinality(Adding(r)) \in Nat /\ taken[c] \in Nat
    BY <1>2, <1>5, Numbers DEF BalanceOf
  <2>6. Len(ring'[r]) = Len(ring[r]) - taken[c]
    <3>1. ring[r] \in Seq(Events) /\ taken[c] \in 0..Len(ring[r])
      BY <1>2, <1>3, <1>7, <2>5 DEF TypeOK
    <3>2. ring'[r] = SubSeq(ring[r], taken[c] + 1, Len(ring[r]))
      BY <1>2, <1>3, <1>7 DEF TypeOK
    <3>3. QED
      BY <3>1, <3>2, CutFacts
  <2>7. eventCount[r] + Cardinality(Adding(r)) = Len(ring[r])
    BY <1>5, <2>2 DEF BalanceOf
  <2>8. eventCount'[r] + Cardinality(Adding(r)') = Len(ring'[r]) + taken'[c]
    <3>1. eventCount'[r] = eventCount[r] /\ taken'[c] = taken[c]
      BY <1>3
    <3>2. eventCount[r] + Cardinality(Adding(r)) = (Len(ring[r]) - taken[c]) + taken[c]
      BY <2>5, <2>7
    <3>3. QED
      BY <2>4, <2>6, <3>1, <3>2
  <2>9. IsFiniteSet(Adding(r)')
    BY <2>4, <2>5
  <2>10. QED
    BY <2>3, <2>8, <2>9 DEF BalanceOf
<1>8. QED
  BY <1>6, <1>7

(* The dispatcher subtracts what it took.                                      *)
LEMMA SubtractBalance ==
  ASSUME Balance, IInv, TypeOK', NEW c \in Cores, Subtract(c)
  PROVE  Balance'
<1> DEFINE q == Head(held[c])
<1>1. SUFFICES ASSUME NEW r \in Queues PROVE BalanceOf(r)'
  BY DEF Balance
<1>2. /\ TypeOK /\ OneElement /\ pc[c] = "loop" /\ held[c] # <<>> /\ q \in Queues
  <2>1. TypeOK /\ OneElement /\ pc[c] = "loop" /\ held[c] # <<>> /\ held[c] \in Seq(Queues)
    BY DEF IInv, TypeOK, Shape, Subtract
  <2>2. QED
    BY <2>1, TailFacts
<1>3. /\ held' = held /\ ring' = ring /\ dstQ' = dstQ
      /\ taken' = [taken EXCEPT ![c] = 0]
      /\ eventCount' = [eventCount EXCEPT ![q] = eventCount[q] - taken[c]]
  BY DEF Subtract, ringVars, sendVars
<1>4. pc'[c] \in {"resched", "cas"} /\ \A d \in Cores : d # c => pc'[d] = pc[d]
  BY DEF IInv, TypeOK, Subtract, Goto
<1>5. BalanceOf(r)
  BY DEF Balance
<1>6. \A d \in Cores, x \in Queues : Removes(d, x)' <=> Removes(d, x)
  BY <1>2, <1>3, <1>4 DEF Removes
<1>7. \A d \in Cores : taken'[d] = IF d = c THEN 0 ELSE taken[d]
  BY <1>2, <1>3 DEF TypeOK
<1>8. \A d \in Cores : held[d] # <<>> /\ Head(held[d]) = q => d = c
  BY <1>2, RemovesOwns DEF OneElement
<1>9. Adding(r)' = Adding(r)
  BY <1>2, <1>3, <1>4 DEF Adding
<1>10. CASE r # q
  <2>1. eventCount'[r] = eventCount[r]
    BY <1>2, <1>3, <1>10 DEF TypeOK
  <2>2. \A d \in Cores : (pc'[d] = "add" /\ dstQ'[d] = r) <=> (pc[d] = "add" /\ dstQ[d] = r)
    BY <1>2, <1>3, <1>4
  <2>3. \A d \in Cores : Removes(d, r) => taken'[d] = taken[d]
    BY <1>2, <1>7, <1>10 DEF Removes
  <2>4. QED
    BY <1>2, <1>3, <1>5, <1>6, <2>1, <2>2, <2>3, Undisturbed
<1>11. CASE r = q
  <2>1. Removes(c, r) /\ \A d \in Cores : Removes(d, r) => d = c
    BY <1>2, <1>8, <1>11 DEF Removes
  <2>2. eventCount'[r] = eventCount[r] - taken[c] /\ taken'[c] = 0
    BY <1>2, <1>3, <1>7, <1>11 DEF TypeOK
  <2>3. /\ IsFiniteSet(Adding(r)) /\ eventCount[r] \in Nat /\ Len(ring[r]) \in Nat
        /\ Cardinality(Adding(r)) \in Nat /\ taken[c] \in Nat
    BY <1>2, <1>5, Numbers DEF BalanceOf
  <2>4. eventCount[r] + Cardinality(Adding(r)) = Len(ring[r]) + taken[c]
    BY <1>5, <2>1 DEF BalanceOf
  <2>5. QED
    BY <1>3, <1>6, <1>9, <2>1, <2>2, <2>3, <2>4 DEF BalanceOf
<1>12. QED
  BY <1>10, <1>11

(* A step that leaves the numbers alone, and begins or ends no dispatch but     *)
(* with nothing taken.                                                         *)
LEMMA QuietBalance ==
  ASSUME Balance, TypeOK, TypeOK',
         eventCount' = eventCount,
         \A q \in Queues : Len(ring'[q]) = Len(ring[q]),
         \A d \in Cores, q \in Queues :
           (pc'[d] = "add" /\ dstQ'[d] = q) <=> (pc[d] = "add" /\ dstQ[d] = q),
         \A d \in Cores, q \in Queues :
           Removes(d, q) => (Removes(d, q)' /\ taken'[d] = taken[d]) \/ taken[d] = 0,
         \A d \in Cores, q \in Queues : Removes(d, q)' =>
           \/ Removes(d, q) /\ taken'[d] = taken[d]
           \/ taken'[d] = 0 /\ \A b \in Cores : ~Removes(b, q)
  PROVE  Balance'
<1>1. SUFFICES ASSUME NEW q \in Queues PROVE BalanceOf(q)'
  BY DEF Balance
<1>2. BalanceOf(q)
  BY DEF Balance
<1>3. QED
  BY <1>2, Undisturbed

(* A core goes on to its next queue element with nothing taken.                *)
LEMMA NextElementBalance ==
  ASSUME Balance, IInv, TypeOK', NEW c \in Cores, NextElement(c), held[c] # <<>>,
         pc[c] \in {"cas", "resched"},
         eventCount' = eventCount, ring' = ring, dstQ' = dstQ, taken' = taken
  PROVE  Balance'
<1>1. TypeOK /\ taken[c] = 0
  BY DEF IInv, TakenCounted
<1>2. \A d \in Cores : d # c => pc'[d] = pc[d] /\ held'[d] = held[d]
  BY <1>1 DEF TypeOK, NextElement, Goto
<1>3. pc'[c] \in {"count", "idle"} /\ (pc'[c] = "count" \/ held'[c] = <<>>)
  <2>1. held[c] \in Seq(Queues) /\ held'[c] = Tail(held[c])
    BY <1>1 DEF TypeOK, NextElement
  <2>2. pc'[c] = IF Len(held[c]) > 1 THEN "count" ELSE "idle"
    BY <1>1 DEF TypeOK, NextElement, Goto
  <2>3. QED
    BY <2>1, <2>2, TailFacts
<1>4. \A d \in Cores, q \in Queues : Removes(d, q)' => d # c /\ Removes(d, q)
  BY <1>2, <1>3 DEF Removes
<1>5. \A d \in Cores, q \in Queues : d # c /\ Removes(d, q) => Removes(d, q)'
  BY <1>2 DEF Removes
<1>6. QED
  BY <1>1, <1>2, <1>3, <1>4, <1>5, QuietBalance

(* A packet dispatched directly: its core takes the context, nothing counted.  *)
LEMMA GrabBalance ==
  ASSUME Balance, IInv, TypeOK', NEW c \in Cores, GrabContext(c)
  PROVE  Balance'
<1> DEFINE q == dstQ[c]
<1>1. /\ TypeOK /\ ElementIsMarked /\ q \in Queues /\ pc[c] = "grab" /\ schedCount[q] = 0
      /\ held[c] = <<>> /\ taken[c] = 0
  BY DEF IInv, Shape, TakenCounted, GrabContext
<1>2. \A d \in Cores : ~Removes(d, q)
  BY <1>1, RemovesOwns DEF ElementIsMarked, Removes
<1>3. /\ held' = [held EXCEPT ![c] = <<q>>] /\ pc' = [pc EXCEPT ![c] = "loop"]
      /\ dstQ' = [dstQ EXCEPT ![c] = NoQueue]
      /\ eventCount' = eventCount /\ ring' = ring /\ taken' = taken
  BY DEF GrabContext, Goto
<1>4. /\ held'[c] = <<q>> /\ pc'[c] = "loop"
      /\ \A d \in Cores : d # c =>
           held'[d] = held[d] /\ pc'[d] = pc[d] /\ dstQ'[d] = dstQ[d]
  BY <1>1, <1>3 DEF TypeOK
<1>5. \A d \in Cores, r \in Queues : Removes(d, r) => Removes(d, r)'
  BY <1>1, <1>4 DEF Removes
<1>6. \A d \in Cores, r \in Queues : Removes(d, r)' => Removes(d, r) \/ (d = c /\ r = q)
  BY <1>4 DEF Removes
<1>7. QED
  BY <1>1, <1>2, <1>3, <1>4, <1>5, <1>6, QuietBalance

(* Every step keeps the balance of every queue.                                *)
LEMMA BalanceStep ==
  ASSUME IInv, TypeOK', Balance, [Next]_vars
  PROVE  Balance'
<1>0. TypeOK /\ \A c \in Cores : Shape(c)
  BY DEF IInv
<1>a. ASSUME eventCount' = eventCount, dstQ' = dstQ, pc' = pc, held' = held, taken' = taken,
             \A q \in Queues : Len(ring'[q]) = Len(ring[q])
      PROVE  Balance'
  <2>1. \A d \in Cores, q \in Queues : Removes(d, q)' <=> Removes(d, q)
    BY <1>a DEF Removes
  <2>2. QED
    BY <1>0, <1>a, <2>1, QuietBalance
<1>b. ASSUME NEW c \in Cores, eventCount' = eventCount, held' = held, ring' = ring,
             pc[c] # "add", pc'[c] # "add",
             \A d \in Cores : d # c =>
               pc'[d] = pc[d] /\ dstQ'[d] = dstQ[d] /\ taken'[d] = taken[d],
             held[c] = <<>> \/
               ((pc[c] \in {"count", "take"}) <=> (pc'[c] \in {"count", "take"})),
             taken'[c] = taken[c] \/ pc[c] = "count"
      PROVE  Balance'
  <2>1. \A d \in Cores, q \in Queues : Removes(d, q)' <=> Removes(d, q)
    BY <1>b DEF Removes
  <2>2. \A d \in Cores, q \in Queues : Removes(d, q) => taken'[d] = taken[d]
    BY <1>b DEF Removes
  <2>3. QED
    BY <1>0, <1>b, <2>1, <2>2, QuietBalance
<1>1. ASSUME NEW c \in Cores, NEW e \in Events, Alloc(c, e) \/ Free(c, e) PROVE Balance'
  BY <1>1, <1>a DEF Alloc, Free, countVars, coreVars, sendVars
<1>2. ASSUME NEW c \in Cores, NEW e \in Events, NEW q \in Queues, Send(c, e, q)
      PROVE  Balance'
  BY <1>0, <1>2, EnqueueBalance DEF Send, AppRuns, countVars, coreVars
<1>3. ASSUME NEW c \in Cores, NEW e \in Events, NEW q \in Queues, SendFails(c, e, q)
      PROVE  Balance'
  BY <1>3, <1>a DEF SendFails, countVars, coreVars, sendVars
<1>4. ASSUME NEW c \in Cores, NEW e \in Events, NEW q \in Queues, Receive(c, e, q)
      PROVE  Balance'
  BY <1>0, <1>4, EnqueueBalance DEF Receive, countVars, coreVars
<1>5. ASSUME NEW c \in Cores, NEW e \in Events, NEW q \in Queues, ReceiveDirect(c, e, q)
      PROVE  Balance'
  <2>1. /\ pc[c] = "idle" /\ pc'[c] = "grab" /\ held[c] = <<>>
        /\ eventCount' = eventCount /\ held' = held /\ ring' = ring /\ taken' = taken
        /\ \A d \in Cores : d # c => pc'[d] = pc[d] /\ dstQ'[d] = dstQ[d]
    BY <1>0, <1>5 DEF TypeOK, Shape, ReceiveDirect, Goto, countVars
  <2>2. QED
    BY <2>1, <1>b
<1>6. ASSUME NEW c \in Cores, CountEvent(c) PROVE Balance'
  BY <1>0, <1>6, CountBalance
<1>7. ASSUME NEW c \in Cores, TestAndSet(c) \/ Push(c) PROVE Balance'
  <2>1. /\ pc[c] \in {"tas", "push"} /\ pc'[c] \in {"push", "recv", "idle"}
        /\ \A d \in Cores : d # c => pc'[d] = pc[d] /\ dstQ'[d] = dstQ[d]
    BY <1>0, <1>7 DEF TypeOK, TestAndSet, Push, SendReturns, Goto
  <2>2. eventCount' = eventCount /\ held' = held /\ ring' = ring /\ taken' = taken
    BY <1>7 DEF TestAndSet, Push, ringVars, countVars, coreVars
  <2>3. QED
    BY <2>1, <2>2, <1>b
<1>8. ASSUME NEW c \in Cores, GrabContext(c) PROVE Balance'
  BY <1>8, GrabBalance
<1>9. ASSUME NEW c \in Cores, GrabFails(c) PROVE Balance'
  <2>1. /\ pc[c] = "grab" /\ held[c] = <<>> /\ dstQ[c] \in Queues /\ Head(batch[c]) \in Events
        /\ eventCount' = eventCount /\ held' = held /\ taken' = taken
    BY <1>0, <1>9 DEF TypeOK, Shape, GrabFails, countVars
  <2>2. CASE RingEnqueue(c, Head(batch[c]), dstQ[c], NoQueue)
    BY <1>0, <2>1, <2>2, EnqueueBalance
  <2>3. CASE SendReturns(c) /\ UNCHANGED ring
    <3>1. /\ pc'[c] \in {"recv", "idle"}
          /\ \A d \in Cores : d # c => pc'[d] = pc[d] /\ dstQ'[d] = dstQ[d]
      BY <1>0, <2>3 DEF TypeOK, SendReturns, Goto
    <3>2. QED
      BY <2>1, <2>3, <3>1, <1>b
  <2>4. QED
    BY <1>9, <2>2, <2>3 DEF GrabFails
<1>10. ASSUME NEW c \in Cores, Schedule(c) PROVE Balance'
  <2>1. /\ pc[c] = "idle" /\ pc'[c] = "count" /\ held[c] = <<>>
        /\ eventCount' = eventCount /\ ring' = ring /\ taken' = taken /\ dstQ' = dstQ
        /\ \A d \in Cores : d # c => pc'[d] = pc[d] /\ held'[d] = held[d]
    BY <1>0, <1>10 DEF TypeOK, Shape, Schedule, Goto, ringVars, countVars, sendVars
  <2>2. \A d \in Cores, q \in Queues : Removes(d, q)' <=> Removes(d, q)
    BY <2>1 DEF Removes
  <2>3. \A d \in Cores, q \in Queues :
          (pc'[d] = "add" /\ dstQ'[d] = q) <=> (pc[d] = "add" /\ dstQ[d] = q)
    BY <2>1
  <2>4. QED
    BY <1>0, <2>1, <2>2, <2>3, QuietBalance
<1>11. ASSUME NEW c \in Cores, ReadCount(c) PROVE Balance'
  <2>1. /\ pc[c] = "count" /\ pc'[c] = "take"
        /\ eventCount' = eventCount /\ ring' = ring /\ held' = held /\ dstQ' = dstQ
        /\ \A d \in Cores : d # c => pc'[d] = pc[d] /\ taken'[d] = taken[d]
    BY <1>0, <1>11 DEF TypeOK, ReadCount, Goto, ringVars, countVars, sendVars
  <2>2. QED
    BY <2>1, <1>b
<1>12. ASSUME NEW c \in Cores, TakeEvents(c) PROVE Balance'
  BY <1>12, TakeBalance
<1>13. ASSUME NEW c \in Cores, Dispatch(c) \/ ReceiveReturns(c) \/ ReleaseFails(c)
       PROVE  Balance'
  <2>1. /\ pc[c] \in {"loop", "recv", "cas"} /\ pc'[c] \in {"recv", "loop", "resched"}
        /\ \A d \in Cores : d # c => pc'[d] = pc[d]
    BY <1>0, <1>13 DEF TypeOK, Dispatch, ReceiveReturns, ReleaseFails, Goto
  <2>2. eventCount' = eventCount /\ held' = held /\ ring' = ring /\ taken' = taken /\ dstQ' = dstQ
    BY <1>13 DEF Dispatch, ReceiveReturns, ReleaseFails, ringVars, countVars, coreVars, sendVars
  <2>3. QED
    BY <2>1, <2>2, <1>b
<1>14. ASSUME NEW c \in Cores, DropEvent(c) PROVE Balance'
  BY <1>14, <1>a DEF DropEvent, countVars, sendVars
<1>15. ASSUME NEW c \in Cores, Subtract(c) PROVE Balance'
  BY <1>15, SubtractBalance
<1>16. ASSUME NEW c \in Cores, Release(c) PROVE Balance'
  BY <1>0, <1>16, NextElementBalance DEF Shape, Release, ringVars, sendVars
<1>17. ASSUME NEW c \in Cores, Reschedule(c) PROVE Balance'
  BY <1>0, <1>17, NextElementBalance DEF Shape, Reschedule, ringVars, countVars, sendVars
<1>18. ASSUME NEW q \in Queues, ToggleStatus(q) \/ ChangeMasks(q) PROVE Balance'
  BY <1>18, <1>a DEF ToggleStatus, ChangeMasks, ringVars, countVars, coreVars, sendVars
<1>19. CASE UNCHANGED vars
  BY <1>19, <1>a DEF vars, ringVars, countVars, coreVars, sendVars
<1>20. QED
  BY <1>1, <1>2, <1>3, <1>4, <1>5, <1>6, <1>7, <1>8, <1>9, <1>10, <1>11, <1>12,
     <1>13, <1>14, <1>15, <1>16, <1>17, <1>18, <1>19
  DEF Next, AppStep, EMStep

-----------------------------------------------------------------------------

(* The bulk dequeue of em_schedule_atomic finds as many events in the ring as  *)
(* event_count made it ask for: senders count an event only when it is in the  *)
(* ring, and nobody else takes events out.  The error branch of                *)
(* em_intel_sched.c:717, which would leave the queue unscheduled for good, is  *)
(* never taken.                                                                *)
THEOREM DequeueNeverFails == Spec => []CountCovered
<1>1. Init => Balance
  <2>1. ASSUME Init, NEW q \in Queues PROVE BalanceOf(q)
    <3>1. Adding(q) = {} /\ eventCount[q] = 0 /\ Len(ring[q]) = 0
          /\ \A c \in Cores : ~Removes(c, q)
      BY <2>1 DEF Init, Adding, Removes
    <3>2. QED
      BY <3>1, FS_EmptySet DEF BalanceOf
  <2>2. QED
    BY <2>1 DEF Balance
<1>2. IInv /\ IInv' /\ Balance /\ [Next]_vars => Balance'
  BY BalanceStep DEF IInv
<1>3. IInv /\ Balance => CountCovered
  <2>1. SUFFICES ASSUME IInv, Balance, NEW c \in Cores, pc[c] = "take"
                 PROVE  Len(ring[Head(held[c])]) >= taken[c]
    BY DEF CountCovered
  <2>2. PICK q \in Queues : q = Head(held[c])
    <3>1. held[c] \in Seq(Queues) /\ held[c] # <<>>
      BY <2>1 DEF IInv, TypeOK, Shape
    <3>2. QED
      BY <3>1, TailFacts
  <2>3. held[c] # <<>> /\ taken[c] <= eventCount[q]
    BY <2>1, <2>2 DEF IInv, Shape, TakenCounted
  <2>4. \A d \in Cores : ~Removes(d, q)
    <3>1. \A d \in Cores : held[d] # <<>> /\ Head(held[d]) = q => d = c
      BY <2>1, <2>2, <2>3, RemovesOwns DEF IInv, OneElement
    <3>2. QED
      BY <2>1, <3>1 DEF Removes
  <2>5. /\ eventCount[q] + Cardinality(Adding(q)) = Len(ring[q])
        /\ IsFiniteSet(Adding(q))
    BY <2>1, <2>4 DEF Balance, BalanceOf
  <2>6. /\ eventCount[q] \in Nat /\ Len(ring[q]) \in Nat /\ taken[c] \in Nat
        /\ Cardinality(Adding(q)) \in Nat
    BY <2>1, <2>5, Numbers DEF IInv
  <2>7. QED
    BY <2>2, <2>3, <2>5, <2>6
<1>4. QED
  BY <1>1, <1>2, <1>3, Invariance, PTL DEF Spec

-----------------------------------------------------------------------------
(* One place for an event *)

(* Event e has no second place, ...                                            *)
Alone(e) ==
  /\ ~(e \in free /\ e \in app)
  /\ \A q \in Queues : Contains(ring[q], e) => e \notin free /\ e \notin app
  /\ \A c \in Cores : Contains(batch[c], e) => e \notin free /\ e \notin app
  /\ \A q \in Queues, c \in Cores : ~(Contains(ring[q], e) /\ Contains(batch[c], e))
  /\ \A p, q \in Queues : Contains(ring[p], e) /\ Contains(ring[q], e) => p = q
  /\ \A c, d \in Cores : Contains(batch[c], e) /\ Contains(batch[d], e) => c = d

(* ... and has one.                                                            *)
Kept(e) ==
  \/ e \in free \/ e \in app
  \/ \E q \in Queues : Contains(ring[q], e)
  \/ \E c \in Cores : Contains(batch[c], e)

Placed ==
  /\ \A q \in Queues : IsInjective(ring[q])
  /\ \A c \in Cores : IsInjective(batch[c])
  /\ \A e \in Events : Alone(e) /\ Kept(e)

(* A sequence of nothing and of one event.                                     *)
LEMMA ShortSequences ==
  /\ IsInjective(<<>>) /\ \A y : ~Contains(<<>>, y)
  /\ \A x : IsInjective(<<x>>) /\ \A y : Contains(<<x>>, y) <=> y = x
<1>1. IsInjective(<<>>) /\ \A y : ~Contains(<<>>, y)
  BY DEF IsInjective, Contains
<1>2. ASSUME NEW x
      PROVE  IsInjective(<<x>>) /\ \A y : Contains(<<x>>, y) <=> y = x
  <2>1. Len(<<x>>) = 1 /\ <<x>>[1] = x /\ DOMAIN <<x>> = 1..1
    OBVIOUS
  <2>2. QED
    BY <2>1 DEF IsInjective, Contains
<1>3. QED
  BY <1>1, <1>2

(* No event moves.                                                             *)
LEMMA NothingMoves ==
  ASSUME Placed, UNCHANGED <<ring, batch, app, free>>
  PROVE  Placed'
BY DEF Placed, Alone, Kept

(* One event moves.                                                            *)
LEMMA OneMoves ==
  ASSUME Placed, NEW x \in Events, Alone(x)', Kept(x)',
         \A q \in Queues : IsInjective(ring'[q]), \A c \in Cores : IsInjective(batch'[c]),
         \A e \in Events : e # x =>
           /\ e \in free' <=> e \in free
           /\ e \in app' <=> e \in app
           /\ \A q \in Queues : Contains(ring'[q], e) <=> Contains(ring[q], e)
           /\ \A c \in Cores : Contains(batch'[c], e) <=> Contains(batch[c], e)
  PROVE  Placed'
<1>1. ASSUME NEW e \in Events, e # x
      PROVE  Alone(e)' /\ Kept(e)'
  <2>1. Alone(e) /\ Kept(e)
    BY DEF Placed
  <2>2. /\ e \in free' <=> e \in free
        /\ e \in app' <=> e \in app
        /\ \A q \in Queues : Contains(ring'[q], e) <=> Contains(ring[q], e)
        /\ \A c \in Cores : Contains(batch'[c], e) <=> Contains(batch[c], e)
    BY <1>1
  <2>3. QED
    BY <2>1, <2>2 DEF Alone, Kept
<1>2. QED
  BY <1>1 DEF Placed

(* An event goes between the pool and the application.                         *)
LEMMA PoolMoves ==
  ASSUME Placed, NEW x \in Events, UNCHANGED <<ring, batch>>,
         \/ x \in free /\ free' = free \ {x} /\ app' = app \cup {x}
         \/ x \in app /\ app' = app \ {x} /\ free' = free \cup {x}
  PROVE  Placed'
<1>1. Alone(x)
  BY DEF Placed
<1>2. /\ \A q \in Queues : ~Contains(ring[q], x)
      /\ \A c \in Cores : ~Contains(batch[c], x)
  BY <1>1 DEF Alone
<1>3. Alone(x)' /\ Kept(x)'
  BY <1>1, <1>2 DEF Alone, Kept
<1>4. QED
  BY <1>3, OneMoves DEF Placed

(* An event goes into a queue's ring, from the pool, the application or the    *)
(* hands of a core that has no other.                                          *)
LEMMA RingMoves ==
  ASSUME TypeOK, Placed, NEW x \in Events, NEW p \in Queues, NEW b \in Cores,
         ring' = [ring EXCEPT ![p] = Append(@, x)],
         \/ x \in free /\ free' = free \ {x} /\ app' = app /\ batch' = batch
         \/ x \in app /\ app' = app \ {x} /\ free' = free /\ batch' = batch
         \/ batch[b] = <<x>> /\ batch' = [batch EXCEPT ![b] = <<>>] /\ free' = free /\ app' = app
  PROVE  Placed'
<1>1. ring \in [Queues -> Seq(Events)] /\ batch \in [Cores -> Seq(Events)]
  BY DEF TypeOK
<1>2. PICK s, t : s = ring[p] /\ t = Append(s, x)
  OBVIOUS
<1>3. s \in Seq(Events) /\ ring'[p] = t /\ \A q \in Queues : q # p => ring'[q] = ring[q]
  BY <1>1, <1>2
<1>4. /\ \A y : Contains(t, y) <=> Contains(s, y) \/ y = x
      /\ IsInjective(s) /\ ~Contains(s, x) => IsInjective(t)
  <2>1. s \in Seq(Events) /\ t = Append(s, x)
    BY <1>2, <1>3
  <2>2. QED
    BY <2>1, AppendMembers
<1>5. Alone(x)
  BY DEF Placed
<1>6. batch[b] = <<x>> => Contains(batch[b], x)
  BY ShortSequences
<1>7. \A q \in Queues : ~Contains(ring[q], x)
  BY <1>5, <1>6 DEF Alone
<1>8. /\ \A q \in Queues : IsInjective(ring'[q])
      /\ \A q \in Queues : \A y : Contains(ring'[q], y) <=> Contains(ring[q], y) \/ (q = p /\ y = x)
  BY <1>2, <1>3, <1>4, <1>7 DEF Placed
<1>9. /\ \A c \in Cores : IsInjective(batch'[c])
      /\ \A c \in Cores : \A y : Contains(batch'[c], y) <=> Contains(batch[c], y) /\ y # x
  <2>1. CASE batch' = batch /\ (x \in free \/ x \in app)
    <3>1. \A c \in Cores : ~Contains(batch[c], x)
      BY <1>5, <2>1 DEF Alone
    <3>2. QED
      BY <2>1, <3>1 DEF Placed
  <2>2. CASE batch[b] = <<x>> /\ batch' = [batch EXCEPT ![b] = <<>>]
    <3>1. batch'[b] = <<>> /\ \A c \in Cores : c # b => batch'[c] = batch[c]
      BY <1>1, <2>2
    <3>2. \A c \in Cores : c # b => ~Contains(batch[c], x)
      BY <1>5, <1>6, <2>2 DEF Alone
    <3>3. /\ IsInjective(<<>>) /\ \A y : ~Contains(<<>>, y)
          /\ \A y : Contains(batch[b], y) <=> y = x
      BY <2>2, ShortSequences
    <3>4. \A c \in Cores : IsInjective(batch'[c])
      BY <3>1, <3>3 DEF Placed
    <3>5. ASSUME NEW c \in Cores, NEW y
          PROVE  Contains(batch'[c], y) <=> Contains(batch[c], y) /\ y # x
      BY <3>1, <3>2, <3>3
    <3>6. QED
      BY <3>4, <3>5
  <2>3. QED
    BY <2>1, <2>2
<1>10. x \notin free' /\ x \notin app'
  BY <1>5, <1>6 DEF Alone
<1>11. Alone(x)' /\ Kept(x)'
  BY <1>7, <1>8, <1>9, <1>10 DEF Alone, Kept
<1>12. \A e \in Events : e # x => (e \in free' <=> e \in free) /\ (e \in app' <=> e \in app)
  OBVIOUS
<1>13. QED
  BY <1>8, <1>9, <1>11, <1>12, OneMoves

(* A packet goes from the pool into the hands of a core that has nothing.      *)
LEMMA DirectMoves ==
  ASSUME TypeOK, Placed, NEW x \in Events, NEW b \in Cores, x \in free, batch[b] = <<>>,
         UNCHANGED <<ring, app>>, free' = free \ {x}, batch' = [batch EXCEPT ![b] = <<x>>]
  PROVE  Placed'
<1>1. batch \in [Cores -> Seq(Events)] /\ Alone(x)
  BY DEF TypeOK, Placed
<1>2. batch'[b] = <<x>> /\ \A c \in Cores : c # b => batch'[c] = batch[c]
  BY <1>1
<1>3. /\ IsInjective(<<x>>) /\ \A y : Contains(<<x>>, y) <=> y = x
      /\ \A y : ~Contains(batch[b], y)
  BY ShortSequences
<1>4. /\ \A c \in Cores : IsInjective(batch'[c])
      /\ \A c \in Cores : \A y : Contains(batch'[c], y) <=> Contains(batch[c], y) \/ (c = b /\ y = x)
  BY <1>2, <1>3 DEF Placed
<1>5. /\ \A q \in Queues : ~Contains(ring'[q], x)
      /\ \A c \in Cores : ~Contains(batch[c], x)
      /\ x \notin app' /\ x \notin free'
  BY <1>1 DEF Alone
<1>6. Alone(x)' /\ Kept(x)'
  BY <1>4, <1>5 DEF Alone, Kept
<1>7. QED
  BY <1>4, <1>6, OneMoves DEF Placed

(* The first event of a burst goes to the application or to the pool.          *)
LEMMA HeadMoves ==
  ASSUME TypeOK, Placed, NEW b \in Cores, NEW x, batch[b] # <<>>, x = Head(batch[b]),
         UNCHANGED ring, batch' = [batch EXCEPT ![b] = Tail(@)],
         \/ app' = app \cup {x} /\ free' = free
         \/ free' = free \cup {x} /\ app' = app
  PROVE  Placed'
<1>1. batch \in [Cores -> Seq(Events)]
  BY DEF TypeOK
<1>2. PICK s, t : s = batch[b] /\ t = Tail(s)
  OBVIOUS
<1>3. s \in Seq(Events) /\ batch'[b] = t /\ \A c \in Cores : c # b => batch'[c] = batch[c]
  BY <1>1, <1>2
<1>4. /\ \A y : Contains(s, y) <=> y = x \/ Contains(t, y)
      /\ IsInjective(t) /\ ~Contains(t, x) /\ x \in Events
  BY <1>2, <1>3, TailMembers, TailFacts DEF Placed
<1>5. Alone(x) /\ Contains(batch[b], x)
  BY <1>2, <1>4 DEF Placed
<1>6. /\ \A c \in Cores : IsInjective(batch'[c])
      /\ \A c \in Cores : c # b => ~Contains(batch[c], x)
  BY <1>3, <1>4, <1>5 DEF Placed, Alone
<1>7. \A c \in Cores : \A y : Contains(batch'[c], y) <=> Contains(batch[c], y) /\ y # x
  <2>1. ASSUME NEW c \in Cores, NEW y
        PROVE  Contains(batch'[c], y) <=> Contains(batch[c], y) /\ y # x
    BY <1>2, <1>3, <1>4, <1>6
  <2>2. QED
    BY <2>1
<1>8. /\ \A q \in Queues : ~Contains(ring'[q], x)
      /\ x \notin app /\ x \notin free
  BY <1>5 DEF Alone
<1>9. Alone(x)' /\ Kept(x)'
  BY <1>7, <1>8 DEF Alone, Kept
<1>10. QED
  BY <1>4, <1>6, <1>7, <1>9, OneMoves DEF Placed

(* A burst of events goes from a ring into the hands of a core.                *)
LEMMA BurstMoves ==
  ASSUME TypeOK, Placed, NEW b \in Cores, NEW p \in Queues, NEW n \in 0..Len(ring[p]),
         batch[b] = <<>>, UNCHANGED <<app, free>>,
         batch' = [batch EXCEPT ![b] = SubSeq(ring[p], 1, n)],
         ring' = [ring EXCEPT ![p] = SubSeq(@, n + 1, Len(@))]
  PROVE  Placed'
<1>1. ring \in [Queues -> Seq(Events)] /\ batch \in [Cores -> Seq(Events)]
  BY DEF TypeOK
<1>2. PICK s : s = ring[p]
  OBVIOUS
<1>3. PICK h, t : h = SubSeq(s, 1, n) /\ t = SubSeq(s, n + 1, Len(s))
  OBVIOUS
<1>4. s \in Seq(Events) /\ n \in 0..Len(s)
  BY <1>1, <1>2
<1>5. Parts(s, h, t) /\ IsInjective(s)
  BY <1>2, <1>3, <1>4, CutMembers DEF Placed
<1>6. /\ \A y : Contains(s, y) <=> Contains(h, y) \/ Contains(t, y)
      /\ IsInjective(h) /\ IsInjective(t) /\ \A y : ~(Contains(h, y) /\ Contains(t, y))
  BY <1>5 DEF Parts
<1>7. /\ ring'[p] = t /\ \A q \in Queues : q # p => ring'[q] = ring[q]
      /\ batch'[b] = h /\ \A c \in Cores : c # b => batch'[c] = batch[c]
  BY <1>1, <1>2, <1>3
<1>8. \A y : ~Contains(batch[b], y)
  BY ShortSequences
<1>9. ASSUME NEW e \in Events
      PROVE  Alone(e)' /\ Kept(e)'
  <2>1. Alone(e) /\ Kept(e)
    BY DEF Placed
  <2>2. /\ \A q \in Queues : q # p => (Contains(ring[q], e)' <=> Contains(ring[q], e))
        /\ Contains(ring[p], e)' <=> Contains(t, e)
        /\ \A c \in Cores : c # b => (Contains(batch[c], e)' <=> Contains(batch[c], e))
        /\ Contains(batch[b], e)' <=> Contains(h, e)
        /\ ~Contains(batch[b], e)
        /\ Contains(ring[p], e) <=> Contains(h, e) \/ Contains(t, e)
        /\ ~(Contains(h, e) /\ Contains(t, e))
        /\ app' = app /\ free' = free
    BY <1>2, <1>6, <1>7, <1>8
  <2>3. CASE Contains(h, e)
    <3>1. Contains(ring[p], e)
      BY <2>2, <2>3
    <3>2. /\ e \notin free' /\ e \notin app'
          /\ \A q \in Queues : ~Contains(ring[q], e)'
          /\ \A c \in Cores : Contains(batch[c], e)' => c = b
      BY <2>1, <2>2, <2>3, <3>1 DEF Alone
    <3>3. QED
      BY <2>2, <2>3, <3>2 DEF Alone, Kept
  <2>4. CASE ~Contains(h, e)
    <3>1. /\ \A q \in Queues : Contains(ring[q], e)' <=> Contains(ring[q], e)
          /\ \A c \in Cores : Contains(batch[c], e)' <=> Contains(batch[c], e)
      BY <2>2, <2>4
    <3>2. QED
      BY <2>1, <2>2, <3>1 DEF Alone, Kept
  <2>5. QED
    BY <2>3, <2>4
<1>10. /\ \A q \in Queues : IsInjective(ring'[q])
       /\ \A c \in Cores : IsInjective(batch'[c])
  BY <1>6, <1>7 DEF Placed
<1>11. QED
  BY <1>9, <1>10 DEF Placed

(* Every step leaves each event in its one place.                              *)
LEMMA PlacedStep ==
  ASSUME RInv, Placed, [Next]_vars
  PROVE  Placed'
<1>0. /\ TypeOK /\ \A c \in Cores : Shape(c) /\ BatchShape(c)
      /\ ring \in [Queues -> Seq(Events)] /\ batch \in [Cores -> Seq(Events)]
  BY DEF RInv, IInv, TypeOK
<1>1. ASSUME NEW c \in Cores, NEW e \in Events, Alloc(c, e) \/ Free(c, e)
      PROVE  Placed'
  BY <1>1, PoolMoves DEF Alloc, Free, PoolPut, coreVars
<1>2. ASSUME NEW c \in Cores, NEW e \in Events, NEW q \in Queues, Send(c, e, q)
      PROVE  Placed'
  BY <1>0, <1>2, RingMoves DEF Send, KeepsRule, RingEnqueue, coreVars
<1>3. ASSUME NEW c \in Cores, NEW e \in Events, NEW q \in Queues, Receive(c, e, q)
      PROVE  Placed'
  BY <1>0, <1>3, RingMoves DEF Receive, RingEnqueue, coreVars
<1>4. ASSUME NEW c \in Cores, NEW e \in Events, NEW q \in Queues, SendFails(c, e, q)
      PROVE  Placed'
  BY <1>4, NothingMoves DEF SendFails, coreVars
<1>5. ASSUME NEW c \in Cores, NEW e \in Events, NEW q \in Queues, ReceiveDirect(c, e, q)
      PROVE  Placed'
  <2>1. batch[c] = <<>>
    BY <1>0, <1>5 DEF ReceiveDirect, Shape, BatchShape
  <2>2. /\ e \in free /\ UNCHANGED <<ring, app>> /\ free' = free \ {e}
        /\ batch' = [batch EXCEPT ![c] = <<e>>]
    BY <1>5 DEF ReceiveDirect
  <2>3. QED
    BY <1>0, <2>1, <2>2, DirectMoves
<1>6. ASSUME NEW c \in Cores, GrabFails(c)
      PROVE  Placed'
  <2>1. pc[c] = "grab" /\ batch' = [batch EXCEPT ![c] = <<>>] /\ app' = app
    BY <1>6 DEF GrabFails
  <2>2. PICK e \in Events : batch[c] = <<e>>
    BY <1>0, <2>1 DEF BatchShape
  <2>3. e = Head(batch[c]) /\ batch[c] # <<>> /\ Tail(batch[c]) = <<>>
    BY <2>2
  <2>4. PICK q \in Queues : q = dstQ[c]
    BY <1>0, <2>1 DEF Shape
  <2>5. CASE RingEnqueue(c, Head(batch[c]), dstQ[c], NoQueue) /\ UNCHANGED free
    <3>1. ring' = [ring EXCEPT ![q] = Append(@, e)] /\ free' = free
      BY <2>3, <2>4, <2>5 DEF RingEnqueue
    <3>2. QED
      BY <1>0, <2>1, <2>2, <3>1, RingMoves
  <2>6. CASE PoolPut(Head(batch[c])) /\ UNCHANGED ring
    <3>1. free' = free \cup {e} /\ ring' = ring /\ batch' = [batch EXCEPT ![c] = Tail(@)]
      BY <2>1, <2>3, <2>6 DEF PoolPut
    <3>2. QED
      BY <1>0, <2>1, <2>3, <3>1, HeadMoves
  <2>7. QED
    BY <1>6, <2>5, <2>6 DEF GrabFails
<1>7. ASSUME NEW c \in Cores, TakeEvents(c)
      PROVE  Placed'
  <2>1. PICK q, n : q = Head(held[c]) /\ n = taken[c]
    OBVIOUS
  <2>2. held[c] \in Seq(Queues) /\ held[c] # <<>> /\ n \in Nat
    BY <1>0, <1>7, <2>1 DEF TakeEvents, TypeOK, Shape
  <2>3. q \in Queues
    BY <2>1, <2>2, TailFacts
  <2>4. /\ batch' = [batch EXCEPT ![c] = SubSeq(ring[q], 1, n)]
        /\ ring' = [ring EXCEPT ![q] = SubSeq(@, n + 1, Len(@))]
        /\ Len(ring[q]) >= n /\ UNCHANGED <<app, free>>
    BY <1>7, <2>1 DEF TakeEvents
  <2>5. n \in 0..Len(ring[q])
    <3>1. Len(ring[q]) \in Nat
      BY <1>0, <2>3
    <3>2. QED
      BY <2>2, <2>4, <3>1
  <2>6. batch[c] = <<>>
    BY <1>0, <1>7 DEF TakeEvents, BatchShape
  <2>7. QED
    BY <1>0, <2>3, <2>4, <2>5, <2>6, BurstMoves
<1>8. ASSUME NEW c \in Cores, Dispatch(c) \/ DropEvent(c)
      PROVE  Placed'
  <2>1. /\ batch[c] # <<>> /\ UNCHANGED ring /\ batch' = [batch EXCEPT ![c] = Tail(@)]
        /\ \/ app' = app \cup {Head(batch[c])} /\ free' = free
           \/ free' = free \cup {Head(batch[c])} /\ app' = app
    BY <1>8 DEF Dispatch, DropEvent, PoolPut
  <2>2. QED
    BY <1>0, <2>1, HeadMoves
<1>9. ASSUME NEW c \in Cores,
             \/ CountEvent(c) \/ TestAndSet(c) \/ Push(c) \/ GrabContext(c) \/ Schedule(c)
             \/ ReadCount(c) \/ ReceiveReturns(c) \/ Subtract(c)
             \/ Release(c) \/ ReleaseFails(c) \/ Reschedule(c)
      PROVE  Placed'
  <2>1. UNCHANGED <<ring, batch, app, free>>
    BY <1>9 DEF CountEvent, TestAndSet, Push, GrabContext, Schedule, ReadCount, ReceiveReturns,
       Subtract, Release, ReleaseFails, Reschedule, ringVars, coreVars
  <2>2. QED
    BY <2>1, NothingMoves
<1>10. ASSUME NEW q \in Queues, ToggleStatus(q) \/ ChangeMasks(q)
       PROVE  Placed'
  BY <1>10, NothingMoves DEF ToggleStatus, ChangeMasks, ringVars, coreVars
<1>11. CASE UNCHANGED vars
  BY <1>11, NothingMoves DEF vars, ringVars, coreVars
<1>12. QED
  BY <1>1, <1>2, <1>3, <1>4, <1>5, <1>6, <1>7, <1>8, <1>9, <1>10, <1>11
  DEF Next, AppStep, EMStep

(* An event that has one place and no second is in one.                        *)
LEMMA PlacedCounts == Placed => OnePlace
<1>1. SUFFICES ASSUME Placed, NEW e \in Events
               PROVE  Cardinality(Places(e)) = 1
  BY DEF OnePlace
<1> DEFINE P == {<<"pool", 0, 0>> : x \in free \cap {e}}
           A == {<<"app", 0, 0>> : x \in app \cap {e}}
           U(q) == {<<"ring", q, i>> : i \in {j \in 1..Len(ring[q]) : ring[q][j] = e}}
           V(c) == {<<"batch", c, i>> : i \in {j \in 1..Len(batch[c]) : batch[c][j] = e}}
           R == UNION {U(q) : q \in Queues}
           B == UNION {V(c) : c \in Cores}
<1>2. /\ Alone(e) /\ Kept(e)
      /\ \A q \in Queues : IsInjective(ring[q])
      /\ \A c \in Cores : IsInjective(batch[c])
  BY <1>1 DEF Placed
<1>3. /\ (\E x : x \in P) <=> e \in free
      /\ (\E x : x \in A) <=> e \in app
      /\ \A x, y \in P : x = y
      /\ \A x, y \in A : x = y
  OBVIOUS
<1>4. \A q \in Queues : (\E x : x \in U(q)) <=> Contains(ring[q], e)
  BY DEF Contains
<1>5. \A c \in Cores : (\E x : x \in V(c)) <=> Contains(batch[c], e)
  BY DEF Contains
<1>6. ASSUME NEW q \in Queues, NEW x \in U(q), NEW y \in U(q)
      PROVE  x = y
  <2>1. \A i, j \in DOMAIN ring[q] : ring[q][i] = ring[q][j] => i = j
    BY <1>2 DEF IsInjective
  <2>2. PICK i, j \in 1..Len(ring[q]) :
          ring[q][i] = e /\ ring[q][j] = e /\ x = <<"ring", q, i>> /\ y = <<"ring", q, j>>
    BY <1>6
  <2>3. QED
    BY <2>1, <2>2
<1>7. ASSUME NEW c \in Cores, NEW x \in V(c), NEW y \in V(c)
      PROVE  x = y
  <2>1. \A i, j \in DOMAIN batch[c] : batch[c][i] = batch[c][j] => i = j
    BY <1>2 DEF IsInjective
  <2>2. PICK i, j \in 1..Len(batch[c]) :
          batch[c][i] = e /\ batch[c][j] = e /\ x = <<"batch", c, i>> /\ y = <<"batch", c, j>>
    BY <1>7
  <2>3. QED
    BY <2>1, <2>2
<1>8. Cardinality(P \cup A \cup R \cup B) = 1
  <2> HIDE DEF P, A, U, V
  <2>1. \A x, y \in R : x = y
    BY <1>2, <1>4, <1>6 DEF Alone
  <2>2. \A x, y \in B : x = y
    BY <1>2, <1>5, <1>7 DEF Alone
  <2>3. (\E x : x \in R) <=> \E q \in Queues : Contains(ring[q], e)
    BY <1>4
  <2>4. (\E x : x \in B) <=> \E c \in Cores : Contains(batch[c], e)
    BY <1>5
  <2> HIDE DEF R, B
  <2>5. \A x \in P, y \in A \cup R \cup B : FALSE
    BY <1>2, <1>3, <2>3, <2>4 DEF Alone
  <2>6. \A x \in A, y \in R \cup B : FALSE
    BY <1>2, <1>3, <2>3, <2>4 DEF Alone
  <2>7. \A x \in R, y \in B : FALSE
    BY <1>2, <2>3, <2>4 DEF Alone
  <2>8. \E x : x \in P \cup A \cup R \cup B
    BY <1>2, <1>3, <2>3, <2>4 DEF Kept
  <2>9. \A x, y \in P \cup A \cup R \cup B : x = y
    BY <1>3, <2>1, <2>2, <2>5, <2>6, <2>7
  <2>10. PICK x : x \in P \cup A \cup R \cup B
    BY <2>8
  <2>11. P \cup A \cup R \cup B = {x}
    BY <2>9, <2>10
  <2>12. QED
    BY <2>11, FS_Singleton
<1>9. Places(e) = P \cup A \cup R \cup B
  BY DEF Places
<1>10. QED
  BY <1>8, <1>9

(* No event is lost, duplicated or received twice: it is in the pool, with the *)
(* application, in one slot of one ring or in one slot of one core's burst.    *)
THEOREM EventsStayInOnePlace == Spec => []OnePlace
<1>1. Init => Placed
  <2> SUFFICES ASSUME Init PROVE Placed
    OBVIOUS
  <2>1. /\ \A q \in Queues : ring[q] = <<>>
        /\ \A c \in Cores : batch[c] = <<>>
        /\ free = Events /\ app = {}
    BY DEF Init
  <2>2. QED
    BY <2>1, ShortSequences DEF Placed, Alone, Kept
<1>2. RInv /\ Placed /\ [Next]_vars => Placed'
  BY PlacedStep
<1>3. QED
  BY <1>1, <1>2, PlacedCounts, RInvariance, PTL DEF Spec

-----------------------------------------------------------------------------

(***************************************************************************)
(* The counters, rings and sched-queue of AtomicQueue implement the FIFO   *)
(* queues with one receiver of ExclusiveQueue.                             *)
(***************************************************************************)

(* The definitions by CHOOSE say what they seem to.                            *)
PendingIs ==
  \A q \in Queues :
    /\ \A c \in Cores : InContext(c, q) => Pending(q) = batch[c] \o ring[q]
    /\ (\A c \in Cores : ~InContext(c, q)) => Pending(q) = ring[q]

ReceiverIs ==
  \A q \in Queues :
    /\ \A c \in Cores : current[c] = q => Receiver(q) = c
    /\ (\A c \in Cores : current[c] # q) => Receiver(q) = NoQueue

-----------------------------------------------------------------------------

(* The empty sequence and one sequence before another.                         *)
LEMMA EmptyConcat ==
  ASSUME NEW S, NEW s \in Seq(S)
  PROVE  <<>> \o s = s
  OBVIOUS

(* A sequence's two parts make it up.                                          *)
LEMMA CutConcat ==
  ASSUME NEW S, NEW s \in Seq(S), NEW n \in 0..Len(s)
  PROVE  SubSeq(s, 1, n) \o SubSeq(s, n + 1, Len(s)) = s
<1> DEFINE a == SubSeq(s, 1, n)
           b == SubSeq(s, n + 1, Len(s))
<1>1. /\ a \in Seq(S) /\ Len(a) = n /\ \A i \in 1..n : a[i] = s[i]
      /\ b \in Seq(S) /\ Len(b) = Len(s) - n /\ \A i \in 1..(Len(s) - n) : b[i] = s[n + i]
  BY CutFacts
<1> HIDE DEF a, b
<1>2. /\ a \o b \in Seq(S) /\ Len(a \o b) = Len(a) + Len(b)
      /\ \A i \in 1..Len(a) : (a \o b)[i] = a[i]
      /\ \A i \in 1..Len(b) : (a \o b)[Len(a) + i] = b[i]
  BY <1>1, ConcatFacts
<1>3. Len(s) \in Nat /\ n \in Nat /\ n <= Len(s) /\ Len(a \o b) = Len(s)
  BY <1>1, <1>2
<1>4. ASSUME NEW i \in 1..Len(s) PROVE (a \o b)[i] = s[i]
  <2>1. CASE i <= n
    BY <1>1, <1>2, <1>3, <2>1
  <2>2. CASE i > n
    <3>1. i - n \in 1..(Len(s) - n) /\ n + (i - n) = i
      BY <1>3, <2>2
    <3>2. (a \o b)[n + (i - n)] = b[i - n] /\ b[i - n] = s[n + (i - n)]
      BY <1>1, <1>2, <3>1
    <3>3. QED
      BY <3>1, <3>2
  <2>3. QED
    BY <1>3, <2>1, <2>2
<1>5. a \o b = s
  BY <1>2, <1>3, <1>4, SeqEqual
<1>6. QED
  BY <1>5 DEF a, b

(* An event behind two sequences.                                              *)
LEMMA ConcatAppend ==
  ASSUME NEW S, NEW s \in Seq(S), NEW t \in Seq(S), NEW e \in S
  PROVE  s \o Append(t, e) = Append(s \o t, e)
  OBVIOUS

(* Two sequences without the first's first element.                            *)
LEMMA ConcatTail ==
  ASSUME NEW S, NEW s \in Seq(S), NEW t \in Seq(S), s # <<>>
  PROVE  s \o t # <<>> /\ Tail(s \o t) = Tail(s) \o t
  OBVIOUS

(* The head of a burst's elements belongs to its core alone.                   *)
LEMMA HeadIsOwned ==
  ASSUME IInv, NEW c \in Cores, NEW d \in Cores, NEW q \in Queues,
         held[c] # <<>>, Head(held[c]) = q, Owns(d, q)
  PROVE  c = d
<1>1. held[c] \in Seq(Queues) /\ OneElement
  BY DEF IInv, TypeOK
<1>2. Owns(c, q)
  BY <1>1, TailFacts DEF Owns
<1>3. QED
  BY <1>1, <1>2 DEF OneElement

(* The core in a queue's context, or in its receive function, has its element. *)
LEMMA ContextOwns ==
  ASSUME IInv, NEW c \in Cores, NEW q \in Queues, InContext(c, q) \/ current[c] = q
  PROVE  Owns(c, q) /\ held[c] # <<>> /\ Head(held[c]) = q
<1>1. held[c] \in Seq(Queues) /\ held[c] # <<>> /\ Head(held[c]) = q
  BY ConstantsAssumption DEF IInv, TypeOK, Shape, InContext
<1>2. QED
  BY <1>1, TailFacts DEF Owns

(* One core at most is in a queue's context or its receive function.           *)
LEMMA ChoicesKnown == RInv => PendingIs /\ ReceiverIs
<1>1. SUFFICES ASSUME RInv, NEW q \in Queues
               PROVE  /\ \A c \in Cores : InContext(c, q) => Pending(q) = batch[c] \o ring[q]
                      /\ (\A c \in Cores : ~InContext(c, q)) => Pending(q) = ring[q]
                      /\ \A c \in Cores : current[c] = q => Receiver(q) = c
                      /\ (\A c \in Cores : current[c] # q) => Receiver(q) = NoQueue
  BY DEF PendingIs, ReceiverIs
<1>2. IInv /\ ring[q] \in Seq(Events)
  BY <1>1 DEF RInv, IInv, TypeOK
<1>3. ASSUME NEW c \in Cores, InContext(c, q) PROVE Pending(q) = batch[c] \o ring[q]
  <2>1. \A d \in Cores : InContext(d, q) => d = c
    BY <1>2, <1>3, ContextOwns, HeadIsOwned
  <2>2. (CHOOSE d \in Cores : InContext(d, q)) = c
    BY <1>3, <2>1
  <2>3. QED
    BY <1>3, <2>2 DEF Pending
<1>4. ASSUME \A c \in Cores : ~InContext(c, q) PROVE Pending(q) = ring[q]
  <2>1. Pending(q) = <<>> \o ring[q]
    BY <1>4 DEF Pending
  <2>2. QED
    BY <1>2, <2>1, EmptyConcat
<1>5. ASSUME NEW c \in Cores, current[c] = q PROVE Receiver(q) = c
  <2>1. \A d \in Cores : current[d] = q => d = c
    BY <1>2, <1>5, ContextOwns, HeadIsOwned
  <2>2. QED
    BY <1>5, <2>1 DEF Receiver
<1>6. ASSUME \A c \in Cores : current[c] # q PROVE Receiver(q) = NoQueue
  BY <1>6 DEF Receiver
<1>7. QED
  BY <1>3, <1>4, <1>5, <1>6

-----------------------------------------------------------------------------
(* Steps of the promise *)

(* Nothing happens to the accepted events of a queue: what is in a core's hands*)
(* stays there, or nothing is.                                                 *)
LEMMA PendingSame ==
  ASSUME PendingIs, PendingIs', TypeOK, NEW q \in Queues, ring'[q] = ring[q],
         \A c \in Cores : InContext(c, q) =>
           (InContext(c, q)' /\ batch'[c] = batch[c]) \/ batch[c] = <<>>,
         \A c \in Cores : InContext(c, q)' =>
           (InContext(c, q) /\ batch'[c] = batch[c]) \/ batch'[c] = <<>>
  PROVE  Pending(q)' = Pending(q)
<1>0. <<>> \o ring[q] = ring[q]
  BY EmptyConcat DEF TypeOK
<1>1. CASE \E c \in Cores : InContext(c, q) /\ InContext(c, q)' /\ batch'[c] = batch[c]
  BY <1>1 DEF PendingIs
<1>2. CASE \A c \in Cores : ~(InContext(c, q) /\ InContext(c, q)' /\ batch'[c] = batch[c])
  <2>1. Pending(q) = ring[q]
    <3>1. CASE \E c \in Cores : InContext(c, q)
      BY <1>0, <1>2, <3>1 DEF PendingIs
    <3>2. CASE \A c \in Cores : ~InContext(c, q)
      BY <3>2 DEF PendingIs
    <3>3. QED
      BY <3>1, <3>2
  <2>2. Pending(q)' = ring[q]
    <3>1. CASE \E c \in Cores : InContext(c, q)'
      BY <1>0, <1>2, <3>1 DEF PendingIs
    <3>2. CASE \A c \in Cores : ~InContext(c, q)'
      BY <3>2 DEF PendingIs
    <3>3. QED
      BY <3>1, <3>2
  <2>3. QED
    BY <2>1, <2>2
<1>3. QED
  BY <1>1, <1>2

(* The receivers are who they were.                                            *)
LEMMA ReceiverSame ==
  ASSUME ReceiverIs, ReceiverIs', NEW q \in Queues,
         \A c \in Cores : current'[c] = q <=> current[c] = q
  PROVE  Receiver(q)' = Receiver(q)
<1>1. CASE \E c \in Cores : current[c] = q
  BY <1>1 DEF ReceiverIs
<1>2. CASE \A c \in Cores : current[c] # q
  BY <1>2 DEF ReceiverIs
<1>3. QED
  BY <1>1, <1>2

(* A step that the application does not see.                                   *)
LEMMA Stutter ==
  ASSUME ReceiverIs, ReceiverIs', current' = current, status' = status,
         \A q \in Queues : Pending(q)' = Pending(q)
  PROVE  UNCHANGED Promise!vars
<1>1. \A q \in Queues : Receiver(q)' = Receiver(q)
  BY ReceiverSame
<1>2. QED
  BY <1>1 DEF Promise!vars

(* A step that nobody sees and that moves no event.                            *)
LEMMA QuietStutter ==
  ASSUME TypeOK, PendingIs, PendingIs', ReceiverIs, ReceiverIs',
         ring' = ring, held' = held, current' = current, status' = status,
         \A c \in Cores : held[c] # <<>> =>
           (pc'[c] = "count" <=> pc[c] = "count") \/ (batch[c] = <<>> /\ batch'[c] = <<>>),
         \A c \in Cores : held[c] # <<>> => batch'[c] = batch[c]
  PROVE  UNCHANGED Promise!vars
<1>1. ASSUME NEW q \in Queues PROVE Pending(q)' = Pending(q)
  <2>1. \A c \in Cores : InContext(c, q) =>
          (InContext(c, q)' /\ batch'[c] = batch[c]) \/ batch[c] = <<>>
    BY DEF InContext
  <2>2. \A c \in Cores : InContext(c, q)' =>
          (InContext(c, q) /\ batch'[c] = batch[c]) \/ batch'[c] = <<>>
    BY DEF InContext
  <2>3. QED
    BY <2>1, <2>2, PendingSame
<1>2. QED
  BY <1>1, Stutter

(* An event behind the ring of a queue is accepted.                            *)
LEMMA AcceptStep ==
  ASSUME TypeOK, PendingIs, PendingIs', ReceiverIs, ReceiverIs',
         NEW c \in Cores, NEW e \in Events, NEW q \in Queues, NEW src,
         RingEnqueue(c, e, q, src), pc[c] \in {"idle", "recv", "grab"},
         held' = held, current' = current, status' = status,
         \A d \in Cores : held[d] # <<>> => batch'[d] = batch[d]
  PROVE  Promise!Next
<1>1. /\ pc'[c] = "add" /\ \A d \in Cores : d # c => pc'[d] = pc[d]
      /\ ring'[q] = Append(ring[q], e) /\ ring[q] \in Seq(Events)
      /\ \A r \in Queues : r # q => ring'[r] = ring[r]
  BY DEF TypeOK, RingEnqueue, Goto
<1>2. \A d \in Cores, r \in Queues : InContext(d, r)' <=> InContext(d, r)
  BY <1>1 DEF InContext
<1>3. \A d \in Cores, r \in Queues : InContext(d, r) => batch'[d] = batch[d]
  BY DEF InContext
<1>4. \A r \in Queues : r # q => Pending(r)' = Pending(r)
  BY <1>1, <1>2, <1>3, PendingSame
<1>5. Pending(q)' = Append(Pending(q), e)
  <2>1. CASE \E d \in Cores : InContext(d, q)
    <3>1. PICK d \in Cores : InContext(d, q)
      BY <2>1
    <3>2. Pending(q) = batch[d] \o ring[q] /\ Pending(q)' = batch[d] \o Append(ring[q], e)
      BY <1>1, <1>2, <1>3, <3>1 DEF PendingIs
    <3>3. batch[d] \in Seq(Events) /\ ring[q] \in Seq(Events)
      BY <1>1 DEF TypeOK
    <3>4. \A s, t \in Seq(Events) : s \o Append(t, e) = Append(s \o t, e)
      BY ConcatAppend
    <3>5. batch[d] \o Append(ring[q], e) = Append(batch[d] \o ring[q], e)
      BY <3>3, <3>4, Zenon
    <3>6. QED
      BY <3>2, <3>5
  <2>2. CASE \A d \in Cores : ~InContext(d, q)
    BY <1>1, <1>2, <2>2 DEF PendingIs
  <2>3. QED
    BY <2>1, <2>2
<1>6. \A r \in Queues : Receiver(r)' = Receiver(r)
  BY ReceiverSame
<1>7. Promise!Accept(q, e)
  BY <1>4, <1>5, <1>6 DEF Promise!Accept
<1>8. QED
  BY <1>7 DEF Promise!Next

(* A burst leaves the ring for its core's hands.                               *)
LEMMA TakeStutter ==
  ASSUME RInv, PendingIs, PendingIs', ReceiverIs, ReceiverIs', NEW c \in Cores, TakeEvents(c)
  PROVE  UNCHANGED Promise!vars
<1>1. /\ TypeOK /\ IInv /\ pc[c] = "take" /\ held[c] # <<>> /\ batch[c] = <<>>
      /\ held[c] \in Seq(Queues)
  BY DEF RInv, IInv, TypeOK, Shape, BatchShape, TakeEvents
<1>q. PICK q \in Queues : q = Head(held[c])
  BY <1>1, TailFacts
<1>2. ring[q] \in Seq(Events) /\ taken[c] \in 0..Len(ring[q])
  BY <1>1, <1>q DEF TypeOK, TakeEvents
<1>3. /\ pc'[c] = "loop" /\ held' = held /\ current' = current /\ status' = status
      /\ batch'[c] = SubSeq(ring[q], 1, taken[c])
      /\ ring'[q] = SubSeq(ring[q], taken[c] + 1, Len(ring[q]))
      /\ \A d \in Cores : d # c => pc'[d] = pc[d] /\ batch'[d] = batch[d]
      /\ \A r \in Queues : r # q => ring'[r] = ring[r]
  BY <1>1, <1>2, <1>q DEF TypeOK, TakeEvents, Goto
<1>4. ASSUME NEW r \in Queues, r # q PROVE Pending(r)' = Pending(r)
  <2>1. \A d \in Cores : InContext(d, r)' <=> InContext(d, r)
    BY <1>1, <1>3, <1>4, <1>q DEF InContext
  <2>2. \A d \in Cores : InContext(d, r) => batch'[d] = batch[d]
    BY <1>3, <1>4, <1>q DEF InContext
  <2>3. QED
    BY <1>1, <1>3, <1>4, <2>1, <2>2, PendingSame
<1>5. Pending(q)' = Pending(q)
  <2>1. InContext(c, q) /\ InContext(c, q)'
    BY <1>1, <1>3, <1>q DEF InContext
  <2>2. Pending(q) = <<>> \o ring[q] /\ Pending(q)' = batch'[c] \o ring'[q]
    BY <1>1, <1>2, <2>1 DEF PendingIs
  <2>3. <<>> \o ring[q] = ring[q] /\ batch'[c] \o ring'[q] = ring[q]
    BY <1>2, <1>3, EmptyConcat, CutConcat
  <2>4. QED
    BY <2>2, <2>3
<1>6. QED
  BY <1>3, <1>4, <1>5, Stutter

(* The oldest accepted event of a queue leaves its core's hands.               *)
LEMMA HeadLeaves ==
  ASSUME RInv, PendingIs, PendingIs', NEW c \in Cores, NEW q \in Queues,
         q = Head(held[c]), pc[c] = "loop", batch[c] # <<>>, batch' = [batch EXCEPT ![c] = Tail(@)],
         pc'[c] \in {"loop", "recv"}, \A d \in Cores : d # c => pc'[d] = pc[d],
         held' = held, ring' = ring
  PROVE  /\ Pending(q) # <<>> /\ Pending(q)' = Tail(Pending(q))
         /\ \A r \in Queues : r # q => Pending(r)' = Pending(r)
<1>1. /\ TypeOK /\ held[c] # <<>> /\ held[c] \in Seq(Queues) /\ batch[c] \in Seq(Events)
  BY DEF RInv, IInv, TypeOK, Shape
<1>2. ring[q] \in Seq(Events)
  BY <1>1 DEF TypeOK
<1>3. InContext(c, q) /\ InContext(c, q)'
  BY <1>1 DEF InContext
<1>4. batch'[c] = Tail(batch[c]) /\ \A d \in Cores : d # c => batch'[d] = batch[d]
  BY <1>1 DEF TypeOK
<1>5. Pending(q) = batch[c] \o ring[q] /\ Pending(q)' = Tail(batch[c]) \o ring[q]
  BY <1>2, <1>3, <1>4 DEF PendingIs
<1>6. batch[c] \o ring[q] # <<>> /\ Tail(batch[c] \o ring[q]) = Tail(batch[c]) \o ring[q]
  BY <1>1, <1>2, ConcatTail
<1>7. ASSUME NEW r \in Queues, r # q PROVE Pending(r)' = Pending(r)
  <2>1. \A d \in Cores : InContext(d, r)' <=> InContext(d, r)
    BY <1>1, <1>7 DEF InContext
  <2>2. \A d \in Cores : InContext(d, r) => batch'[d] = batch[d]
    BY <1>4, <1>7 DEF InContext
  <2>3. QED
    BY <1>1, <1>7, <2>1, <2>2, PendingSame
<1>8. QED
  BY <1>5, <1>6, <1>7

(* Nobody is in the receive function of the queue whose events a core is about *)
(* to dispatch.                                                                *)
LEMMA NobodyReceives ==
  ASSUME RInv, ReceiverIs, NEW c \in Cores, pc[c] = "loop"
  PROVE  /\ \A d \in Cores : current[d] # Head(held[c])
         /\ Receiver(Head(held[c])) = NoQueue
         /\ \A r \in Queues : Receiver(r) # c
<1>1. /\ IInv /\ held[c] # <<>> /\ held[c] \in Seq(Queues) /\ current[c] = NoQueue
  BY DEF RInv, IInv, TypeOK, Shape
<1>2. Head(held[c]) \in Queues
  BY <1>1, TailFacts
<1>3. \A d \in Cores : current[d] # Head(held[c])
  <2>1. SUFFICES ASSUME NEW d \in Cores, current[d] = Head(held[c]) PROVE FALSE
    OBVIOUS
  <2>2. d = c
    BY <1>1, <1>2, <2>1, ContextOwns, HeadIsOwned
  <2>3. QED
    BY <1>1, <1>2, <2>1, <2>2, ConstantsAssumption
<1>4. Receiver(Head(held[c])) = NoQueue
  BY <1>2, <1>3 DEF ReceiverIs
<1>5. ASSUME NEW r \in Queues PROVE Receiver(r) # c
  <2>1. CASE \E d \in Cores : current[d] = r
    BY <1>1, <2>1, ConstantsAssumption DEF ReceiverIs
  <2>2. CASE \A d \in Cores : current[d] # r
    BY <2>2, ConstantsAssumption DEF ReceiverIs
  <2>3. QED
    BY <2>1, <2>2
<1>6. QED
  BY <1>3, <1>4, <1>5

(* The call of a receive function begins the receipt of the oldest event.      *)
LEMMA DispatchStep ==
  ASSUME RInv, PendingIs, PendingIs', ReceiverIs, ReceiverIs', NEW c \in Cores, Dispatch(c)
  PROVE  Promise!Next
<1>1. TypeOK /\ pc[c] = "loop" /\ batch[c] # <<>>
  BY DEF RInv, IInv, Dispatch
<1>q. PICK q \in Queues : q = Head(held[c])
  <2>1. held[c] # <<>> /\ held[c] \in Seq(Queues)
    BY <1>1 DEF RInv, IInv, TypeOK, Shape
  <2>2. QED
    BY <2>1, TailFacts
<1>2. /\ batch' = [batch EXCEPT ![c] = Tail(@)] /\ held' = held /\ ring' = ring
      /\ status' = status
      /\ pc'[c] = "recv" /\ \A d \in Cores : d # c => pc'[d] = pc[d]
      /\ current'[c] = q /\ \A d \in Cores : d # c => current'[d] = current[d]
  BY <1>1, <1>q DEF TypeOK, Dispatch, Goto
<1>3. /\ Pending(q) # <<>> /\ Pending(q)' = Tail(Pending(q))
      /\ \A r \in Queues : r # q => Pending(r)' = Pending(r)
  BY <1>1, <1>2, <1>q, HeadLeaves
<1>4. /\ Receiver(q) = NoQueue /\ \A r \in Queues : Receiver(r) # c
  BY <1>1, <1>q, NobodyReceives
<1>5. Receiver(q)' = c
  BY <1>2, <1>3 DEF ReceiverIs
<1>6. ASSUME NEW r \in Queues, r # q PROVE Receiver(r)' = Receiver(r)
  <2>1. current[c] # r
    BY <1>1, <1>6, ConstantsAssumption DEF RInv, IInv, Shape
  <2>2. \A d \in Cores : current'[d] = r <=> current[d] = r
    BY <1>2, <1>6, <2>1
  <2>3. QED
    BY <2>2, <1>6, ReceiverSame
<1>7. Promise!Begin(c, q)
  BY <1>2, <1>3, <1>4, <1>5, <1>6 DEF Promise!Begin
<1>8. QED
  BY <1>3, <1>7 DEF Promise!Next

(* An event of a queue that is not ready is discarded.                         *)
LEMMA DropStep ==
  ASSUME RInv, PendingIs, PendingIs', ReceiverIs, ReceiverIs', NEW c \in Cores, DropEvent(c)
  PROVE  Promise!Next
<1>1. TypeOK /\ pc[c] = "loop" /\ batch[c] # <<>>
  BY DEF RInv, IInv, DropEvent
<1>q. PICK q \in Queues : q = Head(held[c])
  <2>1. held[c] # <<>> /\ held[c] \in Seq(Queues)
    BY <1>1 DEF RInv, IInv, TypeOK, Shape
  <2>2. QED
    BY <2>1, TailFacts
<1>2. /\ batch' = [batch EXCEPT ![c] = Tail(@)] /\ held' = held /\ ring' = ring
      /\ status' = status /\ pc' = pc /\ current' = current /\ status[q] # "READY"
  BY <1>q DEF DropEvent
<1>3. /\ Pending(q) # <<>> /\ Pending(q)' = Tail(Pending(q))
      /\ \A r \in Queues : r # q => Pending(r)' = Pending(r)
  BY <1>1, <1>2, <1>q, HeadLeaves
<1>4. Receiver(q) = NoQueue
  BY <1>1, <1>q, NobodyReceives
<1>5. \A r \in Queues : Receiver(r)' = Receiver(r)
  BY <1>2, ReceiverSame
<1>6. Promise!Discard(q)
  BY <1>2, <1>3, <1>4, <1>5 DEF Promise!Discard
<1>7. QED
  BY <1>3, <1>6 DEF Promise!Next

(* The receive function returns.                                               *)
LEMMA ReturnStep ==
  ASSUME RInv, PendingIs, PendingIs', ReceiverIs, ReceiverIs', NEW c \in Cores,
         ReceiveReturns(c)
  PROVE  Promise!Next
<1>1. TypeOK /\ IInv /\ pc[c] = "recv"
  BY DEF RInv, IInv, ReceiveReturns
<1>q. PICK q \in Queues : q = current[c]
  BY <1>1 DEF IInv, TypeOK, Shape
<1>2. /\ ring' = ring /\ held' = held /\ batch' = batch /\ status' = status
      /\ pc'[c] = "loop" /\ \A d \in Cores : d # c => pc'[d] = pc[d]
      /\ current'[c] = NoQueue /\ \A d \in Cores : d # c => current'[d] = current[d]
  BY <1>1 DEF TypeOK, ReceiveReturns, Goto, ringVars
<1>3. \A d \in Cores, r \in Queues : InContext(d, r)' <=> InContext(d, r)
  BY <1>1, <1>2 DEF InContext
<1>4. \A r \in Queues : Pending(r)' = Pending(r)
  BY <1>1, <1>2, <1>3, PendingSame
<1>5. Receiver(q) = c
  BY <1>q DEF ReceiverIs
<1>6. \A d \in Cores : current[d] = q => d = c
  BY <1>1, <1>q, ContextOwns, HeadIsOwned
<1>7. \A d \in Cores : current'[d] # q
  BY <1>1, <1>2, <1>6, <1>q, ConstantsAssumption
<1>8. Receiver(q)' = NoQueue
  BY <1>7 DEF ReceiverIs
<1>9. ASSUME NEW r \in Queues, r # q PROVE Receiver(r)' = Receiver(r)
  <2>1. \A d \in Cores : current'[d] = r <=> current[d] = r
    BY <1>2, <1>9, <1>q, ConstantsAssumption
  <2>2. QED
    BY <1>9, <2>1, ReceiverSame
<1>10. Promise!End(q)
  BY <1>2, <1>4, <1>5, <1>8, <1>9, ConstantsAssumption DEF Promise!End
<1>11. QED
  BY <1>10 DEF Promise!Next

(* A packet dispatched directly is accepted ahead of what is in the ring.      *)
LEMMA GrabStep ==
  ASSUME RInv, PendingIs, PendingIs', ReceiverIs, ReceiverIs', NEW c \in Cores,
         GrabContext(c)
  PROVE  Promise!Next
<1>1. /\ TypeOK /\ IInv /\ ElementIsMarked /\ pc[c] = "grab" /\ held[c] = <<>>
      /\ DirectDispatch /\ dstQ[c] \in Queues
  BY DEF RInv, IInv, Shape, BatchShape, GrabContext
<1>q. PICK q \in Queues : q = dstQ[c]
  BY <1>1
<1>e. PICK e \in Events : batch[c] = <<e>>
  BY <1>1 DEF RInv, BatchShape
<1>2. \A d \in Cores : ~Owns(d, q)
  BY <1>1, <1>q DEF ElementIsMarked, GrabContext
<1>3. \A d \in Cores : ~InContext(d, q) /\ current[d] # q
  BY <1>1, <1>2, ContextOwns
<1>4. /\ pc'[c] = "loop" /\ held'[c] = <<q>> /\ batch' = batch /\ ring' = ring
      /\ current' = current /\ status' = status
      /\ \A d \in Cores : d # c => pc'[d] = pc[d] /\ held'[d] = held[d]
  BY <1>1, <1>q DEF TypeOK, GrabContext, Goto
<1>5. Pending(q) = ring[q]
  BY <1>3 DEF PendingIs
<1>6. Pending(q)' = <<e>> \o ring[q]
  <2>1. InContext(c, q)'
    <3>1. held'[c] # <<>> /\ Head(held'[c]) = q
      BY <1>4
    <3>2. QED
      BY <1>4, <3>1 DEF InContext
  <2>2. QED
    BY <1>4, <1>e, <2>1 DEF PendingIs
<1>7. ASSUME NEW r \in Queues, r # q PROVE Pending(r)' = Pending(r)
  <2>1. Head(held'[c]) # r
    BY <1>4, <1>7
  <2>2. \A d \in Cores : InContext(d, r)' <=> InContext(d, r)
    BY <1>1, <1>4, <2>1 DEF InContext
  <2>3. QED
    BY <1>1, <1>4, <1>7, <2>2, PendingSame
<1>8. \A r \in Queues : Receiver(r)' = Receiver(r)
  BY <1>4, ReceiverSame
<1>9. Receiver(q) = NoQueue
  BY <1>3 DEF ReceiverIs
<1>10. Promise!AcceptAhead(q, e)
  BY <1>1, <1>4, <1>5, <1>6, <1>7, <1>8, <1>9 DEF Promise!AcceptAhead
<1>11. QED
  BY <1>10 DEF Promise!Next

(* Enabling or disabling a queue.                                              *)
LEMMA ToggleStep ==
  ASSUME RInv, PendingIs, PendingIs', ReceiverIs, ReceiverIs', NEW q \in Queues,
         ToggleStatus(q)
  PROVE  Promise!Next
<1>1. /\ TypeOK /\ ring' = ring /\ held' = held /\ batch' = batch /\ pc' = pc
      /\ current' = current
      /\ status' = [status EXCEPT ![q] = IF @ = "READY" THEN "BIND" ELSE "READY"]
  BY DEF RInv, IInv, ToggleStatus, ringVars, coreVars
<1>2. \A d \in Cores, r \in Queues : InContext(d, r)' <=> InContext(d, r)
  BY <1>1 DEF InContext
<1>3. \A r \in Queues : Pending(r)' = Pending(r)
  BY <1>1, <1>2, PendingSame
<1>4. \A r \in Queues : Receiver(r)' = Receiver(r)
  BY <1>1, ReceiverSame
<1>5. \A r \in Queues :
        status'[r] = "READY" <=> (IF r = q THEN status[r] # "READY" ELSE status[r] = "READY")
  BY <1>1 DEF TypeOK
<1>6. {r \in Queues : status'[r] = "READY"} =
        IF q \in {r \in Queues : status[r] = "READY"}
        THEN {r \in Queues : status[r] = "READY"} \ {q}
        ELSE {r \in Queues : status[r] = "READY"} \cup {q}
  BY <1>5
<1>7. Promise!Toggle(q)
  BY <1>3, <1>4, <1>6 DEF Promise!Toggle
<1>8. QED
  BY <1>7 DEF Promise!Next

(* Every step is a step of the promise or not seen.                            *)
LEMMA PromiseStep ==
  ASSUME RInv, RInv', PendingIs, PendingIs', ReceiverIs, ReceiverIs', [Next]_vars
  PROVE  [Promise!Next]_(Promise!vars)
<1>0. /\ TypeOK /\ IInv /\ \A c \in Cores : Shape(c) /\ BatchShape(c) /\ BatchShape(c)'
  BY DEF RInv, IInv
<1>1. ASSUME NEW c \in Cores, NEW e \in Events, Alloc(c, e) \/ Free(c, e)
      PROVE  UNCHANGED Promise!vars
  BY <1>0, <1>1, QuietStutter DEF Alloc, Free, PoolPut, coreVars
<1>2. ASSUME NEW c \in Cores, NEW e \in Events, NEW q \in Queues, SendFails(c, e, q)
      PROVE  UNCHANGED Promise!vars
  BY <1>0, <1>2, QuietStutter DEF SendFails, coreVars
<1>3. ASSUME NEW c \in Cores, NEW e \in Events, NEW q \in Queues, Send(c, e, q)
      PROVE  Promise!Next
  <2>1. /\ held' = held /\ current' = current /\ status' = status /\ batch' = batch
        /\ RingEnqueue(c, e, q, hdrQ[e]) /\ pc[c] \in {"idle", "recv"}
    BY <1>3 DEF Send, AppRuns, coreVars
  <2>2. QED
    BY <1>0, <2>1, AcceptStep
<1>4. ASSUME NEW c \in Cores, NEW e \in Events, NEW q \in Queues, Receive(c, e, q)
      PROVE  Promise!Next
  <2>1. /\ held' = held /\ current' = current /\ status' = status /\ batch' = batch
        /\ RingEnqueue(c, e, q, NoQueue) /\ pc[c] = "idle"
    BY <1>4 DEF Receive, coreVars
  <2>2. QED
    BY <1>0, <2>1, AcceptStep
<1>5. ASSUME NEW c \in Cores, NEW e \in Events, NEW q \in Queues, ReceiveDirect(c, e, q)
      PROVE  UNCHANGED Promise!vars
  <2>1. /\ ring' = ring /\ held' = held /\ current' = current /\ status' = status
        /\ held[c] = <<>>
        /\ \A d \in Cores : d # c => pc'[d] = pc[d] /\ batch'[d] = batch[d]
    BY <1>0, <1>5 DEF TypeOK, Shape, ReceiveDirect, Goto
  <2>2. QED
    BY <1>0, <2>1, QuietStutter
<1>6. ASSUME NEW c \in Cores,
             CountEvent(c) \/ TestAndSet(c) \/ Push(c)
      PROVE  UNCHANGED Promise!vars
  <2>1. /\ ring' = ring /\ held' = held /\ current' = current /\ status' = status
        /\ batch' = batch
    BY <1>6 DEF CountEvent, TestAndSet, Push, ringVars, coreVars
  <2>2. /\ pc[c] # "count" /\ pc'[c] # "count" /\ \A d \in Cores : d # c => pc'[d] = pc[d]
    BY <1>0, <1>6 DEF TypeOK, CountEvent, TestAndSet, Push, SendReturns, Goto
  <2>3. QED
    BY <1>0, <2>1, <2>2, QuietStutter
<1>7. ASSUME NEW c \in Cores, GrabContext(c) PROVE Promise!Next
  BY <1>7, GrabStep
<1>8. ASSUME NEW c \in Cores, GrabFails(c) PROVE [Promise!Next]_(Promise!vars)
  <2>1. /\ held' = held /\ current' = current /\ status' = status
        /\ pc[c] = "grab" /\ held[c] = <<>> /\ dstQ[c] \in Queues /\ Head(batch[c]) \in Events
        /\ \A d \in Cores : d # c => batch'[d] = batch[d]
    BY <1>0, <1>8 DEF TypeOK, Shape, GrabFails
  <2>2. CASE RingEnqueue(c, Head(batch[c]), dstQ[c], NoQueue)
    <3>1. Promise!Next
      BY <1>0, <2>1, <2>2, AcceptStep
    <3>2. QED
      BY <3>1
  <2>3. CASE SendReturns(c) /\ UNCHANGED ring
    <3>1. \A d \in Cores : d # c => pc'[d] = pc[d]
      BY <1>0, <2>3 DEF TypeOK, SendReturns, Goto
    <3>2. UNCHANGED Promise!vars
      BY <1>0, <2>1, <2>3, <3>1, QuietStutter
    <3>3. QED
      BY <3>2
  <2>4. QED
    BY <1>8, <2>2, <2>3 DEF GrabFails
<1>9. ASSUME NEW c \in Cores, Schedule(c) PROVE UNCHANGED Promise!vars
  <2>1. /\ ring' = ring /\ batch' = batch /\ current' = current /\ status' = status
        /\ held[c] = <<>> /\ pc'[c] = "count"
        /\ \A d \in Cores : d # c => pc'[d] = pc[d] /\ held'[d] = held[d]
    BY <1>0, <1>9 DEF TypeOK, Shape, Schedule, Goto, ringVars
  <2>2. \A d \in Cores, q \in Queues : InContext(d, q)' <=> InContext(d, q)
    BY <2>1 DEF InContext
  <2>3. \A q \in Queues : Pending(q)' = Pending(q)
    BY <1>0, <2>1, <2>2, PendingSame
  <2>4. QED
    BY <2>1, <2>3, Stutter
<1>10. ASSUME NEW c \in Cores, ReadCount(c) \/ Subtract(c) \/ ReleaseFails(c)
       PROVE  UNCHANGED Promise!vars
  <2>1. /\ ring' = ring /\ held' = held /\ current' = current /\ status' = status
        /\ batch' = batch
    BY <1>10 DEF ReadCount, Subtract, ReleaseFails, ringVars, coreVars
  <2>2. batch[c] = <<>> /\ \A d \in Cores : d # c => pc'[d] = pc[d]
    BY <1>0, <1>10 DEF TypeOK, BatchShape, ReadCount, Subtract, ReleaseFails, Goto
  <2>3. QED
    BY <1>0, <2>1, <2>2, QuietStutter
<1>11. ASSUME NEW c \in Cores, TakeEvents(c) PROVE UNCHANGED Promise!vars
  BY <1>11, TakeStutter
<1>12. ASSUME NEW c \in Cores, Dispatch(c) PROVE Promise!Next
  BY <1>12, DispatchStep
<1>13. ASSUME NEW c \in Cores, DropEvent(c) PROVE Promise!Next
  BY <1>13, DropStep
<1>14. ASSUME NEW c \in Cores, ReceiveReturns(c) PROVE Promise!Next
  BY <1>14, ReturnStep
<1>15. ASSUME NEW c \in Cores, Release(c) \/ Reschedule(c) PROVE UNCHANGED Promise!vars
  <2>1. /\ ring' = ring /\ current' = current /\ status' = status /\ batch' = batch
        /\ pc[c] \in {"cas", "resched"} /\ NextElement(c)
    BY <1>15 DEF Release, Reschedule, ringVars
  <2>2. batch[c] = <<>>
        /\ \A d \in Cores : d # c => pc'[d] = pc[d] /\ held'[d] = held[d]
    BY <1>0, <2>1 DEF TypeOK, BatchShape, NextElement, Goto
  <2>3. ASSUME NEW q \in Queues PROVE Pending(q)' = Pending(q)
    <3>1. \A d \in Cores : d # c => (InContext(d, q)' <=> InContext(d, q))
      BY <2>2 DEF InContext
    <3>2. QED
      BY <1>0, <2>1, <2>2, <3>1, PendingSame
  <2>4. QED
    BY <2>1, <2>3, Stutter
<1>16. ASSUME NEW q \in Queues, ToggleStatus(q) \/ ChangeMasks(q)
       PROVE  [Promise!Next]_(Promise!vars)
  <2>1. CASE ToggleStatus(q)
    BY <2>1, ToggleStep
  <2>2. CASE ChangeMasks(q)
    <3>1. UNCHANGED Promise!vars
      BY <1>0, <2>2, QuietStutter DEF ChangeMasks, ringVars, coreVars
    <3>2. QED
      BY <3>1
  <2>3. QED
    BY <1>16, <2>1, <2>2
<1>17. CASE UNCHANGED vars
  BY <1>0, <1>17, QuietStutter DEF vars, ringVars, coreVars
<1>18. QED
  BY <1>1, <1>2, <1>3, <1>4, <1>5, <1>6, <1>7, <1>8, <1>9, <1>10, <1>11, <1>12,
     <1>13, <1>14, <1>15, <1>16, <1>17
  DEF Next, AppStep, EMStep

(* What em_send_atomic and em_schedule_atomic do with counters and the         *)
(* sched-queue amounts to FIFO queues with one receiver: events are received   *)
(* in the order in which they were enqueued, one at a time, on whatever cores; *)
(* only a packet that its receiving core dispatches itself comes ahead of what *)
(* is being sent meanwhile.                                                    *)
THEOREM Refinement == Spec => ImplementsExclusiveQueue
<1>1. Init => Promise!Init
  <2>1. SUFFICES ASSUME Init PROVE Promise!Init
    OBVIOUS
  <2>2. ASSUME NEW q \in Queues PROVE Pending(q) = <<>> /\ Receiver(q) = NoQueue
    <3>1. \A c \in Cores : ~InContext(c, q) /\ current[c] # q
      BY <2>1, ConstantsAssumption DEF Init, InContext
    <3>2. <<>> \o <<>> = <<>>
      OBVIOUS
    <3>3. QED
      BY <2>1, <3>1, <3>2 DEF Init, Pending, Receiver
  <2>3. QED
    BY <2>1, <2>2 DEF Init, Promise!Init
<1>2. RInv /\ RInv' /\ PendingIs /\ PendingIs' /\ ReceiverIs /\ ReceiverIs' /\ [Next]_vars
      => [Promise!Next]_(Promise!vars)
  BY PromiseStep
<1>3. QED
  BY <1>1, <1>2, RInvariance, ChoicesKnown, PTL DEF Spec, ImplementsExclusiveQueue, Promise!Spec
=============================================================================
