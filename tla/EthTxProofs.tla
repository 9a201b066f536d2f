---------------------------- MODULE EthTxProofs ----------------------------
(***************************************************************************)
(* Proofs about EthTx, for any number of cores, Tx tables, flows and       *)
(* packets, any ring and burst sizes.                                      *)
(***************************************************************************)
EXTENDS EthTx, SequenceTheorems, FiniteSetTheorems, TLAPS

-----------------------------------------------------------------------------
(* Sequences *)

(* Appending to a sequence.                                                    *)
LEMMA AppendFacts ==
  ASSUME NEW S, NEW s \in Seq(S), NEW x \in S
  PROVE  /\ Append(s, x) \in Seq(S)
         /\ Len(Append(s, x)) = Len(s) + 1
         /\ \A i \in 1..Len(s) : Append(s, x)[i] = s[i]
         /\ Append(s, x)[Len(s) + 1] = x
  OBVIOUS

(* Cutting a sequence in two.                                                  *)
LEMMA CutFacts ==
  ASSUME NEW S, NEW s \in Seq(S), NEW n \in 0..Len(s)
  PROVE  /\ SubSeq(s, 1, n) \in Seq(S)
         /\ Len(SubSeq(s, 1, n)) = n
         /\ \A i \in 1..n : SubSeq(s, 1, n)[i] = s[i]
         /\ SubSeq(s, n + 1, Len(s)) \in Seq(S)
         /\ Len(SubSeq(s, n + 1, Len(s))) = Len(s) - n
         /\ \A i \in 1..(Len(s) - n) : SubSeq(s, n + 1, Len(s))[i] = s[n + i]
<1> Len(s) \in Nat /\ n \in Int /\ n + 1 \in Int /\ Len(s) \in Int
  OBVIOUS
<1>1. \A i \in 1..n : s[i] \in S
  OBVIOUS
<1>2. \A i \in (n + 1)..Len(s) : s[i] \in S
  OBVIOUS
<1>3. /\ SubSeq(s, 1, n) \in Seq(S)
      /\ Len(SubSeq(s, 1, n)) = IF 1 <= n THEN n - 1 + 1 ELSE 0
      /\ \A i \in 1..(n - 1 + 1) : SubSeq(s, 1, n)[i] = s[1 + i - 1]
  BY <1>1, SubSeqProperties
<1>4. /\ SubSeq(s, n + 1, Len(s)) \in Seq(S)
      /\ Len(SubSeq(s, n + 1, Len(s))) = IF n + 1 <= Len(s) THEN Len(s) - (n + 1) + 1 ELSE 0
      /\ \A i \in 1..(Len(s) - (n + 1) + 1) : SubSeq(s, n + 1, Len(s))[i] = s[n + 1 + i - 1]
  BY <1>2, SubSeqProperties
<1>5. QED
  BY <1>3, <1>4

(* One sequence behind another.                                                *)
LEMMA ConcatFacts ==
  ASSUME NEW S, NEW s \in Seq(S), NEW t \in Seq(S)
  PROVE  /\ s \o t \in Seq(S)
         /\ Len(s) \in Nat /\ Len(t) \in Nat
         /\ Len(s \o t) = Len(s) + Len(t)
         /\ \A i \in 1..Len(s) : (s \o t)[i] = s[i]
         /\ \A i \in 1..Len(t) : (s \o t)[Len(s) + i] = t[i]
<1>1. /\ s \o t \in Seq(S) /\ Len(s \o t) = Len(s) + Len(t)
      /\ \A i \in 1..(Len(s) + Len(t)) :
           (s \o t)[i] = IF i <= Len(s) THEN s[i] ELSE t[i - Len(s)]
  BY ConcatProperties
<1>2. Len(s) \in Nat /\ Len(t) \in Nat
  OBVIOUS
<1>3. \A i \in 1..Len(t) : (s \o t)[Len(s) + i] = t[i]
  <2>1. TAKE i \in 1..Len(t)
  <2>2. /\ Len(s) + i \in 1..(Len(s) + Len(t)) /\ ~(Len(s) + i <= Len(s))
        /\ (Len(s) + i) - Len(s) = i
    BY <1>2
  <2>3. QED
    BY <1>1, <2>2
<1>4. QED
  BY <1>1, <1>2, <1>3

-----------------------------------------------------------------------------
(* The invariant *)

(* Packet p may be transmitted before packet q: a straight packet before   *)
(* one that goes through the ring, or packets of a flow in their order.    *)
MayPrecede(p, q) == p.flow = q.flow /\ ~(p.straight /\ ~q.straight) => p.n <= q.n

Sorted(s) == \A i, j \in 1..Len(s) : i < j => MayPrecede(s[i], s[j])
Across(s, t) == \A i \in 1..Len(s), j \in 1..Len(t) : MayPrecede(s[i], t[j])

(* The lock is held by the core that consumes the ring or transmits, and only *)
(* that one has a burst.                                                      *)
LockIsHeld ==
  \A c \in Cores :
    /\ pc[c] \in {"bulk", "burst"} <=> lock = c
    /\ pc[c] # "burst" => burst[c] = <<>>

(* A packet in a sender's hands is the flow's latest.                         *)
OwnIsLatest ==
  \A c \in Cores :
    /\ pc[c] \in {"count", "trylock", "bulk", "enqueue"} => own[c] # None
    /\ own[c] # None => own[c].n = sent[own[c].flow] /\ ~own[c].straight

Numbered(s) == \A i \in 1..Len(s) : s[i].n <= sent[s[i].flow]

RingAndWireInOrder ==
  /\ \A i \in 1..Len(ring) : ~ring[i].straight
  /\ Numbered(wire) /\ Numbered(ring)
  /\ Sorted(wire) /\ Sorted(ring) /\ Across(wire, ring)

BurstInOrder(c) ==
  /\ Numbered(burst[c]) /\ Sorted(burst[c])
  /\ Across(wire, burst[c]) /\ Across(burst[c], ring)

(* The inductive invariant: what is on the wire, in a burst and in the ring,  *)
(* one behind the other, is in order.                                         *)
IInv ==
  /\ TypeOK
  /\ LockIsHeld
  /\ OwnIsLatest
  /\ RingAndWireInOrder
  /\ \A c \in Cores : BurstInOrder(c)

-----------------------------------------------------------------------------
(* Sequences in order *)

(* A packet that every packet of a sequence may precede can follow it.        *)
LEMMA SortedAppend ==
  ASSUME NEW s \in Seq(Packet), NEW x \in Packet,
         Sorted(s), \A i \in 1..Len(s) : MayPrecede(s[i], x)
  PROVE  Sorted(Append(s, x))
<1> DEFINE t == Append(s, x)
<1>1. /\ Len(t) = Len(s) + 1 /\ Len(s) \in Nat
      /\ \A i \in 1..Len(s) : t[i] = s[i]
      /\ t[Len(s) + 1] = x
  BY AppendFacts
<1> HIDE DEF t
<1>2. \A i, j \in 1..Len(t) : i < j => MayPrecede(t[i], t[j])
  <2>1. TAKE i, j \in 1..Len(t)
  <2>2. CASE j \in 1..Len(s)
    BY <1>1, <2>2 DEF Sorted
  <2>3. CASE j = Len(s) + 1
    <3>1. HAVE i < j
    <3>2. i \in 1..Len(s)
      BY <1>1, <2>3, <3>1
    <3>3. QED
      BY <1>1, <2>3, <3>2
  <2>4. QED
    BY <1>1, <2>2, <2>3
<1>3. QED
  BY <1>2 DEF Sorted, t

(* The two halves of a sequence in order.                                     *)
LEMMA SortedCut ==
  ASSUME NEW s \in Seq(Packet), NEW n \in 0..Len(s), Sorted(s)
  PROVE  /\ Sorted(SubSeq(s, 1, n))
         /\ Sorted(SubSeq(s, n + 1, Len(s)))
         /\ Across(SubSeq(s, 1, n), SubSeq(s, n + 1, Len(s)))
<1> DEFINE a == SubSeq(s, 1, n)
           b == SubSeq(s, n + 1, Len(s))
<1>1. /\ Len(a) = n /\ Len(b) = Len(s) - n /\ Len(s) \in Nat
      /\ \A i \in 1..n : a[i] = s[i]
      /\ \A i \in 1..(Len(s) - n) : b[i] = s[n + i]
  BY CutFacts
<1> HIDE DEF a, b
<1>2. Sorted(a)
  BY <1>1 DEF Sorted
<1>3. Sorted(b)
  <2>1. \A i, j \in 1..Len(b) : i < j => n + i \in 1..Len(s) /\ n + j \in 1..Len(s) /\ n + i < n + j
    BY <1>1
  <2>2. QED
    BY <1>1, <2>1 DEF Sorted
<1>4. Across(a, b)
  <2>1. \A i \in 1..Len(a), j \in 1..Len(b) : i \in 1..Len(s) /\ n + j \in 1..Len(s) /\ i < n + j
    BY <1>1
  <2>2. QED
    BY <1>1, <2>1 DEF Sorted, Across
<1>5. QED
  BY <1>2, <1>3, <1>4 DEF a, b

(* What stands before or behind a sequence stands so to its halves.           *)
LEMMA AcrossCut ==
  ASSUME NEW s \in Seq(Packet), NEW t \in Seq(Packet), NEW n \in 0..Len(t)
  PROVE  /\ Across(s, t) => /\ Across(s, SubSeq(t, 1, n))
                            /\ Across(s, SubSeq(t, n + 1, Len(t)))
         /\ Across(t, s) => /\ Across(SubSeq(t, 1, n), s)
                            /\ Across(SubSeq(t, n + 1, Len(t)), s)
<1> DEFINE a == SubSeq(t, 1, n)
           b == SubSeq(t, n + 1, Len(t))
<1>1. /\ Len(a) = n /\ Len(b) = Len(t) - n /\ Len(t) \in Nat
      /\ \A i \in 1..n : a[i] = t[i]
      /\ \A i \in 1..(Len(t) - n) : b[i] = t[n + i]
  BY CutFacts
<1> HIDE DEF a, b
<1>2. \A i \in 1..Len(a) : i \in 1..Len(t) /\ a[i] = t[i]
  BY <1>1
<1>3. \A i \in 1..Len(b) : n + i \in 1..Len(t) /\ b[i] = t[n + i]
  BY <1>1
<1>4. Across(s, t) => Across(s, a) /\ Across(s, b)
  BY <1>2, <1>3 DEF Across
<1>5. Across(t, s) => Across(a, s) /\ Across(b, s)
  BY <1>2, <1>3 DEF Across
<1>6. QED
  BY <1>4, <1>5 DEF a, b

(* A sequence with one packet more.                                           *)
LEMMA AcrossAppend ==
  ASSUME NEW s \in Seq(Packet), NEW t \in Seq(Packet), NEW x \in Packet
  PROVE  /\ Across(s, t) /\ (\A i \in 1..Len(s) : MayPrecede(s[i], x)) => Across(s, Append(t, x))
         /\ Across(t, s) /\ (\A i \in 1..Len(s) : MayPrecede(x, s[i])) => Across(Append(t, x), s)
<1> DEFINE u == Append(t, x)
<1>1. /\ Len(u) = Len(t) + 1 /\ Len(t) \in Nat
      /\ \A i \in 1..Len(t) : u[i] = t[i]
      /\ u[Len(t) + 1] = x
  BY AppendFacts
<1> HIDE DEF u
<1>2. \A i \in 1..Len(u) : (i \in 1..Len(t) /\ u[i] = t[i]) \/ u[i] = x
  BY <1>1
<1>3. QED
  BY <1>2 DEF Across, u

(* One sequence behind another.                                               *)
LEMMA SortedConcat ==
  ASSUME NEW s \in Seq(Packet), NEW t \in Seq(Packet), NEW r \in Seq(Packet),
         Sorted(s), Sorted(t), Across(s, t), Across(s, r), Across(t, r)
  PROVE  Sorted(s \o t) /\ Across(s \o t, r)
<1> DEFINE u == s \o t
<1>1. /\ Len(u) = Len(s) + Len(t) /\ Len(s) \in Nat /\ Len(t) \in Nat
      /\ \A i \in 1..Len(s) : u[i] = s[i]
      /\ \A i \in 1..Len(t) : u[Len(s) + i] = t[i]
  BY ConcatFacts
<1> HIDE DEF u
<1>2. \A i \in 1..Len(u) : \/ i \in 1..Len(s) /\ u[i] = s[i]
                           \/ i - Len(s) \in 1..Len(t) /\ u[i] = t[i - Len(s)] /\ i > Len(s)
  <2>1. TAKE i \in 1..Len(u)
  <2>2. CASE i \in 1..Len(s)
    BY <1>1, <2>2
  <2>3. CASE i - Len(s) \in 1..Len(t)
    <3>1. u[Len(s) + (i - Len(s))] = t[i - Len(s)]
      BY <1>1, <2>3
    <3>2. Len(s) + (i - Len(s)) = i
      BY <1>1
    <3>3. QED
      BY <1>1, <2>3, <3>1, <3>2
  <2>4. QED
    BY <1>1, <2>2, <2>3
<1>3. ASSUME NEW i \in 1..Len(u), NEW j \in 1..Len(u), i < j
      PROVE  MayPrecede(u[i], u[j])
  <2>1. CASE i \in 1..Len(s) /\ u[i] = s[i] /\ j \in 1..Len(s) /\ u[j] = s[j]
    BY <1>3, <2>1 DEF Sorted
  <2>2. CASE i \in 1..Len(s) /\ u[i] = s[i] /\ j - Len(s) \in 1..Len(t) /\ u[j] = t[j - Len(s)]
    BY <2>2 DEF Across
  <2>3. CASE /\ i - Len(s) \in 1..Len(t) /\ u[i] = t[i - Len(s)]
             /\ j - Len(s) \in 1..Len(t) /\ u[j] = t[j - Len(s)]
    <3>1. i - Len(s) < j - Len(s)
      BY <1>1, <1>3
    <3>2. QED
      BY <2>3, <3>1 DEF Sorted
  <2>4. QED
    <3>1. ~(i > Len(s) /\ j \in 1..Len(s))
      BY <1>1, <1>3
    <3>2. QED
      BY <1>2, <2>1, <2>2, <2>3, <3>1
<1>4. Across(u, r)
  BY <1>2 DEF Across
<1>5. QED
  BY <1>3, <1>4 DEF Sorted, u

-----------------------------------------------------------------------------
(* Types *)

\* What a dequeue takes out of the ring and leaves in it.
LEMMA DequeueTypes ==
  ASSUME TypeOK, NEW n \in 0..Len(ring)
  PROVE  /\ SubSeq(ring, 1, n) \in Seq(Packet)
         /\ SubSeq(ring, n + 1, Len(ring)) \in Seq(Packet)
         /\ Len(SubSeq(ring, n + 1, Len(ring))) <= RingCap
<1>1. ring \in Seq(Packet) /\ Len(ring) <= RingCap /\ Len(ring) \in Nat
  BY DEF TypeOK
<1>2. QED
  BY <1>1, CutFacts, ConstantsAssumption

\* A dequeue in bulk leaves what begins at TxBurst.
LEMMA BulkFacts ==
  ASSUME TypeOK, Len(ring) >= TxBurst - 1
  PROVE  TxBurst - 1 \in 0..Len(ring) /\ (TxBurst - 1) + 1 = TxBurst
<1>1. Len(ring) \in Nat
  BY DEF TypeOK
<1>2. QED
  BY <1>1, ConstantsAssumption

(* Every step keeps the types.                                                *)
LEMMA TypeStep ==
  ASSUME IInv, [Next]_vars
  PROVE  TypeOK'
<1> USE ConstantsAssumption DEF IInv, TypeOK, ControlPoints, Goto
<1>1. ASSUME NEW c \in Cores, NEW f \in Flows, Send(c, f)
      PROVE  TypeOK'
  <2>1. sent[f] + 1 \in 1..MaxPackets
    BY <1>1 DEF Send
  <2>2. [flow |-> f, n |-> sent[f] + 1, straight |-> FALSE] \in Packet
    BY <2>1 DEF Packet
  <2>3. QED
    BY <1>1, <2>1, <2>2 DEF Send
<1>2. ASSUME NEW c \in Cores, Count(c)
      PROVE  TypeOK'
  BY <1>2 DEF Count
<1>3. ASSUME NEW c \in Cores, TryLock(c)
      PROVE  TypeOK'
  BY <1>3 DEF TryLock
<1>4. ASSUME NEW c \in Cores, DequeueBulk(c)
      PROVE  TypeOK'
  <2>1. CASE Len(ring) >= TxBurst - 1
    <3>1. /\ SubSeq(ring, 1, TxBurst - 1) \in Seq(Packet)
          /\ SubSeq(ring, TxBurst, Len(ring)) \in Seq(Packet)
          /\ Len(SubSeq(ring, TxBurst, Len(ring))) <= RingCap
      BY <2>1, BulkFacts, DequeueTypes
    <3>2. own[c] \in Packet
      BY <1>4 DEF DequeueBulk, OwnIsLatest
    <3>3. [own[c] EXCEPT !.straight = TRUE] \in Packet
      BY <3>2 DEF Packet
    <3>4. Append(SubSeq(ring, 1, TxBurst - 1), [own[c] EXCEPT !.straight = TRUE]) \in Seq(Packet)
      BY <3>1, <3>3, AppendFacts
    <3>5. QED
      BY <1>4, <2>1, <3>1, <3>4 DEF DequeueBulk
  <2>2. CASE ~(Len(ring) >= TxBurst - 1)
    BY <1>4, <2>2 DEF DequeueBulk
  <2>3. QED
    BY <2>1, <2>2
<1>5. ASSUME NEW c \in Cores, Transmit(c)
      PROVE  TypeOK'
  <2>1. PICK k \in 0..Len(burst[c]) :
           /\ wire' = wire \o SubSeq(burst[c], 1, k)
           /\ lost' = lost \cup {burst[c][i] : i \in k+1..Len(burst[c])}
    BY <1>5 DEF Transmit
  <2>2. burst[c] \in Seq(Packet) /\ SubSeq(burst[c], 1, k) \in Seq(Packet)
    BY CutFacts
  <2>3. wire' \in Seq(Packet)
    BY <2>1, <2>2, ConcatFacts
  <2>4. \A i \in k+1..Len(burst[c]) : burst[c][i] \in Packet
    BY <2>2
  <2>5. lost' \subseteq Packet
    BY <2>1, <2>4
  <2>6. QED
    BY <1>5, <2>3, <2>5 DEF Transmit
<1>6. ASSUME NEW c \in Cores, Enqueue(c)
      PROVE  TypeOK'
  <2>1. own[c] \in Packet
    BY <1>6 DEF Enqueue, OwnIsLatest
  <2>2. CASE Len(ring) < RingCap
    <3>1. Append(ring, own[c]) \in Seq(Packet) /\ Len(Append(ring, own[c])) <= RingCap
      BY <2>1, <2>2, AppendFacts
    <3>2. QED
      BY <1>6, <2>2, <3>1 DEF Enqueue
  <2>3. CASE ~(Len(ring) < RingCap)
    BY <1>6, <2>1, <2>3 DEF Enqueue
  <2>4. QED
    BY <2>2, <2>3
<1>7. ASSUME NEW c \in Cores, Drain(c)
      PROVE  TypeOK'
  <2>1. Shorter(Len(ring), TxBurst) \in 0..Len(ring)
    BY DEF Shorter
  <2>2. QED
    BY <1>7, <2>1, DequeueTypes DEF Drain
<1>8. ASSUME UNCHANGED vars
      PROVE  TypeOK'
  BY <1>8 DEF vars
<1>9. QED
  BY <1>1, <1>2, <1>3, <1>4, <1>5, <1>6, <1>7, <1>8 DEF Next, TxStep

(* Every step keeps the lock with the core that consumes or transmits.        *)
LEMMA LockStep ==
  ASSUME IInv, [Next]_vars
  PROVE  LockIsHeld'
<1> USE ConstantsAssumption DEF IInv, TypeOK, LockIsHeld, ControlPoints, Goto
<1>1. ASSUME NEW c \in Cores, NEW f \in Flows, Send(c, f)
      PROVE  LockIsHeld'
  BY <1>1 DEF Send
<1>2. ASSUME NEW c \in Cores, Count(c)
      PROVE  LockIsHeld'
  BY <1>2 DEF Count
<1>3. ASSUME NEW c \in Cores, TryLock(c)
      PROVE  LockIsHeld'
  BY <1>3 DEF TryLock
<1>4. ASSUME NEW c \in Cores, DequeueBulk(c)
      PROVE  LockIsHeld'
  BY <1>4 DEF DequeueBulk
<1>5. ASSUME NEW c \in Cores, Transmit(c)
      PROVE  LockIsHeld'
  BY <1>5 DEF Transmit
<1>6. ASSUME NEW c \in Cores, Enqueue(c)
      PROVE  LockIsHeld'
  BY <1>6 DEF Enqueue
<1>7. ASSUME NEW c \in Cores, Drain(c)
      PROVE  LockIsHeld'
  BY <1>7 DEF Drain
<1>8. ASSUME UNCHANGED vars
      PROVE  LockIsHeld'
  BY <1>8 DEF vars
<1>9. QED
  BY <1>1, <1>2, <1>3, <1>4, <1>5, <1>6, <1>7, <1>8 DEF Next, TxStep

(* Every step keeps the packets in the senders' hands the latest of their flows. *)
LEMMA OwnStep ==
  ASSUME IInv, [Next]_vars
  PROVE  OwnIsLatest'
<1> USE ConstantsAssumption DEF IInv, TypeOK, OwnIsLatest, ControlPoints, Goto
<1>1. ASSUME NEW c \in Cores, NEW f \in Flows, Send(c, f)
      PROVE  OwnIsLatest'
  <2> DEFINE p == [flow |-> f, n |-> sent[f] + 1, straight |-> FALSE]
  <2>1. p.flow = f /\ p.n = sent[f] + 1 /\ ~p.straight /\ p \in Packet
    BY <1>1 DEF Send, Packet
  <2>2. p # None
    BY <2>1
  <2>3. own' = [own EXCEPT ![c] = p] /\ sent' = [sent EXCEPT ![f] = sent[f] + 1]
    BY <1>1 DEF Send
  <2> HIDE DEF p
  <2>4. own'[c] = p /\ p.n = sent'[p.flow] /\ ~p.straight
    BY <2>1, <2>3
  <2>5. ASSUME NEW d \in Cores, d # c
        PROVE  /\ own'[d] = own[d] /\ pc'[d] = pc[d]
               /\ own[d] # None => own[d].n = sent'[own[d].flow] /\ ~own[d].straight
    <3>1. own'[d] = own[d] /\ pc'[d] = pc[d]
      BY <1>1, <2>3, <2>5 DEF Send
    <3>2. own[d] # None => own[d].flow \in Flows /\ own[d].flow # f
      BY <1>1 DEF Send, Packet
    <3>3. QED
      BY <2>3, <3>1, <3>2
  <2>6. own'[c] # None
    BY <2>2, <2>4
  <2>7. QED
    BY <2>4, <2>5, <2>6
<1>2. ASSUME NEW c \in Cores, Count(c)
      PROVE  OwnIsLatest'
  BY <1>2 DEF Count
<1>3. ASSUME NEW c \in Cores, TryLock(c)
      PROVE  OwnIsLatest'
  BY <1>3 DEF TryLock
<1>4. ASSUME NEW c \in Cores, DequeueBulk(c)
      PROVE  OwnIsLatest'
  BY <1>4 DEF DequeueBulk
<1>5. ASSUME NEW c \in Cores, Transmit(c)
      PROVE  OwnIsLatest'
  BY <1>5 DEF Transmit
<1>6. ASSUME NEW c \in Cores, Enqueue(c)
      PROVE  OwnIsLatest'
  BY <1>6 DEF Enqueue
<1>7. ASSUME NEW c \in Cores, Drain(c)
      PROVE  OwnIsLatest'
  BY <1>7 DEF Drain
<1>8. ASSUME UNCHANGED vars
      PROVE  OwnIsLatest'
  BY <1>8 DEF vars
<1>9. QED
  BY <1>1, <1>2, <1>3, <1>4, <1>5, <1>6, <1>7, <1>8 DEF Next, TxStep

-----------------------------------------------------------------------------
(* Order *)

(* The empty sequence is in order, before and behind everything.              *)
LEMMA EmptyInOrder ==
  ASSUME NEW s
  PROVE  Numbered(<<>>) /\ Sorted(<<>>) /\ Across(<<>>, s) /\ Across(s, <<>>)
BY DEF Numbered, Sorted, Across

(* The numbers of a sequence's halves and of a sequence with one packet more. *)
LEMMA NumberedFacts ==
  ASSUME TypeOK, NEW s \in Seq(Packet), Numbered(s)
  PROVE  /\ \A n \in 0..Len(s) : /\ Numbered(SubSeq(s, 1, n))
                                 /\ Numbered(SubSeq(s, n + 1, Len(s)))
         /\ \A x \in Packet : x.n <= sent[x.flow] => Numbered(Append(s, x))
         /\ \A t \in Seq(Packet) : Numbered(t) => Numbered(s \o t)
<1>1. ASSUME NEW n \in 0..Len(s)
      PROVE  Numbered(SubSeq(s, 1, n)) /\ Numbered(SubSeq(s, n + 1, Len(s)))
  <2> DEFINE a == SubSeq(s, 1, n)
             b == SubSeq(s, n + 1, Len(s))
  <2>1. /\ Len(a) = n /\ Len(b) = Len(s) - n /\ Len(s) \in Nat
        /\ \A i \in 1..n : a[i] = s[i]
        /\ \A i \in 1..(Len(s) - n) : b[i] = s[n + i]
    BY CutFacts
  <2> HIDE DEF a, b
  <2>2. \A i \in 1..Len(a) : i \in 1..Len(s) /\ a[i] = s[i]
    BY <2>1
  <2>3. \A i \in 1..Len(b) : n + i \in 1..Len(s) /\ b[i] = s[n + i]
    BY <2>1
  <2>4. Numbered(a) /\ Numbered(b)
    BY <2>2, <2>3 DEF Numbered
  <2>5. QED
    BY <2>4 DEF a, b
<1>2. ASSUME NEW x \in Packet, x.n <= sent[x.flow]
      PROVE  Numbered(Append(s, x))
  <2> DEFINE u == Append(s, x)
  <2>1. Len(u) = Len(s) + 1 /\ Len(s) \in Nat /\ (\A i \in 1..Len(s) : u[i] = s[i]) /\ u[Len(s) + 1] = x
    BY AppendFacts
  <2> HIDE DEF u
  <2>2. \A i \in 1..Len(u) : (i \in 1..Len(s) /\ u[i] = s[i]) \/ u[i] = x
    BY <2>1
  <2>3. QED
    BY <1>2, <2>2 DEF Numbered, u
<1>3. ASSUME NEW t \in Seq(Packet), Numbered(t)
      PROVE  Numbered(s \o t)
  <2> DEFINE u == s \o t
  <2>1. /\ Len(u) = Len(s) + Len(t) /\ Len(s) \in Nat /\ Len(t) \in Nat
        /\ \A i \in 1..Len(s) : u[i] = s[i]
        /\ \A i \in 1..Len(t) : u[Len(s) + i] = t[i]
    BY ConcatFacts
  <2> HIDE DEF u
  <2>2. ASSUME NEW i \in 1..Len(u), ~(i \in 1..Len(s))
        PROVE  i - Len(s) \in 1..Len(t) /\ u[i] = t[i - Len(s)]
    <3>1. i - Len(s) \in 1..Len(t) /\ Len(s) + (i - Len(s)) = i
      BY <2>1, <2>2
    <3>2. u[Len(s) + (i - Len(s))] = t[i - Len(s)]
      BY <2>1, <3>1
    <3>3. QED
      BY <3>1, <3>2
  <2>3. \A i \in 1..Len(u) : u[i].n <= sent[u[i].flow]
    BY <1>3, <2>1, <2>2 DEF Numbered
  <2>4. QED
    BY <2>3 DEF Numbered, u
<1>4. QED
  BY <1>1, <1>2, <1>3

(* The latest packet of a flow may follow those handed over so far.           *)
LEMMA LatestIsLast ==
  ASSUME TypeOK, NEW s \in Seq(Packet), Numbered(s), NEW x \in Packet, x.n = sent[x.flow]
  PROVE  \A i \in 1..Len(s) : MayPrecede(s[i], x)
BY DEF Numbered, MayPrecede

(* What is in order and is left as it is stays so.                            *)
LEMMA SameOrder ==
  ASSUME RingAndWireInOrder, \A c \in Cores : BurstInOrder(c), UNCHANGED <<ring, wire, burst, sent>>
  PROVE  (RingAndWireInOrder /\ \A c \in Cores : BurstInOrder(c))'
BY DEF RingAndWireInOrder, BurstInOrder, Numbered

(* A packet is handed over: the flow's count is raised.                       *)
LEMMA SendOrder ==
  ASSUME IInv, NEW c \in Cores, NEW f \in Flows, Send(c, f)
  PROVE  (RingAndWireInOrder /\ \A d \in Cores : BurstInOrder(d))'
<1>1. UNCHANGED <<ring, wire, burst>> /\ sent' = [sent EXCEPT ![f] = @ + 1]
  BY DEF Send
<1>2. sent \in [Flows -> 0..MaxPackets] /\ MaxPackets \in Nat
  BY ConstantsAssumption DEF IInv, TypeOK
<1>3. ASSUME NEW s \in Seq(Packet), Numbered(s)
      PROVE  \A i \in 1..Len(s) : s[i].n <= sent'[s[i].flow]
  <2>1. TAKE i \in 1..Len(s)
  <2>2. s[i] \in Packet
    OBVIOUS
  <2>3. s[i].flow \in Flows /\ s[i].n \in Nat
    BY <1>2, <2>2 DEF Packet
  <2>4. sent[s[i].flow] <= sent'[s[i].flow] /\ sent[s[i].flow] \in Nat /\ sent'[s[i].flow] \in Nat
    BY <1>1, <1>2, <2>3
  <2>5. QED
    BY <1>3, <2>3, <2>4 DEF Numbered
<1>4. Numbered(wire)' /\ Numbered(ring)' /\ \A d \in Cores : Numbered(burst[d])'
  BY <1>1, <1>3 DEF IInv, TypeOK, RingAndWireInOrder, BurstInOrder, Numbered
<1>5. QED
  BY <1>1, <1>4 DEF IInv, RingAndWireInOrder, BurstInOrder

(* A burst leaves the ring, the sender's packet behind it.                    *)
LEMMA BulkOrder ==
  ASSUME IInv, NEW c \in Cores, DequeueBulk(c)
  PROVE  (RingAndWireInOrder /\ \A d \in Cores : BurstInOrder(d))'
<1> DEFINE k == TxBurst - 1
           a == SubSeq(ring, 1, k)
           b == SubSeq(ring, k + 1, Len(ring))
           x == [own[c] EXCEPT !.straight = TRUE]
<1>1. CASE ~(Len(ring) >= TxBurst - 1)
  BY <1>1, SameOrder DEF DequeueBulk, IInv
<1>2. CASE Len(ring) >= TxBurst - 1
  <2>1. k \in 0..Len(ring) /\ k + 1 = TxBurst
    BY <1>2, BulkFacts DEF IInv
  <2>2. ring' = b /\ burst' = [burst EXCEPT ![c] = Append(a, x)] /\ UNCHANGED <<wire, sent>>
    BY <1>2, <2>1 DEF DequeueBulk
  <2>3. /\ ring \in Seq(Packet) /\ a \in Seq(Packet) /\ b \in Seq(Packet) /\ wire \in Seq(Packet)
        /\ burst \in [Cores -> Seq(Packet)]
    BY <2>1, DequeueTypes DEF IInv, TypeOK
  <2>4. x \in Packet /\ x.straight /\ x.n = sent[x.flow] /\ x.n <= sent[x.flow]
    <3>1. own[c] \in Packet /\ own[c].n = sent[own[c].flow]
      BY DEF IInv, TypeOK, OwnIsLatest, DequeueBulk
    <3>2. x \in Packet /\ x.straight /\ x.n = own[c].n /\ x.flow = own[c].flow
      BY <3>1 DEF Packet
    <3>3. x.n \in Int
      BY <3>2, ConstantsAssumption DEF Packet
    <3> HIDE DEF x
    <3>4. QED
      BY <3>1, <3>2, <3>3
  <2>5. Len(b) = Len(ring) - k /\ \A i \in 1..Len(b) : b[i] = ring[k + i] /\ k + i \in 1..Len(ring)
    <3>1. Len(b) = Len(ring) - k /\ (\A i \in 1..(Len(ring) - k) : b[i] = ring[k + i]) /\ Len(ring) \in Nat
      BY <2>1, <2>3, CutFacts
    <3> HIDE DEF b
    <3>2. QED
      BY <2>1, <3>1
  <2> HIDE DEF k, a, b, x
  <2>6. \A i \in 1..Len(b) : ~b[i].straight
    BY <2>5 DEF IInv, RingAndWireInOrder
  <2>7. Numbered(a) /\ Numbered(b) /\ Numbered(Append(a, x))
    BY <2>1, <2>3, <2>4, NumberedFacts DEF a, b, IInv, RingAndWireInOrder
  <2>8. Sorted(a) /\ Sorted(b) /\ Across(a, b)
    BY <2>1, <2>3, SortedCut DEF a, b, IInv, RingAndWireInOrder
  <2>9. Across(wire, a) /\ Across(wire, b)
    BY <2>1, <2>3, AcrossCut DEF a, b, IInv, RingAndWireInOrder
  <2>10. /\ \A i \in 1..Len(a) : MayPrecede(a[i], x)
         /\ \A i \in 1..Len(wire) : MayPrecede(wire[i], x)
    BY <2>3, <2>4, <2>7, LatestIsLast DEF IInv, RingAndWireInOrder
  <2>11. \A i \in 1..Len(b) : MayPrecede(x, b[i])
    BY <2>4, <2>6 DEF MayPrecede
  <2>12. Sorted(Append(a, x)) /\ Across(wire, Append(a, x)) /\ Across(Append(a, x), b)
    BY <2>3, <2>4, <2>8, <2>9, <2>10, <2>11, SortedAppend, AcrossAppend
  <2>13. RingAndWireInOrder'
    BY <2>2, <2>6, <2>7, <2>8, <2>9 DEF IInv, RingAndWireInOrder, Numbered
  <2>14. BurstInOrder(c)'
    BY <2>2, <2>3, <2>7, <2>12 DEF BurstInOrder, Numbered
  <2>15. ASSUME NEW d \in Cores, d # c
         PROVE  BurstInOrder(d)'
    <3>1. burst'[d] = <<>>
      BY <2>2, <2>3, <2>15 DEF IInv, TypeOK, LockIsHeld, DequeueBulk
    <3>2. QED
      BY <3>1, EmptyInOrder DEF BurstInOrder, Numbered
  <2>16. QED
    BY <2>13, <2>14, <2>15
<1>3. QED
  BY <1>1, <1>2

(* A burst goes to the wire, or its first part does.                          *)
LEMMA TransmitOrder ==
  ASSUME IInv, NEW c \in Cores, Transmit(c)
  PROVE  (RingAndWireInOrder /\ \A d \in Cores : BurstInOrder(d))'
<1>1. PICK k \in 0..Len(burst[c]) : wire' = wire \o SubSeq(burst[c], 1, k)
  BY DEF Transmit
<1> DEFINE a == SubSeq(burst[c], 1, k)
<1>2. /\ burst[c] \in Seq(Packet) /\ wire \in Seq(Packet) /\ ring \in Seq(Packet)
      /\ burst \in [Cores -> Seq(Packet)] /\ a \in Seq(Packet)
  BY CutFacts DEF IInv, TypeOK
<1>3. wire' = wire \o a /\ burst' = [burst EXCEPT ![c] = <<>>] /\ UNCHANGED <<ring, sent>>
  BY <1>1 DEF Transmit
<1>4. Numbered(a) /\ Sorted(a) /\ Across(wire, a) /\ Across(a, ring)
  BY <1>2, NumberedFacts, SortedCut, AcrossCut DEF IInv, BurstInOrder
<1> HIDE DEF a
<1>5. Numbered(wire \o a) /\ Sorted(wire \o a) /\ Across(wire \o a, ring)
  BY <1>2, <1>4, NumberedFacts, SortedConcat DEF IInv, RingAndWireInOrder
<1>6. RingAndWireInOrder'
  BY <1>3, <1>5 DEF IInv, RingAndWireInOrder, Numbered
<1>7. ASSUME NEW d \in Cores
      PROVE  BurstInOrder(d)'
  <2>1. burst'[d] = <<>>
    BY <1>2, <1>3 DEF IInv, TypeOK, LockIsHeld, Transmit
  <2>2. QED
    BY <2>1, EmptyInOrder DEF BurstInOrder, Numbered
<1>8. QED
  BY <1>6, <1>7

(* A packet goes into the ring.                                               *)
LEMMA EnqueueOrder ==
  ASSUME IInv, NEW c \in Cores, Enqueue(c)
  PROVE  (RingAndWireInOrder /\ \A d \in Cores : BurstInOrder(d))'
<1>1. CASE ~(Len(ring) < RingCap)
  BY <1>1, SameOrder DEF Enqueue, IInv
<1>2. CASE Len(ring) < RingCap
  <2> DEFINE x == own[c]
  <2>1. ring' = Append(ring, x) /\ UNCHANGED <<wire, burst, sent>>
    BY <1>2 DEF Enqueue
  <2>2. x \in Packet /\ x.n = sent[x.flow] /\ x.n <= sent[x.flow] /\ ~x.straight
    <3>1. x \in Packet /\ x.n = sent[x.flow] /\ ~x.straight
      BY DEF IInv, TypeOK, OwnIsLatest, Enqueue
    <3>2. QED
      BY <3>1, ConstantsAssumption DEF Packet
  <2>3. ring \in Seq(Packet) /\ wire \in Seq(Packet) /\ burst \in [Cores -> Seq(Packet)]
    BY DEF IInv, TypeOK
  <2> HIDE DEF x
  <2>4. /\ \A i \in 1..Len(ring) : MayPrecede(ring[i], x)
        /\ \A i \in 1..Len(wire) : MayPrecede(wire[i], x)
        /\ \A d \in Cores : \A i \in 1..Len(burst[d]) : MayPrecede(burst[d][i], x)
    BY <2>2, <2>3, LatestIsLast DEF IInv, RingAndWireInOrder, BurstInOrder
  <2>5. /\ Sorted(Append(ring, x)) /\ Numbered(Append(ring, x))
        /\ Across(wire, Append(ring, x))
    BY <2>2, <2>3, <2>4, SortedAppend, AcrossAppend, NumberedFacts DEF IInv, RingAndWireInOrder
  <2>6. \A d \in Cores : Across(burst[d], Append(ring, x))
    BY <2>2, <2>3, <2>4, AcrossAppend DEF IInv, BurstInOrder
  <2>7. \A i \in 1..Len(Append(ring, x)) : ~Append(ring, x)[i].straight
    <3>1. /\ Len(Append(ring, x)) = Len(ring) + 1 /\ Len(ring) \in Nat
          /\ \A i \in 1..Len(ring) : Append(ring, x)[i] = ring[i]
          /\ Append(ring, x)[Len(ring) + 1] = x
      BY <2>2, <2>3, AppendFacts
    <3>2. \A i \in 1..(Len(ring) + 1) : i \in 1..Len(ring) \/ i = Len(ring) + 1
      BY <3>1
    <3>3. QED
      BY <2>2, <3>1, <3>2 DEF IInv, RingAndWireInOrder
  <2>8. RingAndWireInOrder'
    BY <2>1, <2>5, <2>7 DEF IInv, RingAndWireInOrder, Numbered
  <2>9. \A d \in Cores : BurstInOrder(d)'
    BY <2>1, <2>6 DEF IInv, BurstInOrder, Numbered
  <2>10. QED
    BY <2>8, <2>9
<1>3. QED
  BY <1>1, <1>2

(* A burst is drained from the ring.                                          *)
LEMMA DrainOrder ==
  ASSUME IInv, NEW c \in Cores, Drain(c)
  PROVE  (RingAndWireInOrder /\ \A d \in Cores : BurstInOrder(d))'
<1> DEFINE k == Shorter(Len(ring), TxBurst)
           a == SubSeq(ring, 1, k)
           b == SubSeq(ring, k + 1, Len(ring))
<1>1. k \in 0..Len(ring)
  BY ConstantsAssumption DEF Shorter, IInv, TypeOK
<1>2. ring' = b /\ burst' = [burst EXCEPT ![c] = a] /\ UNCHANGED <<wire, sent>>
  BY DEF Drain
<1>3. /\ ring \in Seq(Packet) /\ a \in Seq(Packet) /\ b \in Seq(Packet) /\ wire \in Seq(Packet)
      /\ burst \in [Cores -> Seq(Packet)]
  BY <1>1, DequeueTypes DEF IInv, TypeOK
<1>4. \A i \in 1..Len(b) : ~b[i].straight
  <2>1. Len(b) = Len(ring) - k /\ (\A i \in 1..(Len(ring) - k) : b[i] = ring[k + i]) /\ Len(ring) \in Nat
    BY <1>1, <1>3, CutFacts
  <2> HIDE DEF b, k
  <2>2. \A i \in 1..Len(b) : b[i] = ring[k + i] /\ k + i \in 1..Len(ring)
    BY <1>1, <2>1
  <2>3. QED
    BY <2>2 DEF IInv, RingAndWireInOrder
<1> HIDE DEF k, a, b
<1>5. Numbered(a) /\ Numbered(b)
  BY <1>1, <1>3, NumberedFacts DEF a, b, IInv, RingAndWireInOrder
<1>6. Sorted(a) /\ Sorted(b) /\ Across(a, b)
  BY <1>1, <1>3, SortedCut DEF a, b, IInv, RingAndWireInOrder
<1>7. Across(wire, a) /\ Across(wire, b)
  BY <1>1, <1>3, AcrossCut DEF a, b, IInv, RingAndWireInOrder
<1>8. RingAndWireInOrder'
  BY <1>2, <1>4, <1>5, <1>6, <1>7 DEF IInv, RingAndWireInOrder, Numbered
<1>9. BurstInOrder(c)'
  BY <1>2, <1>3, <1>5, <1>6, <1>7 DEF BurstInOrder, Numbered
<1>10. ASSUME NEW d \in Cores, d # c
       PROVE  BurstInOrder(d)'
  <2>1. burst'[d] = <<>>
    BY <1>2, <1>3, <1>10, ConstantsAssumption DEF IInv, TypeOK, LockIsHeld, Drain
  <2>2. QED
    BY <2>1, EmptyInOrder DEF BurstInOrder, Numbered
<1>11. QED
  BY <1>8, <1>9, <1>10

(* Every step keeps the packets in order.                                     *)
LEMMA OrderStep ==
  ASSUME IInv, [Next]_vars
  PROVE  (RingAndWireInOrder /\ \A c \in Cores : BurstInOrder(c))'
<1>1. ASSUME NEW c \in Cores, Count(c) \/ TryLock(c)
      PROVE  UNCHANGED <<ring, wire, burst, sent>>
  BY <1>1 DEF Count, TryLock
<1>2. ASSUME UNCHANGED vars
      PROVE  UNCHANGED <<ring, wire, burst, sent>>
  BY <1>2 DEF vars
<1>3. QED
  BY <1>1, <1>2, SameOrder, SendOrder, BulkOrder, TransmitOrder, EnqueueOrder, DrainOrder
     DEF Next, TxStep, IInv

-----------------------------------------------------------------------------

(* All of it together holds in every state.                                  *)
LEMMA Invariance == Spec => []IInv
<1>1. Init => IInv
  <2> SUFFICES ASSUME Init PROVE IInv
    OBVIOUS
  <2>1. TypeOK
    BY ConstantsAssumption DEF Init, TypeOK, ControlPoints
  <2>2. LockIsHeld /\ OwnIsLatest
    BY ConstantsAssumption DEF Init, LockIsHeld, OwnIsLatest
  <2>3. RingAndWireInOrder /\ \A c \in Cores : BurstInOrder(c)
    BY EmptyInOrder DEF Init, RingAndWireInOrder, BurstInOrder
  <2>4. QED
    BY <2>1, <2>2, <2>3 DEF IInv
<1>2. IInv /\ [Next]_vars => IInv'
  BY TypeStep, LockStep, OwnStep, OrderStep DEF IInv
<1>3. QED
  BY <1>1, <1>2, PTL DEF Spec

(* The state is well typed; the ring never holds more than it can.            *)
THEOREM TypeCorrect == Spec => []TypeOK
<1>1. IInv => TypeOK
  BY DEF IInv
<1>2. QED
  BY <1>1, Invariance, PTL

(* The try-lock gives the ring one consumer, which RING_F_SC_DEQ relies on.   *)
THEOREM OneConsumerAlways == Spec => []OneConsumer
<1>1. IInv => OneConsumer
  BY DEF IInv, LockIsHeld, OneConsumer
<1>2. QED
  BY <1>1, Invariance, PTL

(* The order that is left to a flow: only the packet that a sender adds to a  *)
(* burst itself overtakes.                                                    *)
THEOREM RingKeepsOrder == Spec => []OnlyStraightOvertakes
<1>1. ASSUME IInv, NEW i \in 1..Len(wire), NEW j \in 1..Len(wire), Overtakes(i, j)
      PROVE  wire[i].straight /\ ~wire[j].straight
  <2>1. wire[i] \in Packet /\ wire[j] \in Packet
    BY <1>1 DEF IInv, TypeOK
  <2>2. wire[i].n \in Int /\ wire[j].n \in Int
    BY <2>1, ConstantsAssumption DEF Packet
  <2>3. MayPrecede(wire[i], wire[j])
    BY <1>1 DEF IInv, RingAndWireInOrder, Sorted, Overtakes
  <2>4. QED
    BY <1>1, <2>2, <2>3 DEF MayPrecede, Overtakes
<1>2. IInv => OnlyStraightOvertakes
  BY <1>1 DEF OnlyStraightOvertakes
<1>3. QED
  BY <1>2, Invariance, PTL

(* The dealing at startup leaves no Tx table undrained.                       *)
THEOREM EveryTableIsDealt == \E c \in Cores : Deals(c)
<1> DEFINE i == Table \div NumCores
           c == Table % NumCores
<1>1. NumCores \in Nat \ {0} /\ Table \in Nat /\ Tables \in Nat /\ Table < Tables
  BY ConstantsAssumption
<1>2. i \in Nat /\ i <= Table /\ c \in 0..NumCores - 1 /\ Table = i * NumCores + c
  BY <1>1
<1>3. i \in 0..Tables - 1 /\ c \in Cores
  BY <1>1, <1>2 DEF Cores
<1>4. QED
  BY <1>2, <1>3 DEF Deals, Dealt

-----------------------------------------------------------------------------
(* One place for a packet *)

\* s holds the n-th packet of flow f; nothing is in s twice; the same of a set.
Holds(s, f, n) == \E i \in 1..Len(s) : IsPacket(s[i], f, n)
Distinct(s) == \A i, j \in 1..Len(s) : s[i].flow = s[j].flow /\ s[i].n = s[j].n => i = j

Among(D, f, n) == \E p \in D : IsPacket(p, f, n)
Single(D) == \A p, q \in D : p.flow = q.flow /\ p.n = q.n => p = q

Dropped(f, n) == Among(lost, f, n)

\* A core has the packet, in its hands or in its burst (where its own is a copy then).
Owned(c, f, n) == pc[c] # "burst" /\ own[c] # None /\ IsPacket(own[c], f, n)
At(c, f, n) == Owned(c, f, n) \/ Holds(burst[c], f, n)

\* Nothing holds a packet twice, ...
HeldOnce ==
  /\ Distinct(wire) /\ Distinct(ring) /\ \A c \in Cores : Distinct(burst[c])
  /\ Single(lost)

\* ... and one thing holds it, once its flow has sent it.
HeldApart(f, n) ==
  /\ ~(Holds(wire, f, n) /\ Holds(ring, f, n))
  /\ ~(Dropped(f, n) /\ (Holds(wire, f, n) \/ Holds(ring, f, n)))
  /\ \A c \in Cores : /\ At(c, f, n) => ~Holds(wire, f, n) /\ ~Holds(ring, f, n) /\ ~Dropped(f, n)
                      /\ ~(Owned(c, f, n) /\ Holds(burst[c], f, n))
  /\ \A c, d \in Cores : At(c, f, n) /\ At(d, f, n) => c = d

Somewhere(f, n) ==
  Holds(wire, f, n) \/ Holds(ring, f, n) \/ Dropped(f, n) \/ \E c \in Cores : At(c, f, n)

Placed ==
  /\ \A c \in Cores : pc[c] = "idle" => own[c] = None
  /\ HeldOnce
  /\ \A f \in Flows, n \in 1..MaxPackets :
       HeldApart(f, n) /\ (Somewhere(f, n) <=> n <= sent[f])

\* A sequence with one packet more.
LEMMA HoldsAppend ==
  ASSUME NEW s \in Seq(Packet), NEW x \in Packet, NEW t, t = Append(s, x)
  PROVE  /\ \A f, n : Holds(t, f, n) <=> Holds(s, f, n) \/ IsPacket(x, f, n)
         /\ Distinct(s) /\ ~Holds(s, x.flow, x.n) => Distinct(t)
<1>1. Len(s) \in Nat /\ Len(t) = Len(s) + 1 /\ t[Len(s) + 1] = x /\ \A i \in 1..Len(s) : t[i] = s[i]
  BY AppendFacts
<1>2. /\ \A i \in 1..Len(t) : i \in 1..Len(s) \/ i = Len(s) + 1
      /\ \A i \in 1..Len(s) : i \in 1..Len(t) /\ i # Len(s) + 1
      /\ Len(s) + 1 \in 1..Len(t)
  BY <1>1
<1>3. \A f, n : Holds(t, f, n) <=> Holds(s, f, n) \/ IsPacket(x, f, n)
  <2> SUFFICES ASSUME NEW f, NEW n PROVE Holds(t, f, n) <=> Holds(s, f, n) \/ IsPacket(x, f, n)
    OBVIOUS
  <2>1. QED
    BY <1>1, <1>2 DEF Holds
<1>4. ASSUME Distinct(s), ~Holds(s, x.flow, x.n)
      PROVE  Distinct(t)
  <2>1. \A i \in 1..Len(s) : ~(s[i].flow = x.flow /\ s[i].n = x.n)
    BY <1>4 DEF Holds, IsPacket
  <2>2. \A i, j \in 1..Len(s) : s[i].flow = s[j].flow /\ s[i].n = s[j].n => i = j
    BY <1>4 DEF Distinct
  <2>3. \A i, j \in 1..Len(t) : t[i].flow = t[j].flow /\ t[i].n = t[j].n => i = j
    BY <1>1, <1>2, <2>1, <2>2
  <2>4. QED
    BY <2>3 DEF Distinct
<1>5. QED
  BY <1>3, <1>4

\* What s holds is in a or in b; in one of them, if s holds nothing twice.
Pieces(s, a, b) ==
  /\ \A f, n : Holds(s, f, n) <=> Holds(a, f, n) \/ Holds(b, f, n)
  /\ Distinct(s) => /\ Distinct(a) /\ Distinct(b)
                    /\ \A f, n : ~(Holds(a, f, n) /\ Holds(b, f, n))

\* A sequence that is cut in two.
LEMMA HoldsCut ==
  ASSUME NEW s \in Seq(Packet), NEW n \in 0..Len(s)
  PROVE  Pieces(s, SubSeq(s, 1, n), SubSeq(s, n + 1, Len(s)))
<1>1. PICK a, b : a = SubSeq(s, 1, n) /\ b = SubSeq(s, n + 1, Len(s))
  OBVIOUS
<1>2. /\ Len(s) \in Nat /\ n \in Nat /\ n <= Len(s)
      /\ Len(a) = n /\ \A i \in 1..n : a[i] = s[i]
      /\ Len(b) = Len(s) - n /\ \A i \in 1..(Len(s) - n) : b[i] = s[n + i]
  BY <1>1, CutFacts
<1>3. /\ \A i \in 1..Len(a) : i \in 1..Len(s) /\ a[i] = s[i] /\ i <= n
      /\ \A i \in 1..Len(b) : n + i \in 1..Len(s) /\ b[i] = s[n + i] /\ ~(n + i <= n)
  <2>1. (\A i \in 1..Len(a) : i \in 1..n) /\ \A i \in 1..Len(b) : i \in 1..(Len(s) - n)
    BY <1>2
  <2>2. Len(s) \in Nat /\ n \in Nat /\ n <= Len(s)
    BY <1>2
  <2>3. \A i \in 1..(Len(s) - n) : n + i \in 1..Len(s) /\ ~(n + i <= n)
    BY <2>2
  <2>4. \A i \in 1..n : i \in 1..Len(s) /\ i <= n
    BY <2>2
  <2>5. QED
    BY <1>2, <2>1, <2>3, <2>4
<1>4. \A i \in 1..Len(s) : i \in 1..Len(a) \/ \E j \in 1..Len(b) : i = n + j
  <2>1. Len(s) \in Nat /\ n \in Nat /\ Len(a) = n /\ Len(b) = Len(s) - n
    BY <1>2
  <2>2. \A i \in 1..Len(s) : i \in 1..Len(a) \/ (i - n \in 1..Len(b) /\ i = n + (i - n))
    BY <2>1
  <2>3. QED
    BY <2>2
<1>5. ASSUME NEW f, NEW m
      PROVE  Holds(s, f, m) <=> Holds(a, f, m) \/ Holds(b, f, m)
  <2>1. Holds(a, f, m) => Holds(s, f, m)
    BY <1>3 DEF Holds
  <2>2. Holds(b, f, m) => Holds(s, f, m)
    BY <1>3 DEF Holds
  <2>3. ASSUME NEW i \in 1..Len(s), IsPacket(s[i], f, m)
        PROVE  Holds(a, f, m) \/ Holds(b, f, m)
    <3>1. CASE i \in 1..Len(a)
      BY <1>3, <2>3, <3>1 DEF Holds
    <3>2. CASE \E j \in 1..Len(b) : i = n + j
      BY <1>3, <2>3, <3>2 DEF Holds
    <3>3. QED
      BY <1>4, <3>1, <3>2
  <2>4. QED
    BY <2>1, <2>2, <2>3 DEF Holds
<1>6. ASSUME Distinct(s)
      PROVE  /\ Distinct(a) /\ Distinct(b)
             /\ \A f, m : ~(Holds(a, f, m) /\ Holds(b, f, m))
  <2>1. \A i, j \in 1..Len(s) : s[i].flow = s[j].flow /\ s[i].n = s[j].n => i = j
    BY <1>6 DEF Distinct
  <2>2. Distinct(a)
    BY <1>3, <2>1 DEF Distinct
  <2>3. ASSUME NEW i \in 1..Len(b), NEW j \in 1..Len(b), b[i].flow = b[j].flow, b[i].n = b[j].n
        PROVE  i = j
    <3>1. n + i \in 1..Len(s) /\ n + j \in 1..Len(s) /\ b[i] = s[n + i] /\ b[j] = s[n + j]
      BY <1>3, <2>3
    <3>2. n + i = n + j
      BY <2>1, <2>3, <3>1
    <3>3. QED
      BY <1>2, <3>2
  <2>4. \A i \in 1..Len(a), j \in 1..Len(b) : ~(a[i].flow = b[j].flow /\ a[i].n = b[j].n)
    BY <1>3, <2>1
  <2>5. \A f, m : ~(Holds(a, f, m) /\ Holds(b, f, m))
    BY <2>4 DEF Holds, IsPacket
  <2>6. QED
    BY <2>2, <2>3, <2>5 DEF Distinct
<1>7. QED
  BY <1>1, <1>5, <1>6 DEF Pieces

\* One sequence behind another.
LEMMA HoldsConcat ==
  ASSUME NEW s \in Seq(Packet), NEW t \in Seq(Packet), NEW u, u = s \o t
  PROVE  /\ \A f, n : Holds(u, f, n) <=> Holds(s, f, n) \/ Holds(t, f, n)
         /\ Distinct(s) /\ Distinct(t) /\ (\A f, n : ~(Holds(s, f, n) /\ Holds(t, f, n))) => Distinct(u)
<1>1. /\ Len(u) = Len(s) + Len(t) /\ Len(s) \in Nat /\ Len(t) \in Nat
      /\ \A i \in 1..Len(s) : u[i] = s[i]
      /\ \A i \in 1..Len(t) : u[Len(s) + i] = t[i]
  BY ConcatFacts
<1>2. /\ \A i \in 1..Len(s) : i \in 1..Len(u)
      /\ \A i \in 1..Len(t) : Len(s) + i \in 1..Len(u) /\ Len(s) + i \notin 1..Len(s)
      /\ \A i \in 1..Len(u) : i \in 1..Len(s) \/ \E j \in 1..Len(t) : i = Len(s) + j
  <2>1. Len(u) = Len(s) + Len(t) /\ Len(s) \in Nat /\ Len(t) \in Nat
    BY <1>1
  <2>2. \A i \in 1..Len(u) : i \in 1..Len(s) \/ (i - Len(s) \in 1..Len(t) /\ i = Len(s) + (i - Len(s)))
    BY <2>1
  <2>3. \A i \in 1..Len(t) : Len(s) + i \in 1..Len(u) /\ Len(s) + i \notin 1..Len(s)
    BY <2>1
  <2>4. \A i \in 1..Len(s) : i \in 1..Len(u)
    BY <2>1
  <2>5. QED
    BY <2>2, <2>3, <2>4
<1>3. ASSUME NEW f, NEW m
      PROVE  Holds(u, f, m) <=> Holds(s, f, m) \/ Holds(t, f, m)
  <2>1. Holds(s, f, m) => Holds(u, f, m)
    BY <1>1, <1>2 DEF Holds
  <2>2. Holds(t, f, m) => Holds(u, f, m)
    BY <1>1, <1>2 DEF Holds
  <2>3. ASSUME NEW i \in 1..Len(u), IsPacket(u[i], f, m)
        PROVE  Holds(s, f, m) \/ Holds(t, f, m)
    <3>1. CASE i \in 1..Len(s)
      BY <1>1, <2>3, <3>1 DEF Holds
    <3>2. CASE \E j \in 1..Len(t) : i = Len(s) + j
      BY <1>1, <2>3, <3>2 DEF Holds
    <3>3. QED
      BY <1>2, <3>1, <3>2
  <2>4. QED
    BY <2>1, <2>2, <2>3 DEF Holds
<1>4. ASSUME Distinct(s), Distinct(t), \A f, n : ~(Holds(s, f, n) /\ Holds(t, f, n))
      PROVE  Distinct(u)
  <2>1. \A i \in 1..Len(s), j \in 1..Len(t) : ~(s[i].flow = t[j].flow /\ s[i].n = t[j].n)
    <3> SUFFICES ASSUME NEW i \in 1..Len(s), NEW j \in 1..Len(t), s[i].flow = t[j].flow, s[i].n = t[j].n
                 PROVE  FALSE
      OBVIOUS
    <3>1. Holds(s, s[i].flow, s[i].n) /\ Holds(t, s[i].flow, s[i].n)
      BY DEF Holds, IsPacket
    <3>2. QED
      BY <1>4, <3>1
  <2>2. ASSUME NEW i \in 1..Len(u), NEW j \in 1..Len(u), u[i].flow = u[j].flow, u[i].n = u[j].n
        PROVE  i = j
    <3>1. CASE i \in 1..Len(s) /\ j \in 1..Len(s)
      BY <1>1, <1>4, <2>2, <3>1 DEF Distinct
    <3>2. CASE i \in 1..Len(s) /\ \E k \in 1..Len(t) : j = Len(s) + k
      BY <1>1, <2>1, <2>2, <3>2
    <3>3. CASE j \in 1..Len(s) /\ \E k \in 1..Len(t) : i = Len(s) + k
      BY <1>1, <2>1, <2>2, <3>3
    <3>4. CASE (\E k \in 1..Len(t) : i = Len(s) + k) /\ \E k \in 1..Len(t) : j = Len(s) + k
      <4>1. PICK k, l \in 1..Len(t) : i = Len(s) + k /\ j = Len(s) + l
        BY <3>4
      <4>2. k = l
        BY <1>1, <1>4, <2>2, <4>1 DEF Distinct
      <4>3. QED
        BY <4>1, <4>2
    <3>5. QED
      BY <1>2, <3>1, <3>2, <3>3, <3>4
  <2>3. QED
    BY <2>2 DEF Distinct
<1>5. QED
  BY <1>3, <1>4

\* A sequence of packets holds packets of the flows; the empty one holds none.
LEMMA HeldIsPacket ==
  ASSUME NEW s \in Seq(Packet), NEW f, NEW n, Holds(s, f, n)
  PROVE  f \in Flows /\ n \in 1..MaxPackets
<1>1. PICK i \in 1..Len(s) : IsPacket(s[i], f, n)
  BY DEF Holds
<1>2. s[i] \in Packet
  OBVIOUS
<1>3. QED
  BY <1>1, <1>2 DEF Packet, IsPacket

LEMMA EmptyHolds == Distinct(<<>>) /\ \A f, n : ~Holds(<<>>, f, n)
<1>1. \A i \in 1..Len(<<>>) : FALSE
  OBVIOUS
<1>2. QED
  BY <1>1 DEF Distinct, Holds

\* The packets of a burst's end, as they are dropped.
LEMMA EndDropped ==
  ASSUME NEW s \in Seq(Packet), NEW k \in 0..Len(s), NEW b, b = SubSeq(s, k + 1, Len(s)),
         NEW D, D = {s[i] : i \in k+1..Len(s)}
  PROVE  /\ D \subseteq Packet
         /\ \A f, n : Among(D, f, n) <=> Holds(b, f, n)
         /\ Distinct(s) => Single(D)
<1>1. /\ Len(s) \in Nat /\ k \in Nat /\ k <= Len(s) /\ Len(b) = Len(s) - k
      /\ \A i \in 1..(Len(s) - k) : b[i] = s[k + i]
  BY CutFacts
<1>2. \A i \in k+1..Len(s) : i \in 1..Len(s) /\ i - k \in 1..Len(b) /\ b[i - k] = s[i]
  <2>1. TAKE i \in k+1..Len(s)
  <2>2. i \in 1..Len(s) /\ i - k \in 1..(Len(s) - k) /\ k + (i - k) = i
    BY <1>1
  <2>3. b[i - k] = s[k + (i - k)]
    BY <1>1, <2>2
  <2>4. QED
    BY <1>1, <2>2, <2>3
<1>3. \A j \in 1..Len(b) : k + j \in k+1..Len(s) /\ b[j] = s[k + j]
  <2>1. TAKE j \in 1..Len(b)
  <2>2. k + j \in k+1..Len(s) /\ j \in 1..(Len(s) - k)
    BY <1>1
  <2>3. QED
    BY <1>1, <2>2
<1>4. ASSUME NEW f, NEW n
      PROVE  Among(D, f, n) <=> Holds(b, f, n)
  <2>1. ASSUME NEW p \in D, IsPacket(p, f, n)
        PROVE  Holds(b, f, n)
    <3>1. PICK i \in k+1..Len(s) : p = s[i]
      OBVIOUS
    <3>2. i - k \in 1..Len(b) /\ b[i - k] = p
      BY <1>2, <3>1
    <3>3. QED
      BY <2>1, <3>2 DEF Holds
  <2>2. ASSUME NEW j \in 1..Len(b), IsPacket(b[j], f, n)
        PROVE  Among(D, f, n)
    <3>1. b[j] \in D
      BY <1>3
    <3>2. QED
      BY <2>2, <3>1 DEF Among
  <2>3. QED
    BY <2>1, <2>2 DEF Holds, Among
<1>5. ASSUME Distinct(s), NEW p \in D, NEW q \in D, p.flow = q.flow, p.n = q.n
      PROVE  p = q
  <2>1. PICK i, j \in 1..Len(s) : p = s[i] /\ q = s[j]
    BY <1>2
  <2>2. QED
    BY <1>5, <2>1 DEF Distinct
<1>6. D \subseteq Packet
  BY <1>2
<1>7. QED
  BY <1>4, <1>5, <1>6 DEF Single

-----------------------------------------------------------------------------
(* The steps that move packets *)

\* What is left where it is.
LEMMA SamePlaces ==
  ASSUME Placed, UNCHANGED <<ring, wire, lost, sent, own, burst>>,
         \A d \in Cores : /\ pc'[d] = "burst" <=> pc[d] = "burst"
                          /\ pc'[d] = "idle" => pc[d] = "idle"
  PROVE  Placed'
<1>1. HeldOnce'
  BY DEF Placed, HeldOnce
<1>2. \A d \in Cores : pc'[d] = "idle" => own'[d] = None
  BY DEF Placed
<1>3. ASSUME NEW f \in Flows, NEW n \in 1..MaxPackets
      PROVE  HeldApart(f, n)' /\ (Somewhere(f, n) <=> n <= sent[f])'
  <2>1. HeldApart(f, n) /\ (Somewhere(f, n) <=> n <= sent[f])
    BY DEF Placed
  <2>2. \A d \in Cores : (Owned(d, f, n)' <=> Owned(d, f, n)) /\ (At(d, f, n)' <=> At(d, f, n))
    BY DEF Owned, At
  <2>3. QED
    BY <2>1, <2>2 DEF HeldApart, Somewhere, Dropped
<1>4. QED
  BY <1>1, <1>2, <1>3 DEF Placed

\* A packet is handed over: the flow's next one, which nothing holds yet.
LEMMA SendPlaced ==
  ASSUME IInv, Placed, NEW c \in Cores, NEW g \in Flows, Send(c, g)
  PROVE  Placed'
<1>1. /\ UNCHANGED <<ring, wire, lost, burst>> /\ pc[c] = "idle" /\ own[c] = None
      /\ pc' = [pc EXCEPT ![c] = "count"]
      /\ sent' = [sent EXCEPT ![g] = @ + 1] /\ sent[g] < MaxPackets
      /\ own' = [own EXCEPT ![c] = [flow |-> g, n |-> sent[g] + 1, straight |-> FALSE]]
  BY DEF Send, Goto, Placed
<1>2. /\ sent \in [Flows -> 0..MaxPackets] /\ MaxPackets \in Nat
      /\ pc \in [Cores -> ControlPoints] /\ own \in [Cores -> Packet \cup {None}]
  BY ConstantsAssumption DEF IInv, TypeOK
<1>3. PICK x : x = [flow |-> g, n |-> sent[g] + 1, straight |-> FALSE]
  OBVIOUS
<1>4. x.flow = g /\ x.n = sent[g] + 1 /\ x \in Packet /\ x # None
  <2>1. x.flow = g /\ x.n = sent[g] + 1
    BY <1>3
  <2>2. sent[g] + 1 \in 1..MaxPackets
    <3>1. sent[g] \in 0..MaxPackets /\ MaxPackets \in Nat /\ sent[g] < MaxPackets
      BY <1>1, <1>2
    <3>2. QED
      BY <3>1
  <2>3. x \in Packet
    BY <1>3, <2>2 DEF Packet
  <2>4. QED
    BY <2>1, <2>3, ConstantsAssumption
<1>5. /\ pc'[c] = "count" /\ own'[c] = x /\ sent'[g] = sent[g] + 1
      /\ \A d \in Cores : d # c => pc'[d] = pc[d] /\ own'[d] = own[d]
      /\ \A f \in Flows : f # g => sent'[f] = sent[f]
  BY <1>1, <1>2, <1>3
<1>6. HeldOnce'
  BY <1>1 DEF Placed, HeldOnce
<1>7. \A d \in Cores : pc'[d] = "idle" => own'[d] = None
  BY <1>5 DEF Placed
<1>8. ASSUME NEW f \in Flows, NEW n \in 1..MaxPackets
      PROVE  HeldApart(f, n)' /\ (Somewhere(f, n) <=> n <= sent[f])'
  <2>1. HeldApart(f, n) /\ (Somewhere(f, n) <=> n <= sent[f])
    BY DEF Placed
  <2>2. \A d \in Cores : d # c => (Owned(d, f, n)' <=> Owned(d, f, n)) /\ (At(d, f, n)' <=> At(d, f, n))
    BY <1>1, <1>5 DEF Owned, At
  <2>3. /\ ~Owned(c, f, n) /\ (At(c, f, n) <=> Holds(burst[c], f, n))
        /\ Owned(c, f, n)' <=> f = g /\ n = sent[g] + 1
        /\ At(c, f, n)' <=> (f = g /\ n = sent[g] + 1) \/ Holds(burst[c], f, n)
    BY <1>1, <1>4, <1>5 DEF Owned, At, IsPacket
  <2>4. CASE f = g /\ n = sent[g] + 1
    <3>1. ~(n <= sent[f]) /\ n <= sent'[f]
      BY <1>2, <1>5, <2>4
    <3>2. ~Somewhere(f, n)
      BY <2>1, <3>1
    <3>3. QED
      BY <1>1, <2>2, <2>3, <2>4, <3>1, <3>2 DEF HeldApart, Somewhere, Dropped, At
  <2>5. CASE ~(f = g /\ n = sent[g] + 1)
    <3>1. n <= sent'[f] <=> n <= sent[f]
      BY <1>2, <1>5, <2>5
    <3>2. \A d \in Cores : (Owned(d, f, n)' <=> Owned(d, f, n)) /\ (At(d, f, n)' <=> At(d, f, n))
      BY <2>2, <2>3, <2>5
    <3>3. QED
      BY <1>1, <2>1, <3>1, <3>2 DEF HeldApart, Somewhere, Dropped
  <2>6. QED
    BY <2>4, <2>5
<1>9. QED
  BY <1>6, <1>7, <1>8 DEF Placed

\* A burst leaves the ring, the sender's own packet behind it.
LEMMA BulkPlaced ==
  ASSUME IInv, Placed, NEW c \in Cores, DequeueBulk(c)
  PROVE  Placed'
<1>1. CASE ~(Len(ring) >= TxBurst - 1)
  <2>1. pc \in [Cores -> ControlPoints]
    BY DEF IInv, TypeOK
  <2>2. UNCHANGED <<ring, wire, lost, sent, own, burst>> /\ pc[c] = "bulk" /\ pc' = [pc EXCEPT ![c] = "enqueue"]
    BY <1>1 DEF DequeueBulk, Goto
  <2>3. QED
    BY <2>1, <2>2, SamePlaces
<1>2. CASE Len(ring) >= TxBurst - 1
  <2>1. PICK k : k = TxBurst - 1
    OBVIOUS
  <2>2. PICK a, b, x : /\ a = SubSeq(ring, 1, k) /\ b = SubSeq(ring, k + 1, Len(ring))
                       /\ x = [own[c] EXCEPT !.straight = TRUE]
    OBVIOUS
  <2>3. k \in 0..Len(ring) /\ k + 1 = TxBurst
    BY <1>2, <2>1, BulkFacts DEF IInv
  <2>4. /\ ring \in Seq(Packet) /\ wire \in Seq(Packet) /\ burst \in [Cores -> Seq(Packet)]
        /\ pc \in [Cores -> ControlPoints] /\ own \in [Cores -> Packet \cup {None}]
    BY DEF IInv, TypeOK
  <2>5. /\ ring' = b /\ burst' = [burst EXCEPT ![c] = Append(a, x)]
        /\ UNCHANGED <<wire, lost, sent, own>> /\ pc[c] = "bulk" /\ pc' = [pc EXCEPT ![c] = "burst"]
    BY <1>2, <2>1, <2>2, <2>3 DEF DequeueBulk, Goto
  <2>6. a \in Seq(Packet) /\ b \in Seq(Packet) /\ Pieces(ring, a, b)
    BY <2>2, <2>3, <2>4, CutFacts, HoldsCut
  <2>7. own[c] \in Packet /\ own[c] # None
    BY <2>4, <2>5 DEF IInv, OwnIsLatest
  <2>8. x \in Packet /\ x.flow = own[c].flow /\ x.n = own[c].n
    BY <2>2, <2>7 DEF Packet
  <2>9. \A f, n : IsPacket(x, f, n) <=> Owned(c, f, n)
    BY <2>5, <2>7, <2>8 DEF Owned, IsPacket
  <2>10. burst[c] = <<>> /\ \A f, n : ~Holds(burst[c], f, n)
    BY <2>5, EmptyHolds DEF IInv, LockIsHeld
  <2>11. PICK t : t = Append(a, x)
    OBVIOUS
  <2>12. /\ \A f, n : Holds(t, f, n) <=> Holds(a, f, n) \/ IsPacket(x, f, n)
         /\ Distinct(a) /\ ~Holds(a, x.flow, x.n) => Distinct(t)
    BY <2>6, <2>8, <2>11, HoldsAppend
  <2>13. /\ burst'[c] = t /\ pc'[c] = "burst"
         /\ \A d \in Cores : d # c => burst'[d] = burst[d] /\ pc'[d] = pc[d]
    BY <2>4, <2>5, <2>11
  <2>14. /\ \A f, n : Holds(ring, f, n) <=> Holds(a, f, n) \/ Holds(b, f, n)
         /\ Distinct(a) /\ Distinct(b) /\ \A f, n : ~(Holds(a, f, n) /\ Holds(b, f, n))
    BY <2>6 DEF Pieces, Placed, HeldOnce
  <2>15. ~Holds(a, x.flow, x.n)
    <3>1. x.flow \in Flows /\ x.n \in 1..MaxPackets
      BY <2>8 DEF Packet
    <3>2. Owned(c, x.flow, x.n) /\ HeldApart(x.flow, x.n)
      BY <2>9, <3>1 DEF Placed, IsPacket
    <3>3. QED
      BY <2>14, <3>2 DEF HeldApart, At
  <2>16. HeldOnce'
    <3>1. Distinct(t)
      BY <2>12, <2>14, <2>15
    <3>2. \A d \in Cores : Distinct(burst'[d])
      BY <2>13, <3>1 DEF Placed, HeldOnce
    <3>3. QED
      BY <2>5, <2>14, <3>2 DEF Placed, HeldOnce
  <2>17. \A d \in Cores : pc'[d] = "idle" => own'[d] = None
    BY <2>5, <2>13 DEF Placed
  <2>18. ASSUME NEW f \in Flows, NEW n \in 1..MaxPackets
         PROVE  HeldApart(f, n)' /\ (Somewhere(f, n) <=> n <= sent[f])'
    <3>1. HeldApart(f, n) /\ (Somewhere(f, n) <=> n <= sent[f])
      BY DEF Placed
    <3>2. \A d \in Cores : d # c => /\ Owned(d, f, n)' <=> Owned(d, f, n)
                                    /\ Holds(burst[d], f, n)' <=> Holds(burst[d], f, n)
                                    /\ At(d, f, n)' <=> At(d, f, n)
      BY <2>5, <2>13 DEF Owned, At
    <3>3. /\ ~Owned(c, f, n)' /\ (Holds(burst[c], f, n)' <=> Holds(a, f, n) \/ Owned(c, f, n))
          /\ At(c, f, n)' <=> Holds(a, f, n) \/ Owned(c, f, n)
          /\ At(c, f, n) <=> Owned(c, f, n)
      BY <2>9, <2>10, <2>12, <2>13 DEF Owned, At
    <3>4. /\ Holds(ring, f, n)' <=> Holds(b, f, n)
          /\ Holds(ring, f, n) <=> Holds(a, f, n) \/ Holds(b, f, n)
          /\ ~(Holds(a, f, n) /\ Holds(b, f, n))
      BY <2>5, <2>14
    <3>5. HeldApart(f, n)'
      BY <2>5, <3>1, <3>2, <3>3, <3>4 DEF HeldApart, Dropped
    <3>6. Somewhere(f, n)' <=> Somewhere(f, n)
      BY <2>5, <3>2, <3>3, <3>4 DEF Somewhere, Dropped
    <3>7. QED
      BY <2>5, <3>1, <3>5, <3>6
  <2>19. QED
    BY <2>16, <2>17, <2>18 DEF Placed
<1>3. QED
  BY <1>1, <1>2

\* A burst goes to the wire; what the port does not take is dropped.
LEMMA TransmitPlaced ==
  ASSUME IInv, Placed, NEW c \in Cores, Transmit(c)
  PROVE  Placed'
<1>1. PICK k \in 0..Len(burst[c]) :
        /\ wire' = wire \o SubSeq(burst[c], 1, k)
        /\ lost' = lost \cup {burst[c][i] : i \in k+1..Len(burst[c])}
  BY DEF Transmit
<1>2. PICK s, a, b, D : /\ s = burst[c] /\ a = SubSeq(s, 1, k) /\ b = SubSeq(s, k + 1, Len(s))
                        /\ D = {s[i] : i \in k+1..Len(s)}
  OBVIOUS
<1>3. /\ wire' = wire \o a /\ lost' = lost \cup D /\ UNCHANGED <<ring, sent>>
      /\ burst' = [burst EXCEPT ![c] = <<>>] /\ own' = [own EXCEPT ![c] = None]
      /\ pc[c] = "burst" /\ pc' = [pc EXCEPT ![c] = "idle"]
  BY <1>1, <1>2 DEF Transmit, Goto
<1>4. /\ wire \in Seq(Packet) /\ burst \in [Cores -> Seq(Packet)] /\ lost \subseteq Packet
      /\ pc \in [Cores -> ControlPoints] /\ own \in [Cores -> Packet \cup {None}]
  BY DEF IInv, TypeOK
<1>5. s \in Seq(Packet) /\ k \in 0..Len(s) /\ a \in Seq(Packet)
  BY <1>1, <1>2, <1>4, CutFacts
<1>6. Pieces(s, a, b)
  BY <1>2, <1>5, HoldsCut
<1>7. /\ D \subseteq Packet
      /\ \A f, n : Among(D, f, n) <=> Holds(b, f, n)
      /\ Distinct(s) => Single(D)
  <2>1. b = SubSeq(s, k + 1, Len(s)) /\ D = {s[i] : i \in k+1..Len(s)}
    BY <1>2
  <2>2. QED
    BY <1>5, <2>1, EndDropped
<1>8. /\ burst'[c] = <<>> /\ own'[c] = None /\ pc'[c] = "idle"
      /\ \A d \in Cores : d # c => burst'[d] = burst[d] /\ own'[d] = own[d] /\ pc'[d] = pc[d]
  BY <1>3, <1>4
<1>9. Distinct(s) /\ Distinct(wire)
  BY <1>2 DEF Placed, HeldOnce
<1>10. /\ \A f, n : Holds(s, f, n) <=> Holds(a, f, n) \/ Holds(b, f, n)
       /\ Distinct(a) /\ \A f, n : ~(Holds(a, f, n) /\ Holds(b, f, n))
  BY <1>6, <1>9 DEF Pieces
<1>11. \A f, n : Dropped(f, n)' <=> Dropped(f, n) \/ Holds(b, f, n)
  BY <1>3, <1>7 DEF Dropped, Among
<1>12. \A f \in Flows, n \in 1..MaxPackets :
         Holds(s, f, n) => ~Holds(wire, f, n) /\ ~Holds(ring, f, n) /\ ~Dropped(f, n)
  BY <1>2 DEF Placed, HeldApart, At
<1>13. \A f, n : ~(Holds(wire, f, n) /\ Holds(a, f, n))
  BY <1>4, <1>10, <1>12, HeldIsPacket
<1>14. /\ \A f, n : Holds(wire', f, n) <=> Holds(wire, f, n) \/ Holds(a, f, n)
       /\ Distinct(wire')
  <2>1. PICK w : w = wire'
    OBVIOUS
  <2>2. w = wire \o a
    BY <1>3, <2>1
  <2>3. (\A f, n : Holds(w, f, n) <=> Holds(wire, f, n) \/ Holds(a, f, n)) /\ Distinct(w)
    BY <1>4, <1>5, <1>9, <1>10, <1>13, <2>2, HoldsConcat
  <2>4. QED
    BY <2>1, <2>3
<1>15. Single(lost')
  <2>1. \A p, q \in lost : p.flow = q.flow /\ p.n = q.n => p = q
    BY DEF Placed, HeldOnce, Single
  <2>2. \A p, q \in D : p.flow = q.flow /\ p.n = q.n => p = q
    BY <1>7, <1>9 DEF Single
  <2>3. ASSUME NEW p \in lost, NEW q \in D, p.flow = q.flow, p.n = q.n
        PROVE  FALSE
    <3>1. p.flow \in Flows /\ p.n \in 1..MaxPackets
      BY <1>4 DEF Packet
    <3>2. Dropped(p.flow, p.n)
      BY DEF Dropped, Among, IsPacket
    <3>3. Holds(b, p.flow, p.n)
      BY <1>7, <2>3 DEF Among, IsPacket
    <3>4. QED
      BY <1>10, <1>12, <3>1, <3>2, <3>3
  <2>4. \A p \in lost' : p \in lost \/ p \in D
    BY <1>3
  <2>5. QED
    BY <2>1, <2>2, <2>3, <2>4 DEF Single
<1>16. HeldOnce'
  <2>1. \A d \in Cores : Distinct(burst'[d])
    BY <1>8, EmptyHolds DEF Placed, HeldOnce
  <2>2. QED
    BY <1>3, <1>14, <1>15, <2>1 DEF Placed, HeldOnce
<1>17. \A d \in Cores : pc'[d] = "idle" => own'[d] = None
  BY <1>8 DEF Placed
<1>18. ASSUME NEW f \in Flows, NEW n \in 1..MaxPackets
       PROVE  HeldApart(f, n)' /\ (Somewhere(f, n) <=> n <= sent[f])'
  <2>1. HeldApart(f, n) /\ (Somewhere(f, n) <=> n <= sent[f])
    BY DEF Placed
  <2>2. \A d \in Cores : d # c => /\ Owned(d, f, n)' <=> Owned(d, f, n)
                                  /\ Holds(burst[d], f, n)' <=> Holds(burst[d], f, n)
                                  /\ At(d, f, n)' <=> At(d, f, n)
    BY <1>8 DEF Owned, At
  <2>3. /\ ~Owned(c, f, n)' /\ ~Holds(burst[c], f, n)' /\ ~At(c, f, n)'
        /\ At(c, f, n) <=> Holds(s, f, n)
    BY <1>2, <1>3, <1>8, EmptyHolds DEF Owned, At
  <2>4. /\ Holds(wire, f, n)' <=> Holds(wire, f, n) \/ Holds(a, f, n)
        /\ Holds(ring, f, n)' <=> Holds(ring, f, n)
        /\ Dropped(f, n)' <=> Dropped(f, n) \/ Holds(b, f, n)
        /\ Holds(s, f, n) <=> Holds(a, f, n) \/ Holds(b, f, n)
        /\ ~(Holds(a, f, n) /\ Holds(b, f, n))
    BY <1>3, <1>10, <1>11, <1>14
  <2>5. HeldApart(f, n)'
    BY <2>1, <2>2, <2>3, <2>4 DEF HeldApart
  <2>6. Somewhere(f, n)' <=> Somewhere(f, n)
    BY <2>2, <2>3, <2>4 DEF Somewhere
  <2>7. QED
    BY <1>3, <2>1, <2>5, <2>6
<1>19. QED
  BY <1>16, <1>17, <1>18 DEF Placed

\* A packet goes into the ring, or is dropped when the ring is full.
LEMMA EnqueuePlaced ==
  ASSUME IInv, Placed, NEW c \in Cores, Enqueue(c)
  PROVE  Placed'
<1>1. /\ ring \in Seq(Packet) /\ burst \in [Cores -> Seq(Packet)]
      /\ pc \in [Cores -> ControlPoints] /\ own \in [Cores -> Packet \cup {None}]
      /\ lost \subseteq Packet
  BY DEF IInv, TypeOK
<1>2. /\ UNCHANGED <<wire, sent, burst>> /\ pc[c] = "enqueue"
      /\ own' = [own EXCEPT ![c] = None] /\ pc' = [pc EXCEPT ![c] = "idle"]
  BY DEF Enqueue, Goto
<1>3. PICK x : x = own[c]
  OBVIOUS
<1>4. x \in Packet /\ x # None
  BY <1>1, <1>2, <1>3 DEF IInv, OwnIsLatest
<1>5. /\ own'[c] = None /\ pc'[c] = "idle"
      /\ \A d \in Cores : d # c => own'[d] = own[d] /\ pc'[d] = pc[d]
  BY <1>1, <1>2
<1>6. \A f, n : IsPacket(x, f, n) <=> Owned(c, f, n)
  BY <1>2, <1>3, <1>4 DEF Owned
<1>7. ~Holds(ring, x.flow, x.n) /\ ~Dropped(x.flow, x.n)
  <2>1. x.flow \in Flows /\ x.n \in 1..MaxPackets
    BY <1>4 DEF Packet
  <2>2. Owned(c, x.flow, x.n) /\ HeldApart(x.flow, x.n)
    BY <1>6, <2>1 DEF Placed, IsPacket
  <2>3. QED
    BY <2>2 DEF HeldApart, At
\* Whether it went in or was dropped.
<1>8. /\ Distinct(ring') /\ Single(lost')
      /\ \/ /\ \A f, n : Holds(ring', f, n) <=> Holds(ring, f, n) \/ IsPacket(x, f, n)
            /\ \A f, n : Dropped(f, n)' <=> Dropped(f, n)
         \/ /\ \A f, n : Holds(ring', f, n) <=> Holds(ring, f, n)
            /\ \A f, n : Dropped(f, n)' <=> Dropped(f, n) \/ IsPacket(x, f, n)
  <2>1. CASE Len(ring) < RingCap
    <3>1. ring' = Append(ring, x) /\ lost' = lost
      BY <1>3, <2>1 DEF Enqueue
    <3>2. PICK t : t = ring'
      OBVIOUS
    <3>3. /\ \A f, n : Holds(t, f, n) <=> Holds(ring, f, n) \/ IsPacket(x, f, n)
          /\ Distinct(ring) /\ ~Holds(ring, x.flow, x.n) => Distinct(t)
      BY <1>1, <1>4, <3>1, <3>2, HoldsAppend
    <3>4. Distinct(t) /\ Single(lost')
      BY <1>7, <3>1, <3>3 DEF Placed, HeldOnce
    <3>5. \A f, n : Dropped(f, n)' <=> Dropped(f, n)
      BY <3>1 DEF Dropped
    <3>6. QED
      BY <3>2, <3>3, <3>4, <3>5
  <2>2. CASE ~(Len(ring) < RingCap)
    <3>1. ring' = ring /\ lost' = lost \cup {x}
      BY <1>3, <2>2 DEF Enqueue
    <3>2. \A f, n : Dropped(f, n)' <=> Dropped(f, n) \/ IsPacket(x, f, n)
      BY <3>1 DEF Dropped, Among
    <3>3. \A p \in lost : ~(p.flow = x.flow /\ p.n = x.n)
      BY <1>7 DEF Dropped, Among, IsPacket
    <3>4. Single(lost')
      BY <3>1, <3>3 DEF Placed, HeldOnce, Single
    <3>5. QED
      BY <3>1, <3>2, <3>4 DEF Placed, HeldOnce
  <2>3. QED
    BY <2>1, <2>2
<1>9. HeldOnce'
  BY <1>2, <1>8 DEF Placed, HeldOnce
<1>10. \A d \in Cores : pc'[d] = "idle" => own'[d] = None
  BY <1>5 DEF Placed
<1>11. ASSUME NEW f \in Flows, NEW n \in 1..MaxPackets
       PROVE  HeldApart(f, n)' /\ (Somewhere(f, n) <=> n <= sent[f])'
  <2>1. HeldApart(f, n) /\ (Somewhere(f, n) <=> n <= sent[f])
    BY DEF Placed
  <2>2. \A d \in Cores : d # c => /\ Owned(d, f, n)' <=> Owned(d, f, n)
                                  /\ Holds(burst[d], f, n)' <=> Holds(burst[d], f, n)
                                  /\ At(d, f, n)' <=> At(d, f, n)
    BY <1>2, <1>5 DEF Owned, At
  <2>3. burst[c] = <<>> /\ ~Holds(burst[c], f, n)
    BY <1>2, EmptyHolds DEF IInv, LockIsHeld
  <2>4. /\ ~Owned(c, f, n)' /\ ~Holds(burst[c], f, n)' /\ ~At(c, f, n)'
        /\ At(c, f, n) <=> Owned(c, f, n)
    BY <1>2, <1>5, <2>3, EmptyHolds DEF Owned, At
  <2>5. /\ Holds(wire, f, n)' <=> Holds(wire, f, n)
        /\ \/ /\ Holds(ring, f, n)' <=> Holds(ring, f, n) \/ Owned(c, f, n)
              /\ Dropped(f, n)' <=> Dropped(f, n)
           \/ /\ Holds(ring, f, n)' <=> Holds(ring, f, n)
              /\ Dropped(f, n)' <=> Dropped(f, n) \/ Owned(c, f, n)
    BY <1>2, <1>6, <1>8
  <2>6. HeldApart(f, n)'
    BY <2>1, <2>2, <2>3, <2>4, <2>5 DEF HeldApart
  <2>7. Somewhere(f, n)' <=> Somewhere(f, n)
    BY <2>2, <2>4, <2>5 DEF Somewhere
  <2>8. QED
    BY <1>2, <2>1, <2>6, <2>7
<1>12. QED
  BY <1>9, <1>10, <1>11 DEF Placed

\* A burst is drained from the ring.
LEMMA DrainPlaced ==
  ASSUME IInv, Placed, NEW c \in Cores, Drain(c)
  PROVE  Placed'
<1>1. PICK k : k = Shorter(Len(ring), TxBurst)
  OBVIOUS
<1>2. PICK a, b : a = SubSeq(ring, 1, k) /\ b = SubSeq(ring, k + 1, Len(ring))
  OBVIOUS
<1>3. k \in 0..Len(ring)
  BY <1>1, ConstantsAssumption DEF Shorter, IInv, TypeOK
<1>4. /\ ring \in Seq(Packet) /\ burst \in [Cores -> Seq(Packet)]
      /\ pc \in [Cores -> ControlPoints] /\ own \in [Cores -> Packet \cup {None}]
  BY DEF IInv, TypeOK
<1>5. /\ ring' = b /\ burst' = [burst EXCEPT ![c] = a] /\ UNCHANGED <<wire, lost, sent, own>>
      /\ pc[c] = "idle" /\ pc' = [pc EXCEPT ![c] = "burst"] /\ own[c] = None
  BY <1>1, <1>2 DEF Drain, Goto, Placed
<1>6. Pieces(ring, a, b)
  BY <1>2, <1>3, <1>4, HoldsCut
<1>7. /\ burst'[c] = a /\ pc'[c] = "burst"
      /\ \A d \in Cores : d # c => burst'[d] = burst[d] /\ pc'[d] = pc[d]
  BY <1>4, <1>5
<1>8. /\ \A f, n : Holds(ring, f, n) <=> Holds(a, f, n) \/ Holds(b, f, n)
      /\ Distinct(a) /\ Distinct(b) /\ \A f, n : ~(Holds(a, f, n) /\ Holds(b, f, n))
  BY <1>6 DEF Pieces, Placed, HeldOnce
<1>9. HeldOnce'
  <2>1. \A d \in Cores : Distinct(burst'[d])
    BY <1>7, <1>8 DEF Placed, HeldOnce
  <2>2. QED
    BY <1>5, <1>8, <2>1 DEF Placed, HeldOnce
<1>10. \A d \in Cores : pc'[d] = "idle" => own'[d] = None
  BY <1>5, <1>7 DEF Placed
<1>11. ASSUME NEW f \in Flows, NEW n \in 1..MaxPackets
       PROVE  HeldApart(f, n)' /\ (Somewhere(f, n) <=> n <= sent[f])'
  <2>1. HeldApart(f, n) /\ (Somewhere(f, n) <=> n <= sent[f])
    BY DEF Placed
  <2>2. \A d \in Cores : d # c => /\ Owned(d, f, n)' <=> Owned(d, f, n)
                                  /\ Holds(burst[d], f, n)' <=> Holds(burst[d], f, n)
                                  /\ At(d, f, n)' <=> At(d, f, n)
    BY <1>5, <1>7 DEF Owned, At
  <2>3. burst[c] = <<>> /\ ~Holds(burst[c], f, n)
    BY <1>5, EmptyHolds DEF IInv, LockIsHeld
  <2>4. /\ ~Owned(c, f, n)' /\ ~Owned(c, f, n) /\ ~At(c, f, n)
        /\ Holds(burst[c], f, n)' <=> Holds(a, f, n)
        /\ At(c, f, n)' <=> Holds(a, f, n)
    BY <1>5, <1>7, <2>3 DEF Owned, At
  <2>5. /\ Holds(ring, f, n)' <=> Holds(b, f, n)
        /\ Holds(ring, f, n) <=> Holds(a, f, n) \/ Holds(b, f, n)
        /\ ~(Holds(a, f, n) /\ Holds(b, f, n))
    BY <1>5, <1>8
  <2>6. HeldApart(f, n)'
    BY <1>5, <2>1, <2>2, <2>3, <2>4, <2>5 DEF HeldApart, Dropped
  <2>7. Somewhere(f, n)' <=> Somewhere(f, n)
    BY <1>5, <2>2, <2>4, <2>5 DEF Somewhere, Dropped
  <2>8. QED
    BY <1>5, <2>1, <2>6, <2>7
<1>12. QED
  BY <1>9, <1>10, <1>11 DEF Placed

\* Every step leaves each packet in its one place.
LEMMA PlacedStep ==
  ASSUME IInv, Placed, [Next]_vars
  PROVE  Placed'
<1>1. ASSUME NEW c \in Cores, Count(c) \/ TryLock(c)
      PROVE  Placed'
  <2>1. pc \in [Cores -> ControlPoints]
    BY DEF IInv, TypeOK
  <2>2. UNCHANGED <<ring, wire, lost, sent, own, burst>>
    BY <1>1 DEF Count, TryLock
  <2>3. PICK p \in {"trylock", "enqueue", "bulk"} : pc' = [pc EXCEPT ![c] = p]
    BY <1>1 DEF Count, TryLock, Goto
  <2>4. pc[c] \in {"count", "trylock"}
    BY <1>1 DEF Count, TryLock
  <2>5. \A d \in Cores : /\ pc'[d] = "burst" <=> pc[d] = "burst"
                         /\ pc'[d] = "idle" => pc[d] = "idle"
    BY <2>1, <2>3, <2>4
  <2>6. QED
    BY <2>2, <2>5, SamePlaces
<1>2. ASSUME UNCHANGED vars
      PROVE  Placed'
  BY <1>2, SamePlaces DEF vars
<1>3. QED
  BY <1>1, <1>2, SendPlaced, BulkPlaced, TransmitPlaced, EnqueuePlaced, DrainPlaced
     DEF Next, TxStep

\* Where a packet is, the set of its places has one element.
LEMMA OneElement ==
  ASSUME Placed, NEW f \in Flows, NEW n \in 1..MaxPackets
  PROVE  Cardinality(Places(f, n)) = IF n <= sent[f] THEN 1 ELSE 0
<1> DEFINE W == {<<"wire", 0, i>> : i \in {j \in 1..Len(wire) : IsPacket(wire[j], f, n)}}
           R == {<<"ring", 0, i>> : i \in {j \in 1..Len(ring) : IsPacket(ring[j], f, n)}}
           L == {<<"lost", 0, p.straight>> : p \in {x \in lost : IsPacket(x, f, n)}}
           H == {<<"core", c, 0>> : c \in
                  {d \in Cores : pc[d] # "burst" /\ own[d] # None /\ IsPacket(own[d], f, n)}}
           T(c) == {<<"burst", c, i>> : i \in {j \in 1..Len(burst[c]) : IsPacket(burst[c][j], f, n)}}
           B == UNION {T(c) : c \in Cores}
<1>1. Places(f, n) = W \cup R \cup L \cup H \cup B
  BY DEF Places
<1>2. /\ HeldApart(f, n) /\ (Somewhere(f, n) <=> n <= sent[f])
      /\ HeldOnce
  BY DEF Placed
<1>3. (\E x : x \in W) <=> Holds(wire, f, n)
  BY DEF Holds
<1>4. (\E x : x \in R) <=> Holds(ring, f, n)
  BY DEF Holds
<1>5. (\E x : x \in L) <=> Dropped(f, n)
  BY DEF Dropped, Among
<1>6. (\E x : x \in H) <=> \E c \in Cores : Owned(c, f, n)
  BY DEF Owned
<1>7. \A c \in Cores : (\E x : x \in T(c)) <=> Holds(burst[c], f, n)
  BY DEF Holds
<1>8. (\E x : x \in B) <=> \E c \in Cores : Holds(burst[c], f, n)
  BY <1>7
\* Each of the five has at most one element.
<1>9. \A x, y \in W : x = y
  <2>1. \A i, j \in {k \in 1..Len(wire) : IsPacket(wire[k], f, n)} : i = j
    BY <1>2 DEF HeldOnce, Distinct, IsPacket
  <2>2. QED
    BY <2>1
<1>10. \A x, y \in R : x = y
  <2>1. \A i, j \in {k \in 1..Len(ring) : IsPacket(ring[k], f, n)} : i = j
    BY <1>2 DEF HeldOnce, Distinct, IsPacket
  <2>2. QED
    BY <2>1
<1>11. \A x, y \in L : x = y
  <2>1. \A p, q \in {x \in lost : IsPacket(x, f, n)} : p = q
    BY <1>2 DEF HeldOnce, Single, IsPacket
  <2>2. QED
    BY <2>1
<1>12. \A x, y \in H : x = y
  <2>1. \A c, d \in {e \in Cores : pc[e] # "burst" /\ own[e] # None /\ IsPacket(own[e], f, n)} : c = d
    BY <1>2 DEF HeldApart, At, Owned
  <2>2. QED
    BY <2>1
<1>13. \A x, y \in B : x = y
  <2>1. ASSUME NEW c \in Cores, NEW x \in T(c), NEW y \in T(c)
        PROVE  x = y
    <3>1. \A i, j \in {k \in 1..Len(burst[c]) : IsPacket(burst[c][k], f, n)} : i = j
      BY <1>2 DEF HeldOnce, Distinct, IsPacket
    <3>2. QED
      BY <2>1, <3>1
  <2>2. ASSUME NEW x \in B, NEW y \in B
        PROVE  x = y
    <3>1. PICK c, d \in Cores : x \in T(c) /\ y \in T(d)
      BY <2>2
    <3> HIDE DEF T
    <3>2. At(c, f, n) /\ At(d, f, n)
      BY <1>7, <3>1 DEF At
    <3>3. c = d
      BY <1>2, <3>2 DEF HeldApart
    <3>4. QED
      BY <2>1, <3>1, <3>3
  <2>3. QED
    BY <2>2
<1> HIDE DEF W, R, L, H, T, B
\* No two of them have one.
<1>14. \A x, y \in Places(f, n) : x = y
  <2>1. /\ ~(Holds(wire, f, n) /\ Holds(ring, f, n))
        /\ ~(Dropped(f, n) /\ (Holds(wire, f, n) \/ Holds(ring, f, n)))
        /\ \A c \in Cores : Owned(c, f, n) \/ Holds(burst[c], f, n) =>
             ~Holds(wire, f, n) /\ ~Holds(ring, f, n) /\ ~Dropped(f, n)
        /\ \A c, d \in Cores : ~(Owned(c, f, n) /\ Holds(burst[d], f, n))
    BY <1>2 DEF HeldApart, At
  <2>2. \A x \in W, y \in R \cup L \cup H \cup B : FALSE
    BY <1>3, <1>4, <1>5, <1>6, <1>8, <2>1
  <2>3. \A x \in R, y \in L \cup H \cup B : FALSE
    BY <1>3, <1>4, <1>5, <1>6, <1>8, <2>1
  <2>4. \A x \in L, y \in H \cup B : FALSE
    BY <1>3, <1>4, <1>5, <1>6, <1>8, <2>1
  <2>5. \A x \in H, y \in B : FALSE
    BY <1>3, <1>4, <1>5, <1>6, <1>8, <2>1
  <2>6. QED
    BY <1>1, <1>9, <1>10, <1>11, <1>12, <1>13, <2>2, <2>3, <2>4, <2>5
<1>15. (\E x : x \in Places(f, n)) <=> n <= sent[f]
  <2>1. Somewhere(f, n) <=> \/ Holds(wire, f, n) \/ Holds(ring, f, n) \/ Dropped(f, n)
                            \/ \E c \in Cores : Owned(c, f, n)
                            \/ \E c \in Cores : Holds(burst[c], f, n)
    BY DEF Somewhere, At
  <2>2. (\E x : x \in Places(f, n)) <=> \/ \E x : x \in W
                                        \/ \E x : x \in R
                                        \/ \E x : x \in L
                                        \/ \E x : x \in H
                                        \/ \E x : x \in B
    BY <1>1
  <2>3. QED
    BY <1>2, <1>3, <1>4, <1>5, <1>6, <1>8, <2>1, <2>2
<1>16. CASE n <= sent[f]
  <2>1. PICK x : x \in Places(f, n)
    BY <1>15, <1>16
  <2>2. Places(f, n) = {x}
    BY <1>14, <2>1
  <2>3. QED
    BY <1>16, <2>2, FS_Singleton
<1>17. CASE ~(n <= sent[f])
  <2>1. Places(f, n) = {}
    BY <1>15, <1>17
  <2>2. QED
    BY <1>17, <2>1, FS_EmptySet
<1>18. QED
  BY <1>16, <1>17

(* A packet that was handed over is in one place: in a sender's hands, in the *)
(* ring, in a burst, on the wire, or dropped.                                 *)
THEOREM PacketsStayInOnePlace == Spec => []OnePlace
<1>1. Init => Placed
  <2> SUFFICES ASSUME Init PROVE Placed
    OBVIOUS
  <2>1. \A c \in Cores : own[c] = None /\ burst[c] = <<>>
    BY DEF Init
  <2>2. HeldOnce
    BY <2>1, EmptyHolds DEF Init, HeldOnce, Single
  <2>3. ASSUME NEW f \in Flows, NEW n \in 1..MaxPackets
        PROVE  HeldApart(f, n) /\ (Somewhere(f, n) <=> n <= sent[f])
    <3>1. \A c \in Cores : ~Owned(c, f, n) /\ ~Holds(burst[c], f, n) /\ ~At(c, f, n)
      BY <2>1, EmptyHolds DEF Owned, At
    <3>2. ~Holds(wire, f, n) /\ ~Holds(ring, f, n) /\ ~Dropped(f, n)
      BY EmptyHolds DEF Init, Dropped, Among
    <3>3. ~(n <= sent[f])
      BY DEF Init
    <3>4. QED
      BY <3>1, <3>2, <3>3 DEF HeldApart, Somewhere
  <2>4. QED
    BY <2>1, <2>2, <2>3 DEF Placed
<1>2. IInv /\ Placed /\ [Next]_vars => Placed'
  BY PlacedStep
<1>3. Placed => OnePlace
  BY OneElement DEF OnePlace
<1>4. QED
  BY <1>1, <1>2, <1>3, Invariance, PTL DEF Spec

=============================================================================
