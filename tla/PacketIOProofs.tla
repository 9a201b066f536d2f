---------------------------- MODULE PacketIOProofs ----------------------------
(***************************************************************************)
(* Proofs about PacketIO, for any number of cores, receive queues, flows,  *)
(* EM queues and packets, any size of the bursts and of the hash table.    *)
(***************************************************************************)
EXTENDS PacketIO, SequenceTheorems, FiniteSetTheorems, TLAPS

(* A packet and its position in the hash table; a packet and its queue.        *)
Received == [p : Packets, to : Positions \cup {Undef}]
Looked == [p : Packets, q : Queues \cup {Undef}]

(* Types of the state.                                                         *)
TypeOK ==
  /\ free \subseteq Packets
  /\ nic \in [RxQueues -> Seq(Packets)]
  /\ queue \in [Queues -> Seq(Packets)]
  /\ tx \in [Cores -> Seq(Packets)]
  /\ batch \in [Cores -> Seq(Received)]
  /\ looked \in [Cores -> Nat]
  /\ pairs \in [Cores -> Seq(Looked)]
  /\ tokens \in Seq(RxQueues)
  /\ at \in [Cores -> ControlPoints]
  /\ current \in [Cores -> RxQueues \cup {Undef}]
  /\ access \in [Cores -> 0..AccessMax - 1]
  /\ count \in [Cores -> 0..RxBurst]
  /\ position \in [Flows -> Positions \cup {Undef}]
  /\ table \in [Positions -> Queues \cup {Undef}]
  /\ change \in [f : Flows \cup Positions \cup {Undef}, q : Queues \cup {Undef}]
  /\ default \in Queues \cup {Undef}
  /\ flow \in [Packets -> Flows \cup {Undef}]
  /\ earlier \in [Packets -> SUBSET Packets]

(* The packets a core has received, before and after it has read their queue.  *)
Batch(c) == PacketsOf(batch[c])
Pairs(c) == PacketsOf(pairs[c])

(* How a core's local state goes with its control point: the tables are empty  *)
(* outside of a call, and a core that polls has a token.                       *)
Shape(c) ==
  /\ at[c] = "idle" => (access[c] = 0 <=> current[c] = Undef)
  /\ at[c] # "idle" => current[c] # Undef
  /\ batch[c] # <<>> <=> at[c] \in {"lookup", "read", "default"}
  /\ pairs[c] # <<>> => at[c] \in {"read", "default", "enqueue"}

(* Every token is in the ring, once, or with one core.                         *)
Tokens ==
  /\ IsInjective(tokens)
  /\ \A r \in RxQueues, c \in Cores : Contains(tokens, r) => current[c] # r
  /\ \A c, d \in Cores : current[c] = current[d] /\ current[c] # Undef => c = d
  /\ \A r \in RxQueues : Contains(tokens, r) \/ \E c \in Cores : current[c] = r

(* The places of a packet: the pool, ..., and what they belong to.             *)
Kinds == {"pool", "nic", "queue", "batch", "pairs", "tx"}
Owners == RxQueues \cup Queues \cup Cores \cup {Undef}

At(p, k, x) ==
  \/ k = "pool" /\ x = Undef /\ p \in free
  \/ k = "nic" /\ x \in RxQueues /\ Contains(nic[x], p)
  \/ k = "queue" /\ x \in Queues /\ Contains(queue[x], p)
  \/ k = "batch" /\ x \in Cores /\ Contains(Batch(x), p)
  \/ k = "pairs" /\ x \in Cores /\ Contains(Pairs(x), p)
  \/ k = "tx" /\ x \in Cores /\ Contains(tx[x], p)

(* Every packet is in one place, ...                                           *)
Placed ==
  \A p \in Packets :
    /\ \E k \in Kinds, x \in Owners : At(p, k, x)
    /\ \A k, l \in Kinds : \A x, y \in Owners : At(p, k, x) /\ At(p, l, y) => k = l /\ x = y

(* ... and there once.                                                         *)
Injective ==
  /\ \A r \in RxQueues : IsInjective(nic[r])
  /\ \A q \in Queues : IsInjective(queue[q])
  /\ \A c \in Cores : IsInjective(Batch(c)) /\ IsInjective(Pairs(c)) /\ IsInjective(tx[c])

(* A packet in use has a flow; one that is on its way through a core came in   *)
(* on the Rx queue whose token the core has.                                   *)
Steered ==
  /\ \A p \in Packets : p \in free <=> flow[p] = Undef
  /\ \A r \in RxQueues, p \in Packets : Contains(nic[r], p) => RxOf[flow[p]] = r
  /\ \A c \in Cores, p \in Packets :
       Contains(Batch(c), p) \/ Contains(Pairs(c), p) => RxOf[flow[p]] = current[c]

(* The packets of each flow, by fl, are in s in the order of ea.               *)
Sorted(s, fl, ea) ==
  \A i, j \in 1..Len(s) : i < j /\ fl[s[i]] = fl[s[j]] => s[i] \in ea[s[j]]

AllSorted ==
  /\ \A r \in RxQueues : Sorted(nic[r], flow, earlier)
  /\ \A q \in Queues : Sorted(queue[q], flow, earlier)
  /\ \A c \in Cores : Sorted(Batch(c), flow, earlier) /\ Sorted(Pairs(c), flow, earlier)

(* How far a packet has come: a packet that is ahead of another one of its     *)
(* flow came before it.                                                        *)
Stage(k) == IF k = "nic" THEN 3 ELSE IF k = "batch" THEN 2 ELSE IF k = "pairs" THEN 1 ELSE 0

Across ==
  \A o, p \in Packets : \A k, l \in Kinds : \A x, y \in Owners :
    /\ At(o, k, x) /\ At(p, l, y) /\ Stage(k) < Stage(l)
    /\ flow[o] = flow[p]
    => o \in earlier[p]

(* The inductive invariant.                                                    *)
IInv ==
  /\ TypeOK
  /\ \A c \in Cores : Shape(c)
  /\ Tokens
  /\ Placed /\ Injective
  /\ Steered
  /\ AllSorted /\ Across

-----------------------------------------------------------------------------
(* Sequences *)

(* Appending to a sequence.                                                    *)
LEMMA AppendFacts ==
  ASSUME NEW S, NEW s \in Seq(S), NEW x \in S
  PROVE  /\ Append(s, x) \in Seq(S)
         /\ Len(Append(s, x)) = Len(s) + 1
         /\ \A i \in 1..Len(s) : Append(s, x)[i] = s[i]
         /\ Append(s, x)[Len(s) + 1] = x
  OBVIOUS

(* Cutting a sequence in two.                                                  *)
LEMMA CutFacts ==
  ASSUME NEW S, NEW s \in Seq(S), NEW n \in 0..Len(s)
  PROVE  /\ SubSeq(s, 1, n) \in Seq(S)
         /\ Len(SubSeq(s, 1, n)) = n
         /\ \A i \in 1..n : SubSeq(s, 1, n)[i] = s[i]
         /\ SubSeq(s, n + 1, Len(s)) \in Seq(S)
         /\ Len(SubSeq(s, n + 1, Len(s))) = Len(s) - n
         /\ \A i \in 1..(Len(s) - n) : SubSeq(s, n + 1, Len(s))[i] = s[n + i]
<1> Len(s) \in Nat /\ n \in Int /\ n + 1 \in Int /\ Len(s) \in Int
  OBVIOUS
<1>1. \A i \in 1..n : s[i] \in S
  OBVIOUS
<1>2. \A i \in (n + 1)..Len(s) : s[i] \in S
  OBVIOUS
<1>3. /\ SubSeq(s, 1, n) \in Seq(S)
      /\ Len(SubSeq(s, 1, n)) = IF 1 <= n THEN n - 1 + 1 ELSE 0
      /\ \A i \in 1..(n - 1 + 1) : SubSeq(s, 1, n)[i] = s[1 + i - 1]
  BY <1>1, SubSeqProperties
<1>4. /\ SubSeq(s, n + 1, Len(s)) \in Seq(S)
      /\ Len(SubSeq(s, n + 1, Len(s))) = IF n + 1 <= Len(s) THEN Len(s) - (n + 1) + 1 ELSE 0
      /\ \A i \in 1..(Len(s) - (n + 1) + 1) : SubSeq(s, n + 1, Len(s))[i] = s[n + 1 + i - 1]
  BY <1>2, SubSeqProperties
<1>5. QED
  BY <1>3, <1>4

(* Leaving out the first element of a sequence.                                *)
LEMMA TailFacts ==
  ASSUME NEW S, NEW s \in Seq(S), s # <<>>
  PROVE  /\ Head(s) = s[1] /\ Head(s) \in S
         /\ Len(s) \in Nat \ {0} /\ 1 \in 1..Len(s)
         /\ Tail(s) \in Seq(S)
         /\ Len(Tail(s)) = Len(s) - 1
         /\ \A i \in 1..Len(Tail(s)) : Tail(s)[i] = s[i + 1]
         /\ Len(s) > 1 => Tail(s) # <<>>
         /\ ~(Len(s) > 1) => Tail(s) = <<>>
<1>1. Len(s) \in Nat \ {0}
  OBVIOUS
<1>2. Tail(s) \in Seq(S) /\ Len(Tail(s)) = Len(s) - 1
  OBVIOUS
<1>3. \A i \in 1..Len(Tail(s)) : Tail(s)[i] = s[i + 1]
  OBVIOUS
<1>4. ASSUME Len(s) > 1 PROVE Tail(s) # <<>>
  <2>1. Len(Tail(s)) # 0
    BY <1>1, <1>2, <1>4
  <2>2. QED
    BY <1>2, <2>1, EmptySeq
<1>5. ASSUME ~(Len(s) > 1) PROVE Tail(s) = <<>>
  BY <1>1, <1>2, <1>5
<1>6. QED
  BY <1>1, <1>2, <1>3, <1>4, <1>5

(* A sequence without repetitions.                                             *)
LEMMA InjectiveFacts ==
  ASSUME NEW S, NEW s \in Seq(S)
  PROVE  IsInjective(s) <=> \A i, j \in 1..Len(s) : s[i] = s[j] => i = j
<1>1. DOMAIN s = 1..Len(s)
  OBVIOUS
<1>2. QED
  BY <1>1 DEF IsInjective

(* What a sequence holds when an element is put behind it.                     *)
LEMMA AppendMembers ==
  ASSUME NEW S, NEW s \in Seq(S), NEW x \in S, NEW t, t = Append(s, x)
  PROVE  /\ \A y : Contains(t, y) <=> Contains(s, y) \/ y = x
         /\ IsInjective(s) /\ ~Contains(s, x) => IsInjective(t)
<1>1. t \in Seq(S) /\ Len(s) \in Nat
  BY AppendFacts
<1>2. Len(t) = Len(s) + 1 /\ t[Len(s) + 1] = x /\ \A i \in 1..Len(s) : t[i] = s[i]
  BY AppendFacts
<1>3. /\ \A i \in 1..Len(t) : i \in 1..Len(s) \/ i = Len(s) + 1
      /\ \A i \in 1..Len(s) : i \in 1..Len(t) /\ i # Len(s) + 1
      /\ Len(s) + 1 \in 1..Len(t)
  BY <1>1, <1>2
<1>4. \A y : Contains(t, y) <=> Contains(s, y) \/ y = x
  BY <1>2, <1>3 DEF Contains
<1>5. ASSUME IsInjective(s), ~Contains(s, x)
      PROVE  IsInjective(t)
  <2>1. \A i, j \in 1..Len(s) : s[i] = s[j] => i = j
    BY <1>5, InjectiveFacts
  <2>2. \A i \in 1..Len(s) : s[i] # x
    BY <1>5 DEF Contains
  <2>3. \A i, j \in 1..Len(t) : t[i] = t[j] => i = j
    BY <1>2, <1>3, <2>1, <2>2
  <2>4. QED
    BY <1>1, <2>3, InjectiveFacts
<1>6. QED
  BY <1>4, <1>5

(* What it holds when its first element is left out.                           *)
LEMMA TailMembers ==
  ASSUME NEW S, NEW s \in Seq(S), s # <<>>, NEW t, t = Tail(s)
  PROVE  /\ \A y : Contains(s, y) <=> y = Head(s) \/ Contains(t, y)
         /\ IsInjective(s) => IsInjective(t) /\ ~Contains(t, Head(s))
<1>1. /\ Head(s) = s[1] /\ Len(s) \in Nat \ {0} /\ Len(t) = Len(s) - 1 /\ t \in Seq(S)
      /\ \A i \in 1..Len(t) : t[i] = s[i + 1]
  BY TailFacts
<1>2. /\ \A i \in 1..Len(t) : i + 1 \in 1..Len(s) /\ i + 1 # 1
      /\ \A i \in 1..Len(s) : i = 1 \/ \E j \in 1..Len(t) : i = j + 1
      /\ 1 \in 1..Len(s)
  <2>1. \A i \in 1..Len(s) : i # 1 => i - 1 \in 1..Len(t) /\ i = (i - 1) + 1
    BY <1>1
  <2>2. QED
    BY <1>1, <2>1
<1>3. \A y : Contains(s, y) <=> y = Head(s) \/ Contains(t, y)
  <2>1. \A i \in 1..Len(s) : s[i] = Head(s) \/ \E j \in 1..Len(t) : t[j] = s[i]
    BY <1>1, <1>2
  <2>2. \A j \in 1..Len(t) : \E i \in 1..Len(s) : s[i] = t[j]
    BY <1>1, <1>2
  <2>3. \E i \in 1..Len(s) : s[i] = Head(s)
    BY <1>1, <1>2
  <2>4. QED
    BY <2>1, <2>2, <2>3 DEF Contains
<1>4. ASSUME IsInjective(s)
      PROVE  IsInjective(t) /\ ~Contains(t, Head(s))
  <2>1. \A i, j \in 1..Len(s) : s[i] = s[j] => i = j
    BY <1>4, InjectiveFacts
  <2>2. ASSUME NEW i \in 1..Len(t), NEW j \in 1..Len(t), t[i] = t[j]
        PROVE  i = j
    <3>1. i + 1 = j + 1
      BY <1>1, <1>2, <2>1, <2>2
    <3>2. QED
      BY <3>1
  <2>3. \A i \in 1..Len(t) : t[i] # Head(s)
    BY <1>1, <1>2, <2>1
  <2>4. IsInjective(t)
    <3>1. t \in Seq(S) /\ \A i, j \in 1..Len(t) : t[i] = t[j] => i = j
      BY <1>1, <2>2
    <3>2. QED
      BY <3>1, InjectiveFacts
  <2>5. QED
    BY <2>3, <2>4 DEF Contains
<1>5. QED
  BY <1>3, <1>4

(* What s holds is in a or in b; in one of them, if nothing is in s twice.     *)
Parts(s, a, b) ==
  /\ \A y : Contains(s, y) <=> Contains(a, y) \/ Contains(b, y)
  /\ IsInjective(s) => /\ IsInjective(a) /\ IsInjective(b)
                       /\ \A y : ~(Contains(a, y) /\ Contains(b, y))

(* What the parts hold when it is cut in two.                                  *)
LEMMA CutMembers ==
  ASSUME NEW S, NEW s \in Seq(S), NEW n \in 0..Len(s)
  PROVE  Parts(s, SubSeq(s, 1, n), SubSeq(s, n + 1, Len(s)))
<1>0. PICK a, b : a = SubSeq(s, 1, n) /\ b = SubSeq(s, n + 1, Len(s))
  OBVIOUS
<1>1. /\ Len(s) \in Nat /\ n \in Nat /\ n <= Len(s)
      /\ Len(a) = n /\ \A i \in 1..n : a[i] = s[i]
      /\ Len(b) = Len(s) - n /\ \A i \in 1..(Len(s) - n) : b[i] = s[n + i]
      /\ a \in Seq(S) /\ b \in Seq(S)
  BY <1>0, CutFacts
<1>2. /\ \A i \in 1..Len(a) : i \in 1..Len(s) /\ a[i] = s[i] /\ i <= n
      /\ \A i \in 1..Len(b) : n + i \in 1..Len(s) /\ b[i] = s[n + i] /\ ~(n + i <= n)
  <2>1. \A i \in 1..Len(a) : i \in 1..n
    BY <1>1
  <2>2. \A i \in 1..Len(b) : i \in 1..(Len(s) - n)
    BY <1>1
  <2>3. \A i \in 1..(Len(s) - n) : n + i \in 1..Len(s) /\ ~(n + i <= n)
    <3>1. Len(s) \in Nat /\ n \in Nat /\ n <= Len(s)
      BY <1>1
    <3>2. QED
      BY <3>1
  <2>4. \A i \in 1..n : i \in 1..Len(s) /\ i <= n
    <3>1. Len(s) \in Nat /\ n \in Nat /\ n <= Len(s)
      BY <1>1
    <3>2. QED
      BY <3>1
  <2>5. QED
    BY <1>1, <2>1, <2>2, <2>3, <2>4
<1>3. \A i \in 1..Len(s) : i \in 1..Len(a) \/ \E j \in 1..Len(b) : i = n + j
  <2>1. \A i \in 1..Len(s) : i \in 1..Len(a) \/ (i - n \in 1..Len(b) /\ i = n + (i - n))
    <3>1. Len(s) \in Nat /\ n \in Nat /\ Len(a) = n /\ Len(b) = Len(s) - n
      BY <1>1
    <3>2. QED
      BY <3>1
  <2>2. QED
    BY <2>1
<1>4. \A y : Contains(s, y) <=> Contains(a, y) \/ Contains(b, y)
  <2>1. \A i \in 1..Len(s) : Contains(a, s[i]) \/ Contains(b, s[i])
    <3> SUFFICES ASSUME NEW i \in 1..Len(s)
                 PROVE  Contains(a, s[i]) \/ Contains(b, s[i])
      OBVIOUS
    <3>1. CASE i \in 1..Len(a)
      BY <1>2, <3>1 DEF Contains
    <3>2. CASE \E j \in 1..Len(b) : i = n + j
      BY <1>2, <3>2 DEF Contains
    <3>3. QED
      BY <1>3, <3>1, <3>2
  <2>2. \A j \in 1..Len(a) : Contains(s, a[j])
    BY <1>2 DEF Contains
  <2>3. \A j \in 1..Len(b) : Contains(s, b[j])
    BY <1>2 DEF Contains
  <2>4. ASSUME NEW y
        PROVE  Contains(s, y) <=> Contains(a, y) \/ Contains(b, y)
    <3>1. Contains(s, y) => Contains(a, y) \/ Contains(b, y)
      BY <2>1, Zenon DEF Contains
    <3>2. Contains(a, y) => Contains(s, y)
      BY <2>2, Zenon DEF Contains
    <3>3. Contains(b, y) => Contains(s, y)
      BY <2>3, Zenon DEF Contains
    <3>4. QED
      BY <3>1, <3>2, <3>3
  <2>5. QED
    BY <2>4
<1>5. ASSUME IsInjective(s)
      PROVE  /\ IsInjective(a) /\ IsInjective(b)
             /\ \A y : ~(Contains(a, y) /\ Contains(b, y))
  <2>1. \A i, j \in 1..Len(s) : s[i] = s[j] => i = j
    BY <1>5, InjectiveFacts
  <2>2. ASSUME NEW i \in 1..Len(b), NEW j \in 1..Len(b), b[i] = b[j]
        PROVE  i = j
    <3>1. n + i = n + j
      BY <1>2, <2>1, <2>2
    <3>2. QED
      BY <1>1, <3>1
  <2>3. \A i, j \in 1..Len(a) : a[i] = a[j] => i = j
    BY <1>2, <2>1
  <2>4. \A i \in 1..Len(a), j \in 1..Len(b) : a[i] # b[j]
    BY <1>2, <2>1
  <2>5. IsInjective(a) /\ IsInjective(b)
    BY <1>1, <2>2, <2>3, InjectiveFacts
  <2>6. QED
    BY <2>4, <2>5 DEF Contains
<1>6. QED
  BY <1>0, <1>4, <1>5 DEF Parts

(* The members of a sequence, as a set.                                        *)
LEMMA MembersFacts ==
  ASSUME NEW S, NEW s \in Seq(S)
  PROVE  /\ \A y : y \in ToSet(s) <=> Contains(s, y)
         /\ ToSet(s) \subseteq S
<1>1. DOMAIN s = 1..Len(s) /\ \A i \in 1..Len(s) : s[i] \in S
  OBVIOUS
<1>2. QED
  BY <1>1 DEF ToSet, Contains

(* The empty sequence.                                                         *)
LEMMA EmptyFacts ==
  ASSUME NEW S, NEW s \in Seq(S)
  PROVE  s = <<>> <=> \A y \in S : ~Contains(s, y)
<1>1. Len(s) \in Nat /\ (s = <<>> <=> Len(s) = 0) /\ \A i \in 1..Len(s) : s[i] \in S
  BY EmptySeq
<1>2. Len(s) # 0 => 1 \in 1..Len(s)
  BY <1>1
<1>3. Len(s) = 0 => \A i \in 1..Len(s) : FALSE
  OBVIOUS
<1>4. QED
  BY <1>1, <1>2, <1>3 DEF Contains

(* The packets of a table with something beside each.                          *)
LEMMA PacketsOfFacts ==
  ASSUME NEW R, \A b \in R : b.p \in Packets
  PROVE  \A s \in Seq(R) :
           /\ PacketsOf(s) \in Seq(Packets) /\ Len(PacketsOf(s)) = Len(s)
           /\ \A i \in 1..Len(s) : PacketsOf(s)[i] = s[i].p
           /\ PacketsOf(s) = <<>> <=> s = <<>>
<1> TAKE s \in Seq(R)
<1>1. DOMAIN s = 1..Len(s) /\ Len(s) \in Nat /\ \A i \in 1..Len(s) : s[i] \in R
  OBVIOUS
<1>2. PacketsOf(s) = [i \in 1..Len(s) |-> s[i].p]
  BY <1>1 DEF PacketsOf
<1>3. \A i \in 1..Len(s) : s[i].p \in Packets
  BY <1>1
<1>4. PacketsOf(s) \in Seq(Packets) /\ Len(PacketsOf(s)) = Len(s)
  BY <1>1, <1>2, <1>3
<1>5. QED
  BY <1>1, <1>2, <1>4, EmptySeq

(* ... when one is put behind it ...                                           *)
LEMMA PacketsOfAppend ==
  ASSUME NEW R, NEW s \in Seq(R), NEW b \in R, \A a \in R : a.p \in Packets
  PROVE  PacketsOf(Append(s, b)) = Append(PacketsOf(s), b.p)
<1>1. PICK t \in Seq(R) : t = Append(s, b)
  BY AppendFacts
<1>2. /\ Len(t) = Len(s) + 1 /\ t[Len(s) + 1] = b /\ \A i \in 1..Len(s) : t[i] = s[i]
      /\ Len(s) \in Nat
  BY <1>1, AppendFacts
<1>3. PICK u \in Seq(Packets) : u = PacketsOf(s)
  BY PacketsOfFacts
<1>4. Len(u) = Len(s) /\ \A i \in 1..Len(s) : u[i] = s[i].p
  BY <1>3, PacketsOfFacts
<1>5. PICK v \in Seq(Packets) : v = PacketsOf(t)
  BY <1>1, PacketsOfFacts
<1>6. Len(v) = Len(t) /\ \A i \in 1..Len(t) : v[i] = t[i].p
  <2>1. t \in Seq(R) /\ \A a \in R : a.p \in Packets
    BY <1>1
  <2>2. /\ PacketsOf(t) \in Seq(Packets) /\ Len(PacketsOf(t)) = Len(t)
        /\ \A i \in 1..Len(t) : PacketsOf(t)[i] = t[i].p
    BY <2>1, PacketsOfFacts
  <2>3. QED
    BY <1>5, <2>2
<1>7. PICK w \in Seq(Packets) : w = Append(u, b.p)
  BY AppendFacts
<1>8. Len(w) = Len(u) + 1 /\ w[Len(u) + 1] = b.p /\ \A i \in 1..Len(u) : w[i] = u[i]
  BY <1>7, AppendFacts
<1>9. \A i \in 1..Len(v) : i \in 1..Len(s) \/ i = Len(s) + 1
  BY <1>2, <1>6
<1>10. \A i \in 1..Len(s) : i \in 1..Len(t)
  BY <1>2
<1>11. Len(s) + 1 \in 1..Len(t)
  BY <1>2
<1>12. \A i \in 1..Len(v) : v[i] = w[i]
  BY <1>2, <1>4, <1>6, <1>8, <1>9, <1>10, <1>11
<1>13. v = w
  BY <1>2, <1>4, <1>6, <1>8, <1>12, SeqEqual
<1>14. QED
  BY <1>1, <1>3, <1>5, <1>7, <1>13

(* ... and when the first one is left out.                                     *)
LEMMA PacketsOfTail ==
  ASSUME NEW R, NEW s \in Seq(R), s # <<>>, \A a \in R : a.p \in Packets
  PROVE  /\ PacketsOf(Tail(s)) = Tail(PacketsOf(s))
         /\ Head(PacketsOf(s)) = Head(s).p /\ Head(s) \in R
<1>1. PICK t \in Seq(R) : t = Tail(s)
  BY TailFacts
<1>2. /\ Len(t) = Len(s) - 1 /\ \A i \in 1..Len(t) : t[i] = s[i + 1]
      /\ Len(s) \in Nat \ {0} /\ Head(s) = s[1] /\ 1 \in 1..Len(s) /\ Head(s) \in R
  BY <1>1, TailFacts
<1>3. PICK u \in Seq(Packets) : u = PacketsOf(s)
  BY PacketsOfFacts
<1>4. Len(u) = Len(s) /\ \A i \in 1..Len(s) : u[i] = s[i].p
  BY <1>3, PacketsOfFacts
<1>5. PICK v \in Seq(Packets) : v = PacketsOf(t)
  BY <1>1, PacketsOfFacts
<1>6. Len(v) = Len(t) /\ \A i \in 1..Len(t) : v[i] = t[i].p
  <2>1. t \in Seq(R) /\ \A a \in R : a.p \in Packets
    BY <1>1
  <2>2. /\ PacketsOf(t) \in Seq(Packets) /\ Len(PacketsOf(t)) = Len(t)
        /\ \A i \in 1..Len(t) : PacketsOf(t)[i] = t[i].p
    BY <2>1, PacketsOfFacts
  <2>3. QED
    BY <1>5, <2>2
<1>7. u # <<>>
  BY <1>2, <1>4, EmptySeq
<1>8. PICK w \in Seq(Packets) : w = Tail(u)
  BY <1>7, TailFacts
<1>9. Len(w) = Len(u) - 1 /\ \A i \in 1..Len(w) : w[i] = u[i + 1]
  BY <1>7, <1>8, TailFacts
<1>10. Head(u) = u[1]
  BY <1>7, TailFacts
<1>11. \A i \in 1..Len(v) : i \in 1..Len(t) /\ i \in 1..Len(w) /\ i + 1 \in 1..Len(s)
  BY <1>2, <1>4, <1>6, <1>9
<1>12. \A i \in 1..Len(v) : v[i] = w[i]
  BY <1>2, <1>4, <1>6, <1>9, <1>11
<1>13. v = w
  BY <1>2, <1>4, <1>6, <1>9, <1>12, SeqEqual
<1>14. QED
  BY <1>1, <1>2, <1>3, <1>4, <1>5, <1>8, <1>10, <1>13

(* The packets of a flow stay in order when the sequence grows, ...            *)
LEMMA SortedAppend ==
  ASSUME NEW S, NEW s \in Seq(S), NEW x \in S, NEW fl, NEW ea, Sorted(s, fl, ea),
         \A o \in S : Contains(s, o) /\ fl[o] = fl[x] => o \in ea[x],
         NEW t, t = Append(s, x)
  PROVE  Sorted(t, fl, ea)
<1>1. /\ Len(t) = Len(s) + 1 /\ t[Len(s) + 1] = x /\ \A i \in 1..Len(s) : t[i] = s[i]
      /\ Len(s) \in Nat /\ \A i \in 1..Len(s) : s[i] \in S
  BY AppendFacts
<1>2. ASSUME NEW i \in 1..Len(t), NEW j \in 1..Len(t), i < j, fl[t[i]] = fl[t[j]]
      PROVE  t[i] \in ea[t[j]]
  <2>1. i \in 1..Len(s) /\ (j \in 1..Len(s) \/ j = Len(s) + 1)
    BY <1>1, <1>2
  <2>2. CASE j \in 1..Len(s)
    BY <1>1, <1>2, <2>1, <2>2 DEF Sorted
  <2>3. CASE j = Len(s) + 1
    <3>1. Contains(s, s[i])
      BY <2>1 DEF Contains
    <3>2. QED
      BY <1>1, <1>2, <2>1, <2>3, <3>1
  <2>4. QED
    BY <2>1, <2>2, <2>3
<1>3. QED
  BY <1>2 DEF Sorted

(* ... loses its first one, which comes before the others of its flow, ...     *)
LEMMA SortedTail ==
  ASSUME NEW S, NEW s \in Seq(S), s # <<>>, NEW fl, NEW ea, Sorted(s, fl, ea),
         NEW t, t = Tail(s)
  PROVE  /\ Sorted(t, fl, ea)
         /\ \A o \in S : Contains(t, o) /\ fl[Head(s)] = fl[o] => Head(s) \in ea[o]
<1>1. /\ Len(t) = Len(s) - 1 /\ \A i \in 1..Len(t) : t[i] = s[i + 1]
      /\ Len(s) \in Nat \ {0} /\ Head(s) = s[1] /\ 1 \in 1..Len(s)
  BY TailFacts
<1>2. \A i \in 1..Len(t) : i + 1 \in 1..Len(s) /\ 1 < i + 1 /\ i \in Int
  BY <1>1
<1>3. \A i, j \in 1..Len(t) : i < j => i + 1 < j + 1
  OBVIOUS
<1>4. Sorted(t, fl, ea)
  BY <1>1, <1>2, <1>3 DEF Sorted
<1>5. \A i \in 1..Len(t) : fl[s[1]] = fl[t[i]] => s[1] \in ea[t[i]]
  BY <1>1, <1>2 DEF Sorted
<1>6. QED
  BY <1>1, <1>4, <1>5 DEF Contains

(* What is in a came before what is in b.                                      *)
Precede(a, b, fl, ea) ==
  \A o, p : Contains(a, o) /\ Contains(b, p) /\ fl[o] = fl[p] => o \in ea[p]


(* ... or is cut in two: the first part comes before the second.               *)
LEMMA SortedCut ==
  ASSUME NEW S, NEW s \in Seq(S), NEW n \in 0..Len(s), NEW fl, NEW ea, Sorted(s, fl, ea),
         NEW a, a = SubSeq(s, 1, n), NEW b, b = SubSeq(s, n + 1, Len(s))
  PROVE  Sorted(a, fl, ea) /\ Sorted(b, fl, ea) /\ Precede(a, b, fl, ea)
<1>1. /\ Len(s) \in Nat /\ n \in Nat /\ n <= Len(s)
      /\ Len(a) = n /\ \A i \in 1..n : a[i] = s[i]
      /\ Len(b) = Len(s) - n /\ \A i \in 1..(Len(s) - n) : b[i] = s[n + i]
  BY CutFacts
<1>2. \A i \in 1..Len(a) : i \in 1..Len(s) /\ i \in 1..n /\ a[i] = s[i]
  <2>1. \A i \in 1..n : i \in 1..Len(s)
    <3>1. Len(s) \in Nat /\ n \in Nat /\ n <= Len(s)
      BY <1>1
    <3>2. QED
      BY <3>1
  <2>2. QED
    BY <1>1, <2>1
<1>3. /\ \A i \in 1..Len(b) : n + i \in 1..Len(s) /\ b[i] = s[n + i] /\ i \in Nat
      /\ \A i \in 1..n : \A j \in 1..Len(b) : i < n + j
      /\ \A i, j \in 1..Len(b) : i < j => n + i < n + j
  <2>1. /\ \A i \in 1..(Len(s) - n) : n + i \in 1..Len(s) /\ i \in Nat
        /\ \A i \in 1..n : \A j \in 1..(Len(s) - n) : i < n + j
        /\ \A i, j \in 1..(Len(s) - n) : i < j => n + i < n + j
    <3>1. Len(s) \in Nat /\ n \in Nat /\ n <= Len(s)
      BY <1>1
    <3>2. QED
      BY <3>1
  <2>2. QED
    BY <1>1, <2>1
<1>4. Sorted(a, fl, ea)
  BY <1>2 DEF Sorted
<1>5. Sorted(b, fl, ea)
  BY <1>3 DEF Sorted
<1>6. ASSUME NEW i \in 1..Len(a), NEW j \in 1..Len(b), fl[a[i]] = fl[b[j]]
      PROVE  a[i] \in ea[b[j]]
  <2>1. /\ i \in 1..Len(s) /\ n + j \in 1..Len(s) /\ i < n + j
        /\ a[i] = s[i] /\ b[j] = s[n + j]
    BY <1>2, <1>3
  <2>2. QED
    BY <1>6, <2>1 DEF Sorted
<1>7. QED
  BY <1>4, <1>5, <1>6 DEF Contains, Precede

(* What it holds keeps its flow, and of what came earlier nothing it holds is  *)
(* forgotten.                                                                  *)
LEMMA SortedKept ==
  ASSUME NEW S, NEW s \in Seq(S), NEW fl, NEW ea, NEW gl, NEW eb, Sorted(s, fl, ea),
         \A p \in S : Contains(s, p) => gl[p] = fl[p],
         \A o, p \in S : Contains(s, o) /\ Contains(s, p) /\ o \in ea[p] => o \in eb[p]
  PROVE  Sorted(s, gl, eb)
<1>1. \A i \in 1..Len(s) : s[i] \in S /\ Contains(s, s[i])
  BY DEF Contains
<1>2. QED
  BY <1>1 DEF Sorted

-----------------------------------------------------------------------------
(* The steps that move packets *)

(* The packets a core has received.                                            *)
LEMMA TableFacts ==
  ASSUME TypeOK, NEW c \in Cores
  PROVE  /\ batch[c] \in Seq(Received) /\ pairs[c] \in Seq(Looked)
         /\ Batch(c) \in Seq(Packets) /\ Pairs(c) \in Seq(Packets)
         /\ Batch(c) = <<>> <=> batch[c] = <<>>
         /\ Pairs(c) = <<>> <=> pairs[c] = <<>>
<1>1. batch[c] \in Seq(Received) /\ pairs[c] \in Seq(Looked)
  BY DEF TypeOK
<1>2. \A b \in Received : b.p \in Packets
  BY DEF Received
<1>3. \A b \in Looked : b.p \in Packets
  BY DEF Looked
<1>4. \A s \in Seq(Received) : PacketsOf(s) \in Seq(Packets) /\ (PacketsOf(s) = <<>> <=> s = <<>>)
  BY <1>2, PacketsOfFacts
<1>5. \A s \in Seq(Looked) : PacketsOf(s) \in Seq(Packets) /\ (PacketsOf(s) = <<>> <=> s = <<>>)
  BY <1>3, PacketsOfFacts
<1>6. QED
  BY <1>1, <1>4, <1>5 DEF Batch, Pairs

(* The size of a burst.                                                        *)
LEMMA BurstSize ==
  ASSUME NEW m \in Nat
  PROVE  Min({RxBurst, m}) \in 0..m /\ Min({RxBurst, m}) \in 0..RxBurst
<1>1. RxBurst \in Nat
  BY ConstantsAssumption
<1>2. \E x \in {RxBurst, m} : \A y \in {RxBurst, m} : x <= y
  BY <1>1
<1>3. Min({RxBurst, m}) \in {RxBurst, m} /\ \A y \in {RxBurst, m} : Min({RxBurst, m}) <= y
  BY <1>2 DEF Min
<1>4. QED
  BY <1>1, <1>3

(* A burst is taken from the Rx queue.                                         *)
LEMMA ReceiveFacts ==
  ASSUME IInv, NEW c \in Cores, Receive(c)
  PROVE  /\ at[c] = "burst" /\ current[c] \in RxQueues
         /\ batch' \in [Cores -> Seq(Received)]
         /\ \A d \in Cores : d # c => Batch(d)' = Batch(d)
         /\ \E n \in 0..Len(nic[current[c]]) :
              /\ n \in 0..RxBurst
              /\ count' = [count EXCEPT ![c] = n]
              /\ nic' = [nic EXCEPT ![current[c]] =
                           SubSeq(nic[current[c]], n + 1, Len(nic[current[c]]))]
              /\ Batch(c)' = SubSeq(nic[current[c]], 1, n)
              /\ batch'[c] = <<>> <=> n = 0
              /\ at' = [at EXCEPT ![c] = IF n > 0 THEN "lookup" ELSE "done"]
              /\ \A d \in Cores : d # c => batch'[d] = batch[d]
         /\ UNCHANGED <<free, flowVars, hashVars, outVars, tokens, current, access, looked, pairs>>
<1>1. TypeOK /\ at[c] = "burst" /\ current[c] \in RxQueues /\ nic[current[c]] \in Seq(Packets)
  BY DEF IInv, TypeOK, Shape, Receive
<1>2. PICK s \in Seq(Packets) : s = nic[current[c]]
  BY <1>1
<1>3. PICK n : n = Min({RxBurst, Len(s)})
  OBVIOUS
<1>4. Len(s) \in Nat /\ DOMAIN s = 1..Len(s) /\ \A i \in 1..Len(s) : s[i] \in Packets
  OBVIOUS
<1>5. n \in 0..Len(s) /\ n \in 0..RxBurst
  BY <1>3, <1>4, BurstSize
<1>6. PICK b : b = [i \in 1..n |-> [p |-> s[i], to |-> Undef]]
  OBVIOUS
<1>7. /\ count' = [count EXCEPT ![c] = n]
      /\ nic' = [nic EXCEPT ![current[c]] = SubSeq(s, n + 1, Len(s))]
      /\ batch' = [batch EXCEPT ![c] = b]
      /\ at' = [at EXCEPT ![c] = IF n > 0 THEN "lookup" ELSE "done"]
      /\ UNCHANGED <<free, flowVars, hashVars, outVars, tokens, current, access, looked, pairs>>
  BY <1>2, <1>3, <1>6 DEF Receive, Goto
<1>8. \A i \in 1..n : i \in 1..Len(s) /\ [p |-> s[i], to |-> Undef] \in Received
  <2>1. \A i \in 1..n : i \in 1..Len(s)
    BY <1>4, <1>5
  <2>2. QED
    BY <1>4, <2>1 DEF Received
<1>9. b \in Seq(Received) /\ Len(b) = n /\ DOMAIN b = 1..n
  BY <1>5, <1>6, <1>8
<1>10. b = <<>> <=> n = 0
  BY <1>9, EmptySeq
<1>11. PacketsOf(b) = SubSeq(s, 1, n)
  <2>1. PICK t \in Seq(Packets) : t = SubSeq(s, 1, n)
    BY <1>5, CutFacts
  <2>2. Len(t) = n /\ \A i \in 1..n : t[i] = s[i]
    BY <1>5, <2>1, CutFacts
  <2>3. \A a \in Received : a.p \in Packets
    BY DEF Received
  <2>4. /\ PacketsOf(b) \in Seq(Packets) /\ Len(PacketsOf(b)) = n
        /\ \A i \in 1..n : PacketsOf(b)[i] = b[i].p
    BY <1>9, <2>3, PacketsOfFacts
  <2>5. \A i \in 1..n : b[i].p = s[i]
    BY <1>6
  <2>6. PacketsOf(b) = t
    BY <2>1, <2>2, <2>4, <2>5, SeqEqual
  <2>7. QED
    BY <2>1, <2>6
<1>12. batch'[c] = b /\ batch' \in [Cores -> Seq(Received)]
  BY <1>1, <1>7, <1>9 DEF TypeOK
<1>13. \A d \in Cores : d # c => batch'[d] = batch[d]
  BY <1>1, <1>7 DEF TypeOK
<1>14. \A d \in Cores : d # c => Batch(d)' = Batch(d)
  BY <1>13 DEF Batch
<1>15. Batch(c)' = SubSeq(s, 1, n)
  BY <1>11, <1>12 DEF Batch
<1>16. QED
  BY <1>1, <1>2, <1>5, <1>7, <1>10, <1>12, <1>13, <1>14, <1>15

(* The positions are looked up: the packets stay.                              *)
LEMMA LookupFacts ==
  ASSUME IInv, NEW c \in Cores, Lookup(c)
  PROVE  /\ at[c] = "lookup" /\ at' \in {at, [at EXCEPT ![c] = "read"]}
         /\ looked' \in [Cores -> Nat]
         /\ batch' \in [Cores -> Seq(Received)]
         /\ \A d \in Cores : Batch(d)' = Batch(d) /\ (batch'[d] = <<>> <=> batch[d] = <<>>)
         /\ UNCHANGED <<nicVars, hashVars, outVars, tokens, current, access, pairs, count>>
<1>1. TypeOK /\ batch[c] \in Seq(Received)
  BY DEF IInv, TypeOK
<1>2. PICK s \in Seq(Received) : s = batch[c]
  BY <1>1
<1>3. DOMAIN s = 1..Len(s) /\ Len(s) \in Nat /\ \A i \in 1..Len(s) : s[i] \in Received
  OBVIOUS
<1>4. PICK n \in Nat : n = looked[c] + 1
  BY <1>1 DEF TypeOK
<1>4a. PICK to : to = [i \in 1..Len(s) |-> IF i = n THEN position[flow[s[i].p]] ELSE s[i].to]
  OBVIOUS
<1>4b. PICK b : b = [i \in 1..Len(s) |-> [p |-> s[i].p, to |-> to[i]]]
  OBVIOUS
<1>5. /\ batch' = [batch EXCEPT ![c] = b] /\ at' \in {at, [at EXCEPT ![c] = "read"]}
      /\ looked' \in [Cores -> Nat]
      /\ UNCHANGED <<nicVars, hashVars, outVars, tokens, current, access, pairs, count>>
      /\ at[c] = "lookup"
  <2>1. batch' = [batch EXCEPT ![c] = [i \in DOMAIN @ |->
           [p |-> @[i].p, to |-> IF i = n THEN position[flow[@[i].p]] ELSE @[i].to]]]
    BY <1>4 DEF Lookup
  <2>2. [i \in DOMAIN s |->
           [p |-> s[i].p, to |-> IF i = n THEN position[flow[s[i].p]] ELSE s[i].to]] = b
    BY <1>3, <1>4a, <1>4b
  <2>3. batch' = [batch EXCEPT ![c] = b]
    BY <1>1, <1>2, <2>1, <2>2 DEF TypeOK
  <2>4. looked' \in {[looked EXCEPT ![c] = n], [looked EXCEPT ![c] = 0]}
    BY <1>4 DEF Lookup
  <2>5. looked' \in [Cores -> Nat]
    <3>1. looked \in [Cores -> Nat] /\ n \in Nat /\ 0 \in Nat
      BY <1>1, <1>4 DEF TypeOK
    <3>2. /\ [looked EXCEPT ![c] = n] \in [Cores -> Nat]
          /\ [looked EXCEPT ![c] = 0] \in [Cores -> Nat]
      BY <3>1
    <3>3. QED
      BY <2>4, <3>2
  <2>6. /\ at' \in {at, [at EXCEPT ![c] = "read"]} /\ at[c] = "lookup"
        /\ UNCHANGED <<nicVars, hashVars, outVars, tokens, current, access, pairs, count>>
    BY DEF Lookup, Goto
  <2>7. QED
    BY <2>3, <2>5, <2>6
<1>6. \A i \in 1..Len(s) : flow[s[i].p] \in Flows
  <2>1. TAKE i \in 1..Len(s)
  <2>2. s[i].p \in Packets
    BY <1>3 DEF Received
  <2>3. Contains(Batch(c), s[i].p)
    <3>1. \A a \in Received : a.p \in Packets
      BY DEF Received
    <3>2. PacketsOf(s)[i] = s[i].p /\ Len(PacketsOf(s)) = Len(s) /\ PacketsOf(s) \in Seq(Packets)
      BY <3>1, PacketsOfFacts
    <3>3. QED
      BY <1>2, <3>2 DEF Batch, Contains
  <2>4. s[i].p \notin free
    <3>1. At(s[i].p, "batch", c) /\ (s[i].p \in free => At(s[i].p, "pool", Undef))
      BY <2>3 DEF At
    <3>2. QED
      BY <2>2, <3>1 DEF IInv, Placed, Kinds, Owners
  <2>5. QED
    BY <1>1, <2>2, <2>4 DEF IInv, Steered, TypeOK
<1>7. \A i \in 1..Len(s) : [p |-> s[i].p, to |-> to[i]] \in Received
  <2>0. \A i \in 1..Len(s) : s[i].to \in Positions \cup {Undef}
    BY <1>3 DEF Received
  <2>1. \A i \in 1..Len(s) : to[i] \in Positions \cup {Undef}
    BY <1>1, <1>6, <1>4a, <2>0 DEF TypeOK
  <2>2. \A i \in 1..Len(s) : s[i].p \in Packets
    BY <1>3 DEF Received
  <2>3. QED
    BY <2>1, <2>2 DEF Received
<1>8. b \in Seq(Received) /\ Len(b) = Len(s) /\ DOMAIN b = 1..Len(s)
  BY <1>3, <1>4b, <1>7
<1>9. PacketsOf(b) = PacketsOf(s)
  <2>1. \A i \in 1..Len(s) : b[i].p = s[i].p
    BY <1>4b
  <2>2. QED
    BY <1>3, <1>8, <2>1 DEF PacketsOf
<1>10. batch'[c] = b /\ \A d \in Cores : d # c => batch'[d] = batch[d]
  BY <1>1, <1>5 DEF TypeOK
<1>11. batch' \in [Cores -> Seq(Received)]
  BY <1>1, <1>5, <1>8 DEF TypeOK
<1>12. b = <<>> <=> s = <<>>
  BY <1>8, EmptySeq
<1>13. \A d \in Cores : Batch(d)' = Batch(d) /\ (batch'[d] = <<>> <=> batch[d] = <<>>)
  BY <1>2, <1>9, <1>10, <1>12 DEF Batch
<1>14. QED
  BY <1>5, <1>11, <1>13

(* The first packet's queue is read: it is freed, or joins those that have one. *)
Reads(c) == ReadQueue(c) \/ FreeUnknown(c) \/ ReadDefault(c)

LEMMA ReadFacts ==
  ASSUME IInv, NEW c \in Cores, Reads(c)
  PROVE  /\ at[c] \in {"read", "default"} /\ Batch(c) # <<>> /\ Head(Batch(c)) \in Packets
         /\ batch' \in [Cores -> Seq(Received)] /\ pairs' \in [Cores -> Seq(Looked)]
         /\ Batch(c)' = Tail(Batch(c))
         /\ \A d \in Cores : d # c => batch'[d] = batch[d] /\ pairs'[d] = pairs[d]
         /\ \A d \in Cores : d # c => Batch(d)' = Batch(d) /\ Pairs(d)' = Pairs(d)
         /\ \/ Free({Head(Batch(c))}) /\ UNCHANGED pairs /\ Pairs(c)' = Pairs(c)
            \/ Pairs(c)' = Append(Pairs(c), Head(Batch(c))) /\ UNCHANGED <<free, flowVars>>
         /\ \/ batch'[c] = <<>> /\ at' = [at EXCEPT ![c] = "enqueue"]
            \/ batch'[c] # <<>> /\ at' = [at EXCEPT ![c] = "read"]
         /\ UNCHANGED <<nic, hashVars, outVars, tokens, current, access, looked, count>>
<1>1. TypeOK /\ at[c] \in {"read", "default"} /\ batch[c] \in Seq(Received) /\ batch[c] # <<>>
  <2>1. at[c] \in {"read", "default"}
    BY DEF Reads, ReadQueue, FreeUnknown, ReadDefault
  <2>2. QED
    BY <2>1 DEF IInv, TypeOK, Shape
<1>2. pairs[c] \in Seq(Looked)
  BY <1>1 DEF TypeOK
<1>3. PICK s \in Seq(Received) : s = batch[c]
  BY <1>1
<1>4. PICK b : b = Head(s)
  OBVIOUS
<1>5. /\ b \in Received /\ Tail(s) \in Seq(Received)
      /\ Len(s) > 1 => Tail(s) # <<>>
      /\ ~(Len(s) > 1) => Tail(s) = <<>>
  BY <1>1, <1>3, <1>4, TailFacts
<1>6. PICK x \in Queues \cup {Undef} :
        /\ NextPacket(c)
        /\ \/ Free({b.p}) /\ UNCHANGED pairs
           \/ /\ pairs' = [pairs EXCEPT ![c] = Append(@, [p |-> b.p, q |-> x])]
              /\ UNCHANGED <<free, flowVars>>
        /\ UNCHANGED <<nic, hashVars, outVars, tokens, current, access, looked, count>>
  <2>1. CASE FreeUnknown(c)
    BY <1>3, <1>4, <2>1 DEF FreeUnknown
  <2>2. CASE ReadQueue(c)
    <3>1. b.to # Undef /\ AddPair(c, table[b.to])
      BY <1>3, <1>4, <2>2 DEF ReadQueue
    <3>2. b.to \in Positions
      BY <1>5, <3>1 DEF Received
    <3>3. table[b.to] \in Queues \cup {Undef}
      BY <1>1, <3>2 DEF TypeOK
    <3>4. QED
      BY <1>3, <1>4, <3>1, <3>3 DEF AddPair, nicVars
  <2>3. CASE ReadDefault(c)
    <3>1. AddPair(c, default) /\ default \in Queues \cup {Undef}
      BY <1>1, <2>3 DEF ReadDefault, TypeOK
    <3>2. QED
      BY <1>3, <1>4, <3>1 DEF AddPair, nicVars
  <2>4. QED
    BY <2>1, <2>2, <2>3 DEF Reads
<1>7. x \in Queues \cup {Undef} /\ b.p \in Packets
  BY <1>5, <1>6 DEF Received
<1>8. /\ batch' = [batch EXCEPT ![c] = Tail(s)]
      /\ \/ Free({b.p}) /\ UNCHANGED pairs
         \/ /\ pairs' = [pairs EXCEPT ![c] = Append(@, [p |-> b.p, q |-> x])]
            /\ UNCHANGED <<free, flowVars>>
      /\ at' = [at EXCEPT ![c] = IF Len(s) > 1 THEN "read" ELSE "enqueue"]
      /\ UNCHANGED <<nic, hashVars, outVars, tokens, current, access, looked, count>>
  <2>1. batch' = [batch EXCEPT ![c] = Tail(batch[c])]
    BY <1>1, <1>6 DEF NextPacket, TypeOK
  <2>2. at' = [at EXCEPT ![c] = IF Len(s) > 1 THEN "read" ELSE "enqueue"]
    BY <1>3, <1>6 DEF NextPacket, Goto
  <2>3. QED
    BY <1>3, <1>6, <2>1, <2>2
<1>9. [p |-> b.p, q |-> x] \in Looked
  BY <1>7 DEF Looked
<1>10. PICK y \in Looked : y = [p |-> b.p, q |-> x]
  BY <1>9
<1>11. y.p = b.p
  BY <1>10
<1>12. batch'[c] = Tail(s) /\ batch' \in [Cores -> Seq(Received)]
  BY <1>1, <1>5, <1>8 DEF TypeOK
<1>13. \A d \in Cores : d # c => batch'[d] = batch[d] /\ pairs'[d] = pairs[d]
  BY <1>1, <1>8 DEF TypeOK
<1>14. \A d \in Cores : d # c => Batch(d)' = Batch(d) /\ Pairs(d)' = Pairs(d)
  BY <1>13 DEF Batch, Pairs
<1>15. /\ Head(Batch(c)) = b.p /\ Batch(c)' = Tail(Batch(c))
       /\ Batch(c) # <<>>
  <2>1. \A a \in Received : a.p \in Packets
    BY DEF Received
  <2>2. PacketsOf(Tail(s)) = Tail(PacketsOf(s)) /\ Head(PacketsOf(s)) = Head(s).p
    BY <1>1, <1>3, <2>1, PacketsOfTail
  <2>3. PacketsOf(batch'[c]) = Tail(PacketsOf(batch[c]))
    BY <1>3, <1>12, <2>2
  <2>4. Head(PacketsOf(batch[c])) = b.p
    BY <1>3, <1>4, <2>2
  <2>5. QED
    BY <1>1, <2>3, <2>4, TableFacts DEF Batch
<1>16. CASE Free({b.p}) /\ UNCHANGED pairs
  <2>1. Pairs(c)' = Pairs(c) /\ pairs' \in [Cores -> Seq(Looked)]
    BY <1>1, <1>16 DEF Pairs, TypeOK
  <2>2. \/ batch'[c] = <<>> /\ at' = [at EXCEPT ![c] = "enqueue"]
        \/ batch'[c] # <<>> /\ at' = [at EXCEPT ![c] = "read"]
    BY <1>5, <1>8, <1>12
  <2>3. QED
    BY <1>1, <1>7, <1>8, <1>12, <1>13, <1>14, <1>15, <1>16, <2>1, <2>2
<1>17. CASE /\ pairs' = [pairs EXCEPT ![c] = Append(@, [p |-> b.p, q |-> x])]
            /\ UNCHANGED <<free, flowVars>>
  <2>1. pairs' = [pairs EXCEPT ![c] = Append(pairs[c], y)]
    BY <1>1, <1>10, <1>17 DEF TypeOK
  <2>2. Append(pairs[c], y) \in Seq(Looked)
    BY <1>2, <1>10, AppendFacts
  <2>3. pairs'[c] = Append(pairs[c], y) /\ pairs' \in [Cores -> Seq(Looked)]
    BY <1>1, <2>1, <2>2 DEF TypeOK
  <2>4. PacketsOf(Append(pairs[c], y)) = Append(PacketsOf(pairs[c]), y.p)
    <3>1. \A a \in Looked : a.p \in Packets
      BY DEF Looked
    <3>2. QED
      BY <1>2, <1>10, <3>1, PacketsOfAppend
  <2>5. Pairs(c)' = Append(Pairs(c), b.p)
    BY <1>11, <2>3, <2>4 DEF Pairs
  <2>6. \/ batch'[c] = <<>> /\ at' = [at EXCEPT ![c] = "enqueue"]
        \/ batch'[c] # <<>> /\ at' = [at EXCEPT ![c] = "read"]
    BY <1>5, <1>8, <1>12
  <2>7. QED
    BY <1>1, <1>7, <1>8, <1>12, <1>13, <1>14, <1>15, <1>17, <2>3, <2>5, <2>6
<1>18. QED
  BY <1>8, <1>16, <1>17

(* The packets are freed.                                                      *)
LEMMA FailFacts ==
  ASSUME IInv, NEW c \in Cores, LookupFails(c)
  PROVE  /\ at[c] = "lookup" /\ at' = [at EXCEPT ![c] = "done"]
         /\ batch' = [batch EXCEPT ![c] = <<>>] /\ Free(ToSet(Batch(c)))
         /\ looked' = [looked EXCEPT ![c] = 0]
         /\ Batch(c)' = <<>> /\ \A d \in Cores : d # c => Batch(d)' = Batch(d)
         /\ UNCHANGED <<nic, hashVars, outVars, tokens, current, access, pairs, count>>
<1>1. /\ at[c] = "lookup" /\ at' = [at EXCEPT ![c] = "done"]
      /\ batch' = [batch EXCEPT ![c] = <<>>] /\ Free(ToSet(Batch(c)))
      /\ looked' = [looked EXCEPT ![c] = 0]
      /\ UNCHANGED <<nic, hashVars, outVars, tokens, current, access, pairs, count>>
  BY DEF LookupFails, Goto, Batch
<1>2. batch'[c] = <<>> /\ \A d \in Cores : d # c => batch'[d] = batch[d]
  BY <1>1 DEF IInv, TypeOK
<1>3. PacketsOf(<<>>) = <<>>
  <2>1. \A b \in Received : b.p \in Packets
    BY DEF Received
  <2>2. <<>> \in Seq(Received)
    OBVIOUS
  <2>3. QED
    BY <2>1, <2>2, PacketsOfFacts
<1>4. QED
  BY <1>1, <1>2, <1>3 DEF Batch

(* The first packet goes to its queue, or into the pool.                       *)
LEMMA EnqueueFacts ==
  ASSUME IInv, NEW c \in Cores, Enqueue(c)
  PROVE  /\ at[c] = "enqueue" /\ Pairs(c) # <<>> /\ Head(Pairs(c)) \in Packets
         /\ pairs' \in [Cores -> Seq(Looked)]
         /\ Pairs(c)' = Tail(Pairs(c))
         /\ \A d \in Cores : d # c => pairs'[d] = pairs[d] /\ Pairs(d)' = Pairs(d)
         /\ \/ /\ \E q \in Queues : queue' = [queue EXCEPT ![q] = Append(queue[q], Head(Pairs(c)))]
               /\ UNCHANGED <<free, flowVars>>
            \/ Free({Head(Pairs(c))}) /\ UNCHANGED queue
         /\ UNCHANGED <<nic, hashVars, tokens, at, current, access, batch, looked, count, tx>>
<1>1. TypeOK /\ at[c] = "enqueue" /\ pairs[c] \in Seq(Looked) /\ pairs[c] # <<>>
  BY DEF IInv, TypeOK, Enqueue
<1>2. PICK s \in Seq(Looked) : s = pairs[c]
  BY <1>1
<1>3. PICK b : b = Head(s)
  OBVIOUS
<1>4. b \in Looked /\ Tail(s) \in Seq(Looked)
  BY <1>1, <1>2, <1>3, TailFacts
<1>5. b.p \in Packets /\ b.q \in Queues \cup {Undef}
  BY <1>4 DEF Looked
<1>6. /\ pairs' = [pairs EXCEPT ![c] = Tail(s)]
      /\ \/ /\ b.q # Undef /\ queue' = [queue EXCEPT ![b.q] = Append(@, b.p)]
            /\ UNCHANGED <<free, flowVars>>
         \/ Free({b.p}) /\ UNCHANGED queue
      /\ UNCHANGED <<nic, hashVars, tokens, at, current, access, batch, looked, count, tx>>
  <2>1. pairs' = [pairs EXCEPT ![c] = Tail(pairs[c])]
    BY <1>1 DEF Enqueue, TypeOK
  <2>2. /\ \/ /\ b.q # Undef /\ SendParallel(b.p, b.q)
              /\ UNCHANGED <<free, flowVars>>
           \/ Free({b.p}) /\ UNCHANGED queue
        /\ UNCHANGED <<nic, hashVars, tokens, at, current, access, batch, looked, count, tx>>
    BY <1>2, <1>3 DEF Enqueue
  <2>3. QED
    BY <1>2, <2>1, <2>2 DEF SendParallel
<1>7. \A a \in Looked : a.p \in Packets
  BY DEF Looked
<1>8. PacketsOf(Tail(s)) = Tail(PacketsOf(s)) /\ Head(PacketsOf(s)) = b.p
  BY <1>1, <1>2, <1>3, <1>7, PacketsOfTail
<1>9. pairs'[c] = Tail(s) /\ pairs' \in [Cores -> Seq(Looked)]
  BY <1>1, <1>4, <1>6 DEF TypeOK
<1>10. \A d \in Cores : d # c => pairs'[d] = pairs[d]
  BY <1>1, <1>6 DEF TypeOK
<1>11. /\ Head(Pairs(c)) = b.p /\ Pairs(c)' = Tail(Pairs(c)) /\ Pairs(c) # <<>>
       /\ \A d \in Cores : d # c => Pairs(d)' = Pairs(d)
  <2>1. PacketsOf(pairs'[c]) = Tail(PacketsOf(pairs[c])) /\ Head(PacketsOf(pairs[c])) = b.p
    BY <1>2, <1>8, <1>9
  <2>2. Pairs(c) # <<>>
    BY <1>1, TableFacts
  <2>3. QED
    BY <1>10, <2>1, <2>2 DEF Pairs
<1>12. CASE /\ b.q # Undef /\ queue' = [queue EXCEPT ![b.q] = Append(@, b.p)]
            /\ UNCHANGED <<free, flowVars>>
  <2>1. PICK q \in Queues : q = b.q
    BY <1>5, <1>12
  <2>2. queue' = [queue EXCEPT ![q] = Append(queue[q], b.p)]
    BY <1>1, <1>12, <2>1 DEF TypeOK
  <2>3. QED
    BY <1>1, <1>5, <1>6, <1>9, <1>10, <1>11, <1>12, <2>2
<1>13. CASE Free({b.p}) /\ UNCHANGED queue
  BY <1>1, <1>5, <1>6, <1>9, <1>10, <1>11, <1>13
<1>14. QED
  BY <1>6, <1>12, <1>13

(* A packet is put into the core's table, and all in it are sent if it is full. *)
LEMMA ForwardFacts ==
  ASSUME IInv, NEW c \in Cores, NEW q \in Queues, Forward(c, q)
  PROVE  /\ queue[q] # <<>> /\ Head(queue[q]) \in Packets
         /\ queue' = [queue EXCEPT ![q] = Tail(queue[q])]
         /\ \/ /\ Free(ToSet(Append(tx[c], Head(queue[q]))))
               /\ tx' = [tx EXCEPT ![c] = <<>>]
            \/ /\ tx' = [tx EXCEPT ![c] = Append(tx[c], Head(queue[q]))]
               /\ UNCHANGED <<free, flowVars>>
         /\ UNCHANGED <<nic, hashVars, rxVars>>
<1>1. TypeOK /\ queue[q] # <<>> /\ queue[q] \in Seq(Packets)
  BY DEF IInv, TypeOK, Forward
<1>2. Head(queue[q]) \in Packets
  BY <1>1, TailFacts
<1>3. queue' = [queue EXCEPT ![q] = Tail(queue[q])]
  BY <1>1 DEF Forward, TypeOK
<1>4. PICK t : t = Append(tx[c], Head(queue[q]))
  OBVIOUS
<1>5. /\ IF Len(t) = TxBurst THEN TransmitAll(c, t)
         ELSE tx' = [tx EXCEPT ![c] = t] /\ UNCHANGED <<free, flowVars>>
      /\ UNCHANGED <<nic, hashVars, rxVars>>
  BY <1>4 DEF Forward
<1>6. QED
  BY <1>1, <1>2, <1>3, <1>4, <1>5 DEF TransmitAll

(* The packets of ps go back to the pool.                                      *)
LEMMA FreeFacts ==
  ASSUME TypeOK, NEW ps \in SUBSET Packets, Free(ps)
  PROVE  /\ free' \subseteq Packets
         /\ flow' \in [Packets -> Flows \cup {Undef}]
         /\ earlier' \in [Packets -> SUBSET Packets]
         /\ \A p \in Packets : p \in free' <=> p \in ps \/ p \in free
         /\ \A p \in ps : flow'[p] = Undef
         /\ \A p \in Packets \ ps : flow'[p] = flow[p]
         /\ \A o, p \in Packets \ ps : o \in earlier[p] => o \in earlier'[p]
<1>1. /\ free' = free \cup ps
      /\ flow' = [p \in Packets |-> IF p \in ps THEN Undef ELSE flow[p]]
      /\ earlier' = [p \in Packets |-> IF p \in ps THEN {} ELSE earlier[p] \ ps]
  BY DEF Free
<1>2. flow \in [Packets -> Flows \cup {Undef}] /\ earlier \in [Packets -> SUBSET Packets]
      /\ free \subseteq Packets
  BY DEF TypeOK
<1>3. free' \subseteq Packets /\ flow' \in [Packets -> Flows \cup {Undef}]
  BY <1>1, <1>2
<1>4. earlier' \in [Packets -> SUBSET Packets]
  <2>1. \A p \in Packets : earlier[p] \in SUBSET Packets
    BY <1>2
  <2>2. \A p \in Packets : (IF p \in ps THEN {} ELSE earlier[p] \ ps) \in SUBSET Packets
    BY <2>1
  <2>3. QED
    BY <1>1, <2>2
<1>5. QED
  BY <1>1, <1>3, <1>4

(* A burst is transmitted.                                                     *)
LEMMA TxFacts ==
  ASSUME TypeOK, NEW c \in Cores
  PROVE  tx[c] \in Seq(Packets) /\ ToSet(tx[c]) \in SUBSET Packets
BY MembersFacts DEF TypeOK

-----------------------------------------------------------------------------
(* Types *)

(* A core's step in the reception keeps the types.                             *)
LEMMA RxTypes ==
  ASSUME IInv, NEW c \in Cores, RxStep(c)
  PROVE  TypeOK'
<1>0. TypeOK /\ Shape(c)
  BY DEF IInv
<1>1. CASE TakeToken(c)
  <2>1. UNCHANGED <<nicVars, hashVars, outVars, access, batch, looked, pairs, count>>
        /\ at' = [at EXCEPT ![c] = "burst"]
    BY <1>1 DEF TakeToken, Goto
  <2>2. tokens' \in Seq(RxQueues) /\ current' \in [Cores -> RxQueues \cup {Undef}]
    <3>1. CASE access[c] = 0
      <4>1. /\ tokens # <<>> /\ tokens' = Tail(tokens)
            /\ current' = [current EXCEPT ![c] = Head(tokens)]
        BY <1>1, <3>1 DEF TakeToken
      <4>2. Tail(tokens) \in Seq(RxQueues) /\ Head(tokens) \in RxQueues
        BY <1>0, <4>1, TailFacts DEF TypeOK
      <4>3. QED
        BY <1>0, <4>1, <4>2 DEF TypeOK
    <3>2. CASE access[c] # 0
      BY <1>0, <1>1, <3>2 DEF TakeToken, TypeOK
    <3>3. QED
      BY <3>1, <3>2
  <2>3. QED
    BY <1>0, <2>1, <2>2 DEF TypeOK, nicVars, flowVars, hashVars, outVars, ControlPoints
<1>2. CASE Receive(c)
  <2>1. PICK n \in 0..Len(nic[current[c]]) :
          /\ n \in 0..RxBurst
          /\ count' = [count EXCEPT ![c] = n]
          /\ nic' = [nic EXCEPT ![current[c]] =
                       SubSeq(nic[current[c]], n + 1, Len(nic[current[c]]))]
          /\ at' = [at EXCEPT ![c] = IF n > 0 THEN "lookup" ELSE "done"]
    BY <1>2, ReceiveFacts
  <2>2. /\ batch' \in [Cores -> Seq(Received)] /\ current[c] \in RxQueues
        /\ UNCHANGED <<free, flowVars, hashVars, outVars, tokens, current, access, looked, pairs>>
    BY <1>2, ReceiveFacts
  <2>3. nic' \in [RxQueues -> Seq(Packets)]
    BY <1>0, <2>1, <2>2, CutFacts DEF TypeOK
  <2>4. at' \in [Cores -> ControlPoints] /\ count' \in [Cores -> 0..RxBurst]
    BY <1>0, <2>1 DEF TypeOK, ControlPoints
  <2>5. QED
    BY <1>0, <2>2, <2>3, <2>4 DEF TypeOK, flowVars, hashVars, outVars
<1>3. CASE Lookup(c)
  <2>1. /\ at' \in {at, [at EXCEPT ![c] = "read"]} /\ batch' \in [Cores -> Seq(Received)]
        /\ looked' \in [Cores -> Nat]
        /\ UNCHANGED <<nicVars, hashVars, outVars, tokens, current, access, pairs, count>>
    BY <1>3, LookupFacts
  <2>2. QED
    BY <1>0, <2>1 DEF TypeOK, nicVars, flowVars, hashVars, outVars, ControlPoints
<1>4. CASE LookupFails(c)
  <2>1. /\ at' = [at EXCEPT ![c] = "done"]
        /\ batch' = [batch EXCEPT ![c] = <<>>] /\ Free(ToSet(Batch(c)))
        /\ looked' = [looked EXCEPT ![c] = 0]
        /\ UNCHANGED <<nic, hashVars, outVars, tokens, current, access, pairs, count>>
    BY <1>4, FailFacts
  <2>2. ToSet(Batch(c)) \in SUBSET Packets
    BY <1>0, TableFacts, MembersFacts
  <2>3. /\ free' \subseteq Packets
        /\ flow' \in [Packets -> Flows \cup {Undef}]
        /\ earlier' \in [Packets -> SUBSET Packets]
    BY <1>0, <2>1, <2>2, FreeFacts
  <2>4. /\ batch' \in [Cores -> Seq(Received)] /\ at' \in [Cores -> ControlPoints]
        /\ looked' \in [Cores -> Nat]
    BY <1>0, <2>1 DEF TypeOK, ControlPoints
  <2>5. QED
    BY <1>0, <2>1, <2>3, <2>4 DEF TypeOK, hashVars, outVars
<1>5. CASE Reads(c)
  <2>1. /\ Head(Batch(c)) \in Packets
        /\ batch' \in [Cores -> Seq(Received)] /\ pairs' \in [Cores -> Seq(Looked)]
        /\ Free({Head(Batch(c))}) \/ UNCHANGED <<free, flowVars>>
        /\ at' \in {[at EXCEPT ![c] = "enqueue"], [at EXCEPT ![c] = "read"]}
        /\ UNCHANGED <<nic, hashVars, outVars, tokens, current, access, looked, count>>
    BY <1>5, ReadFacts
  <2>2. /\ free' \subseteq Packets
        /\ flow' \in [Packets -> Flows \cup {Undef}]
        /\ earlier' \in [Packets -> SUBSET Packets]
    <3>1. CASE Free({Head(Batch(c))})
      BY <1>0, <2>1, <3>1, FreeFacts
    <3>2. CASE UNCHANGED <<free, flowVars>>
      BY <1>0, <3>2 DEF flowVars, TypeOK
    <3>3. QED
      BY <2>1, <3>1, <3>2
  <2>3. at' \in [Cores -> ControlPoints]
    BY <1>0, <2>1 DEF TypeOK, ControlPoints
  <2>4. QED
    BY <1>0, <2>1, <2>2, <2>3 DEF TypeOK, hashVars, outVars
<1>6. CASE Enqueue(c)
  <2> DEFINE h == Head(Pairs(c))
  <2>1. /\ h \in Packets /\ pairs' \in [Cores -> Seq(Looked)]
        /\ \/ /\ \E q \in Queues : queue' = [queue EXCEPT ![q] = Append(queue[q], h)]
              /\ UNCHANGED <<free, flowVars>>
           \/ Free({h}) /\ UNCHANGED queue
        /\ UNCHANGED <<nic, hashVars, tokens, at, current, access, batch, looked, count, tx>>
    BY <1>6, EnqueueFacts
  <2> HIDE DEF h
  <2>2. /\ free' \subseteq Packets
        /\ flow' \in [Packets -> Flows \cup {Undef}]
        /\ earlier' \in [Packets -> SUBSET Packets]
    <3>1. CASE Free({h})
      BY <1>0, <2>1, <3>1, FreeFacts
    <3>2. CASE UNCHANGED <<free, flowVars>>
      BY <1>0, <3>2 DEF flowVars, TypeOK
    <3>3. QED
      BY <2>1, <3>1, <3>2
  <2>3. queue' \in [Queues -> Seq(Packets)]
    <3>1. \A q \in Queues : Append(queue[q], h) \in Seq(Packets)
      BY <1>0, <2>1, AppendFacts DEF TypeOK
    <3>2. QED
      BY <1>0, <2>1, <3>1 DEF TypeOK
  <2>4. QED
    BY <1>0, <2>1, <2>2, <2>3 DEF TypeOK, hashVars
<1>7. CASE EnqueueEnds(c)
  <2>1. at' = [at EXCEPT ![c] = "done"]
        /\ UNCHANGED <<nicVars, hashVars, outVars, tokens, current, access, batch, looked, pairs, count>>
    BY <1>7 DEF EnqueueEnds, Goto
  <2>2. QED
    BY <1>0, <2>1 DEF TypeOK, nicVars, flowVars, hashVars, outVars, ControlPoints
<1>8. CASE GiveBack(c)
  <2>1. /\ at[c] = "done" /\ at' = [at EXCEPT ![c] = "idle"] /\ count' = [count EXCEPT ![c] = 0]
        /\ UNCHANGED <<nicVars, hashVars, outVars, batch, looked, pairs>>
    BY <1>8 DEF GiveBack, Goto
  <2>2. current[c] \in RxQueues /\ access[c] \in 0..AccessMax - 1 /\ AccessMax \in Nat \ {0}
        /\ RxBurst \in Nat
    BY <1>0, <2>1, ConstantsAssumption DEF TypeOK, Shape
  <2>3. /\ tokens' \in Seq(RxQueues) /\ current' \in [Cores -> RxQueues \cup {Undef}]
        /\ access' \in [Cores -> 0..AccessMax - 1]
    <3>1. CASE access[c] + 1 = AccessMax \/ count[c] = 0
      <4>1. /\ tokens' = Append(tokens, current[c]) /\ access' = [access EXCEPT ![c] = 0]
            /\ current' = [current EXCEPT ![c] = Undef]
        BY <1>8, <3>1 DEF GiveBack
      <4>2. Append(tokens, current[c]) \in Seq(RxQueues)
        BY <1>0, <2>2, AppendFacts DEF TypeOK
      <4>3. 0 \in 0..AccessMax - 1
        BY <2>2
      <4>4. QED
        BY <1>0, <4>1, <4>2, <4>3 DEF TypeOK
    <3>2. CASE ~(access[c] + 1 = AccessMax \/ count[c] = 0)
      <4>1. access' = [access EXCEPT ![c] = access[c] + 1] /\ UNCHANGED <<tokens, current>>
        BY <1>0, <1>8, <3>2 DEF GiveBack, TypeOK
      <4>2. access[c] + 1 \in 0..AccessMax - 1
        BY <2>2, <3>2
      <4>3. QED
        BY <1>0, <4>1, <4>2 DEF TypeOK
    <3>3. QED
      BY <3>1, <3>2
  <2>4. at' \in [Cores -> ControlPoints] /\ count' \in [Cores -> 0..RxBurst]
    BY <1>0, <2>1, <2>2 DEF TypeOK, ControlPoints
  <2>5. QED
    BY <1>0, <2>1, <2>3, <2>4 DEF TypeOK, nicVars, flowVars, hashVars, outVars
<1>9. CASE FindDefault(c)
  <2>1. /\ at' = [at EXCEPT ![c] = "default"]
        /\ UNCHANGED <<nicVars, hashVars, outVars, tokens, current, access, batch, looked, pairs, count>>
    BY <1>9 DEF FindDefault, Goto
  <2>2. QED
    BY <1>0, <2>1 DEF TypeOK, nicVars, flowVars, hashVars, outVars, ControlPoints
<1>10. QED
  BY <1>1, <1>2, <1>3, <1>4, <1>5, <1>6, <1>7, <1>8, <1>9 DEF RxStep, Reads

(* So does a step of the application, of the flows and of the NIC.             *)
LEMMA OtherTypes ==
  ASSUME IInv, (\E c \in Cores : AppStep(c)) \/ FlowStep
               \/ (\E p \in Packets, f \in Flows : Arrive(p, f))
  PROVE  TypeOK'
<1>0. TypeOK
  BY DEF IInv
<1>1. ASSUME NEW c \in Cores, Drain(c)
      PROVE  TypeOK'
  <2>1. /\ Free(ToSet(tx[c])) /\ tx' = [tx EXCEPT ![c] = <<>>]
        /\ UNCHANGED <<nic, hashVars, rxVars, queue>>
    BY <1>1 DEF Drain, TransmitAll
  <2>2. /\ free' \subseteq Packets
        /\ flow' \in [Packets -> Flows \cup {Undef}]
        /\ earlier' \in [Packets -> SUBSET Packets]
    BY <1>0, <2>1, TxFacts, FreeFacts
  <2>3. tx' \in [Cores -> Seq(Packets)]
    BY <1>0, <2>1 DEF TypeOK
  <2>4. QED
    BY <1>0, <2>1, <2>2, <2>3 DEF TypeOK, hashVars, rxVars
<1>2. ASSUME NEW c \in Cores, NEW q \in Queues, Forward(c, q)
      PROVE  TypeOK'
  <2>1. PICK t : t = Append(tx[c], Head(queue[q]))
    OBVIOUS
  <2>2. /\ queue[q] # <<>> /\ Head(queue[q]) \in Packets
        /\ queue' = [queue EXCEPT ![q] = Tail(queue[q])]
        /\ \/ Free(ToSet(t)) /\ tx' = [tx EXCEPT ![c] = <<>>]
           \/ tx' = [tx EXCEPT ![c] = t] /\ UNCHANGED <<free, flowVars>>
        /\ UNCHANGED <<nic, hashVars, rxVars>>
    BY <1>2, <2>1, ForwardFacts
  <2>3. t \in Seq(Packets) /\ Tail(queue[q]) \in Seq(Packets)
    <3>1. queue[q] \in Seq(Packets) /\ tx[c] \in Seq(Packets)
      BY <1>0 DEF TypeOK
    <3>2. QED
      BY <2>1, <2>2, <3>1, AppendFacts, TailFacts
  <2>4. ToSet(t) \in SUBSET Packets
    BY <2>3, MembersFacts
  <2>5. /\ free' \subseteq Packets
        /\ flow' \in [Packets -> Flows \cup {Undef}]
        /\ earlier' \in [Packets -> SUBSET Packets]
    <3>1. CASE Free(ToSet(t))
      BY <1>0, <2>4, <3>1, FreeFacts
    <3>2. CASE UNCHANGED <<free, flowVars>>
      BY <1>0, <3>2 DEF flowVars, TypeOK
    <3>3. QED
      BY <2>2, <3>1, <3>2
  <2>6. tx' \in [Cores -> Seq(Packets)] /\ queue' \in [Queues -> Seq(Packets)]
    <3>1. <<>> \in Seq(Packets) /\ tx \in [Cores -> Seq(Packets)]
      BY <1>0 DEF TypeOK
    <3>2. [tx EXCEPT ![c] = <<>>] \in [Cores -> Seq(Packets)]
      BY <3>1
    <3>3. [tx EXCEPT ![c] = t] \in [Cores -> Seq(Packets)]
      BY <2>3, <3>1
    <3>4. tx' \in [Cores -> Seq(Packets)]
      BY <2>2, <3>2, <3>3
    <3>5. [queue EXCEPT ![q] = Tail(queue[q])] \in [Queues -> Seq(Packets)]
      BY <1>0, <2>3 DEF TypeOK
    <3>6. QED
      BY <2>2, <3>4, <3>5
  <2>7. QED
    BY <1>0, <2>2, <2>5, <2>6 DEF TypeOK, hashVars, rxVars
<1>3. ASSUME FlowStep
      PROVE  TypeOK'
  <2>1. UNCHANGED <<nicVars, rxVars, outVars>>
    BY <1>3 DEF FlowStep, SetQueue, ClearQueue, RemoveKey, AddKey, DefaultQueue
  <2>2. /\ position' \in [Flows -> Positions \cup {Undef}]
        /\ table' \in [Positions -> Queues \cup {Undef}]
        /\ change' \in [f : Flows \cup Positions \cup {Undef}, q : Queues \cup {Undef}]
        /\ default' \in Queues \cup {Undef}
    <3>1. NoChange \in [f : Flows \cup Positions \cup {Undef}, q : Queues \cup {Undef}]
      BY DEF NoChange
    <3>2. CASE SetQueue
      BY <1>0, <3>1, <3>2 DEF SetQueue, TypeOK
    <3>3. CASE ClearQueue
      BY <1>0, <3>1, <3>3 DEF ClearQueue, TypeOK
    <3>4. ASSUME NEW f \in Flows, RemoveKey(f)
          PROVE  <2>2!1 /\ <2>2!2 /\ <2>2!3 /\ <2>2!4
      BY <1>0, <3>4 DEF RemoveKey, TypeOK
    <3>5. ASSUME NEW f \in Flows, NEW q \in Queues, AddKey(f, q)
          PROVE  <2>2!1 /\ <2>2!2 /\ <2>2!3 /\ <2>2!4
      BY <1>0, <3>5 DEF AddKey, TypeOK
    <3>6. ASSUME NEW q \in Queues \cup {Undef}, DefaultQueue(q)
          PROVE  <2>2!1 /\ <2>2!2 /\ <2>2!3 /\ <2>2!4
      BY <1>0, <3>6 DEF DefaultQueue, TypeOK
    <3>7. Added \subseteq Flows
      BY ConstantsAssumption
    <3>8. QED
      BY <1>3, <3>2, <3>3, <3>4, <3>5, <3>6, <3>7 DEF FlowStep
  <2>3. QED
    BY <1>0, <2>1, <2>2 DEF TypeOK, nicVars, flowVars, rxVars, outVars
<1>4. ASSUME NEW p \in Packets, NEW f \in Flows, Arrive(p, f)
      PROVE  TypeOK'
  <2>1. /\ free' = free \ {p}
        /\ nic' = [nic EXCEPT ![RxOf[f]] = Append(@, p)]
        /\ flow' = [flow EXCEPT ![p] = f]
        /\ earlier' = [earlier EXCEPT ![p] = {o \in Packets : flow[o] = f}]
        /\ UNCHANGED <<hashVars, rxVars, outVars>>
    BY <1>4 DEF Arrive
  <2>2. RxOf[f] \in RxQueues
    BY ConstantsAssumption
  <2>3. nic' \in [RxQueues -> Seq(Packets)]
    BY <1>0, <2>1, <2>2, AppendFacts DEF TypeOK
  <2>4. flow' \in [Packets -> Flows \cup {Undef}] /\ earlier' \in [Packets -> SUBSET Packets]
    BY <1>0, <2>1 DEF TypeOK
  <2>5. QED
    BY <1>0, <2>1, <2>3, <2>4 DEF TypeOK, hashVars, rxVars, outVars
<1>5. QED
  BY <1>1, <1>2, <1>3, <1>4 DEF AppStep

(* Every step keeps the types.                                                 *)
LEMMA TypeStep ==
  ASSUME IInv, [Next]_vars
  PROVE  TypeOK'
<1>1. CASE Next
  BY <1>1, RxTypes, OtherTypes DEF Next
<1>2. CASE UNCHANGED vars
  BY <1>2 DEF IInv, TypeOK, vars, nicVars, flowVars, hashVars, rxVars, outVars
<1>3. QED
  BY <1>1, <1>2


-----------------------------------------------------------------------------
(* A core's control point, and the tokens *)

(* What a core does leaves the others as they are.                             *)
LEMMA ShapeFrame ==
  ASSUME NEW d \in Cores, Shape(d), at'[d] = at[d], access'[d] = access[d],
         current'[d] = current[d], pairs'[d] = pairs[d], batch'[d] = batch[d]
  PROVE  Shape(d)'
BY DEF Shape

(* Every step keeps the shape of the cores.                                    *)
LEMMA ShapeStep ==
  ASSUME IInv, [Next]_vars, NEW d \in Cores
  PROVE  Shape(d)'
<1>0. TypeOK /\ Shape(d)
  BY DEF IInv
<1>1. CASE UNCHANGED rxVars
  BY <1>0, <1>1, ShapeFrame DEF rxVars
<1>2. ASSUME NEW c \in Cores, TakeToken(c)
      PROVE  Shape(d)'
  <2>1. /\ at' = [at EXCEPT ![c] = "burst"] /\ at[c] = "idle"
        /\ UNCHANGED <<access, batch, pairs>>
        /\ \/ access[c] # 0 /\ UNCHANGED <<tokens, current>>
           \/ /\ tokens # <<>> /\ tokens' = Tail(tokens) /\ access[c] = 0
              /\ current' = [current EXCEPT ![c] = Head(tokens)]
    BY <1>2 DEF TakeToken, Goto
  <2>2. CASE d = c
    <3>1. current'[c] # Undef
      <4>1. CASE access[c] # 0
        BY <1>0, <2>1, <2>2, <4>1 DEF Shape
      <4>2. CASE access[c] = 0
        <5>1. Head(tokens) \in RxQueues
          BY <1>0, <2>1, <4>2, TailFacts DEF TypeOK
        <5>2. QED
          BY <1>0, <2>1, <4>2, <5>1, ConstantsAssumption DEF TypeOK
      <4>3. QED
        BY <4>1, <4>2
    <3>2. at'[c] = "burst"
      BY <1>0, <2>1 DEF TypeOK
    <3>3. QED
      BY <1>0, <2>1, <2>2, <3>1, <3>2 DEF Shape
  <2>3. CASE d # c
    BY <1>0, <2>1, <2>3, ShapeFrame DEF TypeOK
  <2>4. QED
    BY <2>2, <2>3
<1>3. ASSUME NEW c \in Cores, Receive(c)
      PROVE  Shape(d)'
  <2>0. PICK n \in 0..Len(nic[current[c]]) :
          /\ n \in 0..RxBurst
          /\ batch'[c] = <<>> <=> n = 0
          /\ at' = [at EXCEPT ![c] = IF n > 0 THEN "lookup" ELSE "done"]
          /\ \A x \in Cores : x # c => batch'[x] = batch[x]
    BY <1>3, ReceiveFacts
  <2>1. n \in Nat
    BY <2>0, ConstantsAssumption
  <2>2. at[c] = "burst" /\ UNCHANGED <<current, access, pairs>>
    BY <1>3, ReceiveFacts
  <2>3. CASE d = c
    <3>1. at'[c] = (IF n > 0 THEN "lookup" ELSE "done")
      BY <1>0, <2>0, <2>1 DEF TypeOK
    <3>2. QED
      BY <1>0, <2>0, <2>1, <2>2, <2>3, <3>1 DEF Shape
  <2>4. CASE d # c
    BY <1>0, <2>0, <2>1, <2>2, <2>4, ShapeFrame DEF TypeOK
  <2>5. QED
    BY <2>3, <2>4
<1>4. ASSUME NEW c \in Cores, Lookup(c)
      PROVE  Shape(d)'
  <2>1. /\ at[c] = "lookup" /\ at' \in {at, [at EXCEPT ![c] = "read"]}
        /\ \A x \in Cores : batch'[x] = <<>> <=> batch[x] = <<>>
        /\ UNCHANGED <<current, access, pairs>>
    BY <1>4, LookupFacts
  <2>2. at'[c] \in {"lookup", "read"} /\ (d # c => at'[d] = at[d])
    BY <1>0, <2>1 DEF TypeOK
  <2>3. QED
    BY <1>0, <2>1, <2>2 DEF Shape
<1>5. ASSUME NEW c \in Cores, LookupFails(c)
      PROVE  Shape(d)'
  <2>1. /\ at[c] = "lookup" /\ at' = [at EXCEPT ![c] = "done"]
        /\ batch' = [batch EXCEPT ![c] = <<>>] /\ UNCHANGED <<current, access, pairs>>
    BY <1>5, FailFacts
  <2>2. at'[c] = "done" /\ batch'[c] = <<>>
        /\ (d # c => at'[d] = at[d] /\ batch'[d] = batch[d])
    BY <1>0, <2>1 DEF TypeOK
  <2>3. QED
    BY <1>0, <2>1, <2>2 DEF Shape
<1>6. ASSUME NEW c \in Cores, Reads(c)
      PROVE  Shape(d)'
  <2>1. /\ at[c] \in {"read", "default"}
        /\ \A x \in Cores : x # c => batch'[x] = batch[x] /\ pairs'[x] = pairs[x]
        /\ \/ batch'[c] = <<>> /\ at' = [at EXCEPT ![c] = "enqueue"]
           \/ batch'[c] # <<>> /\ at' = [at EXCEPT ![c] = "read"]
        /\ UNCHANGED <<current, access>>
    BY <1>6, ReadFacts
  <2>2. /\ \/ batch'[c] = <<>> /\ at'[c] = "enqueue"
           \/ batch'[c] # <<>> /\ at'[c] = "read"
        /\ d # c => at'[d] = at[d]
    BY <1>0, <2>1 DEF TypeOK
  <2>3. CASE d = c
    BY <1>0, <2>1, <2>2, <2>3 DEF Shape
  <2>4. CASE d # c
    BY <1>0, <2>1, <2>2, <2>4, ShapeFrame
  <2>5. QED
    BY <2>3, <2>4
<1>7. ASSUME NEW c \in Cores, Enqueue(c)
      PROVE  Shape(d)'
  <2>1. /\ at[c] = "enqueue" /\ \A x \in Cores : x # c => pairs'[x] = pairs[x]
        /\ UNCHANGED <<at, current, access, batch>>
    BY <1>7, EnqueueFacts
  <2>2. QED
    BY <1>0, <2>1 DEF Shape
<1>8. ASSUME NEW c \in Cores, EnqueueEnds(c)
      PROVE  Shape(d)'
  <2>1. /\ at[c] = "enqueue" /\ pairs[c] = <<>> /\ at' = [at EXCEPT ![c] = "done"]
        /\ UNCHANGED <<current, access, batch, pairs>>
    BY <1>8 DEF EnqueueEnds, Goto
  <2>2. at'[c] = "done" /\ (d # c => at'[d] = at[d])
    BY <1>0, <2>1 DEF TypeOK
  <2>3. QED
    BY <1>0, <2>1, <2>2 DEF Shape
<1>9. ASSUME NEW c \in Cores, GiveBack(c)
      PROVE  Shape(d)'
  <2>1. /\ at[c] = "done" /\ at' = [at EXCEPT ![c] = "idle"] /\ UNCHANGED <<batch, pairs>>
        /\ \/ access' = [access EXCEPT ![c] = 0] /\ current' = [current EXCEPT ![c] = Undef]
           \/ access' = [access EXCEPT ![c] = access[c] + 1] /\ UNCHANGED current
    <3>1. access[c] \in Nat /\ access \in [Cores -> 0..AccessMax - 1]
      BY <1>0, ConstantsAssumption DEF TypeOK
    <3>2. QED
      BY <1>9, <3>1 DEF GiveBack, Goto
  <2>2. at'[c] = "idle" /\ (d # c => at'[d] = at[d] /\ access'[d] = access[d] /\ current'[d] = current[d])
    BY <1>0, <2>1 DEF TypeOK
  <2>3. \/ access'[c] = 0 /\ current'[c] = Undef
        \/ access'[c] # 0 /\ current'[c] = current[c]
    <3>1. access[c] + 1 # 0 /\ c \in DOMAIN access /\ c \in DOMAIN current
      BY <1>0, ConstantsAssumption DEF TypeOK
    <3>2. QED
      BY <2>1, <3>1
  <2>4. CASE d = c
    <3>1. batch[c] = <<>> /\ pairs[c] = <<>> /\ current[c] # Undef
      BY <1>0, <2>1, <2>4 DEF Shape
    <3>2. QED
      BY <2>1, <2>2, <2>3, <2>4, <3>1 DEF Shape
  <2>5. CASE d # c
    BY <1>0, <2>1, <2>2, <2>5, ShapeFrame
  <2>6. QED
    BY <2>4, <2>5
<1>10. (\E c \in Cores : RxStep(c)) \/ UNCHANGED rxVars
  <2>1. \A c \in Cores : AppStep(c) => UNCHANGED rxVars
    BY DEF AppStep, Drain, Forward
  <2>2. FlowStep => UNCHANGED rxVars
    BY DEF FlowStep, SetQueue, ClearQueue, RemoveKey, AddKey, DefaultQueue
  <2>3. \A p \in Packets, f \in Flows : Arrive(p, f) => UNCHANGED rxVars
    BY DEF Arrive
  <2>4. UNCHANGED vars => UNCHANGED rxVars
    BY DEF vars
  <2>5. QED
    BY <2>1, <2>2, <2>3, <2>4 DEF Next
<1>11. ASSUME NEW c \in Cores, FindDefault(c)
       PROVE  Shape(d)'
  <2>1. /\ at[c] = "read" /\ at' = [at EXCEPT ![c] = "default"]
        /\ UNCHANGED <<current, access, batch, pairs>>
    BY <1>11 DEF FindDefault, Goto
  <2>2. at'[c] = "default" /\ (d # c => at'[d] = at[d])
    BY <1>0, <2>1 DEF TypeOK
  <2>3. QED
    BY <1>0, <2>1, <2>2 DEF Shape
<1>12. QED
  BY <1>1, <1>2, <1>3, <1>4, <1>5, <1>6, <1>7, <1>8, <1>9, <1>10, <1>11 DEF RxStep, Reads

(* Every step keeps the tokens.                                                *)
LEMMA TokensStep ==
  ASSUME IInv, [Next]_vars
  PROVE  Tokens'
<1>0. TypeOK /\ Tokens /\ \A c \in Cores : Shape(c)
  BY DEF IInv
<1>1. CASE UNCHANGED <<tokens, current>>
  BY <1>0, <1>1 DEF Tokens
<1>2. ASSUME NEW c \in Cores, TakeToken(c), ~UNCHANGED <<tokens, current>>
      PROVE  Tokens'
  <2>1. /\ tokens # <<>> /\ tokens' = Tail(tokens) /\ at[c] = "idle" /\ access[c] = 0
        /\ current' = [current EXCEPT ![c] = Head(tokens)]
    BY <1>2 DEF TakeToken
  <2>2. tokens \in Seq(RxQueues) /\ current[c] = Undef
    BY <1>0, <2>1 DEF TypeOK, Shape
  <2>3. PICK r \in RxQueues : r = Head(tokens)
    BY <2>1, <2>2, TailFacts
  <2>4. /\ \A y : Contains(tokens, y) <=> y = r \/ Contains(tokens', y)
        /\ IsInjective(tokens') /\ ~Contains(tokens', r)
    BY <1>0, <2>1, <2>2, <2>3, TailMembers DEF Tokens
  <2>5. current'[c] = r /\ \A d \in Cores : d # c => current'[d] = current[d]
    BY <1>0, <2>1, <2>3 DEF TypeOK
  <2>6. \A d \in Cores : d # c => current'[d] # r
    BY <1>0, <2>4, <2>5 DEF Tokens
  <2>7. \A x \in RxQueues, d \in Cores : Contains(tokens', x) => current'[d] # x
    BY <1>0, <2>4, <2>5 DEF Tokens
  <2>8. \A d, e \in Cores : current'[d] = current'[e] /\ current'[d] # Undef => d = e
    BY <1>0, <2>5, <2>6 DEF Tokens
  <2>9. \A x \in RxQueues : Contains(tokens', x) \/ \E d \in Cores : current'[d] = x
    <3>1. TAKE x \in RxQueues
    <3>2. CASE x = r
      BY <2>5, <3>2
    <3>3. CASE x # r /\ Contains(tokens, x)
      BY <2>4, <3>3
    <3>4. CASE ~Contains(tokens, x)
      <4>1. PICK d \in Cores : current[d] = x
        BY <1>0, <3>4 DEF Tokens
      <4>2. d # c
        BY <2>2, <4>1, ConstantsAssumption
      <4>3. QED
        BY <2>5, <4>1, <4>2
    <3>5. QED
      BY <3>2, <3>3, <3>4
  <2>10. QED
    BY <2>4, <2>7, <2>8, <2>9 DEF Tokens
<1>3. ASSUME NEW c \in Cores, GiveBack(c), ~UNCHANGED <<tokens, current>>
      PROVE  Tokens'
  <2>1. /\ tokens' = Append(tokens, current[c]) /\ current' = [current EXCEPT ![c] = Undef]
        /\ at[c] = "done"
    BY <1>3 DEF GiveBack
  <2>2. tokens \in Seq(RxQueues)
    BY <1>0 DEF TypeOK
  <2>3. PICK r \in RxQueues : r = current[c]
    BY <1>0, <2>1 DEF TypeOK, Shape
  <2>4. ~Contains(tokens, r)
    BY <1>0, <2>3 DEF Tokens
  <2>5. /\ \A y : Contains(tokens', y) <=> Contains(tokens, y) \/ y = r
        /\ IsInjective(tokens')
    <3>1. tokens' = Append(tokens, r) /\ IsInjective(tokens)
      BY <1>0, <2>1, <2>3 DEF Tokens
    <3>2. QED
      BY <2>2, <2>4, <3>1, AppendMembers
  <2>6. current'[c] = Undef /\ \A d \in Cores : d # c => current'[d] = current[d]
    BY <1>0, <2>1 DEF TypeOK
  <2>7. r # Undef /\ \A x \in RxQueues : x # Undef
    BY ConstantsAssumption
  <2>8. \A d \in Cores : d # c => current[d] # r
    BY <1>0, <2>3, <2>7 DEF Tokens
  <2>9. \A x \in RxQueues, d \in Cores : Contains(tokens', x) => current'[d] # x
    <3>1. TAKE x \in RxQueues, d \in Cores
    <3>2. CASE d = c
      BY <2>6, <2>7, <3>2
    <3>3. CASE d # c
      BY <1>0, <2>5, <2>6, <2>8, <3>3 DEF Tokens
    <3>4. QED
      BY <3>2, <3>3
  <2>10. \A d, e \in Cores : current'[d] = current'[e] /\ current'[d] # Undef => d = e
    BY <1>0, <2>6 DEF Tokens
  <2>11. \A x \in RxQueues : Contains(tokens', x) \/ \E d \in Cores : current'[d] = x
    <3>1. TAKE x \in RxQueues
    <3>2. CASE x = r
      BY <2>5, <3>2
    <3>3. CASE x # r
      BY <1>0, <2>3, <2>5, <2>6, <3>3 DEF Tokens
    <3>4. QED
      BY <3>2, <3>3
  <2>12. QED
    BY <2>5, <2>9, <2>10, <2>11 DEF Tokens
<1>4. \/ \E c \in Cores : TakeToken(c) \/ GiveBack(c)
      \/ UNCHANGED <<tokens, current>>
  <2>1. \A c \in Cores : AppStep(c) => UNCHANGED <<tokens, current>>
    BY DEF AppStep, Drain, Forward, rxVars
  <2>2. FlowStep => UNCHANGED <<tokens, current>>
    BY DEF FlowStep, SetQueue, ClearQueue, RemoveKey, AddKey, DefaultQueue, rxVars
  <2>3. \A p \in Packets, f \in Flows : Arrive(p, f) => UNCHANGED <<tokens, current>>
    BY DEF Arrive, rxVars
  <2>4. UNCHANGED vars => UNCHANGED <<tokens, current>>
    BY DEF vars, rxVars
  <2>5. ASSUME NEW c \in Cores,
               \/ Receive(c) \/ Lookup(c) \/ LookupFails(c)
               \/ ReadQueue(c) \/ FreeUnknown(c) \/ FindDefault(c) \/ ReadDefault(c)
               \/ Enqueue(c) \/ EnqueueEnds(c)
        PROVE  UNCHANGED <<tokens, current>>
    BY <2>5 DEF Receive, Lookup, LookupFails, ReadQueue, FreeUnknown, FindDefault, ReadDefault,
                AddPair, Enqueue, EnqueueEnds
  <2>6. QED
    BY <2>1, <2>2, <2>3, <2>4, <2>5 DEF Next, RxStep
<1>5. QED
  BY <1>1, <1>2, <1>3, <1>4

-----------------------------------------------------------------------------
(* Packets move *)

(* What remains to be shown of the invariant.                                  *)
Rest == Placed /\ Injective /\ Steered /\ AllSorted /\ Across

(* In a step, the packets of M come to place k of x, and the others stay.      *)
Moved(M, k, x) ==
  \A p \in Packets : \A l \in Kinds : \A y \in Owners :
    At(p, l, y)' <=> IF p \in M THEN l = k /\ y = x ELSE At(p, l, y)

(* They move from one place to another.                                        *)
LEMMA MovedFrom ==
  ASSUME Placed, NEW M \in SUBSET Packets, NEW k \in Kinds, NEW x \in Owners,
         NEW k0 \in Kinds, NEW x0 \in Owners, ~(k = k0 /\ x = x0),
         \A p \in M : At(p, k0, x0),
         \A p \in Packets : At(p, k0, x0)' <=> At(p, k0, x0) /\ p \notin M,
         \A p \in Packets : At(p, k, x)' <=> At(p, k, x) \/ p \in M,
         \A p \in Packets : \A l \in Kinds : \A y \in Owners :
           ~(l = k0 /\ y = x0) /\ ~(l = k /\ y = x) => (At(p, l, y)' <=> At(p, l, y))
  PROVE  Moved(M, k, x)
<1>1. SUFFICES ASSUME NEW p \in Packets, NEW l \in Kinds, NEW y \in Owners
               PROVE  At(p, l, y)' <=> IF p \in M THEN l = k /\ y = x ELSE At(p, l, y)
  BY DEF Moved
<1>2. p \in M => (At(p, l, y) <=> l = k0 /\ y = x0)
  BY DEF Placed
<1>3. CASE l = k0 /\ y = x0
  BY <1>2, <1>3
<1>4. CASE l = k /\ y = x
  BY <1>2, <1>4
<1>5. CASE ~(l = k0 /\ y = x0) /\ ~(l = k /\ y = x)
  BY <1>2, <1>5
<1>6. QED
  BY <1>3, <1>4, <1>5

(* Every packet is in one place still.                                         *)
LEMMA MovedPlaced ==
  ASSUME Placed, NEW M, NEW k \in Kinds, NEW x \in Owners, Moved(M, k, x)
  PROVE  Placed'
<1>1. SUFFICES ASSUME NEW p \in Packets
               PROVE  /\ \E l \in Kinds, y \in Owners : At(p, l, y)'
                      /\ \A l, m \in Kinds : \A y, z \in Owners :
                           At(p, l, y)' /\ At(p, m, z)' => l = m /\ y = z
  BY DEF Placed
<1>2. CASE p \in M
  BY <1>2 DEF Moved
<1>3. CASE p \notin M
  <2>1. \A l \in Kinds : \A y \in Owners : At(p, l, y)' <=> At(p, l, y)
    BY <1>3 DEF Moved
  <2>2. QED
    BY <2>1 DEF Placed
<1>4. QED
  BY <1>2, <1>3

LEMMA Stages ==
  /\ \A k \in Kinds : Stage(k) \in 0..3
  /\ \A k, l \in Kinds : Stage(k) = Stage(l) /\ Stage(k) # 0 => k = l
BY DEF Kinds, Stage

(* Packets that come to the next stage are ahead of those that stay behind.    *)
LEMMA MovedOn ==
  ASSUME Placed, Across, NEW M \in SUBSET Packets, NEW k \in Kinds, NEW x \in Owners,
         Moved(M, k, x), UNCHANGED flowVars,
         NEW k0 \in Kinds, NEW x0 \in Owners, \A p \in M : At(p, k0, x0),
         Stage(k0) \in {Stage(k), Stage(k) + 1},
         \A o \in M : \A p \in Packets \ M : \A y \in Owners :
           Stage(k) < Stage(k0) /\ At(p, k0, y) /\ flow[o] = flow[p] => o \in earlier[p]
  PROVE  Across'
<1>0. flow' = flow /\ earlier' = earlier
  BY DEF flowVars
<1>1. SUFFICES ASSUME NEW o \in Packets, NEW p \in Packets, NEW l \in Kinds, NEW m \in Kinds,
                      NEW y \in Owners, NEW z \in Owners, At(o, l, y)', At(p, m, z)',
                      Stage(l) < Stage(m), flow[o] = flow[p]
               PROVE  o \in earlier[p]
  BY <1>0 DEF Across
<1>2. /\ Stage(k) \in Int /\ Stage(k0) \in Int /\ Stage(l) \in Int /\ Stage(m) \in Int
      /\ Stage(k) <= Stage(k0) /\ 0 <= Stage(k) /\ 0 <= Stage(l)
  BY Stages
<1>3. CASE o \notin M /\ p \notin M
  BY <1>1, <1>3 DEF Moved, Across
<1>4. CASE o \in M
  <2>1. l = k
    BY <1>1, <1>4 DEF Moved
  <2>2. p \notin M /\ At(p, m, z)
    <3>1. p \in M => m = k
      BY <1>1 DEF Moved
    <3>2. p \notin M
      BY <1>1, <1>2, <2>1, <3>1
    <3>3. QED
      BY <1>1, <3>2 DEF Moved
  <2>3. CASE Stage(k0) < Stage(m)
    BY <1>1, <1>4, <2>2, <2>3 DEF Across
  <2>4. CASE ~(Stage(k0) < Stage(m))
    <3>1. Stage(m) = Stage(k0) /\ Stage(m) # 0 /\ Stage(k) < Stage(k0)
      BY <1>1, <1>2, <2>1, <2>4
    <3>2. m = k0
      BY <3>1, Stages
    <3>3. QED
      BY <1>1, <1>4, <2>2, <3>1, <3>2
  <2>5. QED
    BY <2>3, <2>4
<1>5. CASE o \notin M /\ p \in M
  <2>1. m = k /\ At(o, l, y)
    BY <1>1, <1>5 DEF Moved
  <2>2. Stage(l) < Stage(k0)
    BY <1>1, <1>2, <2>1
  <2>3. QED
    BY <1>1, <1>5, <2>1, <2>2 DEF Across
<1>6. QED
  BY <1>3, <1>4, <1>5

(* Packets that are freed are of no flow.                                      *)
LEMMA MovedFree ==
  ASSUME TypeOK, Placed, Steered, Across, NEW M \in SUBSET Packets, Free(M),
         Moved(M, "pool", Undef)
  PROVE  Across' /\ (\A p \in Packets : p \in free' <=> flow'[p] = Undef)
<1>0. /\ \A p \in Packets : p \in free' <=> p \in M \/ p \in free
      /\ \A p \in M : flow'[p] = Undef
      /\ \A p \in Packets \ M : flow'[p] = flow[p]
      /\ \A o, p \in Packets \ M : o \in earlier[p] => o \in earlier'[p]
  BY FreeFacts
<1>1. \A p \in Packets : p \in free' <=> flow'[p] = Undef
  BY <1>0 DEF Steered
<1>2. ASSUME NEW o \in Packets, NEW p \in Packets, NEW l \in Kinds, NEW m \in Kinds,
             NEW y \in Owners, NEW z \in Owners, At(o, l, y)', At(p, m, z)',
             Stage(l) < Stage(m), flow'[o] = flow'[p]
      PROVE  o \in earlier'[p]
  <2>1. "pool" \in Kinds /\ Undef \in Owners /\ Stage("pool") = 0
    BY DEF Kinds, Owners, Stage
  <2>2. Stage(m) # 0
    BY <1>2, Stages
  <2>3. p \notin M
    BY <1>2, <2>1, <2>2 DEF Moved
  <2>4. p \notin free /\ At(p, m, z)
    <3>1. At(p, m, z)
      BY <1>2, <2>3 DEF Moved
    <3>2. p \in free => At(p, "pool", Undef)
      BY DEF At
    <3>3. QED
      BY <2>1, <2>2, <3>1, <3>2 DEF Placed
  <2>5. o \notin M
    BY <1>0, <1>1, <1>2, <2>3, <2>4
  <2>6. At(o, l, y) /\ flow[o] = flow[p]
    BY <1>0, <1>2, <2>3, <2>5 DEF Moved
  <2>7. o \in earlier[p]
    BY <1>2, <2>4, <2>6 DEF Across
  <2>8. QED
    BY <1>0, <2>3, <2>5, <2>7
<1>3. QED
  BY <1>1, <1>2 DEF Across

(* Nothing moves.                                                              *)
LEMMA Kept ==
  ASSUME IInv, UNCHANGED <<nicVars, outVars>>,
         \A d \in Cores : Batch(d)' = Batch(d) /\ Pairs(d)' = Pairs(d),
         \A d \in Cores : Batch(d) # <<>> \/ Pairs(d) # <<>> => current'[d] = current[d]
  PROVE  Rest'
<1>1. /\ free' = free /\ nic' = nic /\ flow' = flow /\ earlier' = earlier
      /\ queue' = queue /\ tx' = tx
  BY DEF nicVars, flowVars, outVars
<1>2. \A p \in Packets : \A l \in Kinds : \A y \in Owners : At(p, l, y)' <=> At(p, l, y)
  BY <1>1 DEF At
<1>3. Placed'
  <2>1. Placed
    BY DEF IInv
  <2>2. QED
    BY <1>2, <2>1 DEF Placed
<1>4. Across'
  <2>1. Across
    BY DEF IInv
  <2>2. QED
    BY <1>1, <1>2, <2>1 DEF Across
<1>5. Injective'
  BY <1>1 DEF IInv, Injective
<1>6. AllSorted'
  BY <1>1 DEF IInv, AllSorted
<1>7. Steered'
  <2>1. \A d \in Cores, p \in Packets :
          Contains(Batch(d), p) \/ Contains(Pairs(d), p) => current'[d] = current[d]
    <3>1. \A p : ~Contains(<<>>, p)
      BY DEF Contains
    <3>2. QED
      BY <3>1
  <2>2. QED
    BY <1>1, <2>1 DEF IInv, Steered
<1>8. QED
  BY <1>3, <1>4, <1>5, <1>6, <1>7 DEF Rest

(* What is where.                                                              *)
LEMMA SequenceTypes ==
  ASSUME TypeOK
  PROVE  /\ \A r \in RxQueues : nic[r] \in Seq(Packets)
         /\ \A q \in Queues : queue[q] \in Seq(Packets)
         /\ \A c \in Cores : /\ Batch(c) \in Seq(Packets) /\ Pairs(c) \in Seq(Packets)
                             /\ tx[c] \in Seq(Packets)
BY TableFacts DEF TypeOK

LEMMA Names ==
  /\ {"pool", "nic", "queue", "batch", "pairs", "tx"} = Kinds
  /\ RxQueues \subseteq Owners /\ Queues \subseteq Owners /\ Cores \subseteq Owners
  /\ Undef \in Owners
BY DEF Kinds, Owners

(* A packet arrives behind those of its flow.                                  *)
LEMMA ArriveRest ==
  ASSUME IInv, NEW p \in Packets, NEW f \in Flows, Arrive(p, f)
  PROVE  Rest'
<1>0. TypeOK /\ Placed /\ Injective /\ Steered /\ AllSorted /\ Across
  BY DEF IInv
<1>1. PICK r \in RxQueues : r = RxOf[f]
  BY ConstantsAssumption
<1>2. /\ p \in free /\ free' = free \ {p}
      /\ nic' = [nic EXCEPT ![r] = Append(nic[r], p)]
      /\ flow' = [flow EXCEPT ![p] = f]
      /\ earlier' = [earlier EXCEPT ![p] = {o \in Packets : flow[o] = f}]
      /\ UNCHANGED <<queue, tx, batch, pairs, current>>
  BY <1>0, <1>1 DEF Arrive, rxVars, outVars, TypeOK
<1>3. /\ flow'[p] = f /\ \A o \in Packets : o # p => flow'[o] = flow[o]
      /\ earlier'[p] = {o \in Packets : flow[o] = f}
      /\ \A o \in Packets : o # p => earlier'[o] = earlier[o]
      /\ nic'[r] = Append(nic[r], p) /\ \A t \in RxQueues : t # r => nic'[t] = nic[t]
  BY <1>0, <1>2 DEF TypeOK
<1>4. \A c \in Cores : Batch(c)' = Batch(c) /\ Pairs(c)' = Pairs(c)
  BY <1>2 DEF Batch, Pairs
<1>5. \A l \in Kinds : \A y \in Owners : At(p, l, y) => l = "pool"
  <2>1. At(p, "pool", Undef)
    BY <1>2 DEF At
  <2>2. QED
    BY <1>0, <2>1, Names DEF Placed
<1>6. /\ \A t \in RxQueues : ~Contains(nic[t], p)
      /\ \A q \in Queues : ~Contains(queue[q], p)
      /\ \A c \in Cores : ~Contains(Batch(c), p) /\ ~Contains(Pairs(c), p)
  BY <1>5, Names DEF At
<1>7. /\ \A y : Contains(nic'[r], y) <=> Contains(nic[r], y) \/ y = p
      /\ IsInjective(nic'[r])
  <2>1. nic[r] \in Seq(Packets) /\ IsInjective(nic[r]) /\ ~Contains(nic[r], p)
    BY <1>0, <1>6 DEF Injective, TypeOK
  <2>2. nic'[r] = Append(nic[r], p)
    BY <1>3
  <2>3. QED
    BY <2>1, <2>2, AppendMembers
<1>8. Moved({p}, "nic", r)
  <2>1. \A o \in Packets : At(o, "pool", Undef)' <=> At(o, "pool", Undef) /\ o \notin {p}
    BY <1>2 DEF At
  <2>2. \A o \in Packets : At(o, "nic", r)' <=> At(o, "nic", r) \/ o \in {p}
    BY <1>7 DEF At
  <2>3. \A o \in Packets : \A l \in Kinds : \A y \in Owners :
          ~(l = "pool" /\ y = Undef) /\ ~(l = "nic" /\ y = r) => (At(o, l, y)' <=> At(o, l, y))
    BY <1>2, <1>3, <1>4 DEF At
  <2>4. \A o \in {p} : At(o, "pool", Undef)
    BY <1>2 DEF At
  <2>5. QED
    BY <1>0, <2>1, <2>2, <2>3, <2>4, Names, MovedFrom
<1>9. Placed'
  BY <1>0, <1>8, Names, MovedPlaced
<1>10. Injective'
  BY <1>0, <1>2, <1>3, <1>4, <1>7 DEF Injective
<1>11. Steered'
  <2>1. f # Undef
    BY ConstantsAssumption
  <2>2. \A o \in Packets : o \in free' <=> flow'[o] = Undef
    BY <1>0, <1>2, <1>3, <2>1 DEF Steered
  <2>3. \A t \in RxQueues, o \in Packets : Contains(nic'[t], o) => RxOf[flow'[o]] = t
    <3>1. TAKE t \in RxQueues, o \in Packets
    <3>2. CASE o = p
      BY <1>1, <1>3, <1>6, <3>2
    <3>3. CASE o # p
      <4>1. Contains(nic'[t], o) => Contains(nic[t], o)
        BY <1>3, <1>7, <3>3
      <4>2. Contains(nic[t], o) => RxOf[flow[o]] = t
        BY <1>0 DEF Steered
      <4>3. QED
        BY <1>3, <3>3, <4>1, <4>2
    <3>4. QED
      BY <3>2, <3>3
  <2>4. QED
    BY <1>0, <1>2, <1>3, <1>4, <1>6, <2>2, <2>3 DEF Steered
<1>12. AllSorted'
  <2>1. PICK fl, ea : fl = flow' /\ ea = earlier'
    OBVIOUS
  <2>2. ASSUME NEW s \in Seq(Packets), Sorted(s, flow, earlier), ~Contains(s, p)
        PROVE  Sorted(s, fl, ea)
    BY <1>3, <2>1, <2>2, SortedKept
  <2>3. Sorted(nic'[r], fl, ea)
    <3>1. nic[r] \in Seq(Packets) /\ Sorted(nic[r], fl, ea)
      BY <1>0, <1>6, <2>2, SequenceTypes DEF AllSorted
    <3>2. \A o \in Packets : Contains(nic[r], o) /\ fl[o] = fl[p] => o \in ea[p]
      BY <1>3, <1>6, <2>1
    <3>3. QED
      <4>1. nic'[r] = Append(nic[r], p)
        BY <1>3
      <4>2. QED
        BY <3>1, <3>2, <4>1, SortedAppend
  <2>4. \A t \in RxQueues : Sorted(nic'[t], fl, ea)
    BY <1>0, <1>3, <1>6, <2>2, <2>3, SequenceTypes DEF AllSorted
  <2>5. \A q \in Queues : Sorted(queue'[q], fl, ea)
    BY <1>0, <1>2, <1>6, <2>2, SequenceTypes DEF AllSorted
  <2>6. \A c \in Cores : Sorted(Batch(c)', fl, ea) /\ Sorted(Pairs(c)', fl, ea)
    BY <1>0, <1>4, <1>6, <2>2, SequenceTypes DEF AllSorted
  <2>7. QED
    BY <2>1, <2>4, <2>5, <2>6 DEF AllSorted
<1>13. Across'
  <2>1. ASSUME NEW o \in Packets, NEW w \in Packets, NEW l \in Kinds, NEW m \in Kinds,
               NEW y \in Owners, NEW z \in Owners, At(o, l, y)', At(w, m, z)',
               Stage(l) < Stage(m), flow'[o] = flow'[w]
        PROVE  o \in earlier'[w]
    <3>1. o # p
      <4>1. o = p => l = "nic"
        BY <1>8, <2>1 DEF Moved
      <4>2. Stage("nic") = 3 /\ Stage(m) \in 0..3
        BY Stages DEF Stage
      <4>3. QED
        BY <2>1, <4>1, <4>2
    <3>2. CASE w = p
      BY <1>3, <2>1, <3>1, <3>2
    <3>3. CASE w # p
      <4>1. At(o, l, y) /\ At(w, m, z)
        BY <1>8, <2>1, <3>1, <3>3 DEF Moved
      <4>2. QED
        BY <1>0, <1>3, <2>1, <3>1, <3>3, <4>1 DEF Across
    <3>4. QED
      BY <3>2, <3>3
  <2>2. QED
    BY <2>1 DEF Across
<1>14. QED
  BY <1>9, <1>10, <1>11, <1>12, <1>13 DEF Rest

(* Packets of a flow are received by one core at a time.                       *)
LEMMA SameCore ==
  ASSUME IInv, NEW c \in Cores, NEW d \in Cores, NEW o \in Packets, NEW p \in Packets,
         Contains(Batch(c), o) \/ Contains(Pairs(c), o),
         Contains(Batch(d), p) \/ Contains(Pairs(d), p), flow[o] = flow[p]
  PROVE  c = d
<1>1. RxOf[flow[o]] = current[c] /\ RxOf[flow[p]] = current[d]
  BY DEF IInv, Steered
<1>2. current[c] = current[d]
  BY <1>1
<1>3. current[c] # Undef
  <2>1. batch[c] # <<>> \/ pairs[c] # <<>>
    <3>1. Batch(c) # <<>> \/ Pairs(c) # <<>>
      BY DEF Contains
    <3>2. QED
      BY <3>1, TableFacts DEF IInv
  <2>2. QED
    BY <2>1 DEF IInv, Shape
<1>4. QED
  BY <1>2, <1>3 DEF IInv, Tokens

(* The packets of M are at k0 of x0; they are ahead of those that stay there;  *)
(* they are on the core that polls their Rx queue.                             *)
From(M, k0, x0) == \A p \in M : At(p, k0, x0)
Ahead(M, k0) ==
  \A o \in M : \A p \in Packets \ M : \A y \in Owners :
    At(p, k0, y) /\ flow[o] = flow[p] => o \in earlier[p]
Arrived(M, k, x) == \A p \in M : k \in {"batch", "pairs"} => RxOf[flow[p]] = current[x]

(* What is left to show of a step that moves packets on, ...                   *)
LEMMA OnRest ==
  ASSUME IInv, NEW M \in SUBSET Packets, NEW k \in Kinds \ {"pool", "nic"}, NEW x \in Owners,
         Moved(M, k, x), UNCHANGED <<free, flowVars, current>>,
         NEW k0 \in Kinds, NEW x0 \in Owners, From(M, k0, x0), Arrived(M, k, x),
         Stage(k0) = Stage(k) \/ (Stage(k0) = Stage(k) + 1 /\ Ahead(M, k0)),
         Injective', AllSorted'
  PROVE  Rest'
<1>0. TypeOK /\ Placed /\ Steered /\ Across /\ k \in Kinds
  BY DEF IInv
<1>1. Placed'
  BY <1>0, MovedPlaced
<1>2. Across'
  <2>1. Stage(k) \in Int /\ Stage(k0) \in Int
    BY Stages
  <2>2. /\ \A p \in M : At(p, k0, x0)
        /\ \A o \in M : \A p \in Packets \ M : \A y \in Owners :
             Stage(k) < Stage(k0) /\ At(p, k0, y) /\ flow[o] = flow[p] => o \in earlier[p]
    BY <2>1 DEF From, Ahead
  <2>3. Stage(k0) \in {Stage(k), Stage(k) + 1}
    OBVIOUS
  <2>4. QED
    BY <1>0, <2>2, <2>3, MovedOn
<1>3. Steered'
  <2>1. free' = free /\ flow' = flow /\ current' = current
    BY DEF flowVars
  <2>2. ASSUME NEW r \in RxQueues, NEW p \in Packets, Contains(nic'[r], p)
        PROVE  RxOf[flow[p]] = r
    <3>1. At(p, "nic", r)'
      BY <2>2 DEF At
    <3>2. At(p, "nic", r)
      BY <3>1, Names DEF Moved
    <3>3. QED
      BY <1>0, <3>2 DEF At, Steered
  <2>3. ASSUME NEW c \in Cores, NEW p \in Packets, Contains(Batch(c)', p)
        PROVE  RxOf[flow[p]] = current[c]
    <3>1. At(p, "batch", c)'
      BY <2>3 DEF At
    <3>2. At(p, "batch", c) \/ (p \in M /\ k = "batch" /\ x = c)
      BY <3>1, Names DEF Moved
    <3>3. QED
      BY <1>0, <3>2 DEF At, Steered, Arrived
  <2>4. ASSUME NEW c \in Cores, NEW p \in Packets, Contains(Pairs(c)', p)
        PROVE  RxOf[flow[p]] = current[c]
    <3>1. At(p, "pairs", c)'
      BY <2>4 DEF At
    <3>2. At(p, "pairs", c) \/ (p \in M /\ k = "pairs" /\ x = c)
      BY <3>1, Names DEF Moved
    <3>3. QED
      BY <1>0, <3>2 DEF At, Steered, Arrived
  <2>5. QED
    BY <1>0, <2>1, <2>2, <2>3, <2>4 DEF Steered
<1>4. QED
  BY <1>1, <1>2, <1>3 DEF Rest

(* ... and of one that frees them.                                             *)
LEMMA FreeRest ==
  ASSUME IInv, NEW M \in SUBSET Packets, Free(M), Moved(M, "pool", Undef),
         UNCHANGED current, Injective',
         \A r \in RxQueues : nic'[r] \in Seq(Packets) /\ Sorted(nic'[r], flow, earlier),
         \A q \in Queues : queue'[q] \in Seq(Packets) /\ Sorted(queue'[q], flow, earlier),
         \A c \in Cores : Batch(c)' \in Seq(Packets) /\ Sorted(Batch(c)', flow, earlier),
         \A c \in Cores : Pairs(c)' \in Seq(Packets) /\ Sorted(Pairs(c)', flow, earlier)
  PROVE  Rest'
<1>0. TypeOK /\ Placed /\ Steered /\ Across
  BY DEF IInv
<1>1. Placed'
  BY <1>0, Names, MovedPlaced
<1>2. Across' /\ \A p \in Packets : p \in free' <=> flow'[p] = Undef
  BY <1>0, MovedFree
<1>3. /\ \A p \in Packets \ M : flow'[p] = flow[p]
      /\ \A o, p \in Packets \ M : o \in earlier[p] => o \in earlier'[p]
  BY <1>0, FreeFacts
<1>4. /\ \A r \in RxQueues, p \in Packets : Contains(nic'[r], p) => p \notin M /\ Contains(nic[r], p)
      /\ \A q \in Queues, p \in Packets : Contains(queue'[q], p) => p \notin M
      /\ \A c \in Cores, p \in Packets : Contains(Batch(c)', p) => p \notin M /\ Contains(Batch(c), p)
      /\ \A c \in Cores, p \in Packets : Contains(Pairs(c)', p) => p \notin M /\ Contains(Pairs(c), p)
  <2>1. ASSUME NEW r \in RxQueues, NEW p \in Packets, Contains(nic'[r], p)
        PROVE  p \notin M /\ Contains(nic[r], p)
    <3>1. At(p, "nic", r)'
      BY <2>1 DEF At
    <3>2. p \notin M /\ At(p, "nic", r)
      BY <3>1, Names DEF Moved
    <3>3. QED
      BY <3>2 DEF At
  <2>2. ASSUME NEW q \in Queues, NEW p \in Packets, Contains(queue'[q], p)
        PROVE  p \notin M
    <3>1. At(p, "queue", q)'
      BY <2>2 DEF At
    <3>2. QED
      BY <3>1, Names DEF Moved
  <2>3. ASSUME NEW c \in Cores, NEW p \in Packets, Contains(Batch(c)', p)
        PROVE  p \notin M /\ Contains(Batch(c), p)
    <3>1. At(p, "batch", c)'
      BY <2>3 DEF At
    <3>2. p \notin M /\ At(p, "batch", c)
      BY <3>1, Names DEF Moved
    <3>3. QED
      BY <3>2 DEF At
  <2>4. ASSUME NEW c \in Cores, NEW p \in Packets, Contains(Pairs(c)', p)
        PROVE  p \notin M /\ Contains(Pairs(c), p)
    <3>1. At(p, "pairs", c)'
      BY <2>4 DEF At
    <3>2. p \notin M /\ At(p, "pairs", c)
      BY <3>1, Names DEF Moved
    <3>3. QED
      BY <3>2 DEF At
  <2>5. QED
    BY <2>1, <2>2, <2>3, <2>4
<1>5. Steered'
  BY <1>0, <1>2, <1>3, <1>4 DEF Steered
<1>6. AllSorted'
  <2>1. PICK fl, ea : fl = flow' /\ ea = earlier'
    OBVIOUS
  <2>2. ASSUME NEW s \in Seq(Packets), Sorted(s, flow, earlier),
               \A p \in Packets : Contains(s, p) => p \notin M
        PROVE  Sorted(s, fl, ea)
    <3>1. \A p \in Packets : Contains(s, p) => fl[p] = flow[p]
      BY <1>3, <2>1, <2>2
    <3>2. \A o, p \in Packets : Contains(s, o) /\ Contains(s, p) /\ o \in earlier[p] => o \in ea[p]
      BY <1>3, <2>1, <2>2
    <3>3. QED
      BY <2>2, <3>1, <3>2, SortedKept
  <2>3. \A r \in RxQueues : Sorted(nic'[r], fl, ea)
    BY <1>4, <2>2
  <2>4. \A q \in Queues : Sorted(queue'[q], fl, ea)
    BY <1>4, <2>2
  <2>5. \A c \in Cores : Sorted(Batch(c)', fl, ea) /\ Sorted(Pairs(c)', fl, ea)
    <3>1. TAKE c \in Cores
    <3>2. PICK s, t \in Seq(Packets) : s = Batch(c)' /\ t = Pairs(c)'
      OBVIOUS
    <3>3. /\ Sorted(s, flow, earlier) /\ Sorted(t, flow, earlier)
          /\ \A p \in Packets : Contains(s, p) => p \notin M
          /\ \A p \in Packets : Contains(t, p) => p \notin M
      BY <1>4, <3>2
    <3>4. Sorted(s, fl, ea) /\ Sorted(t, fl, ea)
      BY <2>2, <3>3
    <3>5. QED
      BY <3>2, <3>4
  <2>6. QED
    BY <2>1, <2>3, <2>4, <2>5 DEF AllSorted
<1>7. QED
  BY <1>1, <1>2, <1>5, <1>6 DEF Rest

(* A burst goes from an Rx queue into the core's table.                        *)
LEMMA ReceiveRest ==
  ASSUME IInv, NEW c \in Cores, Receive(c)
  PROVE  Rest'
<1>0. TypeOK /\ Placed /\ Injective /\ Steered /\ AllSorted
  BY DEF IInv
<1>1. PICK r \in RxQueues : r = current[c]
  BY ReceiveFacts
<1>2. PICK s \in Seq(Packets) : s = nic[r]
  BY <1>0 DEF TypeOK
<1>3. PICK n \in 0..Len(s) :
        /\ nic' = [nic EXCEPT ![r] = SubSeq(s, n + 1, Len(s))]
        /\ Batch(c)' = SubSeq(s, 1, n)
  BY <1>1, <1>2, ReceiveFacts
<1>4. /\ \A d \in Cores : d # c => Batch(d)' = Batch(d)
      /\ UNCHANGED <<free, flowVars, current, pairs, queue, tx>> /\ at[c] = "burst"
  BY ReceiveFacts DEF outVars
<1>5. PICK a, b \in Seq(Packets) : a = SubSeq(s, 1, n) /\ b = SubSeq(s, n + 1, Len(s))
  BY CutFacts
<1>6. nic'[r] = b /\ (\A t \in RxQueues : t # r => nic'[t] = nic[t]) /\ Batch(c)' = a
      /\ \A d \in Cores : Pairs(d)' = Pairs(d)
  BY <1>0, <1>3, <1>4, <1>5 DEF TypeOK, Pairs
<1>7. Batch(c) = <<>> /\ \A y : ~Contains(Batch(c), y)
  <2>1. batch[c] = <<>>
    BY <1>4 DEF IInv, Shape
  <2>2. Batch(c) = <<>>
    BY <1>0, <2>1, TableFacts
  <2>3. QED
    BY <2>2 DEF Contains
<1>8. /\ \A y : Contains(s, y) <=> Contains(a, y) \/ Contains(b, y)
      /\ IsInjective(a) /\ IsInjective(b) /\ \A y : ~(Contains(a, y) /\ Contains(b, y))
  <2>1. Parts(s, a, b) /\ IsInjective(s)
    BY <1>0, <1>2, <1>5, CutMembers DEF Injective
  <2>2. QED
    BY <2>1 DEF Parts
<1>9. /\ Sorted(a, flow, earlier) /\ Sorted(b, flow, earlier)
      /\ \A o, p \in Packets : Contains(a, o) /\ Contains(b, p) /\ flow[o] = flow[p]
                                 => o \in earlier[p]
  <2>1. Sorted(s, flow, earlier)
    BY <1>0, <1>2 DEF AllSorted
  <2>2. Sorted(a, flow, earlier) /\ Sorted(b, flow, earlier) /\ Precede(a, b, flow, earlier)
    BY <1>3, <1>5, <2>1, SortedCut
  <2>3. QED
    BY <2>2 DEF Precede
<1>10. PICK M : M = {p \in Packets : Contains(a, p)}
  OBVIOUS
<1>11. Moved(M, "batch", c)
  <2>1. \A o \in Packets : At(o, "nic", r)' <=> At(o, "nic", r) /\ o \notin M
    BY <1>2, <1>6, <1>8, <1>10 DEF At
  <2>2. \A o \in Packets : At(o, "batch", c)' <=> At(o, "batch", c) \/ o \in M
    BY <1>6, <1>7, <1>10 DEF At
  <2>3. \A o \in Packets : \A l \in Kinds : \A y \in Owners :
          ~(l = "nic" /\ y = r) /\ ~(l = "batch" /\ y = c) => (At(o, l, y)' <=> At(o, l, y))
    BY <1>4, <1>6 DEF At
  <2>4. \A o \in M : At(o, "nic", r)
    BY <1>2, <1>8, <1>10 DEF At
  <2>5. /\ M \in SUBSET Packets /\ "batch" \in Kinds /\ c \in Owners
        /\ "nic" \in Kinds /\ r \in Owners /\ ~("batch" = "nic" /\ c = r)
    BY <1>10, Names
  <2>6. QED
    BY <1>0, <2>1, <2>2, <2>3, <2>4, <2>5, MovedFrom
<1>12. Injective'
  BY <1>0, <1>4, <1>6, <1>8 DEF Injective
<1>13. AllSorted'
  BY <1>0, <1>4, <1>6, <1>9 DEF AllSorted, flowVars
<1>14. From(M, "nic", r) /\ Arrived(M, "batch", c)
  BY <1>0, <1>1, <1>2, <1>8, <1>10 DEF At, Steered, From, Arrived
<1>15. Ahead(M, "nic")
  <2>1. SUFFICES ASSUME NEW o \in M, NEW p \in Packets \ M, NEW y \in Owners,
                        At(p, "nic", y), flow[o] = flow[p]
                 PROVE  o \in earlier[p]
    BY DEF Ahead
  <2>2. y \in RxQueues /\ Contains(nic[y], p) /\ RxOf[flow[p]] = y
    BY <1>0, <2>1 DEF At, Steered
  <2>3. Contains(a, o) /\ o \in Packets /\ RxOf[flow[o]] = r
    BY <1>0, <1>2, <1>8, <1>10 DEF Steered
  <2>4. Contains(b, p)
    BY <1>2, <1>8, <1>10, <2>1, <2>2, <2>3
  <2>5. QED
    BY <1>9, <2>1, <2>3, <2>4
<1>16. Stage("nic") = Stage("batch") + 1
  BY DEF Stage
<1>17. UNCHANGED <<free, flowVars, current>> /\ M \in SUBSET Packets
       /\ "batch" \in Kinds \ {"pool", "nic"} /\ "nic" \in Kinds /\ r \in Owners /\ c \in Owners
  BY <1>4, <1>10, Names
<1>18. QED
  BY <1>11, <1>12, <1>13, <1>14, <1>15, <1>16, <1>17, OnRest

(* A burst whose lookup fails is freed.                                        *)
LEMMA FailRest ==
  ASSUME IInv, NEW c \in Cores, LookupFails(c)
  PROVE  Rest'
<1>0. TypeOK /\ Placed /\ Injective /\ AllSorted
  BY DEF IInv
<1>1. PICK M : M = ToSet(Batch(c))
  OBVIOUS
<1>2. /\ Free(M) /\ Batch(c)' = <<>>
      /\ \A d \in Cores : d # c => Batch(d)' = Batch(d)
      /\ UNCHANGED <<nic, current, pairs, queue, tx>>
  BY <1>1, FailFacts DEF outVars
<1>3. M \in SUBSET Packets /\ \A p : p \in M <=> Contains(Batch(c), p)
  BY <1>0, <1>1, SequenceTypes, MembersFacts
<1>4. \A p \in Packets : p \in free' <=> p \in M \/ p \in free
  BY <1>0, <1>2, <1>3, FreeFacts
<1>5. \A d \in Cores : Pairs(d)' = Pairs(d)
  BY <1>2 DEF Pairs
<1>6. <<>> \in Seq(Packets) /\ IsInjective(<<>>) /\ Sorted(<<>>, flow, earlier)
      /\ \A y : ~Contains(<<>>, y)
  BY DEF IsInjective, Sorted, Contains
<1>7. Moved(M, "pool", Undef)
  <2>1. \A o \in Packets : At(o, "batch", c)' <=> At(o, "batch", c) /\ o \notin M
    BY <1>2, <1>3, <1>6 DEF At
  <2>2. \A o \in Packets : At(o, "pool", Undef)' <=> At(o, "pool", Undef) \/ o \in M
    BY <1>4 DEF At
  <2>3. \A o \in Packets : \A l \in Kinds : \A y \in Owners :
          ~(l = "batch" /\ y = c) /\ ~(l = "pool" /\ y = Undef) => (At(o, l, y)' <=> At(o, l, y))
    BY <1>2, <1>4, <1>5 DEF At
  <2>4. \A o \in M : At(o, "batch", c)
    BY <1>3 DEF At
  <2>5. /\ "pool" \in Kinds /\ Undef \in Owners /\ "batch" \in Kinds /\ c \in Owners
        /\ ~("pool" = "batch" /\ Undef = c)
    BY Names
  <2>6. QED
    BY <1>0, <1>3, <2>1, <2>2, <2>3, <2>4, <2>5, MovedFrom
<1>8. Injective'
  BY <1>0, <1>2, <1>5, <1>6 DEF Injective
<1>9. /\ \A r \in RxQueues : nic'[r] \in Seq(Packets) /\ Sorted(nic'[r], flow, earlier)
      /\ \A q \in Queues : queue'[q] \in Seq(Packets) /\ Sorted(queue'[q], flow, earlier)
      /\ \A d \in Cores : Batch(d)' \in Seq(Packets) /\ Sorted(Batch(d)', flow, earlier)
      /\ \A d \in Cores : Pairs(d)' \in Seq(Packets) /\ Sorted(Pairs(d)', flow, earlier)
  BY <1>0, <1>2, <1>5, <1>6, SequenceTypes DEF AllSorted
<1>10. QED
  BY <1>2, <1>3, <1>7, <1>8, <1>9, FreeRest

(* The packet whose queue is read is freed, or stays ahead of those behind it. *)
LEMMA ReadRest ==
  ASSUME IInv, NEW c \in Cores, Reads(c)
  PROVE  Rest'
<1>0. TypeOK /\ Placed /\ Injective /\ AllSorted /\ Across /\ Steered
  BY DEF IInv
<1>1. PICK p \in Packets : p = Head(Batch(c))
  BY ReadFacts
<1>2. PICK s \in Seq(Packets) : s = Batch(c)
  BY <1>0, SequenceTypes
<1>3. PICK t : t = Tail(s)
  OBVIOUS
<1>4. /\ s # <<>> /\ p = Head(s) /\ Batch(c)' = t
      /\ \A d \in Cores : d # c => Batch(d)' = Batch(d) /\ Pairs(d)' = Pairs(d)
      /\ \/ Free({p}) /\ Pairs(c)' = Pairs(c)
         \/ Pairs(c)' = Append(Pairs(c), p) /\ UNCHANGED <<free, flowVars>>
      /\ UNCHANGED <<nic, current, queue, tx>>
  BY <1>1, <1>2, <1>3, ReadFacts DEF outVars
<1>5. IsInjective(s) /\ Sorted(s, flow, earlier)
  BY <1>0, <1>2 DEF Injective, AllSorted
<1>6. /\ t \in Seq(Packets) /\ IsInjective(t) /\ Sorted(t, flow, earlier)
      /\ \A y : Contains(s, y) <=> y = p \/ Contains(t, y)
      /\ ~Contains(t, p)
      /\ \A o \in Packets : Contains(t, o) /\ flow[p] = flow[o] => p \in earlier[o]
  <2>1. t \in Seq(Packets)
    BY <1>3, <1>4, TailFacts
  <2>2. (\A y : Contains(s, y) <=> y = p \/ Contains(t, y)) /\ IsInjective(t) /\ ~Contains(t, p)
    BY <1>3, <1>4, <1>5, TailMembers
  <2>3. /\ Sorted(t, flow, earlier)
        /\ \A o \in Packets : Contains(t, o) /\ flow[p] = flow[o] => p \in earlier[o]
    BY <1>3, <1>4, <1>5, SortedTail
  <2>4. QED
    BY <2>1, <2>2, <2>3
<1>7. At(p, "batch", c) /\ \A o \in Packets : At(o, "batch", c)' <=> At(o, "batch", c) /\ o \notin {p}
  BY <1>2, <1>4, <1>6 DEF At
<1>8. /\ "pool" \in Kinds /\ "pairs" \in Kinds /\ "batch" \in Kinds /\ c \in Owners
      /\ Undef \in Owners /\ {p} \in SUBSET Packets
  BY Names
<1>9. CASE Free({p}) /\ Pairs(c)' = Pairs(c)
  <2>1. \A o \in Packets : o \in free' <=> o = p \/ o \in free
    BY <1>0, <1>8, <1>9, FreeFacts
  <2>2. \A d \in Cores : Pairs(d)' = Pairs(d)
    BY <1>4, <1>9
  <2>3. Moved({p}, "pool", Undef)
    <3>1. \A o \in Packets : At(o, "pool", Undef)' <=> At(o, "pool", Undef) \/ o \in {p}
      BY <2>1 DEF At
    <3>2. \A o \in Packets : \A l \in Kinds : \A y \in Owners :
            ~(l = "batch" /\ y = c) /\ ~(l = "pool" /\ y = Undef) => (At(o, l, y)' <=> At(o, l, y))
      BY <1>4, <2>1, <2>2 DEF At
    <3>3. \A o \in {p} : At(o, "batch", c)
      BY <1>7
    <3>4. ~("pool" = "batch" /\ Undef = c)
      OBVIOUS
    <3>5. QED
      BY <1>0, <1>7, <1>8, <3>1, <3>2, <3>3, <3>4, MovedFrom
  <2>4. Injective'
    BY <1>0, <1>4, <1>6, <2>2 DEF Injective
  <2>5. /\ \A r \in RxQueues : nic'[r] \in Seq(Packets) /\ Sorted(nic'[r], flow, earlier)
        /\ \A q \in Queues : queue'[q] \in Seq(Packets) /\ Sorted(queue'[q], flow, earlier)
        /\ \A d \in Cores : Batch(d)' \in Seq(Packets) /\ Sorted(Batch(d)', flow, earlier)
        /\ \A d \in Cores : Pairs(d)' \in Seq(Packets) /\ Sorted(Pairs(d)', flow, earlier)
    BY <1>0, <1>4, <1>6, <2>2, SequenceTypes DEF AllSorted
  <2>6. UNCHANGED current
    BY <1>4
  <2>7. QED
    BY <1>8, <1>9, <2>3, <2>4, <2>5, <2>6, FreeRest
<1>10. CASE Pairs(c)' = Append(Pairs(c), p) /\ UNCHANGED <<free, flowVars>>
  <2>1. PICK u \in Seq(Packets) : u = Pairs(c)
    BY <1>0, SequenceTypes
  <2>2. PICK v : v = Append(u, p)
    OBVIOUS
  <2>3. Pairs(c)' = v
    BY <1>10, <2>1, <2>2
  <2>4. ~Contains(u, p)
    <3>1. Contains(u, p) => At(p, "pairs", c)
      BY <2>1 DEF At
    <3>2. QED
      BY <1>0, <1>7, <1>8, <3>1 DEF Placed
  <2>5. IsInjective(v) /\ \A y : Contains(v, y) <=> Contains(u, y) \/ y = p
    <3>1. IsInjective(u)
      BY <1>0, <2>1 DEF Injective
    <3>2. QED
      BY <2>2, <2>4, <3>1, AppendMembers
  <2>6. Sorted(v, flow, earlier)
    <3>1. Sorted(u, flow, earlier)
      BY <1>0, <2>1 DEF AllSorted
    <3>2. \A o \in Packets : Contains(u, o) /\ flow[o] = flow[p] => o \in earlier[p]
      <4>1. Stage("pairs") < Stage("batch")
        BY DEF Stage
      <4>2. \A o \in Packets : Contains(u, o) => At(o, "pairs", c)
        BY <2>1 DEF At
      <4>3. QED
        BY <1>0, <1>7, <1>8, <4>1, <4>2 DEF Across
    <3>3. QED
      BY <2>2, <3>1, <3>2, SortedAppend
  <2>7. Moved({p}, "pairs", c)
    <3>1. \A o \in Packets : At(o, "pairs", c)' <=> At(o, "pairs", c) \/ o \in {p}
      BY <2>1, <2>3, <2>5 DEF At
    <3>2. \A o \in Packets : \A l \in Kinds : \A y \in Owners :
            ~(l = "batch" /\ y = c) /\ ~(l = "pairs" /\ y = c) => (At(o, l, y)' <=> At(o, l, y))
      BY <1>4, <1>10 DEF At
    <3>3. \A o \in {p} : At(o, "batch", c)
      BY <1>7
    <3>4. ~("pairs" = "batch" /\ c = c)
      OBVIOUS
    <3>5. QED
      BY <1>0, <1>7, <1>8, <3>1, <3>2, <3>3, <3>4, MovedFrom
  <2>8. Injective'
    BY <1>0, <1>4, <1>6, <2>3, <2>5 DEF Injective
  <2>9. AllSorted'
    BY <1>0, <1>4, <1>6, <1>10, <2>3, <2>6 DEF AllSorted, flowVars
  <2>10. From({p}, "batch", c) /\ Arrived({p}, "pairs", c)
    BY <1>0, <1>7 DEF From, Arrived, At, Steered
  <2>11. Ahead({p}, "batch")
    <3>1. SUFFICES ASSUME NEW o \in Packets, NEW y \in Owners, o # p,
                          At(o, "batch", y), flow[p] = flow[o]
                   PROVE  p \in earlier[o]
      BY DEF Ahead
    <3>2. y \in Cores /\ Contains(Batch(y), o)
      BY <3>1 DEF At
    <3>3. y = c
      BY <1>2, <1>6, <3>1, <3>2, SameCore
    <3>4. QED
      BY <1>2, <1>6, <3>1, <3>2, <3>3
  <2>12. Stage("batch") = Stage("pairs") + 1
    BY DEF Stage
  <2>13. UNCHANGED <<free, flowVars, current>> /\ "pairs" \in Kinds \ {"pool", "nic"}
    BY <1>4, <1>8, <1>10
  <2>14. QED
    BY <1>8, <2>7, <2>8, <2>9, <2>10, <2>11, <2>12, <2>13, OnRest
<1>11. QED
  BY <1>4, <1>9, <1>10

(* The packet that is sent or freed leaves those behind it.                    *)
LEMMA EnqueueRest ==
  ASSUME IInv, NEW c \in Cores, Enqueue(c)
  PROVE  Rest'
<1>0. TypeOK /\ Placed /\ Injective /\ AllSorted /\ Across /\ Steered
  BY DEF IInv
<1>1. PICK p \in Packets : p = Head(Pairs(c))
  BY EnqueueFacts
<1>2. PICK s \in Seq(Packets) : s = Pairs(c)
  BY <1>0, SequenceTypes
<1>3. PICK t : t = Tail(s)
  OBVIOUS
<1>4. /\ s # <<>> /\ p = Head(s) /\ Pairs(c)' = t
      /\ \A d \in Cores : d # c => Pairs(d)' = Pairs(d)
      /\ \/ /\ \E q \in Queues : queue' = [queue EXCEPT ![q] = Append(queue[q], p)]
            /\ UNCHANGED <<free, flowVars>>
         \/ Free({p}) /\ UNCHANGED queue
      /\ UNCHANGED <<nic, current, batch, tx>>
  BY <1>1, <1>2, <1>3, EnqueueFacts
<1>5. IsInjective(s) /\ Sorted(s, flow, earlier)
  BY <1>0, <1>2 DEF Injective, AllSorted
<1>6. /\ t \in Seq(Packets) /\ IsInjective(t) /\ Sorted(t, flow, earlier)
      /\ \A y : Contains(s, y) <=> y = p \/ Contains(t, y)
      /\ ~Contains(t, p)
      /\ \A o \in Packets : Contains(t, o) /\ flow[p] = flow[o] => p \in earlier[o]
  <2>1. t \in Seq(Packets)
    BY <1>3, <1>4, TailFacts
  <2>2. (\A y : Contains(s, y) <=> y = p \/ Contains(t, y)) /\ IsInjective(t) /\ ~Contains(t, p)
    BY <1>3, <1>4, <1>5, TailMembers
  <2>3. /\ Sorted(t, flow, earlier)
        /\ \A o \in Packets : Contains(t, o) /\ flow[p] = flow[o] => p \in earlier[o]
    BY <1>3, <1>4, <1>5, SortedTail
  <2>4. QED
    BY <2>1, <2>2, <2>3
<1>7. /\ At(p, "pairs", c)
      /\ \A o \in Packets : At(o, "pairs", c)' <=> At(o, "pairs", c) /\ o \notin {p}
  BY <1>2, <1>4, <1>6 DEF At
<1>8. /\ "pool" \in Kinds /\ "pairs" \in Kinds /\ "queue" \in Kinds
      /\ c \in Owners /\ Undef \in Owners /\ {p} \in SUBSET Packets
  BY Names
<1>9. \A d \in Cores : Batch(d)' = Batch(d)
  BY <1>4 DEF Batch
<1>10. From({p}, "pairs", c)
  BY <1>7 DEF From
<1>11. Ahead({p}, "pairs")
  <2>1. SUFFICES ASSUME NEW o \in Packets, NEW y \in Owners, o # p,
                        At(o, "pairs", y), flow[p] = flow[o]
                 PROVE  p \in earlier[o]
    BY DEF Ahead
  <2>2. y \in Cores /\ Contains(Pairs(y), o)
    BY <2>1 DEF At
  <2>3. y = c
    BY <1>2, <1>6, <2>1, <2>2, SameCore
  <2>4. QED
    BY <1>2, <1>6, <2>1, <2>2, <2>3
<1>12. CASE /\ \E q \in Queues : queue' = [queue EXCEPT ![q] = Append(queue[q], p)]
            /\ UNCHANGED <<free, flowVars>>
  <2>1. PICK q \in Queues : queue' = [queue EXCEPT ![q] = Append(queue[q], p)]
    BY <1>12
  <2>2. PICK u \in Seq(Packets) : u = queue[q]
    BY <1>0 DEF TypeOK
  <2>3. PICK v : v = Append(u, p)
    OBVIOUS
  <2>4. queue'[q] = v /\ \A x \in Queues : x # q => queue'[x] = queue[x]
    BY <1>0, <2>1, <2>2, <2>3 DEF TypeOK
  <2>5. q \in Owners
    BY Names
  <2>6. ~Contains(u, p)
    <3>1. Contains(u, p) => At(p, "queue", q)
      BY <2>2 DEF At
    <3>2. QED
      BY <1>0, <1>7, <1>8, <2>5, <3>1 DEF Placed
  <2>7. IsInjective(v) /\ \A y : Contains(v, y) <=> Contains(u, y) \/ y = p
    <3>1. IsInjective(u)
      BY <1>0, <2>2 DEF Injective
    <3>2. QED
      BY <2>3, <2>6, <3>1, AppendMembers
  <2>8. Sorted(v, flow, earlier)
    <3>1. Sorted(u, flow, earlier)
      BY <1>0, <2>2 DEF AllSorted
    <3>2. \A o \in Packets : Contains(u, o) /\ flow[o] = flow[p] => o \in earlier[p]
      <4>1. Stage("queue") < Stage("pairs")
        BY DEF Stage
      <4>2. \A o \in Packets : Contains(u, o) => At(o, "queue", q)
        BY <2>2 DEF At
      <4>3. QED
        BY <1>0, <1>7, <1>8, <2>5, <4>1, <4>2 DEF Across
    <3>3. QED
      BY <2>3, <3>1, <3>2, SortedAppend
  <2>9. Moved({p}, "queue", q)
    <3>1. \A o \in Packets : At(o, "queue", q)' <=> At(o, "queue", q) \/ o \in {p}
      BY <2>2, <2>4, <2>7 DEF At
    <3>2. \A o \in Packets : \A l \in Kinds : \A y \in Owners :
            ~(l = "pairs" /\ y = c) /\ ~(l = "queue" /\ y = q) => (At(o, l, y)' <=> At(o, l, y))
      BY <1>4, <1>9, <1>12, <2>4 DEF At
    <3>3. \A o \in {p} : At(o, "pairs", c)
      BY <1>7
    <3>4. ~("queue" = "pairs" /\ q = c)
      OBVIOUS
    <3>5. QED
      BY <1>0, <1>7, <1>8, <2>5, <3>1, <3>2, <3>3, <3>4, MovedFrom
  <2>10. Injective'
    BY <1>0, <1>4, <1>6, <1>9, <2>4, <2>7 DEF Injective
  <2>11. AllSorted'
    BY <1>0, <1>4, <1>6, <1>9, <1>12, <2>4, <2>8 DEF AllSorted, flowVars
  <2>12. Arrived({p}, "queue", q) /\ Stage("pairs") = Stage("queue") + 1
    BY DEF Arrived, Stage
  <2>13. UNCHANGED <<free, flowVars, current>> /\ "queue" \in Kinds \ {"pool", "nic"}
    BY <1>4, <1>8, <1>12
  <2>14. QED
    BY <1>8, <1>10, <1>11, <2>5, <2>9, <2>10, <2>11, <2>12, <2>13, OnRest
<1>13. CASE Free({p}) /\ UNCHANGED queue
  <2>1. \A o \in Packets : o \in free' <=> o = p \/ o \in free
    BY <1>0, <1>8, <1>13, FreeFacts
  <2>2. Moved({p}, "pool", Undef)
    <3>1. \A o \in Packets : At(o, "pool", Undef)' <=> At(o, "pool", Undef) \/ o \in {p}
      BY <2>1 DEF At
    <3>2. \A o \in Packets : \A l \in Kinds : \A y \in Owners :
            ~(l = "pairs" /\ y = c) /\ ~(l = "pool" /\ y = Undef) => (At(o, l, y)' <=> At(o, l, y))
      BY <1>4, <1>9, <1>13, <2>1 DEF At
    <3>3. \A o \in {p} : At(o, "pairs", c)
      BY <1>7
    <3>4. ~("pool" = "pairs" /\ Undef = c)
      OBVIOUS
    <3>5. QED
      BY <1>0, <1>7, <1>8, <3>1, <3>2, <3>3, <3>4, MovedFrom
  <2>3. Injective'
    BY <1>0, <1>4, <1>6, <1>9, <1>13 DEF Injective
  <2>4. /\ \A r \in RxQueues : nic'[r] \in Seq(Packets) /\ Sorted(nic'[r], flow, earlier)
        /\ \A q \in Queues : queue'[q] \in Seq(Packets) /\ Sorted(queue'[q], flow, earlier)
        /\ \A d \in Cores : Batch(d)' \in Seq(Packets) /\ Sorted(Batch(d)', flow, earlier)
        /\ \A d \in Cores : Pairs(d)' \in Seq(Packets) /\ Sorted(Pairs(d)', flow, earlier)
    BY <1>0, <1>4, <1>6, <1>9, <1>13, SequenceTypes DEF AllSorted
  <2>5. UNCHANGED current
    BY <1>4
  <2>6. QED
    BY <1>8, <1>13, <2>2, <2>3, <2>4, <2>5, FreeRest
<1>14. QED
  BY <1>4, <1>12, <1>13

(* A core's table is transmitted.                                              *)
LEMMA DrainRest ==
  ASSUME IInv, NEW c \in Cores, Drain(c)
  PROVE  Rest'
<1>0. TypeOK /\ Placed /\ Injective /\ AllSorted
  BY DEF IInv
<1>1. PICK M : M = ToSet(tx[c])
  OBVIOUS
<1>2. Free(M) /\ tx' = [tx EXCEPT ![c] = <<>>] /\ UNCHANGED <<nic, current, batch, pairs, queue>>
  BY <1>1 DEF Drain, TransmitAll, rxVars
<1>3. tx'[c] = <<>> /\ \A d \in Cores : d # c => tx'[d] = tx[d]
  BY <1>0, <1>2 DEF TypeOK
<1>4. M \in SUBSET Packets /\ \A p : p \in M <=> Contains(tx[c], p)
  BY <1>0, <1>1, SequenceTypes, MembersFacts
<1>5. \A p \in Packets : p \in free' <=> p \in M \/ p \in free
  BY <1>0, <1>2, <1>4, FreeFacts
<1>6. \A d \in Cores : Batch(d)' = Batch(d) /\ Pairs(d)' = Pairs(d)
  BY <1>2 DEF Batch, Pairs
<1>7. IsInjective(<<>>) /\ \A y : ~Contains(<<>>, y)
  BY DEF IsInjective, Contains
<1>8. Moved(M, "pool", Undef)
  <2>1. \A o \in Packets : At(o, "tx", c)' <=> At(o, "tx", c) /\ o \notin M
    BY <1>3, <1>4, <1>7 DEF At
  <2>2. \A o \in Packets : At(o, "pool", Undef)' <=> At(o, "pool", Undef) \/ o \in M
    BY <1>5 DEF At
  <2>3. \A o \in Packets : \A l \in Kinds : \A y \in Owners :
          ~(l = "tx" /\ y = c) /\ ~(l = "pool" /\ y = Undef) => (At(o, l, y)' <=> At(o, l, y))
    BY <1>2, <1>3, <1>5, <1>6 DEF At
  <2>4. \A o \in M : At(o, "tx", c)
    BY <1>4 DEF At
  <2>5. /\ "pool" \in Kinds /\ Undef \in Owners /\ "tx" \in Kinds /\ c \in Owners
        /\ ~("pool" = "tx" /\ Undef = c)
    BY Names
  <2>6. QED
    BY <1>0, <1>4, <2>1, <2>2, <2>3, <2>4, <2>5, MovedFrom
<1>9. Injective'
  BY <1>0, <1>2, <1>3, <1>6, <1>7 DEF Injective
<1>10. /\ \A r \in RxQueues : nic'[r] \in Seq(Packets) /\ Sorted(nic'[r], flow, earlier)
       /\ \A q \in Queues : queue'[q] \in Seq(Packets) /\ Sorted(queue'[q], flow, earlier)
       /\ \A d \in Cores : Batch(d)' \in Seq(Packets) /\ Sorted(Batch(d)', flow, earlier)
       /\ \A d \in Cores : Pairs(d)' \in Seq(Packets) /\ Sorted(Pairs(d)', flow, earlier)
  BY <1>0, <1>2, <1>6, SequenceTypes DEF AllSorted
<1>11. UNCHANGED current
  BY <1>2
<1>12. QED
  BY <1>2, <1>4, <1>8, <1>9, <1>10, <1>11, FreeRest

(* A packet that is sent on joins the table, or all of it is transmitted.      *)
LEMMA ForwardRest ==
  ASSUME IInv, NEW c \in Cores, NEW q \in Queues, Forward(c, q)
  PROVE  Rest'
<1>0. TypeOK /\ Placed /\ Injective /\ AllSorted
  BY DEF IInv
<1>1. PICK p \in Packets : p = Head(queue[q])
  BY ForwardFacts
<1>2. PICK s, u \in Seq(Packets) : s = queue[q] /\ u = tx[c]
  BY <1>0 DEF TypeOK
<1>3. PICK t, v : t = Tail(s) /\ v = Append(u, p)
  OBVIOUS
<1>4. /\ s # <<>> /\ p = Head(s) /\ queue' = [queue EXCEPT ![q] = t]
      /\ \/ Free(ToSet(v)) /\ tx' = [tx EXCEPT ![c] = <<>>]
         \/ tx' = [tx EXCEPT ![c] = v] /\ UNCHANGED <<free, flowVars>>
      /\ UNCHANGED <<nic, current, batch, pairs>>
  BY <1>1, <1>2, <1>3, ForwardFacts DEF rxVars
<1>5. queue'[q] = t /\ \A x \in Queues : x # q => queue'[x] = queue[x]
  BY <1>0, <1>4 DEF TypeOK
<1>6. /\ t \in Seq(Packets) /\ IsInjective(t) /\ Sorted(t, flow, earlier)
      /\ \A y : Contains(s, y) <=> y = p \/ Contains(t, y)
      /\ ~Contains(t, p)
  <2>1. IsInjective(s) /\ Sorted(s, flow, earlier)
    BY <1>0, <1>2 DEF Injective, AllSorted
  <2>2. t \in Seq(Packets)
    BY <1>3, <1>4, TailFacts
  <2>3. (\A y : Contains(s, y) <=> y = p \/ Contains(t, y)) /\ IsInjective(t) /\ ~Contains(t, p)
    BY <1>3, <1>4, <2>1, TailMembers
  <2>4. Sorted(t, flow, earlier)
    BY <1>3, <1>4, <2>1, SortedTail
  <2>5. QED
    BY <2>2, <2>3, <2>4
<1>7. At(p, "queue", q) /\ \A o \in Packets : At(o, "queue", q)' <=> At(o, "queue", q) /\ o \notin {p}
  BY <1>2, <1>5, <1>6 DEF At
<1>8. /\ "pool" \in Kinds /\ "queue" \in Kinds /\ "tx" \in Kinds
      /\ c \in Owners /\ q \in Owners /\ Undef \in Owners /\ {p} \in SUBSET Packets
  BY Names
<1>9. \A d \in Cores : Batch(d)' = Batch(d) /\ Pairs(d)' = Pairs(d)
  BY <1>4 DEF Batch, Pairs
<1>10. ~Contains(u, p)
  <2>1. Contains(u, p) => At(p, "tx", c)
    BY <1>2 DEF At
  <2>2. QED
    BY <1>0, <1>7, <1>8, <2>1 DEF Placed
<1>11. v \in Seq(Packets) /\ IsInjective(v) /\ \A y : Contains(v, y) <=> Contains(u, y) \/ y = p
  <2>1. IsInjective(u)
    BY <1>0, <1>2 DEF Injective
  <2>2. v \in Seq(Packets)
    BY <1>3, AppendFacts
  <2>3. QED
    BY <1>3, <1>10, <2>1, <2>2, AppendMembers
<1>12. CASE tx' = [tx EXCEPT ![c] = v] /\ UNCHANGED <<free, flowVars>>
  <2>1. tx'[c] = v /\ \A d \in Cores : d # c => tx'[d] = tx[d]
    BY <1>0, <1>12 DEF TypeOK
  <2>2. Moved({p}, "tx", c)
    <3>1. \A o \in Packets : At(o, "tx", c)' <=> At(o, "tx", c) \/ o \in {p}
      BY <1>2, <1>11, <2>1 DEF At
    <3>2. \A o \in Packets : \A l \in Kinds : \A y \in Owners :
            ~(l = "queue" /\ y = q) /\ ~(l = "tx" /\ y = c) => (At(o, l, y)' <=> At(o, l, y))
      BY <1>4, <1>5, <1>9, <1>12, <2>1 DEF At
    <3>3. \A o \in {p} : At(o, "queue", q)
      BY <1>7
    <3>4. ~("tx" = "queue" /\ c = q)
      OBVIOUS
    <3>5. QED
      BY <1>0, <1>7, <1>8, <3>1, <3>2, <3>3, <3>4, MovedFrom
  <2>3. Injective'
    BY <1>0, <1>4, <1>5, <1>6, <1>9, <1>11, <2>1 DEF Injective
  <2>4. AllSorted'
    BY <1>0, <1>4, <1>5, <1>6, <1>9, <1>12 DEF AllSorted, flowVars
  <2>5. From({p}, "queue", q) /\ Arrived({p}, "tx", c) /\ Stage("queue") = Stage("tx")
    BY <1>7 DEF From, Arrived, Stage
  <2>6. UNCHANGED <<free, flowVars, current>> /\ "tx" \in Kinds \ {"pool", "nic"}
    BY <1>4, <1>8, <1>12
  <2>7. QED
    BY <1>8, <2>2, <2>3, <2>4, <2>5, <2>6, OnRest
<1>13. CASE Free(ToSet(v)) /\ tx' = [tx EXCEPT ![c] = <<>>]
  <2>1. PICK M : M = ToSet(v)
    OBVIOUS
  <2>2. M \in SUBSET Packets /\ \A y : y \in M <=> Contains(u, y) \/ y = p
    BY <1>11, <2>1, MembersFacts
  <2>3. tx'[c] = <<>> /\ \A d \in Cores : d # c => tx'[d] = tx[d]
    BY <1>0, <1>13 DEF TypeOK
  <2>4. Free(M)
    BY <1>13, <2>1
  <2>5. \A o \in Packets : o \in free' <=> o \in M \/ o \in free
    BY <1>0, <2>2, <2>4, FreeFacts
  <2>6. IsInjective(<<>>) /\ \A y : ~Contains(<<>>, y)
    BY DEF IsInjective, Contains
  <2>7. Moved(M, "pool", Undef)
    <3>1. \A o \in Packets : At(o, "tx", c) <=> Contains(u, o)
      BY <1>2 DEF At
    <3>2. /\ \A o \in Packets : At(o, "pool", Undef)' <=> At(o, "pool", Undef) \/ o \in M
          /\ \A o \in Packets : At(o, "queue", q)' <=> At(o, "queue", q) /\ o # p
          /\ \A o \in Packets : ~At(o, "tx", c)'
      BY <1>7, <2>3, <2>5, <2>6 DEF At
    <3>3. \A o \in Packets : \A l \in Kinds : \A y \in Owners :
            ~(l = "queue" /\ y = q) /\ ~(l = "tx" /\ y = c) /\ ~(l = "pool" /\ y = Undef)
              => (At(o, l, y)' <=> At(o, l, y))
      BY <1>4, <1>5, <1>9, <2>3, <2>5 DEF At
    <3>4. ASSUME NEW o \in Packets, NEW l \in Kinds, NEW y \in Owners
          PROVE  At(o, l, y)' <=> IF o \in M THEN l = "pool" /\ y = Undef ELSE At(o, l, y)
      <4>1. CASE o = p
        <5>1. \A k \in Kinds : \A x \in Owners : At(o, k, x) => k = "queue" /\ x = q
          BY <1>0, <1>7, <1>8, <4>1 DEF Placed
        <5>2. QED
          BY <1>8, <2>2, <3>2, <3>3, <4>1, <5>1
      <4>2. CASE o # p /\ Contains(u, o)
        <5>1. \A k \in Kinds : \A x \in Owners : At(o, k, x) => k = "tx" /\ x = c
          BY <1>0, <1>8, <3>1, <4>2 DEF Placed
        <5>2. QED
          BY <1>8, <2>2, <3>2, <3>3, <4>2, <5>1
      <4>3. CASE o # p /\ ~Contains(u, o)
        BY <2>2, <3>1, <3>2, <3>3, <4>3
      <4>4. QED
        BY <4>1, <4>2, <4>3
    <3>5. QED
      BY <3>4 DEF Moved
  <2>8. Injective'
    BY <1>0, <1>4, <1>5, <1>6, <1>9, <2>3, <2>6 DEF Injective
  <2>9. /\ \A r \in RxQueues : nic'[r] \in Seq(Packets) /\ Sorted(nic'[r], flow, earlier)
        /\ \A x \in Queues : queue'[x] \in Seq(Packets) /\ Sorted(queue'[x], flow, earlier)
        /\ \A d \in Cores : Batch(d)' \in Seq(Packets) /\ Sorted(Batch(d)', flow, earlier)
        /\ \A d \in Cores : Pairs(d)' \in Seq(Packets) /\ Sorted(Pairs(d)', flow, earlier)
    BY <1>0, <1>4, <1>5, <1>6, <1>9, SequenceTypes DEF AllSorted
  <2>10. UNCHANGED current
    BY <1>4
  <2>11. QED
    BY <2>2, <2>4, <2>7, <2>8, <2>9, <2>10, FreeRest
<1>14. QED
  BY <1>4, <1>12, <1>13

-----------------------------------------------------------------------------
(* The invariant *)

(* A set as a sequence: each member is in it, once.                            *)
LEMMA SetToSeqFacts ==
  ASSUME NEW S, IsFiniteSet(S)
  PROVE  /\ SetToSeq(S) \in Seq(S) /\ IsInjective(SetToSeq(S))
         /\ \A x \in S : Contains(SetToSeq(S), x)
<1>1. PICK n \in Nat : n = Cardinality(S) /\ ExistsBijection(1..n, S)
  BY FS_CardinalityType
<1>2. PICK f \in Bijection(1..n, S) : TRUE
  BY <1>1 DEF ExistsBijection
<1>3. f \in [1..Cardinality(S) -> S] /\ IsInjective(f)
  BY <1>1, <1>2 DEF Bijection, Injection, IsInjective
<1>4. PICK s : s = SetToSeq(S)
  OBVIOUS
<1>5. s \in [1..Cardinality(S) -> S] /\ IsInjective(s)
  BY <1>3, <1>4 DEF SetToSeq
<1>6. s \in Injection(1..n, S)
  BY <1>1, <1>5 DEF Injection, IsInjective
<1>7. s \in Surjection(1..n, S)
  <2>1. IsFiniteSet(1..n) /\ Cardinality(1..n) = n
    BY FS_Interval
  <2>2. QED
    BY <1>1, <1>6, <2>1, FS_Injection
<1>8. s \in Seq(S) /\ Len(s) = n /\ \A x \in S : \E i \in 1..n : s[i] = x
  BY <1>1, <1>5, <1>7 DEF Surjection
<1>9. QED
  BY <1>4, <1>5, <1>8 DEF Contains

(* The initial states.                                                         *)
LEMMA Initial == Init => IInv
<1> SUFFICES ASSUME Init
             PROVE  IInv
  OBVIOUS
<1>1. /\ free = Packets /\ tokens = SetToSeq(RxQueues)
      /\ \A r \in RxQueues : nic[r] = <<>>
      /\ \A q \in Queues : queue[q] = <<>>
      /\ \A c \in Cores : /\ tx[c] = <<>> /\ batch[c] = <<>> /\ pairs[c] = <<>>
                          /\ at[c] = "idle" /\ access[c] = 0 /\ current[c] = Undef
      /\ \A p \in Packets : flow[p] = Undef
  BY DEF Init, InitNic, InitHash, InitLocal
<1>2. TypeOK
  <2>1. tokens \in Seq(RxQueues)
    BY <1>1, SetToSeqFacts, ConstantsAssumption
  <2>2. /\ nic \in [RxQueues -> Seq(Packets)] /\ queue \in [Queues -> Seq(Packets)]
        /\ tx \in [Cores -> Seq(Packets)]
        /\ batch \in [Cores -> Seq(Received)] /\ pairs \in [Cores -> Seq(Looked)]
    BY DEF Init, InitNic, InitLocal
  <2>3. /\ at \in [Cores -> ControlPoints]
        /\ current \in [Cores -> RxQueues \cup {Undef}]
    BY DEF Init, InitLocal, ControlPoints
  <2>4. access \in [Cores -> 0..AccessMax - 1] /\ count \in [Cores -> 0..RxBurst]
    BY ConstantsAssumption DEF Init, InitLocal
  <2>5. /\ position \in [Flows -> Positions \cup {Undef}]
        /\ table \in [Positions -> Queues \cup {Undef}]
        /\ change \in [f : Flows \cup Positions \cup {Undef}, q : Queues \cup {Undef}]
        /\ default \in Queues \cup {Undef} /\ looked \in [Cores -> Nat]
    BY DEF Init, InitHash, NoChange
  <2>6. flow \in [Packets -> Flows \cup {Undef}] /\ earlier \in [Packets -> SUBSET Packets]
    BY DEF Init
  <2>7. QED
    BY <1>1, <2>1, <2>2, <2>3, <2>4, <2>5, <2>6 DEF TypeOK
<1>3. \A c \in Cores : Shape(c)
  BY <1>1 DEF Shape
<1>4. Tokens
  <2>1. IsInjective(tokens) /\ \A r \in RxQueues : Contains(tokens, r)
    BY <1>1, SetToSeqFacts, ConstantsAssumption
  <2>2. QED
    BY <1>1, <2>1, ConstantsAssumption DEF Tokens
<1>5. \A c \in Cores : Batch(c) = <<>> /\ Pairs(c) = <<>>
  BY <1>1, <1>2, TableFacts
<1>6. /\ \A y : ~Contains(<<>>, y)
      /\ IsInjective(<<>>) /\ Sorted(<<>>, flow, earlier)
  BY DEF Contains, IsInjective, Sorted
<1>7. \A p \in Packets : \A k \in Kinds : \A x \in Owners : At(p, k, x) <=> k = "pool" /\ x = Undef
  BY <1>1, <1>5, <1>6 DEF At
<1>8. Placed
  BY <1>7, Names DEF Placed
<1>9. Injective /\ AllSorted
  BY <1>1, <1>5, <1>6 DEF Injective, AllSorted
<1>10. Steered
  BY <1>1, <1>5, <1>6 DEF Steered
<1>11. Across
  <2>1. \A o, p \in Packets : \A k, l \in Kinds : \A x, y \in Owners :
          At(o, k, x) /\ At(p, l, y) => k = l
    BY <1>7
  <2>2. \A k \in Kinds : ~(Stage(k) < Stage(k))
    BY Stages
  <2>3. QED
    BY <2>1, <2>2 DEF Across
<1>12. QED
  BY <1>2, <1>3, <1>4, <1>8, <1>9, <1>10, <1>11 DEF IInv

(* Every step keeps the packets in their places and in order.                  *)
LEMMA RestStep ==
  ASSUME IInv, [Next]_vars
  PROVE  Rest'
<1>1. ASSUME UNCHANGED <<nicVars, outVars, batch, pairs>>,
             \A d \in Cores : Batch(d) # <<>> \/ Pairs(d) # <<>> => current'[d] = current[d]
      PROVE  Rest'
  <2>1. \A d \in Cores : Batch(d)' = Batch(d) /\ Pairs(d)' = Pairs(d)
    BY <1>1 DEF Batch, Pairs
  <2>2. QED
    BY <1>1, <2>1, Kept
<1>2. ASSUME NEW c \in Cores, TakeToken(c)
      PROVE  Rest'
  <2>1. /\ at[c] = "idle" /\ UNCHANGED <<nicVars, outVars, batch, pairs>>
        /\ current' = current \/ current' = [current EXCEPT ![c] = Head(tokens)]
    BY <1>2 DEF TakeToken
  <2>2. Batch(c) = <<>> /\ Pairs(c) = <<>> /\ current \in [Cores -> RxQueues \cup {Undef}]
    <3>1. batch[c] = <<>> /\ pairs[c] = <<>>
      BY <2>1 DEF IInv, Shape
    <3>2. QED
      BY <3>1, TableFacts DEF IInv, TypeOK
  <2>3. \A d \in Cores : d # c => current'[d] = current[d]
    BY <2>1, <2>2
  <2>4. QED
    BY <1>1, <2>1, <2>2, <2>3
<1>3. ASSUME NEW c \in Cores, GiveBack(c)
      PROVE  Rest'
  <2>1. /\ at[c] = "done" /\ UNCHANGED <<nicVars, outVars, batch, pairs>>
        /\ current' = current \/ current' = [current EXCEPT ![c] = Undef]
    BY <1>3 DEF GiveBack
  <2>2. Batch(c) = <<>> /\ Pairs(c) = <<>> /\ current \in [Cores -> RxQueues \cup {Undef}]
    <3>1. batch[c] = <<>> /\ pairs[c] = <<>>
      BY <2>1 DEF IInv, Shape
    <3>2. QED
      BY <3>1, TableFacts DEF IInv, TypeOK
  <2>3. \A d \in Cores : d # c => current'[d] = current[d]
    BY <2>1, <2>2
  <2>4. QED
    BY <1>1, <2>1, <2>2, <2>3
<1>4. ASSUME NEW c \in Cores, Lookup(c)
      PROVE  Rest'
  <2>1. /\ \A d \in Cores : Batch(d)' = Batch(d)
        /\ UNCHANGED <<nicVars, outVars, current, pairs>>
    BY <1>4, LookupFacts
  <2>2. \A d \in Cores : Pairs(d)' = Pairs(d)
    BY <2>1 DEF Pairs
  <2>3. QED
    BY <2>1, <2>2, Kept
<1>5. ASSUME NEW c \in Cores, EnqueueEnds(c) \/ FindDefault(c)
      PROVE  Rest'
  BY <1>1, <1>5 DEF EnqueueEnds, FindDefault
<1>6. ASSUME NEW c \in Cores, RxStep(c)
      PROVE  Rest'
  BY <1>2, <1>3, <1>4, <1>5, <1>6, ReceiveRest, FailRest, ReadRest, EnqueueRest DEF RxStep, Reads
<1>7. ASSUME NEW c \in Cores, AppStep(c)
      PROVE  Rest'
  BY <1>7, DrainRest, ForwardRest DEF AppStep
<1>8. CASE FlowStep
  <2>1. UNCHANGED <<nicVars, rxVars, outVars>>
    BY <1>8 DEF FlowStep, SetQueue, ClearQueue, RemoveKey, AddKey, DefaultQueue
  <2>2. UNCHANGED <<nicVars, outVars, batch, pairs, current>>
    BY <2>1 DEF rxVars
  <2>3. QED
    BY <1>1, <2>2
<1>9. CASE UNCHANGED vars
  <2>1. UNCHANGED <<nicVars, outVars, batch, pairs, current>>
    BY <1>9 DEF vars, rxVars
  <2>2. QED
    BY <1>1, <2>1
<1>10. QED
  BY <1>6, <1>7, <1>8, <1>9, ArriveRest DEF Next

(* The invariant.                                                              *)
THEOREM Invariance == Spec => []IInv
<1>1. IInv /\ [Next]_vars => IInv'
  <2>1. SUFFICES ASSUME IInv, [Next]_vars
                 PROVE  IInv'
    OBVIOUS
  <2>2. TypeOK' /\ Tokens' /\ Rest'
    BY <2>1, TypeStep, TokensStep, RestStep
  <2>3. \A c \in Cores : Shape(c)'
    BY <2>1, ShapeStep
  <2>4. QED
    BY <2>2, <2>3 DEF IInv, Rest
<1>2. QED
  BY Initial, <1>1, PTL DEF Spec

(* The state has its type: no core counts more uses of a token than it may,    *)
(* nor receives more packets than fit in a burst.                              *)
THEOREM TypeCorrect == Spec => []TypeOK
<1>1. IInv => TypeOK
  BY DEF IInv
<1>2. QED
  BY <1>1, Invariance, PTL

(* The packets of a flow come into an EM queue in the order of their arrival,  *)
(* though several cores receive, the flow's queue changes in between and some  *)
(* packets are freed: only one core has packets of the flow on their way.      *)
THEOREM FlowsStayInOrder == Spec => []FlowOrder
<1>1. IInv => FlowOrder
  <2>1. SUFFICES ASSUME IInv, NEW q \in Queues
                 PROVE  \A i, j \in DOMAIN queue[q] :
                          i < j /\ flow[queue[q][i]] = flow[queue[q][j]]
                            => queue[q][i] \in earlier[queue[q][j]]
    BY DEF FlowOrder
  <2>2. PICK s \in Seq(Packets) : s = queue[q] /\ Sorted(s, flow, earlier)
    BY <2>1 DEF IInv, TypeOK, AllSorted
  <2>3. DOMAIN s = 1..Len(s)
    OBVIOUS
  <2>4. QED
    BY <2>2, <2>3 DEF Sorted
<1>2. QED
  BY <1>1, Invariance, PTL

(* The places in sequences of which at most one holds p.                       *)
LEMMA PlacesInFacts ==
  ASSUME NEW k, NEW X, NEW s, NEW p, \A x \in X : s[x] \in Seq(Packets) /\ IsInjective(s[x]),
         \A x, y \in X : Contains(s[x], p) /\ Contains(s[y], p) => x = y
  PROVE  /\ (\E z : z \in PlacesIn(k, X, s, p)) <=> \E x \in X : Contains(s[x], p)
         /\ \A y, z \in PlacesIn(k, X, s, p) : y = z
<1>1. \A z : z \in PlacesIn(k, X, s, p) <=>
               \E x \in X : \E i \in DOMAIN s[x] : s[x][i] = p /\ z = <<k, x, i>>
  BY DEF PlacesIn
<1>2. \A x \in X : /\ DOMAIN s[x] = 1..Len(s[x])
                   /\ \A i, j \in DOMAIN s[x] : s[x][i] = s[x][j] => i = j
                   /\ Contains(s[x], p) <=> \E i \in DOMAIN s[x] : s[x][i] = p
  BY DEF IsInjective, Contains
<1>3. (\E z : z \in PlacesIn(k, X, s, p)) <=> \E x \in X : Contains(s[x], p)
  <2>1. ASSUME NEW z, z \in PlacesIn(k, X, s, p)
        PROVE  \E x \in X : Contains(s[x], p)
    BY <1>1, <1>2, <2>1
  <2>2. ASSUME NEW x \in X, Contains(s[x], p)
        PROVE  \E z : z \in PlacesIn(k, X, s, p)
    <3>1. PICK i \in DOMAIN s[x] : s[x][i] = p
      BY <1>2, <2>2
    <3>2. <<k, x, i>> \in PlacesIn(k, X, s, p)
      BY <1>1, <3>1
    <3>3. QED
      BY <3>2
  <2>3. QED
    BY <2>1, <2>2
<1>4. ASSUME NEW y \in PlacesIn(k, X, s, p), NEW z \in PlacesIn(k, X, s, p)
      PROVE  y = z
  <2>1. PICK x \in X : \E i \in DOMAIN s[x] : s[x][i] = p /\ y = <<k, x, i>>
    BY <1>1
  <2>2. PICK w \in X : \E j \in DOMAIN s[w] : s[w][j] = p /\ z = <<k, w, j>>
    BY <1>1
  <2>3. PICK i \in DOMAIN s[x] : s[x][i] = p /\ y = <<k, x, i>>
    BY <2>1
  <2>4. PICK j \in DOMAIN s[w] : s[w][j] = p /\ z = <<k, w, j>>
    BY <2>2
  <2>5. x = w
    BY <1>2, <2>3, <2>4
  <2>6. i = j
    BY <1>2, <2>3, <2>4, <2>5
  <2>7. QED
    BY <2>3, <2>4, <2>5, <2>6
<1>5. QED
  BY <1>3, <1>4

(* A packet that is in one place, once there, has one place.                   *)
LEMMA PacketCounts ==
  ASSUME IInv, NEW p \in Packets
  PROVE  Cardinality(Places(p)) = 1
<1> DEFINE A == {<<"pool", Undef, 0>> : o \in free \cap {p}}
           C == PlacesIn("nic", RxQueues, nic, p)
           D == PlacesIn("queue", Queues, queue, p)
           b == [c \in Cores |-> PacketsOf(batch[c])]
           l == [c \in Cores |-> PacketsOf(pairs[c])]
           E == PlacesIn("batch", Cores, b, p)
           F == PlacesIn("pairs", Cores, l, p)
           G == PlacesIn("tx", Cores, tx, p)
<1>0. TypeOK /\ Placed /\ Injective
  BY DEF IInv
<1>1. PICK k \in Kinds, x \in Owners : At(p, k, x)
  BY <1>0 DEF Placed
<1>2. \A m \in Kinds : \A y \in Owners : At(p, m, y) <=> m = k /\ y = x
  BY <1>0, <1>1 DEF Placed
<1>3. /\ p \in free <=> k = "pool" /\ x = Undef
      /\ \A r \in RxQueues : Contains(nic[r], p) <=> k = "nic" /\ x = r
      /\ \A q \in Queues : Contains(queue[q], p) <=> k = "queue" /\ x = q
      /\ \A c \in Cores : Contains(Batch(c), p) <=> k = "batch" /\ x = c
      /\ \A c \in Cores : Contains(Pairs(c), p) <=> k = "pairs" /\ x = c
      /\ \A c \in Cores : Contains(tx[c], p) <=> k = "tx" /\ x = c
  <2>1. /\ p \in free <=> At(p, "pool", Undef)
        /\ \A r \in RxQueues : Contains(nic[r], p) <=> At(p, "nic", r)
        /\ \A q \in Queues : Contains(queue[q], p) <=> At(p, "queue", q)
        /\ \A c \in Cores : Contains(Batch(c), p) <=> At(p, "batch", c)
        /\ \A c \in Cores : Contains(Pairs(c), p) <=> At(p, "pairs", c)
        /\ \A c \in Cores : Contains(tx[c], p) <=> At(p, "tx", c)
    BY DEF At
  <2>2. /\ "pool" \in Kinds /\ "nic" \in Kinds /\ "queue" \in Kinds
        /\ "batch" \in Kinds /\ "pairs" \in Kinds /\ "tx" \in Kinds
    BY Names
  <2>3. QED
    BY <1>2, <2>1, <2>2, Names
<1>4. /\ k = "pool" => x = Undef
      /\ k = "nic" => x \in RxQueues
      /\ k = "queue" => x \in Queues
      /\ k \in {"batch", "pairs", "tx"} => x \in Cores
  BY <1>1 DEF At
<1>5. /\ (\E z : z \in A) <=> k = "pool"
      /\ \A y, z \in A : y = z
  BY <1>3, <1>4
<1>6. ((\E z : z \in C) <=> k = "nic") /\ \A y, z \in C : y = z
  <2>1. \A r \in RxQueues : nic[r] \in Seq(Packets) /\ IsInjective(nic[r])
    BY <1>0 DEF Injective, TypeOK
  <2>2. \A r, t \in RxQueues : Contains(nic[r], p) /\ Contains(nic[t], p) => r = t
    BY <1>3
  <2>3. /\ (\E z : z \in C) <=> \E r \in RxQueues : Contains(nic[r], p)
        /\ \A y, z \in C : y = z
    BY <2>1, <2>2, PlacesInFacts
  <2> HIDE DEF C
  <2>4. QED
    BY <1>3, <1>4, <2>3
<1>7. ((\E z : z \in D) <=> k = "queue") /\ \A y, z \in D : y = z
  <2>1. \A q \in Queues : queue[q] \in Seq(Packets) /\ IsInjective(queue[q])
    BY <1>0 DEF Injective, TypeOK
  <2>2. \A q, t \in Queues : Contains(queue[q], p) /\ Contains(queue[t], p) => q = t
    BY <1>3
  <2>3. /\ (\E z : z \in D) <=> \E q \in Queues : Contains(queue[q], p)
        /\ \A y, z \in D : y = z
    BY <2>1, <2>2, PlacesInFacts
  <2> HIDE DEF D
  <2>4. QED
    BY <1>3, <1>4, <2>3
<1>8. ((\E z : z \in E) <=> k = "batch") /\ \A y, z \in E : y = z
  <2>0. \A c \in Cores : b[c] = Batch(c)
    BY DEF Batch
  <2> HIDE DEF b
  <2>1. \A c \in Cores : b[c] \in Seq(Packets) /\ IsInjective(b[c])
    BY <1>0, <2>0, SequenceTypes DEF Injective
  <2>2. \A c, d \in Cores : Contains(b[c], p) /\ Contains(b[d], p) => c = d
    BY <1>3, <2>0
  <2>3. /\ (\E z : z \in E) <=> \E c \in Cores : Contains(b[c], p)
        /\ \A y, z \in E : y = z
    BY <2>1, <2>2, PlacesInFacts
  <2> HIDE DEF E
  <2>4. QED
    BY <1>3, <1>4, <2>0, <2>3
<1>9. ((\E z : z \in F) <=> k = "pairs") /\ \A y, z \in F : y = z
  <2>0. \A c \in Cores : l[c] = Pairs(c)
    BY DEF Pairs
  <2> HIDE DEF l
  <2>1. \A c \in Cores : l[c] \in Seq(Packets) /\ IsInjective(l[c])
    BY <1>0, <2>0, SequenceTypes DEF Injective
  <2>2. \A c, d \in Cores : Contains(l[c], p) /\ Contains(l[d], p) => c = d
    BY <1>3, <2>0
  <2>3. /\ (\E z : z \in F) <=> \E c \in Cores : Contains(l[c], p)
        /\ \A y, z \in F : y = z
    BY <2>1, <2>2, PlacesInFacts
  <2> HIDE DEF F
  <2>4. QED
    BY <1>3, <1>4, <2>0, <2>3
<1>10. ((\E z : z \in G) <=> k = "tx") /\ \A y, z \in G : y = z
  <2>1. \A c \in Cores : tx[c] \in Seq(Packets) /\ IsInjective(tx[c])
    BY <1>0 DEF Injective, TypeOK
  <2>2. \A c, d \in Cores : Contains(tx[c], p) /\ Contains(tx[d], p) => c = d
    BY <1>3
  <2>3. /\ (\E z : z \in G) <=> \E c \in Cores : Contains(tx[c], p)
        /\ \A y, z \in G : y = z
    BY <2>1, <2>2, PlacesInFacts
  <2> HIDE DEF G
  <2>4. QED
    BY <1>3, <1>4, <2>3
<1>11. Places(p) = A \cup C \cup D \cup E \cup F \cup G
  BY DEF Places
<1> HIDE DEF A, C, D, E, F, G
<1>12. \E z : z \in Places(p)
  BY <1>5, <1>6, <1>7, <1>8, <1>9, <1>10, <1>11 DEF Kinds
<1>13. \A y, z \in Places(p) : y = z
  <2>1. \A z \in Places(p) :
          /\ k = "pool" => z \in A
          /\ k = "nic" => z \in C
          /\ k = "queue" => z \in D
          /\ k = "batch" => z \in E
          /\ k = "pairs" => z \in F
          /\ k = "tx" => z \in G
    BY <1>5, <1>6, <1>7, <1>8, <1>9, <1>10, <1>11
  <2>2. QED
    BY <1>5, <1>6, <1>7, <1>8, <1>9, <1>10, <2>1 DEF Kinds
<1>14. PICK z : z \in Places(p)
  BY <1>12
<1>15. Places(p) = {z}
  BY <1>13, <1>14
<1>16. QED
  BY <1>15, FS_Singleton

(* A token that is in the ring once or with one core has one place.            *)
LEMMA TokenCounts ==
  ASSUME IInv, NEW r \in RxQueues
  PROVE  Cardinality(TokenPlaces(r)) = 1
<1> DEFINE A == {<<"ring", i>> : i \in {j \in DOMAIN tokens : tokens[j] = r}}
           B == {<<"core", c>> : c \in {d \in Cores : current[d] = r}}
<1>0. TypeOK /\ Tokens /\ r # Undef
  BY ConstantsAssumption DEF IInv
<1>1. /\ DOMAIN tokens = 1..Len(tokens)
      /\ \A i, j \in DOMAIN tokens : tokens[i] = tokens[j] => i = j
      /\ Contains(tokens, r) <=> \E i \in DOMAIN tokens : tokens[i] = r
  <2>1. DOMAIN tokens = 1..Len(tokens)
    BY <1>0 DEF TypeOK
  <2>2. QED
    BY <1>0, <2>1 DEF Tokens, IsInjective, Contains
<1>2. ((\E z : z \in A) <=> Contains(tokens, r)) /\ \A y, z \in A : y = z
  <2>1. (\E z : z \in A) <=> \E i \in DOMAIN tokens : tokens[i] = r
    OBVIOUS
  <2>2. ASSUME NEW y \in A, NEW z \in A
        PROVE  y = z
    <3>1. PICK i, j \in DOMAIN tokens :
            tokens[i] = r /\ tokens[j] = r /\ y = <<"ring", i>> /\ z = <<"ring", j>>
      BY <2>2
    <3>2. i = j
      BY <1>1, <3>1
    <3>3. QED
      BY <3>1, <3>2
  <2>3. QED
    BY <1>1, <2>1, <2>2
<1>3. ((\E z : z \in B) <=> \E c \in Cores : current[c] = r) /\ \A y, z \in B : y = z
  <2>1. (\E z : z \in B) <=> \E c \in Cores : current[c] = r
    OBVIOUS
  <2>2. ASSUME NEW y \in B, NEW z \in B
        PROVE  y = z
    <3>1. PICK c, d \in Cores :
            current[c] = r /\ current[d] = r /\ y = <<"core", c>> /\ z = <<"core", d>>
      BY <2>2
    <3>2. c = d
      BY <1>0, <3>1 DEF Tokens
    <3>3. QED
      BY <3>1, <3>2
  <2>3. QED
    BY <2>1, <2>2
<1>4. TokenPlaces(r) = A \cup B
  BY DEF TokenPlaces
<1> HIDE DEF A, B
<1>5. (\E z : z \in TokenPlaces(r)) /\ \A y, z \in TokenPlaces(r) : y = z
  BY <1>0, <1>2, <1>3, <1>4 DEF Tokens
<1>6. PICK z : z \in TokenPlaces(r)
  BY <1>5
<1>7. TokenPlaces(r) = {z}
  BY <1>5, <1>6
<1>8. QED
  BY <1>7, FS_Singleton

(* No packet is lost, freed twice or kept by two: it is in the pool, on an Rx  *)
(* queue, in one slot of a core's tables, of an EM queue or of a Tx table.  No *)
(* Rx queue is left without its token and none is polled by two cores.         *)
THEOREM PacketsStayInOnePlace == Spec => []OnePlace
<1>1. IInv => OnePlace
  BY PacketCounts, TokenCounts DEF OnePlace
<1>2. QED
  BY <1>1, Invariance, PTL
=============================================================================
