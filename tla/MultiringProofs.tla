---------------------------- MODULE MultiringProofs ----------------------------
(***************************************************************************)
(* What is proved of the multiring, for all quotas, ring sizes, numbers of  *)
(* cores and starting indexes: the trimming of a burst is fair; an enqueue  *)
(* is refused by a full ring only; and the four rings implement a FIFO per  *)
(* priority.  The proofs reason about positions, the number of objects an   *)
(* index is past the beginning, for which there is no wrapping: the index   *)
(* arithmetic of the code is shown to agree with them first.                *)
(***************************************************************************)
EXTENDS Multiring, SequenceTheorems, FiniteSetTheorems, TLAPS

-----------------------------------------------------------------------------
(* Sequences *)

(* Appending to a sequence.                                                    *)
LEMMA AppendFacts ==
  ASSUME NEW S, NEW s \in Seq(S), NEW x \in S
  PROVE  /\ Append(s, x) \in Seq(S)
         /\ Len(Append(s, x)) = Len(s) + 1
         /\ \A i \in 1..Len(s) : Append(s, x)[i] = s[i]
         /\ Append(s, x)[Len(s) + 1] = x
  OBVIOUS

(* Cutting a sequence in two.                                                  *)
LEMMA CutFacts ==
  ASSUME NEW S, NEW s \in Seq(S), NEW n \in 0..Len(s)
  PROVE  /\ SubSeq(s, 1, n) \in Seq(S)
         /\ Len(SubSeq(s, 1, n)) = n
         /\ \A i \in 1..n : SubSeq(s, 1, n)[i] = s[i]
         /\ SubSeq(s, n + 1, Len(s)) \in Seq(S)
         /\ Len(SubSeq(s, n + 1, Len(s))) = Len(s) - n
         /\ \A i \in 1..(Len(s) - n) : SubSeq(s, n + 1, Len(s))[i] = s[n + i]
<1> Len(s) \in Nat /\ n \in Int /\ n + 1 \in Int /\ Len(s) \in Int
  OBVIOUS
<1>1. \A i \in 1..n : s[i] \in S
  OBVIOUS
<1>2. \A i \in (n + 1)..Len(s) : s[i] \in S
  OBVIOUS
<1>3. /\ SubSeq(s, 1, n) \in Seq(S)
      /\ Len(SubSeq(s, 1, n)) = IF 1 <= n THEN n - 1 + 1 ELSE 0
      /\ \A i \in 1..(n - 1 + 1) : SubSeq(s, 1, n)[i] = s[1 + i - 1]
  BY <1>1, SubSeqProperties
<1>4. /\ SubSeq(s, n + 1, Len(s)) \in Seq(S)
      /\ Len(SubSeq(s, n + 1, Len(s))) = IF n + 1 <= Len(s) THEN Len(s) - (n + 1) + 1 ELSE 0
      /\ \A i \in 1..(Len(s) - (n + 1) + 1) : SubSeq(s, n + 1, Len(s))[i] = s[n + 1 + i - 1]
  BY <1>2, SubSeqProperties
<1>5. QED
  BY <1>3, <1>4

(* One sequence behind another.                                                *)
LEMMA ConcatFacts ==
  ASSUME NEW S, NEW s \in Seq(S), NEW t \in Seq(S)
  PROVE  /\ s \o t \in Seq(S)
         /\ Len(s) \in Nat /\ Len(t) \in Nat
         /\ Len(s \o t) = Len(s) + Len(t)
         /\ \A i \in 1..Len(s) : (s \o t)[i] = s[i]
         /\ \A i \in 1..Len(t) : (s \o t)[Len(s) + i] = t[i]
<1>1. /\ s \o t \in Seq(S) /\ Len(s \o t) = Len(s) + Len(t)
      /\ \A i \in 1..(Len(s) + Len(t)) :
           (s \o t)[i] = IF i <= Len(s) THEN s[i] ELSE t[i - Len(s)]
  BY ConcatProperties
<1>2. Len(s) \in Nat /\ Len(t) \in Nat
  OBVIOUS
<1>3. \A i \in 1..Len(t) : (s \o t)[Len(s) + i] = t[i]
  <2>1. TAKE i \in 1..Len(t)
  <2>2. /\ Len(s) + i \in 1..(Len(s) + Len(t)) /\ ~(Len(s) + i <= Len(s))
        /\ (Len(s) + i) - Len(s) = i
    BY <1>2
  <2>3. QED
    BY <1>1, <2>2
<1>4. QED
  BY <1>1, <1>2, <1>3

-----------------------------------------------------------------------------

\* What one round of the trimming loop cuts: no more than the excess over the
\* quota, all of it unless less is needed, and nothing when the burst fits.
LEMMA CutBounds ==
  ASSUME NEW e \in [Prios -> Nat], NEW over \in Int, NEW p \in Prios
  PROVE  /\ Cut(over, e, p) \in Nat
         /\ over <= 0 => Cut(over, e, p) = 0
         /\ over >= 0 => Cut(over, e, p) <= over
         /\ Cut(over, e, p) <= e[p]
         /\ Cut(over, e, p) = 0 \/ e[p] - Cut(over, e, p) >= Quota[p]
         /\ Cut(over, e, p) = over \/ over <= 0 \/ e[p] - Cut(over, e, p) <= Quota[p]
<1>1. e[p] \in Nat /\ Quota[p] \in Nat
  BY ConstantsAssumption
<1> QED
  BY <1>1 DEF Cut

\* The loop as a whole (em_schedule takes its events and queues in such bursts):
\* the burst is as large as can be and gives every priority its quota.
THEOREM WeighIsFair ==
  ASSUME NEW e \in [Prios -> Nat]
  PROVE  Weigh(e) \in [Prios -> Nat] /\ Shared(e, Weigh(e))
<1> DEFINE o0 == Total(e) - MaxBurst
           c0 == Cut(o0, e, 0)
           c1 == Cut(o0 - c0, e, 1)
           c2 == Cut(o0 - c0 - c1, e, 2)
           c3 == Cut(o0 - c0 - c1 - c2, e, 3)
           w == Weigh(e)
<1>1. 0 \in Prios /\ 1 \in Prios /\ 2 \in Prios /\ 3 \in Prios
  BY DEF Prios
<1>2. /\ e[0] \in Nat /\ e[1] \in Nat /\ e[2] \in Nat /\ e[3] \in Nat
      /\ Quota[0] \in Nat /\ Quota[1] \in Nat /\ Quota[2] \in Nat /\ Quota[3] \in Nat
      /\ MaxBurst = Quota[0] + Quota[1] + Quota[2] + Quota[3]
  BY <1>1, ConstantsAssumption
<1>3. o0 \in Int /\ o0 = e[0] + e[1] + e[2] + e[3] - MaxBurst
  BY <1>2 DEF Total
<1>4. /\ w = [p \in Prios |-> e[p] -
               (CASE p = 0 -> c0 [] p = 1 -> c1 [] p = 2 -> c2 [] p = 3 -> c3)]
  BY DEF Weigh
<1>5. w[0] = e[0] - c0 /\ w[1] = e[1] - c1 /\ w[2] = e[2] - c2 /\ w[3] = e[3] - c3
  BY <1>1, <1>4
<1> HIDE DEF o0
<1>6. /\ c0 \in Nat /\ (o0 <= 0 => c0 = 0) /\ (o0 >= 0 => c0 <= o0) /\ c0 <= e[0]
      /\ c0 = 0 \/ e[0] - c0 >= Quota[0]
      /\ c0 = o0 \/ o0 <= 0 \/ e[0] - c0 <= Quota[0]
  BY <1>1, <1>3, CutBounds
<1> HIDE DEF c0
<1>7. /\ c1 \in Nat /\ (o0 - c0 <= 0 => c1 = 0) /\ (o0 - c0 >= 0 => c1 <= o0 - c0) /\ c1 <= e[1]
      /\ c1 = 0 \/ e[1] - c1 >= Quota[1]
      /\ c1 = o0 - c0 \/ o0 - c0 <= 0 \/ e[1] - c1 <= Quota[1]
  <2>1. o0 - c0 \in Int
    BY <1>3, <1>6
  <2> QED
    BY <1>1, <2>1, CutBounds
<1> HIDE DEF c1
<1>8. /\ c2 \in Nat /\ (o0 - c0 - c1 <= 0 => c2 = 0)
      /\ (o0 - c0 - c1 >= 0 => c2 <= o0 - c0 - c1) /\ c2 <= e[2]
      /\ c2 = 0 \/ e[2] - c2 >= Quota[2]
      /\ c2 = o0 - c0 - c1 \/ o0 - c0 - c1 <= 0 \/ e[2] - c2 <= Quota[2]
  <2>1. o0 - c0 - c1 \in Int
    BY <1>3, <1>6, <1>7
  <2> QED
    BY <1>1, <2>1, CutBounds
<1> HIDE DEF c2
<1>9. /\ c3 \in Nat /\ (o0 - c0 - c1 - c2 <= 0 => c3 = 0)
      /\ (o0 - c0 - c1 - c2 >= 0 => c3 <= o0 - c0 - c1 - c2) /\ c3 <= e[3]
      /\ c3 = 0 \/ e[3] - c3 >= Quota[3]
      /\ c3 = o0 - c0 - c1 - c2 \/ o0 - c0 - c1 - c2 <= 0 \/ e[3] - c3 <= Quota[3]
  <2>1. o0 - c0 - c1 - c2 \in Int
    BY <1>3, <1>6, <1>7, <1>8
  <2> QED
    BY <1>1, <2>1, CutBounds
<1> HIDE DEF c3, w
<1>10. \A p \in Prios : /\ w[p] \in Nat /\ w[p] <= e[p]
                        /\ w[p] = e[p] \/ w[p] >= Quota[p]
  <2>1. SUFFICES ASSUME NEW p \in Prios
                 PROVE  /\ w[p] \in Nat /\ w[p] <= e[p]
                        /\ w[p] = e[p] \/ w[p] >= Quota[p]
    OBVIOUS
  <2>2. p = 0 \/ p = 1 \/ p = 2 \/ p = 3
    BY DEF Prios
  <2> QED
    BY <2>2, <1>2, <1>5, <1>6, <1>7, <1>8, <1>9
<1>11. w \in [Prios -> Nat]
  BY <1>4, <1>10
<1>12. Total(w) = IF Total(e) < MaxBurst THEN Total(e) ELSE MaxBurst
  <2>1. Total(w) = Total(e) - c0 - c1 - c2 - c3
    BY <1>2, <1>5, <1>6, <1>7, <1>8, <1>9 DEF Total
  <2>2. Total(e) = o0 + MaxBurst /\ MaxBurst \in Nat
    BY <1>2, <1>3 DEF Total
  <2>3. CASE o0 <= 0
    BY <2>1, <2>2, <2>3, <1>3, <1>6, <1>7, <1>8, <1>9
  <2>4. CASE o0 > 0
    <3>1. c0 + c1 + c2 + c3 = o0
      BY <2>4, <1>2, <1>3, <1>6, <1>7, <1>8, <1>9
    <3> QED
      BY <3>1, <2>1, <2>2, <2>4, <1>3, <1>6, <1>7, <1>8, <1>9
  <2> QED
    BY <2>3, <2>4, <1>3
<1> QED
  BY <1>10, <1>11, <1>12 DEF Shared, w


-----------------------------------------------------------------------------
(* Indexes as positions *)

Index == 0..IndexMod - 1

\* The position of an index: how many objects of its priority it is past the beginning.
\* There are too few objects for the index to come round, so the indexes of a priority
\* are ordered like their positions, whether they have wrapped or not.
Pos(i) == Minus(i, Start)

\* Remainders of numbers that are off by at most one modulus.
LEMMA ModFacts ==
  ASSUME NEW m \in Nat, m > 0, NEW x \in Int
  PROVE  /\ x \in 0..m - 1 => x % m = x
         /\ x \in m..m + m - 1 => x % m = x - m
         /\ x \in -m..-1 => x % m = x + m
<1>1. /\ x % m \in 0..m - 1
      /\ x = m * (x \div m) + (x % m) /\ x \div m \in Int
  OBVIOUS
<1>2. \A q \in Int, r \in 0..m - 1 : x = m * q + r => x % m = r
  OBVIOUS
<1>3. x \in 0..m - 1 => x = m * 0 + x
  OBVIOUS
<1>4. x \in m..m + m - 1 => x = m * 1 + (x - m) /\ x - m \in 0..m - 1
  OBVIOUS
<1>5. x \in -m..-1 => x = m * (-1) + (x + m) /\ x + m \in 0..m - 1
  OBVIOUS
<1>6. QED
  BY <1>2, <1>3, <1>4, <1>5

\* Numbers that are less than a modulus apart have different remainders.
LEMMA ModApart ==
  ASSUME NEW m \in Nat, m > 0, NEW x \in Nat, NEW y \in Nat, x < y, y < x + m
  PROVE  x % m # y % m
<1>1. /\ x = m * (x \div m) + (x % m) /\ x \div m \in Int /\ x % m \in Int
      /\ y = m * (y \div m) + (y % m) /\ y \div m \in Int /\ y % m \in Int
  OBVIOUS
<1>2. SUFFICES ASSUME x % m = y % m PROVE FALSE
  OBVIOUS
<1>3. PICK q \in Int : q = (y \div m) - (x \div m)
  BY <1>1
<1>4. y - x = m * q
  BY <1>1, <1>2, <1>3
<1>5. q > 0 /\ q < 1
  BY <1>4
<1>6. QED
  BY <1>5

\* Taking a multiple away leaves the remainder.
LEMMA ModLess ==
  ASSUME NEW m \in Nat, m > 0, NEW x \in Nat, NEW y \in Nat, y % m = 0, x >= y
  PROVE  (x - y) % m = x % m
<1>1. /\ x = m * (x \div m) + (x % m) /\ x \div m \in Int /\ x % m \in 0..m - 1
      /\ y = m * (y \div m) /\ y \div m \in Int
  OBVIOUS
<1>2. PICK q \in Int : q = (x \div m) - (y \div m)
  BY <1>1
<1>3. x - y = m * q + (x % m)
  BY <1>1, <1>2
<1>4. PICK z \in Int : z = x - y
  OBVIOUS
<1>5. \A k \in Int, r \in 0..m - 1 : z = m * k + r => z % m = r
  OBVIOUS
<1>6. z = m * q + (x % m) /\ x % m \in 0..m - 1
  BY <1>1, <1>3, <1>4
<1>7. QED
  BY <1>4, <1>5, <1>6

\* Positions are numbers below IndexMod, and say which index it is.
LEMMA PosFacts ==
  ASSUME NEW i \in Index
  PROVE  /\ Pos(i) \in Nat /\ Pos(i) < IndexMod
         /\ i = Start + Pos(i) \/ i = Start + Pos(i) - IndexMod
<1>1. /\ IndexMod \in Nat /\ IndexMod > 0 /\ Start \in 0..IndexMod - 1 /\ i \in 0..IndexMod - 1
  BY ConstantsAssumption DEF Index
<1>2. PICK x \in Int : x = i - Start
  BY <1>1
<1>3. x \in 0..IndexMod - 1 \/ x \in -IndexMod..-1
  BY <1>1, <1>2
<1>4. (x >= 0 /\ x % IndexMod = x) \/ (x < 0 /\ x % IndexMod = x + IndexMod)
  BY <1>1, <1>3, ModFacts
<1>5. Pos(i) = x % IndexMod
  BY <1>2 DEF Pos, Minus
<1>6. QED
  BY <1>1, <1>2, <1>3, <1>4, <1>5

LEMMA PosInjective ==
  ASSUME NEW i \in Index, NEW j \in Index, Pos(i) = Pos(j)
  PROVE  i = j
<1>1. /\ IndexMod \in Nat /\ Start \in 0..IndexMod - 1
      /\ i \in 0..IndexMod - 1 /\ j \in 0..IndexMod - 1
  BY ConstantsAssumption DEF Index
<1>2. QED
  BY <1>1, PosFacts

LEMMA PosStart == Start \in Index /\ Pos(Start) = 0
<1>1. IndexMod \in Nat /\ IndexMod > 0 /\ Start \in 0..IndexMod - 1
  BY ConstantsAssumption
<1>2. Start - Start = 0 /\ 0 % IndexMod = 0
  BY <1>1, ModFacts
<1>3. QED
  BY <1>1, <1>2 DEF Index, Pos, Minus

\* Adding to an index adds to its position.
LEMMA PlusPos ==
  ASSUME NEW i \in Index, NEW n \in Nat, Pos(i) + n < IndexMod
  PROVE  Plus(i, n) \in Index /\ Pos(Plus(i, n)) = Pos(i) + n
<1>1. /\ IndexMod \in Nat /\ IndexMod > 0 /\ Start \in 0..IndexMod - 1 /\ i \in 0..IndexMod - 1
  BY ConstantsAssumption DEF Index
<1>2. Pos(i) \in Nat /\ (i = Start + Pos(i) \/ i = Start + Pos(i) - IndexMod)
  BY PosFacts
<1>3. PICK x \in Nat : x = i + n
  BY <1>1
<1>4. x < IndexMod + IndexMod
  BY <1>1, <1>2, <1>3
<1>5. (x < IndexMod /\ Plus(i, n) = x) \/ (x >= IndexMod /\ Plus(i, n) = x - IndexMod)
  <2>1. x < IndexMod => x % IndexMod = x
    BY <1>1, ModFacts
  <2>2. x >= IndexMod => x % IndexMod = x - IndexMod
    BY <1>1, <1>4, ModFacts
  <2>3. QED
    BY <1>1, <1>3, <2>1, <2>2 DEF Plus
<1>6. Plus(i, n) \in Index
  BY <1>1, <1>4, <1>5 DEF Index
<1>7. PICK y \in Index : y = Plus(i, n)
  BY <1>6
<1>8. Pos(y) \in Nat /\ Pos(y) < IndexMod /\ (y = Start + Pos(y) \/ y = Start + Pos(y) - IndexMod)
  BY PosFacts
<1>9. Pos(y) = Pos(i) + n
  BY <1>1, <1>2, <1>3, <1>5, <1>7, <1>8
<1>10. QED
  BY <1>6, <1>7, <1>9

\* The difference of two indexes is that of their positions.
LEMMA MinusPos ==
  ASSUME NEW i \in Index, NEW j \in Index, Pos(j) <= Pos(i)
  PROVE  Minus(i, j) = Pos(i) - Pos(j)
<1>1. /\ IndexMod \in Nat /\ IndexMod > 0 /\ Start \in 0..IndexMod - 1
      /\ i \in 0..IndexMod - 1 /\ j \in 0..IndexMod - 1
  BY ConstantsAssumption DEF Index
<1>2. /\ Pos(i) \in Nat /\ Pos(i) < IndexMod
      /\ (i = Start + Pos(i) \/ i = Start + Pos(i) - IndexMod)
      /\ Pos(j) \in Nat /\ (j = Start + Pos(j) \/ j = Start + Pos(j) - IndexMod)
  BY PosFacts
<1>3. PICK x \in Int : x = i - j
  BY <1>1
<1>4. /\ x >= 0 => x % IndexMod = x
      /\ x < 0 => x % IndexMod = x + IndexMod
  BY <1>1, <1>3, ModFacts
<1>5. QED
  BY <1>1, <1>2, <1>3, <1>4 DEF Minus

\* FreeEntries is exact as long as the head it is given is at most a ring ahead.
LEMMA FreePos ==
  ASSUME NEW t \in Index, NEW h \in Index,
         Pos(t) <= MaxObjects, Pos(h) <= Pos(t) + RingSize - 1, Pos(h) <= MaxObjects
  PROVE  FreeEntries(t, h) = RingSize - 1 + Pos(t) - Pos(h)
<1>1. /\ IndexMod \in Nat /\ IndexMod > 0 /\ Start \in 0..IndexMod - 1
      /\ t \in 0..IndexMod - 1 /\ h \in 0..IndexMod - 1
      /\ RingSize \in Nat /\ RingSize > 1 /\ MaxObjects \in Nat /\ MaxObjects <= IndexMod - RingSize
  BY ConstantsAssumption DEF Index
<1>2. /\ Pos(t) \in Nat /\ (t = Start + Pos(t) \/ t = Start + Pos(t) - IndexMod)
      /\ Pos(h) \in Nat /\ (h = Start + Pos(h) \/ h = Start + Pos(h) - IndexMod)
  BY PosFacts
<1>3. PICK x \in Int : x = RingSize - 1 + t - h
  BY <1>1
<1>4. PICK n \in Nat : n = RingSize - 1 + Pos(t) - Pos(h)
  BY <1>1, <1>2
<1>5. n < IndexMod /\ (x = n \/ x = n - IndexMod \/ x = n + IndexMod)
  BY <1>1, <1>2, <1>3, <1>4
<1>6. x % IndexMod = n
  <2>1. CASE x = n
    BY <1>1, <1>5, <2>1, ModFacts
  <2>2. CASE x = n - IndexMod
    BY <1>1, <1>5, <2>2, ModFacts
  <2>3. CASE x = n + IndexMod
    BY <1>1, <1>5, <2>3, ModFacts
  <2>4. QED
    BY <1>5, <2>1, <2>2, <2>3
<1>7. FreeEntries(t, h) = x % IndexMod
  BY <1>1, <1>3 DEF FreeEntries, Minus
<1>8. QED
  BY <1>4, <1>6, <1>7

\* The slot of position k.
SlotOf(k) == (Start + k) % RingSize

\* It is that of the index at k, for the ring's size divides IndexMod.
LEMMA SlotPos ==
  ASSUME NEW i \in Index
  PROVE  i % RingSize = SlotOf(Pos(i)) /\ SlotOf(Pos(i)) \in 0..RingSize - 1
<1>1. /\ IndexMod \in Nat /\ Start \in 0..IndexMod - 1 /\ RingSize \in Nat /\ RingSize > 0
      /\ IndexMod % RingSize = 0 /\ i \in 0..IndexMod - 1
  BY ConstantsAssumption DEF Index
<1>2. Pos(i) \in Nat /\ (i = Start + Pos(i) \/ i = Start + Pos(i) - IndexMod)
  BY PosFacts
<1>3. PICK x \in Nat : x = Start + Pos(i)
  BY <1>1, <1>2
<1>4. CASE i = x
  BY <1>1, <1>3, <1>4 DEF SlotOf
<1>5. CASE i = x - IndexMod
  <2>1. x >= IndexMod
    BY <1>1, <1>5
  <2>2. (x - IndexMod) % RingSize = x % RingSize
    BY <1>1, <2>1, ModLess
  <2>3. QED
    BY <1>1, <1>3, <1>5, <2>2 DEF SlotOf
<1>6. i = x \/ i = x - IndexMod
  BY <1>1, <1>2, <1>3
<1>7. QED
  BY <1>4, <1>5, <1>6

\* Positions less than a ring apart have slots of their own.
LEMMA SlotsApart ==
  ASSUME NEW k \in Nat, NEW l \in Nat, k < l, l < k + RingSize
  PROVE  SlotOf(k) # SlotOf(l)
<1>1. Start \in Nat /\ RingSize \in Nat /\ RingSize > 0
  BY ConstantsAssumption
<1>2. PICK x \in Nat, y \in Nat : x = Start + k /\ y = Start + l
  BY <1>1
<1>3. x < y /\ y < x + RingSize
  BY <1>1, <1>2
<1>4. x % RingSize # y % RingSize
  BY <1>1, <1>3, ModApart
<1>5. QED
  BY <1>2, <1>4 DEF SlotOf

-----------------------------------------------------------------------------
(* The inductive invariant *)

ProducerPoints == {"idle", "room", "cas", "head", "write", "publish"}
ConsumerPoints == {"idle", "tails", "cas", "retry", "copy", "release"}

TypeOK ==
  /\ prodHead \in [Prios -> Index] /\ prodTail \in [Prios -> Index]
  /\ consHead \in [Prios -> Index] /\ consTail \in [Prios -> Index]
  /\ slot \in [Prios -> [0..RingSize - 1 -> Objects \cup {None}]]
  /\ made \in 0..MaxObjects
  /\ ppc \in [Producers -> ProducerPoints] /\ prio \in [Producers -> Prios]
  /\ object \in [Producers -> 0..MaxObjects] /\ head \in [Producers -> Index]
  /\ cpc \in [Consumers -> ConsumerPoints]
  /\ heads \in [Consumers -> [Prios -> Index]]
  /\ entries \in [Consumers -> [Prios -> Nat]]
  /\ at \in [Consumers -> Prios] /\ copied \in [Consumers -> Nat]
  /\ got \in [Consumers -> Seq(Objects \cup {None})]

\* The four ends of the ring of p: what was reserved by producers and by consumers, and
\* what they are done with.
Reserved(p) == Pos(prodHead[p])
Produced(p) == Pos(prodTail[p])
Claimed(p)  == Pos(consHead[p])
Consumed(p) == Pos(consTail[p])

\* They follow each other, and no producer is a whole ring ahead.
Window(p) ==
  /\ Consumed(p) <= Claimed(p) /\ Claimed(p) <= Produced(p) /\ Produced(p) <= Reserved(p)
  /\ Reserved(p) <= Consumed(p) + RingSize - 1

\* Objects that are not in a ring yet are not counted in a position.
Entering == {c \in Producers : ppc[c] \in {"room", "cas", "head"}}
Numbered ==
  /\ IsFiniteSet(Entering)
  /\ \A p \in Prios : Reserved(p) + Cardinality(Entering) <= made

\* A producer that has reserved a slot and not published it has it to itself, and no
\* consumer does.
Holding(c) == ppc[c] \in {"write", "publish"}

Produces(c) ==
  /\ ppc[c] # "idle" => object[c] \in Objects
  /\ ppc[c] \in {"room", "cas"} => Pos(head[c]) <= Reserved(prio[c])
  /\ ppc[c] = "cas" => Pos(head[c]) < Consumed(prio[c]) + RingSize - 1
  /\ Holding(c) => Produced(prio[c]) <= Pos(head[c]) /\ Pos(head[c]) < Reserved(prio[c])
  /\ ppc[c] = "publish" => slot[prio[c]][SlotOf(Pos(head[c]))] = object[c]

ProducersApart ==
  \A c, d \in Producers :
    Holding(c) /\ Holding(d) /\ prio[c] = prio[d] /\ head[c] = head[d] => c = d

\* A consumer that has reserved a burst and not released priority p.
Busy(c) == cpc[c] \in {"copy", "release"}
Owns(c, p) == Busy(c) /\ p <= at[c] /\ entries[c][p] > 0

First(c, p) == Pos(heads[c][p])
End(c, p) == First(c, p) + entries[c][p]

Consumes(c) ==
  /\ cpc[c] \in {"tails", "cas"} => \A p \in Prios : First(c, p) <= Claimed(p)
  /\ cpc[c] = "cas" => /\ \A p \in Prios : End(c, p) <= Produced(p)
                       /\ Total(entries[c]) \in 1..MaxBurst
  /\ ~Busy(c) => got[c] = <<>> /\ copied[c] = 0
  /\ Busy(c) => entries[c][at[c]] > 0
  /\ \A p \in Prios : Owns(c, p) => Consumed(p) <= First(c, p) /\ End(c, p) <= Claimed(p)
  /\ cpc[c] = "copy" => copied[c] < entries[c][at[c]]
  /\ cpc[c] = "release" => copied[c] = entries[c][at[c]] /\ got[c] # <<>>

ConsumersApart ==
  \A c, d \in Consumers, p \in Prios : Owns(c, p) /\ Owns(d, p) =>
    c = d \/ End(c, p) <= First(d, p) \/ End(d, p) <= First(c, p)

IInv ==
  /\ TypeOK
  /\ \A p \in Prios : Window(p)
  /\ Numbered
  /\ \A c \in Producers : Produces(c)
  /\ ProducersApart
  /\ \A c \in Consumers : Consumes(c)
  /\ ConsumersApart

-----------------------------------------------------------------------------
(* Types *)

\* Arithmetic on indexes yields indexes and numbers.
LEMMA IndexFacts ==
  ASSUME NEW i \in Int, NEW n \in Int
  PROVE  Plus(i, n) \in Index /\ Minus(i, n) \in Nat /\ i % RingSize \in 0..RingSize - 1
<1>1. IndexMod \in Nat /\ IndexMod > 0 /\ RingSize \in Nat /\ RingSize > 0
  BY ConstantsAssumption
<1>2. \A x \in Int : x % IndexMod \in 0..IndexMod - 1 /\ x % RingSize \in 0..RingSize - 1
  BY <1>1
<1>3. QED
  BY <1>1, <1>2 DEF Plus, Minus, Index

LEMMA ConstantFacts ==
  /\ IndexMod \in Nat /\ RingSize \in Nat /\ RingSize > 1 /\ MaxObjects \in Nat
  /\ MaxObjects + RingSize <= IndexMod
  /\ 0 \in Index /\ \A i \in Index : i \in Int
  /\ 0 \in Prios /\ 1 \in Prios /\ 2 \in Prios /\ 3 \in Prios
  /\ \A p \in Prios : p \in Nat /\ p < 4
BY ConstantsAssumption DEF Index, Prios

\* What is where.
LEMMA EndTypes ==
  ASSUME TypeOK, NEW p \in Prios
  PROVE  /\ prodHead[p] \in Index /\ prodTail[p] \in Index
         /\ consHead[p] \in Index /\ consTail[p] \in Index
         /\ prodHead[p] \in Int /\ prodTail[p] \in Int
         /\ consHead[p] \in Int /\ consTail[p] \in Int
<1>1. /\ prodHead[p] \in Index /\ prodTail[p] \in Index
      /\ consHead[p] \in Index /\ consTail[p] \in Index
  BY DEF TypeOK
<1>2. QED
  BY <1>1, ConstantFacts

LEMMA ProducerAt ==
  ASSUME TypeOK, NEW c \in Producers
  PROVE  /\ ppc[c] \in ProducerPoints /\ prio[c] \in Prios
         /\ object[c] \in 0..MaxObjects /\ head[c] \in Index /\ head[c] \in Int
<1>1. /\ ppc[c] \in ProducerPoints /\ prio[c] \in Prios
      /\ object[c] \in 0..MaxObjects /\ head[c] \in Index
  BY DEF TypeOK
<1>2. QED
  BY <1>1, ConstantFacts

LEMMA ConsumerAt ==
  ASSUME TypeOK, NEW c \in Consumers
  PROVE  /\ cpc[c] \in ConsumerPoints /\ at[c] \in Prios /\ at[c] \in Nat /\ at[c] < 4
         /\ copied[c] \in Nat /\ got[c] \in Seq(Objects \cup {None})
         /\ heads[c] \in [Prios -> Index] /\ entries[c] \in [Prios -> Nat]
         /\ \A p \in Prios : /\ heads[c][p] \in Index /\ heads[c][p] \in Int
                             /\ entries[c][p] \in Nat
<1>1. /\ cpc[c] \in ConsumerPoints /\ at[c] \in Prios
      /\ copied[c] \in Nat /\ got[c] \in Seq(Objects \cup {None})
      /\ heads[c] \in [Prios -> Index] /\ entries[c] \in [Prios -> Nat]
  BY DEF TypeOK
<1>2. \A p \in Prios : heads[c][p] \in Index /\ entries[c][p] \in Nat
  BY <1>1
<1>3. QED
  BY <1>1, <1>2, ConstantFacts

\* A consumer sees a natural number of objects in every priority.
LEMMA SeenNat ==
  ASSUME TypeOK, NEW c \in Consumers
  PROVE  Seen(c) \in [Prios -> Nat]
<1>1. ASSUME NEW p \in Prios PROVE Minus(prodTail[p], heads[c][p]) \in Nat
  <2>1. prodTail[p] \in Int /\ heads[c][p] \in Int
    BY ConstantFacts DEF TypeOK
  <2>2. QED
    BY <2>1, IndexFacts
<1>2. QED
  BY <1>1 DEF Seen

\* The highest of some priorities.
LEMMA HighestFacts ==
  ASSUME NEW S \in SUBSET Prios, S # {}
  PROVE  Highest(S) \in S /\ \A q \in S : q <= Highest(S)
<1>1. \E p \in S : \A q \in S : q <= p
  <2>1. \A p \in S : p \in 0..3
    BY DEF Prios
  <2>2. CASE 3 \in S
    BY <2>1, <2>2
  <2>3. CASE 3 \notin S /\ 2 \in S
    BY <2>1, <2>3
  <2>4. CASE 3 \notin S /\ 2 \notin S /\ 1 \in S
    BY <2>1, <2>4
  <2>5. CASE 3 \notin S /\ 2 \notin S /\ 1 \notin S
    BY <2>1, <2>5
  <2>6. QED
    BY <2>2, <2>3, <2>4, <2>5
<1>2. QED
  BY <1>1 DEF Highest

\* A weighed burst that is not empty has a highest priority.
LEMMA BelowFacts ==
  ASSUME NEW e \in [Prios -> Nat], NEW n \in Nat
  PROVE  /\ Below(e, n) \in SUBSET Prios
         /\ \A p \in Below(e, n) : e[p] > 0 /\ p < n
         /\ \A p \in Prios : e[p] > 0 /\ p < n => p \in Below(e, n)
         /\ Total(e) > 0 /\ n = 4 => Below(e, n) # {}
<1>1. \A p \in Prios : p \in Below(e, n) <=> p < n /\ e[p] > 0
  BY DEF Below
<1>2. Below(e, n) \in SUBSET Prios
  BY DEF Below
<1>3. ASSUME Total(e) > 0, n = 4
      PROVE  Below(e, n) # {}
  <2>1. e[0] \in Nat /\ e[1] \in Nat /\ e[2] \in Nat /\ e[3] \in Nat
    BY ConstantFacts
  <2>2. e[0] > 0 \/ e[1] > 0 \/ e[2] > 0 \/ e[3] > 0
    BY <1>3, <2>1 DEF Total
  <2>3. \E p \in Prios : e[p] > 0 /\ p < 4
    BY <2>2, ConstantFacts
  <2>4. QED
    BY <1>1, <1>3, <2>3
<1>4. QED
  BY <1>1, <1>2, <1>3

LEMMA InitTypes == Init => TypeOK
<1> SUFFICES ASSUME Init PROVE TypeOK
  OBVIOUS
<1>1. Start \in Index
  BY PosStart
<1>2. /\ prodHead \in [Prios -> Index] /\ prodTail \in [Prios -> Index]
      /\ consHead \in [Prios -> Index] /\ consTail \in [Prios -> Index]
  BY <1>1 DEF Init, AllPrios
<1>3. slot \in [Prios -> [0..RingSize - 1 -> Objects \cup {None}]]
  BY DEF Init, AllPrios
<1>4. /\ made \in 0..MaxObjects
      /\ ppc \in [Producers -> ProducerPoints] /\ prio \in [Producers -> Prios]
      /\ object \in [Producers -> 0..MaxObjects] /\ head \in [Producers -> Index]
  BY ConstantFacts DEF Init, ProducerPoints
<1>5. /\ cpc \in [Consumers -> ConsumerPoints]
      /\ heads \in [Consumers -> [Prios -> Index]]
      /\ entries \in [Consumers -> [Prios -> Nat]]
      /\ at \in [Consumers -> Prios] /\ copied \in [Consumers -> Nat]
      /\ got \in [Consumers -> Seq(Objects \cup {None})]
  BY ConstantFacts DEF Init, ConsumerPoints, AllPrios
<1>6. QED
  BY <1>2, <1>3, <1>4, <1>5 DEF TypeOK

\* An enqueue that is over has no object.
LEMMA EnqueueReturnTypes ==
  ASSUME TypeOK, NEW c \in Producers, EnqueueReturns(c)
  PROVE  /\ ppc' \in [Producers -> ProducerPoints] /\ prio' \in [Producers -> Prios]
         /\ object' \in [Producers -> 0..MaxObjects] /\ head' \in [Producers -> Index]
<1>1. 0 \in Prios /\ 0 \in 0..MaxObjects /\ 0 \in Index
  BY ConstantFacts
<1>2. ppc' \in [Producers -> ProducerPoints]
  BY DEF TypeOK, EnqueueReturns, PGoto, ProducerPoints
<1>3. QED
  BY <1>1, <1>2 DEF TypeOK, EnqueueReturns

\* A step of a producer.
LEMMA ProducerTypes ==
  ASSUME TypeOK, NEW c \in Producers, Produces(c), EnqueueStep(c)
  PROVE  TypeOK'
<1>1. ASSUME NEW p \in UsedPrios, Enqueue(c, p)
      PROVE  TypeOK'
  <2>1. p \in Prios /\ made' = made + 1 /\ made' \in 0..MaxObjects
    BY <1>1, ConstantsAssumption DEF TypeOK, Enqueue
  <2>2. prodHead[p] \in Index
    BY <2>1, EndTypes
  <2>3. /\ ppc' \in [Producers -> ProducerPoints] /\ prio' \in [Producers -> Prios]
        /\ object' \in [Producers -> 0..MaxObjects] /\ head' \in [Producers -> Index]
    BY <1>1, <2>1, <2>2 DEF TypeOK, Enqueue, PGoto, ProducerPoints
  <2>4. QED
    BY <1>1, <2>1, <2>3 DEF TypeOK, Enqueue, ringVars, consVars
<1>2. CASE Room(c)
  <2>1. CASE EnqueueReturns(c)
    BY <1>2, <2>1, EnqueueReturnTypes DEF TypeOK, Room, ringVars, consVars
  <2>2. CASE PGoto(c, "cas") /\ UNCHANGED <<object, head, prio>>
    BY <1>2, <2>2 DEF TypeOK, Room, PGoto, ProducerPoints, ringVars, consVars
  <2>3. QED
    BY <1>2, <2>1, <2>2 DEF Room
<1>3. CASE ReserveSlot(c)
  <2>1. Plus(prodHead[prio[c]], 1) \in Index
    <3>1. prodHead[prio[c]] \in Int /\ 1 \in Int
      BY ProducerAt, EndTypes
    <3>2. QED
      BY <3>1, IndexFacts
  <2>2. QED
    BY <1>3, <2>1 DEF TypeOK, ReserveSlot, PGoto, ProducerPoints, consVars
<1>4. CASE ReadHeadAgain(c)
  BY <1>4 DEF TypeOK, ReadHeadAgain, PGoto, ProducerPoints, ringVars, consVars
<1>5. CASE Write(c)
  <2>1. head[c] % RingSize \in 0..RingSize - 1
    <3>1. PICK i \in Int : i = head[c]
      BY ProducerAt
    <3>2. i % RingSize \in 0..RingSize - 1
      BY IndexFacts
    <3>3. QED
      BY <3>1, <3>2
  <2>2. object[c] \in Objects \cup {None}
    BY <1>5 DEF Write, Produces
  <2>3. slot' \in [Prios -> [0..RingSize - 1 -> Objects \cup {None}]]
    BY <1>5, <2>1, <2>2 DEF TypeOK, Write
  <2>4. ppc' \in [Producers -> ProducerPoints]
    BY <1>5 DEF TypeOK, Write, PGoto, ProducerPoints
  <2>5. QED
    BY <1>5, <2>3, <2>4 DEF TypeOK, Write, consVars
<1>6. CASE Publish(c)
  <2>1. Plus(head[c], 1) \in Index
    <3>1. head[c] \in Int /\ 1 \in Int
      BY ProducerAt
    <3>2. QED
      BY <3>1, IndexFacts
  <2>2. prodTail' \in [Prios -> Index]
    BY <1>6, <2>1 DEF TypeOK, Publish
  <2>3. EnqueueReturns(c)
    BY <1>6 DEF Publish
  <2>4. QED
    BY <1>6, <2>2, <2>3, EnqueueReturnTypes DEF TypeOK, Publish, consVars
<1>7. QED
  BY <1>1, <1>2, <1>3, <1>4, <1>5, <1>6 DEF EnqueueStep

\* A dequeue that is over has no burst.
LEMMA ReturnTypes ==
  ASSUME TypeOK, NEW c \in Consumers, DequeueReturns(c)
  PROVE  /\ cpc' \in [Consumers -> ConsumerPoints]
         /\ heads' \in [Consumers -> [Prios -> Index]]
         /\ entries' \in [Consumers -> [Prios -> Nat]]
         /\ at' \in [Consumers -> Prios] /\ copied' \in [Consumers -> Nat]
         /\ got' \in [Consumers -> Seq(Objects \cup {None})]
<1>1. AllPrios(0) \in [Prios -> Nat] /\ AllPrios(0) \in [Prios -> Index] /\ 0 \in Prios
  BY ConstantFacts DEF AllPrios
<1>2. cpc' \in [Consumers -> ConsumerPoints]
  BY DEF TypeOK, DequeueReturns, CGoto, ConsumerPoints
<1>3. /\ heads' \in [Consumers -> [Prios -> Index]]
      /\ entries' \in [Consumers -> [Prios -> Nat]]
  BY <1>1 DEF TypeOK, DequeueReturns
<1>4. /\ at' \in [Consumers -> Prios] /\ copied' \in [Consumers -> Nat]
      /\ got' \in [Consumers -> Seq(Objects \cup {None})]
  BY <1>1 DEF TypeOK, DequeueReturns
<1>5. QED
  BY <1>2, <1>3, <1>4

\* A step of a consumer.
LEMMA ConsumerTypes ==
  ASSUME TypeOK, NEW c \in Consumers, Consumes(c), DequeueStep(c)
  PROVE  TypeOK'
<1>1. CASE ReadHeads(c)
  BY <1>1 DEF TypeOK, ReadHeads, CGoto, ConsumerPoints, ringVars, prodVars
<1>2. CASE ReadTails(c)
  <2>1. Weigh(Seen(c)) \in [Prios -> Nat]
    BY SeenNat, WeighIsFair
  <2>2. CASE DequeueReturns(c) /\ UNCHANGED <<ringVars, prodVars>>
    BY <2>2, ReturnTypes DEF TypeOK, ringVars, prodVars
  <2>3. CASE /\ entries' = [entries EXCEPT ![c] = Weigh(Seen(c))]
             /\ CGoto(c, "cas") /\ UNCHANGED <<heads, at, copied, got, ringVars, prodVars>>
    BY <2>1, <2>3 DEF TypeOK, CGoto, ConsumerPoints, ringVars, prodVars
  <2>4. QED
    BY <1>2, <2>2, <2>3 DEF ReadTails
<1>3. CASE ReserveBurst(c)
  <2>1. entries[c] \in [Prios -> Nat] /\ Total(entries[c]) > 0
    BY <1>3 DEF TypeOK, ReserveBurst, Consumes
  <2>2. Highest(Below(entries[c], 4)) \in Prios
    BY <2>1, BelowFacts, HighestFacts
  <2>3. \A p \in Prios : Plus(heads[c][p], entries[c][p]) \in Index
    <3>1. \A p \in Prios : heads[c][p] \in Int /\ entries[c][p] \in Int
      BY ConsumerAt
    <3>2. QED
      BY <3>1, IndexFacts
  <2>4. consHead' \in [Prios -> Index] /\ at' \in [Consumers -> Prios]
    <3>1. CASE consHead = heads[c]
      <4>1. /\ consHead' = [p \in Prios |-> Plus(heads[c][p], entries[c][p])]
            /\ at' = [at EXCEPT ![c] = Highest(Below(entries[c], 4))]
        BY <1>3, <3>1 DEF ReserveBurst
      <4>2. consHead' \in [Prios -> Index]
        BY <2>3, <4>1
      <4>3. QED
        BY <2>2, <4>1, <4>2 DEF TypeOK
    <3>2. CASE consHead # heads[c]
      BY <1>3, <3>2 DEF TypeOK, ReserveBurst
    <3>3. QED
      BY <3>1, <3>2
  <2>5. cpc' \in [Consumers -> ConsumerPoints]
    BY <1>3 DEF TypeOK, ReserveBurst, CGoto, ConsumerPoints
  <2>6. QED
    BY <1>3, <2>4, <2>5 DEF TypeOK, ReserveBurst, prodVars
<1>4. CASE Copy(c)
  <2>1. PICK x : x = slot[at[c]][Plus(heads[c][at[c]], copied[c]) % RingSize]
    OBVIOUS
  <2>2. x \in Objects \cup {None}
    <3>1. at[c] \in Prios /\ heads[c][at[c]] \in Int /\ copied[c] \in Int
      BY ConsumerAt
    <3>2. PICK y : y = Plus(heads[c][at[c]], copied[c]) % RingSize
      OBVIOUS
    <3>3. y \in 0..RingSize - 1
      BY <3>1, <3>2, IndexFacts, ConstantFacts
    <3>4. slot[at[c]] \in [0..RingSize - 1 -> Objects \cup {None}]
      BY <3>1 DEF TypeOK
    <3>5. QED
      BY <2>1, <3>2, <3>3, <3>4
  <2>3. got' = [got EXCEPT ![c] = Append(@, x)] /\ got' \in [Consumers -> Seq(Objects \cup {None})]
    BY <1>4, <2>1, <2>2 DEF TypeOK, Copy
  <2>4. cpc' \in [Consumers -> ConsumerPoints] /\ copied' \in [Consumers -> Nat]
    BY <1>4 DEF TypeOK, Copy, CGoto, ConsumerPoints
  <2>5. QED
    BY <1>4, <2>3, <2>4 DEF TypeOK, Copy, ringVars, prodVars
<1>5. CASE Release(c)
  <2>1. entries[c] \in [Prios -> Nat] /\ at[c] \in Prios /\ at[c] \in Nat
    BY ConsumerAt
  <2>2. consTail' \in [Prios -> Index]
    <3>1. heads[c][at[c]] \in Int /\ entries[c][at[c]] \in Int
      BY ConsumerAt
    <3>2. Plus(heads[c][at[c]], entries[c][at[c]]) \in Index
      BY <3>1, IndexFacts
    <3>3. QED
      BY <1>5, <3>2 DEF TypeOK, Release
  <2>3. UNCHANGED <<prodHead, prodTail, consHead, slot, prodVars>>
    BY <1>5 DEF Release
  <2>4. CASE DequeueReturns(c)
    BY <2>2, <2>3, <2>4, ReturnTypes DEF TypeOK, prodVars
  <2>5. CASE Below(entries[c], at[c]) # {} /\ NextPrio(c)
    <3>1. Highest(Below(entries[c], at[c])) \in Prios
      BY <2>1, <2>5, BelowFacts, HighestFacts
    <3>2. /\ at' = [at EXCEPT ![c] = Highest(Below(entries[c], at[c]))]
          /\ copied' = [copied EXCEPT ![c] = 0]
          /\ CGoto(c, "copy") /\ UNCHANGED <<heads, entries, got>>
      BY <2>5 DEF NextPrio
    <3>3. at' \in [Consumers -> Prios] /\ copied' \in [Consumers -> Nat]
      BY <3>1, <3>2 DEF TypeOK
    <3>4. cpc' \in [Consumers -> ConsumerPoints]
      BY <3>2 DEF TypeOK, CGoto, ConsumerPoints
    <3>5. QED
      BY <2>2, <2>3, <3>2, <3>3, <3>4 DEF TypeOK, prodVars
  <2>6. QED
    BY <1>5, <2>4, <2>5 DEF Release, NextPrio
<1>6. QED
  BY <1>1, <1>2, <1>3, <1>4, <1>5 DEF DequeueStep

-----------------------------------------------------------------------------
(* Positions *)

LEMMA EndPositions ==
  ASSUME TypeOK, NEW p \in Prios
  PROVE  /\ Reserved(p) \in Nat /\ Produced(p) \in Nat
         /\ Claimed(p) \in Nat /\ Consumed(p) \in Nat
BY EndTypes, PosFacts DEF Reserved, Produced, Claimed, Consumed

LEMMA EndPositionsNext ==
  ASSUME TypeOK', NEW p \in Prios
  PROVE  /\ Reserved(p)' \in Nat /\ Produced(p)' \in Nat
         /\ Claimed(p)' \in Nat /\ Consumed(p)' \in Nat
<1>1. /\ prodHead'[p] \in Index /\ prodTail'[p] \in Index
      /\ consHead'[p] \in Index /\ consTail'[p] \in Index
  BY DEF TypeOK
<1>2. QED
  BY <1>1, PosFacts DEF Reserved, Produced, Claimed, Consumed

LEMMA HeadPosition ==
  ASSUME TypeOK, NEW c \in Producers
  PROVE  Pos(head[c]) \in Nat
BY ProducerAt, PosFacts

LEMMA BurstPosition ==
  ASSUME TypeOK, NEW c \in Consumers, NEW p \in Prios
  PROVE  /\ First(c, p) \in Nat /\ First(c, p) < IndexMod
         /\ entries[c][p] \in Nat /\ End(c, p) \in Nat /\ End(c, p) = First(c, p) + entries[c][p]
<1>1. heads[c][p] \in Index /\ entries[c][p] \in Nat
  BY ConsumerAt
<1>2. First(c, p) \in Nat /\ First(c, p) < IndexMod
  BY <1>1, PosFacts DEF First
<1>3. QED
  BY <1>1, <1>2 DEF End

\* No position is beyond the number of objects.
LEMMA WithinObjects ==
  ASSUME TypeOK, Numbered, NEW p \in Prios, Window(p)
  PROVE  /\ Reserved(p) <= MaxObjects /\ Produced(p) <= MaxObjects
         /\ Claimed(p) <= MaxObjects /\ Consumed(p) <= MaxObjects
         /\ Reserved(p) + 1 < IndexMod
<1>1. Cardinality(Entering) \in Nat
  BY FS_CardinalityType DEF Numbered
<1>2. Reserved(p) + Cardinality(Entering) <= made /\ made \in Nat /\ made <= MaxObjects
  BY ConstantFacts DEF Numbered, TypeOK
<1>3. QED
  BY <1>1, <1>2, EndPositions, ConstantFacts DEF Window

-----------------------------------------------------------------------------
(* What a step leaves alone *)

\* A producer's step that moves no end of the consumers'.
LEMMA ConsumersKept ==
  ASSUME TypeOK, TypeOK', \A c \in Consumers : Consumes(c), ConsumersApart,
         UNCHANGED <<consVars, consHead, consTail>>,
         \A p \in Prios : Produced(p) <= Produced(p)'
  PROVE  (\A c \in Consumers : Consumes(c)') /\ ConsumersApart'
<1>1. /\ \A c \in Consumers, p \in Prios :
           /\ First(c, p)' = First(c, p) /\ End(c, p)' = End(c, p)
           /\ Owns(c, p)' <=> Owns(c, p)
      /\ \A p \in Prios : Claimed(p)' = Claimed(p) /\ Consumed(p)' = Consumed(p)
      /\ \A c \in Consumers : Busy(c)' <=> Busy(c)
  BY DEF consVars, First, End, Owns, Busy, Claimed, Consumed
<1>2. UNCHANGED <<cpc, heads, entries, at, copied, got>>
  BY DEF consVars
<1>3. ASSUME NEW c \in Consumers PROVE Consumes(c)'
  <2>1. Consumes(c)
    OBVIOUS
  <2>2. ASSUME NEW p \in Prios, End(c, p) <= Produced(p)
        PROVE  End(c, p) <= Produced(p)'
    <3>1. PICK n : n = Produced(p)'
      OBVIOUS
    <3>2. n \in Nat
      BY <3>1, EndPositions, EndPositionsNext
    <3>3. Produced(p) <= n
      BY <3>1
    <3>4. QED
      BY <2>2, <3>1, <3>2, <3>3, EndPositions, BurstPosition
  <2>3. QED
    BY <1>1, <1>2, <2>1, <2>2 DEF Consumes
<1>4. ConsumersApart'
  BY <1>1 DEF ConsumersApart
<1>5. QED
  BY <1>3, <1>4

\* A consumer's step frees room, if it does anything to the producers.
LEMMA ProducersKept ==
  ASSUME TypeOK, TypeOK', Numbered, \A c \in Producers : Produces(c), ProducersApart,
         UNCHANGED <<prodVars, prodHead, prodTail, slot>>,
         \A p \in Prios : Consumed(p) <= Consumed(p)'
  PROVE  Numbered' /\ (\A c \in Producers : Produces(c)') /\ ProducersApart'
<1>1. UNCHANGED <<made, ppc, prio, object, head>>
  BY DEF prodVars
<1>2. \A p \in Prios : Reserved(p)' = Reserved(p) /\ Produced(p)' = Produced(p)
  BY DEF Reserved, Produced
<1>3. Entering' = Entering /\ \A c \in Producers : Holding(c)' <=> Holding(c)
  BY <1>1 DEF Entering, Holding
<1>4. Numbered'
  BY <1>1, <1>2, <1>3 DEF Numbered
<1>5. ASSUME NEW c \in Producers PROVE Produces(c)'
  <2>1. Produces(c)
    OBVIOUS
  <2>2. PICK p \in Prios : p = prio[c]
    BY ProducerAt
  <2>3. PICK n : n = Consumed(p)'
    OBVIOUS
  <2>4. n \in Nat /\ Consumed(p) <= n
    BY <2>3, EndPositions, EndPositionsNext
  <2>5. ppc[c] = "cas" => Pos(head[c]) < n + RingSize - 1
    BY <2>1, <2>2, <2>4, EndPositions, HeadPosition, ConstantFacts DEF Produces
  <2>6. QED
    BY <1>1, <1>2, <1>3, <2>1, <2>2, <2>3, <2>5 DEF Produces
<1>6. ProducersApart'
  BY <1>1, <1>3 DEF ProducersApart
<1>7. QED
  BY <1>4, <1>5, <1>6

\* A step of producer c, seen by another one.
OtherProducers(c) ==
  \A d \in Producers \ {c} :
    ppc'[d] = ppc[d] /\ prio'[d] = prio[d] /\ object'[d] = object[d] /\ head'[d] = head[d]

LEMMA OtherProducersKept ==
  ASSUME TypeOK, TypeOK', NEW c \in Producers, OtherProducers(c),
         \A d \in Producers : Produces(d),
         UNCHANGED consTail, \A p \in Prios : Reserved(p) <= Reserved(p)',
         \A d \in Producers \ {c}, p \in Prios : Holding(d) /\ p = prio[d] =>
           /\ Produced(p)' <= Pos(head[d])
           /\ slot'[p][SlotOf(Pos(head[d]))] = slot[p][SlotOf(Pos(head[d]))]
  PROVE  \A d \in Producers \ {c} : Produces(d)'
<1> SUFFICES ASSUME NEW d \in Producers \ {c} PROVE Produces(d)'
  OBVIOUS
<1>1. ppc'[d] = ppc[d] /\ prio'[d] = prio[d] /\ object'[d] = object[d] /\ head'[d] = head[d]
  BY DEF OtherProducers
<1>2. PICK p \in Prios : p = prio[d]
  BY ProducerAt
<1>3. PICK n, h : n = Reserved(p)' /\ h = Pos(head[d])
  OBVIOUS
<1>4. n \in Nat /\ h \in Nat /\ Reserved(p) \in Nat /\ Reserved(p) <= n
  BY <1>3, EndPositions, EndPositionsNext, HeadPosition
<1>5. Consumed(p)' = Consumed(p) /\ (Holding(d)' <=> Holding(d)) /\ Pos(head'[d]) = h
  BY <1>1, <1>3 DEF Consumed, Holding
<1>6. Produces(d)
  OBVIOUS
<1>7. /\ ppc[d] \in {"room", "cas"} => h <= n
      /\ Holding(d) => h < n
  BY <1>2, <1>3, <1>4, <1>6 DEF Produces
<1>8. Holding(d) => /\ Produced(p)' <= h
                    /\ slot'[p][SlotOf(h)] = slot[p][SlotOf(h)]
  BY <1>2, <1>3
<1>9. ppc[d] = "publish" => Holding(d)
  BY DEF Holding
<1>10. QED
  BY <1>1, <1>2, <1>3, <1>5, <1>6, <1>7, <1>8, <1>9 DEF Produces

\* ... and what it must be for c to have its slot to itself.
LEMMA ProducersStayApart ==
  ASSUME ProducersApart, NEW c \in Producers, OtherProducers(c),
         Holding(c)' =>
           \/ Holding(c) /\ prio'[c] = prio[c] /\ head'[c] = head[c]
           \/ \A d \in Producers \ {c} : Holding(d) /\ prio[d] = prio'[c] => head[d] # head'[c]
  PROVE  ProducersApart'
<1>1. \A d \in Producers \ {c} : /\ Holding(d)' <=> Holding(d)
                                 /\ prio'[d] = prio[d] /\ head'[d] = head[d]
  BY DEF OtherProducers, Holding
<1>2. QED
  BY <1>1 DEF ProducersApart

\* A step of consumer c, seen by another one.
OtherConsumers(c) ==
  \A d \in Consumers \ {c} :
    /\ cpc'[d] = cpc[d] /\ heads'[d] = heads[d] /\ entries'[d] = entries[d]
    /\ at'[d] = at[d] /\ copied'[d] = copied[d] /\ got'[d] = got[d]

LEMMA OtherConsumersSame ==
  ASSUME NEW c, OtherConsumers(c), NEW d \in Consumers \ {c}
  PROVE  /\ Busy(d)' <=> Busy(d)
         /\ \A p \in Prios : /\ First(d, p)' = First(d, p) /\ End(d, p)' = End(d, p)
                             /\ Owns(d, p)' <=> Owns(d, p)
BY DEF OtherConsumers, Busy, First, End, Owns

LEMMA OtherConsumersKept ==
  ASSUME TypeOK, TypeOK', NEW c \in Consumers, OtherConsumers(c),
         \A d \in Consumers : Consumes(d),
         UNCHANGED prodTail, \A p \in Prios : Claimed(p) <= Claimed(p)',
         \A d \in Consumers \ {c}, p \in Prios : Owns(d, p) => Consumed(p)' <= First(d, p)
  PROVE  \A d \in Consumers \ {c} : Consumes(d)'
<1> SUFFICES ASSUME NEW d \in Consumers \ {c} PROVE Consumes(d)'
  OBVIOUS
<1>1. /\ cpc'[d] = cpc[d] /\ heads'[d] = heads[d] /\ entries'[d] = entries[d]
      /\ at'[d] = at[d] /\ copied'[d] = copied[d] /\ got'[d] = got[d]
  BY DEF OtherConsumers
<1>2. /\ Busy(d)' <=> Busy(d)
      /\ \A p \in Prios : /\ First(d, p)' = First(d, p) /\ End(d, p)' = End(d, p)
                          /\ Owns(d, p)' <=> Owns(d, p)
  BY OtherConsumersSame
<1>3. Consumes(d)
  OBVIOUS
<1>4. ASSUME NEW p \in Prios
      PROVE  /\ First(d, p) <= Claimed(p) => First(d, p) <= Claimed(p)'
             /\ End(d, p) <= Claimed(p) => End(d, p) <= Claimed(p)'
             /\ Produced(p)' = Produced(p)
  <2>1. PICK n : n = Claimed(p)'
    OBVIOUS
  <2>2. n \in Nat /\ Claimed(p) \in Nat /\ Claimed(p) <= n
    BY <2>1, EndPositions, EndPositionsNext
  <2>3. QED
    BY <2>1, <2>2, BurstPosition DEF Produced
<1>5. QED
  BY <1>1, <1>2, <1>3, <1>4 DEF Consumes

LEMMA ConsumersStayApart ==
  ASSUME ConsumersApart, NEW c \in Consumers, OtherConsumers(c),
         \A p \in Prios : Owns(c, p)' =>
           \/ Owns(c, p) /\ First(c, p)' = First(c, p) /\ End(c, p)' = End(c, p)
           \/ \A d \in Consumers \ {c} : Owns(d, p) => End(d, p) <= First(c, p)'
  PROVE  ConsumersApart'
<1>1. \A d \in Consumers \ {c}, p \in Prios :
        /\ First(d, p)' = First(d, p) /\ End(d, p)' = End(d, p)
        /\ Owns(d, p)' <=> Owns(d, p)
  BY OtherConsumersSame
<1>2. ASSUME NEW d \in Consumers \ {c}, NEW p \in Prios, Owns(c, p)', Owns(d, p)'
      PROVE  End(c, p)' <= First(d, p)' \/ End(d, p)' <= First(c, p)'
  <2>1. Owns(d, p) /\ First(d, p)' = First(d, p) /\ End(d, p)' = End(d, p) /\ d \in Consumers
    BY <1>1, <1>2
  <2>2. CASE Owns(c, p) /\ First(c, p)' = First(c, p) /\ End(c, p)' = End(c, p)
    BY <2>1, <2>2 DEF ConsumersApart
  <2>3. CASE \A e \in Consumers \ {c} : Owns(e, p) => End(e, p) <= First(c, p)'
    BY <2>1, <2>3
  <2>4. QED
    BY <1>2, <2>2, <2>3
<1>3. ASSUME NEW d \in Consumers \ {c}, NEW e \in Consumers \ {c}, NEW p \in Prios,
             Owns(d, p)', Owns(e, p)'
      PROVE  d = e \/ End(d, p)' <= First(e, p)' \/ End(e, p)' <= First(d, p)'
  BY <1>1, <1>3 DEF ConsumersApart
<1>4. QED
  BY <1>2, <1>3 DEF ConsumersApart

-----------------------------------------------------------------------------
(* The steps of a producer *)

LEMMA ProducerStep ==
  ASSUME IInv, TypeOK', NEW c \in Producers, OtherProducers(c),
         UNCHANGED <<consVars, consHead, consTail>>,
         \A p \in Prios : /\ Window(p)'
                          /\ Produced(p) <= Produced(p)' /\ Reserved(p) <= Reserved(p)',
         Numbered', Produces(c)',
         \A d \in Producers \ {c}, p \in Prios : Holding(d) /\ p = prio[d] =>
           /\ Produced(p)' <= Pos(head[d])
           /\ slot'[p][SlotOf(Pos(head[d]))] = slot[p][SlotOf(Pos(head[d]))],
         Holding(c)' =>
           \/ Holding(c) /\ prio'[c] = prio[c] /\ head'[c] = head[c]
           \/ \A d \in Producers \ {c} : Holding(d) /\ prio[d] = prio'[c] => head[d] # head'[c]
  PROVE  IInv'
<1>1. /\ TypeOK /\ ProducersApart /\ ConsumersApart
      /\ \A d \in Producers : Produces(d)
      /\ \A d \in Consumers : Consumes(d)
  BY DEF IInv
<1>2. (\A d \in Consumers : Consumes(d)') /\ ConsumersApart'
  BY <1>1, ConsumersKept
<1>3. \A d \in Producers \ {c} : Produces(d)'
  BY <1>1, OtherProducersKept
<1>4. ProducersApart'
  BY <1>1, ProducersStayApart
<1>5. QED
  BY <1>2, <1>3, <1>4 DEF IInv

\* A step that touches the state of a call only.
LEMMA SameRing ==
  ASSUME IInv, UNCHANGED ringVars
  PROVE  /\ \A p \in Prios :
              /\ Reserved(p)' = Reserved(p) /\ Produced(p)' = Produced(p)
              /\ Claimed(p)' = Claimed(p) /\ Consumed(p)' = Consumed(p)
              /\ Window(p)'
              /\ Reserved(p) <= Reserved(p) /\ Produced(p) <= Produced(p)
              /\ Claimed(p) <= Claimed(p) /\ Consumed(p) <= Consumed(p)
         /\ slot' = slot
<1>1. \A p \in Prios :
        /\ Reserved(p)' = Reserved(p) /\ Produced(p)' = Produced(p)
        /\ Claimed(p)' = Claimed(p) /\ Consumed(p)' = Consumed(p)
  BY DEF ringVars, Reserved, Produced, Claimed, Consumed
<1>2. \A p \in Prios : Window(p)'
  BY <1>1 DEF IInv, Window
<1>3. \A p \in Prios :
        /\ Reserved(p) <= Reserved(p) /\ Produced(p) <= Produced(p)
        /\ Claimed(p) <= Claimed(p) /\ Consumed(p) <= Consumed(p)
  BY EndPositions DEF IInv
<1>4. QED
  BY <1>1, <1>2, <1>3 DEF ringVars

\* A step of a producer on its way to a slot; it reserves none.
LEMMA PrivateStep ==
  ASSUME IInv, TypeOK', NEW c \in Producers, OtherProducers(c),
         UNCHANGED <<consVars, ringVars>>, Numbered', Produces(c)', ~Holding(c)'
  PROVE  IInv'
<1>1. \A d \in Producers \ {c}, p \in Prios : Holding(d) /\ p = prio[d] =>
        /\ Produced(p)' <= Pos(head[d])
        /\ slot'[p][SlotOf(Pos(head[d]))] = slot[p][SlotOf(Pos(head[d]))]
  BY SameRing DEF IInv, Produces
<1>2. \A p \in Prios : /\ Window(p)'
                       /\ Produced(p) <= Produced(p)' /\ Reserved(p) <= Reserved(p)'
  BY SameRing
<1>3. UNCHANGED <<consVars, consHead, consTail>>
  BY DEF ringVars
<1>4. QED
  BY <1>1, <1>2, <1>3, ProducerStep

\* Who has not reserved a slot yet.
LEMMA EnteringFacts ==
  ASSUME IInv
  PROVE  /\ IsFiniteSet(Entering) /\ Cardinality(Entering) \in Nat /\ made \in Nat
         /\ \A p \in Prios : Reserved(p) \in Nat /\ Reserved(p) + Cardinality(Entering) <= made
<1>1. TypeOK /\ Numbered
  BY DEF IInv
<1>2. made \in Nat
  BY <1>1, ConstantFacts DEF TypeOK
<1>3. IsFiniteSet(Entering) /\ Cardinality(Entering) \in Nat
  BY <1>1, FS_CardinalityType DEF Numbered
<1>4. \A p \in Prios : Reserved(p) \in Nat /\ Reserved(p) + Cardinality(Entering) <= made
  BY <1>1, EndPositions DEF Numbered
<1>5. QED
  BY <1>2, <1>3, <1>4

LEMMA EntersOrLeaves ==
  ASSUME IInv, NEW c \in Producers
  PROVE  /\ IsFiniteSet(Entering \cup {c}) /\ IsFiniteSet(Entering \ {c})
         /\ Cardinality(Entering \cup {c}) \in Nat /\ Cardinality(Entering \ {c}) \in Nat
         /\ Cardinality(Entering \cup {c}) <= Cardinality(Entering) + 1
         /\ Cardinality(Entering \ {c}) <= Cardinality(Entering)
         /\ c \in Entering => Cardinality(Entering \ {c}) + 1 = Cardinality(Entering)
<1>1. IsFiniteSet(Entering) /\ Cardinality(Entering) \in Nat
  BY EnteringFacts
<1>2. /\ IsFiniteSet(Entering \cup {c})
      /\ Cardinality(Entering \cup {c}) =
           IF c \in Entering THEN Cardinality(Entering) ELSE Cardinality(Entering) + 1
  BY <1>1, FS_AddElement
<1>3. /\ IsFiniteSet(Entering \ {c})
      /\ Cardinality(Entering \ {c}) =
           IF c \in Entering THEN Cardinality(Entering) - 1 ELSE Cardinality(Entering)
  BY <1>1, FS_RemoveElement
<1>4. Cardinality(Entering \ {c}) \in Nat
  BY <1>3, FS_CardinalityType
<1>5. QED
  BY <1>1, <1>2, <1>3, <1>4

\* The call is over, refused.
LEMMA RefusedKeeps ==
  ASSUME IInv, TypeOK', NEW c \in Producers, Room(c), EnqueueReturns(c)
  PROVE  IInv'
<1>1. OtherProducers(c) /\ UNCHANGED <<consVars, ringVars, made>>
  BY DEF IInv, TypeOK, Room, EnqueueReturns, PGoto, OtherProducers
<1>2. ppc'[c] = "idle"
  BY DEF IInv, TypeOK, EnqueueReturns, PGoto
<1>3. Entering' = Entering \ {c}
  BY <1>1, <1>2 DEF Entering, OtherProducers
<1>4. Numbered'
  <2>1. \A p \in Prios : Reserved(p) + Cardinality(Entering \ {c}) <= made
    BY EnteringFacts, EntersOrLeaves
  <2>2. QED
    BY <1>1, <1>3, <2>1, SameRing, EntersOrLeaves DEF Numbered
<1>5. Produces(c)' /\ ~Holding(c)'
  BY <1>2 DEF Produces, Holding
<1>6. QED
  BY <1>1, <1>4, <1>5, PrivateStep

LEMMA EnqueueKeeps ==
  ASSUME IInv, TypeOK', NEW c \in Producers, NEW p \in UsedPrios, Enqueue(c, p)
  PROVE  IInv'
<1>1. OtherProducers(c) /\ UNCHANGED <<consVars, ringVars>>
  BY DEF IInv, TypeOK, Enqueue, PGoto, OtherProducers
<1>2. /\ ppc'[c] = "room" /\ prio'[c] = p /\ head'[c] = prodHead[p] /\ object'[c] = made + 1
      /\ made' = made + 1 /\ made < MaxObjects /\ ppc[c] = "idle" /\ p \in Prios
  BY ConstantsAssumption DEF IInv, TypeOK, Enqueue, PGoto
<1>3. Entering' = Entering \cup {c}
  BY <1>1, <1>2 DEF Entering, OtherProducers
<1>4. Numbered'
  <2>1. ASSUME NEW q \in Prios
        PROVE  Reserved(q) + Cardinality(Entering \cup {c}) <= made + 1
    <3>1. /\ Reserved(q) \in Nat /\ Cardinality(Entering) \in Nat /\ made \in Nat
          /\ Reserved(q) + Cardinality(Entering) <= made
      BY EnteringFacts
    <3>2. /\ Cardinality(Entering \cup {c}) \in Nat
          /\ Cardinality(Entering \cup {c}) <= Cardinality(Entering) + 1
      BY EntersOrLeaves
    <3>3. QED
      BY <3>1, <3>2
  <2>2. QED
    BY <1>1, <1>2, <1>3, <2>1, SameRing, EntersOrLeaves DEF Numbered
<1>5. Produces(c)' /\ ~Holding(c)'
  <2>1. made + 1 \in Objects
    BY <1>2, EnteringFacts, ConstantFacts DEF Objects
  <2>2. Pos(head'[c]) <= Reserved(p)'
    <3>1. Pos(head'[c]) = Reserved(p)
      BY <1>2 DEF Reserved
    <3>2. QED
      BY <1>1, <1>2, <3>1, SameRing
  <2>3. QED
    BY <1>2, <2>1, <2>2 DEF Produces, Holding
<1>6. QED
  BY <1>1, <1>4, <1>5, PrivateStep

\* A producer that found room finds it still: nobody takes it but with a new prod.head.
LEMMA RoomKeeps ==
  ASSUME IInv, TypeOK', NEW c \in Producers, Room(c), ~EnqueueReturns(c)
  PROVE  IInv'
<1>1. /\ OtherProducers(c) /\ UNCHANGED <<consVars, ringVars, made>>
      /\ ppc[c] = "room" /\ ppc'[c] = "cas" /\ prio'[c] = prio[c] /\ head'[c] = head[c]
      /\ object'[c] = object[c] /\ FreeEntries(consTail[prio[c]], head[c]) # 0
  BY DEF IInv, TypeOK, Room, PGoto, OtherProducers
<1>2. Entering' = Entering
  BY <1>1 DEF Entering, OtherProducers
<1>3. Numbered'
  BY <1>1, <1>2, SameRing DEF Numbered, IInv
<1>4. PICK p \in Prios : p = prio[c]
  BY ProducerAt DEF IInv
<1>5. PICK h \in Index : h = head[c]
  BY ProducerAt DEF IInv
<1>6. /\ TypeOK /\ Window(p) /\ Numbered /\ Produces(c)
      /\ Consumed(p) \in Nat /\ Reserved(p) \in Nat /\ Pos(h) \in Nat
  BY <1>5, EndPositions, PosFacts DEF IInv
<1>7. Pos(h) <= Reserved(p) /\ object[c] \in Objects
  BY <1>1, <1>4, <1>5, <1>6 DEF Produces
<1>8. Pos(h) < Consumed(p) + RingSize - 1
  <2>1. /\ Reserved(p) <= Consumed(p) + RingSize - 1
        /\ Consumed(p) <= MaxObjects /\ Reserved(p) <= MaxObjects
    BY <1>6, WithinObjects DEF Window
  <2>2. PICK t \in Index : t = consTail[p]
    BY <1>6, EndTypes
  <2>3. Consumed(p) = Pos(t)
    BY <2>2 DEF Consumed
  <2>4. /\ Pos(t) <= MaxObjects /\ Pos(h) <= Pos(t) + RingSize - 1 /\ Pos(h) <= MaxObjects
    BY <1>6, <1>7, <2>1, <2>3, ConstantFacts
  <2>5. FreeEntries(t, h) = RingSize - 1 + Pos(t) - Pos(h)
    BY <2>4, FreePos
  <2>6. FreeEntries(t, h) # 0
    BY <1>1, <1>4, <1>5, <2>2
  <2>7. QED
    BY <1>6, <2>3, <2>4, <2>5, <2>6, ConstantFacts
<1>9. Produces(c)' /\ ~Holding(c)'
  <2>1. Reserved(p)' = Reserved(p) /\ Consumed(p)' = Consumed(p)
    BY <1>1, SameRing
  <2>2. QED
    BY <1>1, <1>4, <1>5, <1>7, <1>8, <2>1 DEF Produces, Holding
<1>10. QED
  BY <1>1, <1>3, <1>9, PrivateStep

LEMMA ReadHeadAgainKeeps ==
  ASSUME IInv, TypeOK', NEW c \in Producers, ReadHeadAgain(c)
  PROVE  IInv'
<1>1. /\ OtherProducers(c) /\ UNCHANGED <<consVars, ringVars, made>>
      /\ ppc[c] = "head" /\ ppc'[c] = "room" /\ prio'[c] = prio[c]
      /\ head'[c] = prodHead[prio[c]] /\ object'[c] = object[c]
  BY DEF IInv, TypeOK, ReadHeadAgain, PGoto, OtherProducers
<1>2. Entering' = Entering
  BY <1>1 DEF Entering, OtherProducers
<1>3. Numbered'
  BY <1>1, <1>2, SameRing DEF Numbered, IInv
<1>4. PICK p \in Prios : p = prio[c]
  BY ProducerAt DEF IInv
<1>5. Produces(c)' /\ ~Holding(c)'
  <2>1. Reserved(p)' = Pos(head'[c]) /\ Pos(head'[c]) <= Reserved(p)'
    BY <1>1, <1>4, SameRing DEF Reserved
  <2>2. QED
    BY <1>1, <1>4, <2>1 DEF IInv, Produces, Holding
<1>6. QED
  BY <1>1, <1>3, <1>5, PrivateStep

\* The compare-and-set of prod.head fails, ...
LEMMA ReserveSlotFails ==
  ASSUME IInv, TypeOK', NEW c \in Producers, ReserveSlot(c), prodHead[prio[c]] # head[c]
  PROVE  IInv'
<1>1. /\ OtherProducers(c) /\ UNCHANGED <<consVars, ringVars, made>>
      /\ ppc[c] = "cas" /\ ppc'[c] = "head" /\ object'[c] = object[c]
  BY DEF IInv, TypeOK, ReserveSlot, PGoto, OtherProducers, ringVars
<1>2. Entering' = Entering
  BY <1>1 DEF Entering, OtherProducers
<1>3. Numbered'
  BY <1>1, <1>2, SameRing DEF Numbered, IInv
<1>4. Produces(c)' /\ ~Holding(c)'
  BY <1>1 DEF IInv, Produces, Holding
<1>5. QED
  BY <1>1, <1>3, <1>4, PrivateStep

\* ... or reserves the slot: there is room for it, as when cons.tail was read.
LEMMA ReserveSlotKeeps ==
  ASSUME IInv, TypeOK', NEW c \in Producers, ReserveSlot(c), prodHead[prio[c]] = head[c]
  PROVE  IInv'
<1>1. /\ OtherProducers(c)
      /\ UNCHANGED <<consVars, prodTail, consHead, consTail, slot, made>>
      /\ ppc[c] = "cas" /\ ppc'[c] = "write" /\ prio'[c] = prio[c] /\ head'[c] = head[c]
      /\ object'[c] = object[c]
  BY DEF IInv, TypeOK, ReserveSlot, PGoto, OtherProducers
<1>2. PICK p \in Prios : p = prio[c]
  BY ProducerAt DEF IInv
<1>3. PICK h \in Index : h = head[c] /\ h = prodHead[p]
  BY <1>2, ProducerAt DEF IInv
<1>4. /\ prodHead' = [prodHead EXCEPT ![p] = Plus(h, 1)]
      /\ prodHead'[p] = Plus(h, 1) /\ \A q \in Prios \ {p} : prodHead'[q] = prodHead[q]
  BY <1>2, <1>3 DEF IInv, TypeOK, ReserveSlot
<1>5. /\ TypeOK /\ Numbered /\ Produces(c) /\ \A q \in Prios : Window(q)
      /\ \A q \in Prios : /\ Reserved(q) \in Nat /\ Produced(q) \in Nat
                          /\ Claimed(q) \in Nat /\ Consumed(q) \in Nat
  BY EndPositions DEF IInv
<1>6. Reserved(p) = Pos(h) /\ Pos(h) \in Nat
  BY <1>3, <1>5 DEF Reserved
<1>7. Reserved(p)' = Reserved(p) + 1
  <2>1. Pos(h) + 1 < IndexMod
    BY <1>5, <1>6, WithinObjects
  <2>2. Pos(Plus(h, 1)) = Pos(h) + 1
    BY <1>6, <2>1, PlusPos
  <2>3. QED
    BY <1>4, <1>6, <2>2 DEF Reserved
<1>8. \A q \in Prios : /\ q # p => Reserved(q)' = Reserved(q)
                       /\ Produced(q)' = Produced(q)
                       /\ Claimed(q)' = Claimed(q) /\ Consumed(q)' = Consumed(q)
  BY <1>1, <1>4 DEF Reserved, Produced, Claimed, Consumed
<1>9. Reserved(p) < Consumed(p) + RingSize - 1 /\ Produced(p) <= Reserved(p)
  BY <1>1, <1>2, <1>3, <1>5, <1>6 DEF Produces, Window
<1>10. \A q \in Prios : /\ Window(q)'
                        /\ Produced(q) <= Produced(q)' /\ Reserved(q) <= Reserved(q)'
  <2>1. Window(p)' /\ Produced(p) <= Produced(p)' /\ Reserved(p) <= Reserved(p)'
    BY <1>5, <1>7, <1>8, <1>9, ConstantFacts DEF Window
  <2>2. ASSUME NEW q \in Prios, q # p
        PROVE  Window(q)' /\ Produced(q) <= Produced(q)' /\ Reserved(q) <= Reserved(q)'
    BY <1>5, <1>8, <2>2 DEF Window
  <2>3. QED
    BY <2>1, <2>2
<1>11. Numbered'
  <2>1. c \in Entering /\ Entering' = Entering \ {c}
    BY <1>1 DEF Entering, OtherProducers
  <2>2. ASSUME NEW q \in Prios
        PROVE  Reserved(q)' + Cardinality(Entering \ {c}) <= made
    <3>1. /\ Reserved(q) \in Nat /\ Cardinality(Entering) \in Nat /\ made \in Nat
          /\ Reserved(q) + Cardinality(Entering) <= made
      BY EnteringFacts
    <3>2. /\ Cardinality(Entering \ {c}) \in Nat
          /\ Cardinality(Entering \ {c}) + 1 = Cardinality(Entering)
      BY <2>1, EntersOrLeaves
    <3>3. Reserved(q)' = Reserved(q) \/ Reserved(q)' = Reserved(q) + 1
      BY <1>7, <1>8
    <3>4. QED
      BY <3>1, <3>2, <3>3
  <2>3. QED
    BY <1>1, <2>1, <2>2, EntersOrLeaves DEF Numbered
<1>12. Produces(c)'
  <2>1. Produced(p)' <= Pos(h) /\ Pos(h) < Reserved(p)'
    BY <1>5, <1>6, <1>7, <1>8, <1>9
  <2>2. QED
    BY <1>1, <1>2, <1>3, <1>5, <2>1 DEF Produces, Holding
<1>13. ASSUME NEW d \in Producers \ {c}, NEW q \in Prios, Holding(d), q = prio[d]
       PROVE  /\ Produced(q)' <= Pos(head[d])
              /\ slot'[q][SlotOf(Pos(head[d]))] = slot[q][SlotOf(Pos(head[d]))]
  BY <1>1, <1>8, <1>13 DEF IInv, Produces
<1>14. ASSUME NEW d \in Producers \ {c}, Holding(d), prio[d] = prio'[c]
       PROVE  head[d] # head'[c]
  <2>1. Pos(head[d]) < Pos(h)
    BY <1>1, <1>2, <1>6, <1>14 DEF IInv, Produces
  <2>2. QED
    BY <1>1, <1>3, <1>6, <2>1
<1>15. QED
  BY <1>1, <1>10, <1>11, <1>12, <1>13, <1>14, ProducerStep

\* The slot written is no other producer's.
LEMMA WriteKeeps ==
  ASSUME IInv, TypeOK', NEW c \in Producers, Write(c)
  PROVE  IInv'
<1>1. /\ OtherProducers(c)
      /\ UNCHANGED <<consVars, prodHead, prodTail, consHead, consTail, made>>
      /\ ppc[c] = "write" /\ ppc'[c] = "publish" /\ prio'[c] = prio[c] /\ head'[c] = head[c]
      /\ object'[c] = object[c]
  BY DEF IInv, TypeOK, Write, PGoto, OtherProducers
<1>2. PICK p \in Prios : p = prio[c]
  BY ProducerAt DEF IInv
<1>3. PICK h \in Index : h = head[c]
  BY ProducerAt DEF IInv
<1>4. h % RingSize = SlotOf(Pos(h)) /\ SlotOf(Pos(h)) \in 0..RingSize - 1
  BY SlotPos
<1>5. slot' = [slot EXCEPT ![p][SlotOf(Pos(h))] = object[c]]
  BY <1>2, <1>3, <1>4 DEF Write
<1>6. /\ slot'[p][SlotOf(Pos(h))] = object[c]
      /\ \A k \in 0..RingSize - 1 : k # SlotOf(Pos(h)) => slot'[p][k] = slot[p][k]
      /\ \A q \in Prios \ {p} : slot'[q] = slot[q]
  <2>1. slot \in [Prios -> [0..RingSize - 1 -> Objects \cup {None}]]
    BY DEF IInv, TypeOK
  <2>2. QED
    BY <1>4, <1>5, <2>1
<1>7. \A q \in Prios : /\ Reserved(q)' = Reserved(q) /\ Produced(q)' = Produced(q)
                       /\ Claimed(q)' = Claimed(q) /\ Consumed(q)' = Consumed(q)
                       /\ Window(q)
                       /\ Reserved(q) \in Nat /\ Produced(q) \in Nat
                       /\ Claimed(q) \in Nat /\ Consumed(q) \in Nat
  BY <1>1, EndPositions DEF IInv, Reserved, Produced, Claimed, Consumed
<1>8. \A q \in Prios : /\ Window(q)'
                       /\ Produced(q) <= Produced(q)' /\ Reserved(q) <= Reserved(q)'
  BY <1>7 DEF Window
<1>9. Numbered'
  <2>1. Entering' = Entering
    BY <1>1 DEF Entering, OtherProducers
  <2>2. QED
    BY <1>1, <1>7, <2>1 DEF IInv, Numbered
<1>10. Produces(c)'
  BY <1>1, <1>2, <1>3, <1>6, <1>7 DEF IInv, Produces, Holding
<1>11. ASSUME NEW d \in Producers \ {c}, NEW q \in Prios, Holding(d), q = prio[d]
       PROVE  /\ Produced(q)' <= Pos(head[d])
              /\ slot'[q][SlotOf(Pos(head[d]))] = slot[q][SlotOf(Pos(head[d]))]
  <2>1. PICK k \in Index : k = head[d]
    BY ProducerAt DEF IInv
  <2>2. /\ Produced(q) <= Pos(k) /\ Pos(k) < Reserved(q) /\ Pos(k) \in Nat /\ Pos(h) \in Nat
        /\ Produced(p) <= Pos(h) /\ Pos(h) < Reserved(p)
    BY <1>1, <1>2, <1>3, <1>11, <2>1, PosFacts DEF IInv, Produces, Holding
  <2>3. CASE q = p
    <3>1. h # k
      BY <1>1, <1>2, <1>3, <1>11, <2>1, <2>3 DEF IInv, ProducersApart, Holding
    <3>2. Pos(h) # Pos(k)
      BY <3>1, PosInjective
    <3>3. Pos(h) < Pos(k) + RingSize /\ Pos(k) < Pos(h) + RingSize
      <4>1. /\ Reserved(p) <= Consumed(p) + RingSize - 1
            /\ Consumed(p) <= Claimed(p) /\ Claimed(p) <= Produced(p)
        BY <1>7 DEF Window
      <4>2. QED
        BY <1>7, <2>2, <2>3, <4>1, ConstantFacts
    <3>4. SlotOf(Pos(k)) # SlotOf(Pos(h))
      BY <2>2, <3>2, <3>3, SlotsApart
    <3>5. SlotOf(Pos(k)) \in 0..RingSize - 1
      BY SlotPos
    <3>6. QED
      BY <1>6, <1>7, <2>1, <2>2, <2>3, <3>4, <3>5
  <2>4. CASE q # p
    BY <1>6, <1>7, <2>1, <2>2, <2>4
  <2>5. QED
    BY <2>3, <2>4
<1>12. Holding(c)
  BY <1>1 DEF Holding
<1>13. QED
  BY <1>1, <1>8, <1>9, <1>10, <1>11, <1>12, ProducerStep

\* A producer publishes its slot when it is the next to be published.
LEMMA PublishFacts ==
  ASSUME IInv, NEW c \in Producers, Publish(c), NEW p \in Prios, p = prio[c]
  PROVE  /\ Produced(p) = Pos(head[c]) /\ Produced(p) < Reserved(p)
         /\ Produced(p)' = Produced(p) + 1
         /\ \A q \in Prios \ {p} : Produced(q)' = Produced(q)
<1>1. PICK h \in Index : h = head[c] /\ h = prodTail[p]
  BY ProducerAt DEF IInv, Publish
<1>2. prodTail'[p] = Plus(h, 1) /\ \A q \in Prios \ {p} : prodTail'[q] = prodTail[q]
  BY <1>1 DEF IInv, TypeOK, Publish
<1>3. Produced(p) = Pos(h) /\ Pos(h) \in Nat /\ Pos(h) < Reserved(p)
  <2>1. Produced(p) = Pos(h)
    BY <1>1 DEF Produced
  <2>2. Pos(h) < Reserved(p) /\ Pos(h) \in Nat
    BY <1>1, HeadPosition DEF IInv, Produces, Holding, Publish
  <2>3. QED
    BY <2>1, <2>2
<1>4. Pos(h) + 1 < IndexMod
  <2>1. Reserved(p) <= MaxObjects /\ Reserved(p) \in Nat
    BY WithinObjects, EndPositions DEF IInv
  <2>2. QED
    BY <1>3, <2>1, ConstantFacts
<1>5. Pos(Plus(h, 1)) = Pos(h) + 1
  BY <1>3, <1>4, PlusPos
<1>6. Produced(p)' = Produced(p) + 1
  BY <1>2, <1>3, <1>5 DEF Produced
<1>7. \A q \in Prios \ {p} : Produced(q)' = Produced(q)
  BY <1>2 DEF Produced
<1>8. QED
  BY <1>1, <1>3, <1>6, <1>7

\* The tail goes past the slot of this producer, and of nobody else.
LEMMA PublishKeeps ==
  ASSUME IInv, TypeOK', NEW c \in Producers, Publish(c)
  PROVE  IInv'
<1>1. /\ OtherProducers(c)
      /\ UNCHANGED <<consVars, prodHead, consHead, consTail, slot, made>>
      /\ ppc[c] = "publish" /\ ppc'[c] = "idle"
  BY DEF IInv, TypeOK, Publish, EnqueueReturns, PGoto, OtherProducers
<1>2. PICK p \in Prios : p = prio[c]
  BY ProducerAt DEF IInv
<1>3. PICK h \in Index : h = head[c]
  BY ProducerAt DEF IInv
<1>4. /\ Produced(p) = Pos(h) /\ Pos(h) < Reserved(p) /\ Produced(p)' = Produced(p) + 1
      /\ \A q \in Prios \ {p} : Produced(q)' = Produced(q)
  BY <1>2, <1>3, PublishFacts
<1>5. /\ TypeOK /\ Numbered /\ Produces(c) /\ \A q \in Prios : Window(q)
      /\ \A q \in Prios : /\ Reserved(q) \in Nat /\ Produced(q) \in Nat
                          /\ Claimed(q) \in Nat /\ Consumed(q) \in Nat
  BY EndPositions DEF IInv
<1>6. Produced(p) = Pos(h) /\ Pos(h) \in Nat /\ Pos(h) < Reserved(p)
  BY <1>4, <1>5
<1>7. Produced(p)' = Produced(p) + 1
  BY <1>4
<1>8. \A q \in Prios : /\ q # p => Produced(q)' = Produced(q)
                       /\ Reserved(q)' = Reserved(q)
                       /\ Claimed(q)' = Claimed(q) /\ Consumed(q)' = Consumed(q)
  BY <1>1, <1>4 DEF Reserved, Produced, Claimed, Consumed
<1>9. \A q \in Prios : /\ Window(q)'
                       /\ Produced(q) <= Produced(q)' /\ Reserved(q) <= Reserved(q)'
  <2>1. Window(p)' /\ Produced(p) <= Produced(p)' /\ Reserved(p) <= Reserved(p)'
    BY <1>5, <1>6, <1>7, <1>8, ConstantFacts DEF Window
  <2>2. ASSUME NEW q \in Prios, q # p
        PROVE  Window(q)' /\ Produced(q) <= Produced(q)' /\ Reserved(q) <= Reserved(q)'
    BY <1>5, <1>8, <2>2 DEF Window
  <2>3. QED
    BY <2>1, <2>2
<1>10. Numbered'
  <2>1. Entering' = Entering
    BY <1>1 DEF Entering, OtherProducers
  <2>2. QED
    BY <1>1, <1>8, <2>1 DEF IInv, Numbered, Reserved
<1>11. Produces(c)' /\ ~Holding(c)' /\ Holding(c)
  BY <1>1 DEF Produces, Holding
<1>12. ASSUME NEW d \in Producers \ {c}, NEW q \in Prios, Holding(d), q = prio[d]
       PROVE  /\ Produced(q)' <= Pos(head[d])
              /\ slot'[q][SlotOf(Pos(head[d]))] = slot[q][SlotOf(Pos(head[d]))]
  <2>1. PICK k \in Index : k = head[d]
    BY ProducerAt DEF IInv
  <2>2. Produced(q) <= Pos(k) /\ Pos(k) \in Nat
    BY <1>12, <2>1, PosFacts DEF IInv, Produces
  <2>3. CASE q = p
    <3>1. h # k
      BY <1>2, <1>3, <1>11, <1>12, <2>1, <2>3 DEF IInv, ProducersApart
    <3>2. Pos(h) # Pos(k)
      BY <3>1, PosInjective
    <3>3. QED
      BY <1>1, <1>6, <1>7, <2>1, <2>2, <2>3, <3>2
  <2>4. CASE q # p
    BY <1>1, <1>8, <2>1, <2>2, <2>4
  <2>5. QED
    BY <2>3, <2>4
<1>13. QED
  BY <1>1, <1>9, <1>10, <1>11, <1>12, ProducerStep

LEMMA ProducersKeep ==
  ASSUME IInv, NEW c \in Producers, EnqueueStep(c)
  PROVE  IInv'
<1>1. TypeOK'
  BY ProducerTypes DEF IInv
<1>2. Room(c) => IInv'
  BY <1>1, RefusedKeeps, RoomKeeps
<1>3. ReserveSlot(c) => IInv'
  BY <1>1, ReserveSlotFails, ReserveSlotKeeps
<1>4. QED
  BY <1>1, <1>2, <1>3, EnqueueKeeps, ReadHeadAgainKeeps, WriteKeeps, PublishKeeps DEF EnqueueStep

-----------------------------------------------------------------------------
(* The steps of a consumer *)

LEMMA ConsumerStep ==
  ASSUME IInv, TypeOK', NEW c \in Consumers, OtherConsumers(c),
         UNCHANGED <<prodVars, prodHead, prodTail, slot>>,
         \A p \in Prios : /\ Window(p)'
                          /\ Claimed(p) <= Claimed(p)' /\ Consumed(p) <= Consumed(p)',
         Consumes(c)',
         \A d \in Consumers \ {c}, p \in Prios : Owns(d, p) => Consumed(p)' <= First(d, p),
         \A p \in Prios : Owns(c, p)' =>
           \/ Owns(c, p) /\ First(c, p)' = First(c, p) /\ End(c, p)' = End(c, p)
           \/ \A d \in Consumers \ {c} : Owns(d, p) => End(d, p) <= First(c, p)'
  PROVE  IInv'
<1>1. /\ TypeOK /\ Numbered /\ ProducersApart /\ ConsumersApart
      /\ \A d \in Producers : Produces(d)
      /\ \A d \in Consumers : Consumes(d)
  BY DEF IInv
<1>2. Numbered' /\ (\A d \in Producers : Produces(d)') /\ ProducersApart'
  BY <1>1, ProducersKept
<1>3. \A d \in Consumers \ {c} : Consumes(d)'
  BY <1>1, OtherConsumersKept
<1>4. ConsumersApart'
  BY <1>1, ConsumersStayApart
<1>5. QED
  BY <1>2, <1>3, <1>4 DEF IInv

\* A step that leaves the ring alone and owns nothing it did not own.
LEMMA ReadingStep ==
  ASSUME IInv, TypeOK', NEW c \in Consumers, OtherConsumers(c),
         UNCHANGED <<ringVars, prodVars>>, Consumes(c)',
         \A p \in Prios : Owns(c, p)' =>
           Owns(c, p) /\ First(c, p)' = First(c, p) /\ End(c, p)' = End(c, p)
  PROVE  IInv'
<1>1. \A p \in Prios : /\ Window(p)'
                       /\ Claimed(p) <= Claimed(p)' /\ Consumed(p) <= Consumed(p)'
                       /\ Consumed(p)' = Consumed(p)
  BY SameRing
<1>2. \A d \in Consumers \ {c}, p \in Prios : Owns(d, p) => Consumed(p)' <= First(d, p)
  BY <1>1 DEF IInv, Consumes
<1>3. UNCHANGED <<prodVars, prodHead, prodTail, slot>>
  BY DEF ringVars
<1>4. QED
  BY <1>1, <1>2, <1>3, ConsumerStep

LEMMA ReadHeadsKeeps ==
  ASSUME IInv, TypeOK', NEW c \in Consumers, ReadHeads(c)
  PROVE  IInv'
<1>1. /\ OtherConsumers(c) /\ UNCHANGED <<ringVars, prodVars>>
      /\ cpc[c] \in {"idle", "retry"} /\ cpc'[c] = "tails" /\ heads'[c] = consHead
      /\ got'[c] = got[c] /\ copied'[c] = copied[c]
  BY DEF IInv, TypeOK, ReadHeads, CGoto, OtherConsumers
<1>2. ~Busy(c)' /\ ~Busy(c) /\ \A p \in Prios : ~Owns(c, p)'
  BY <1>1 DEF Busy, Owns
<1>3. got[c] = <<>> /\ copied[c] = 0
  BY <1>2 DEF IInv, Consumes
<1>4. \A p \in Prios : First(c, p)' <= Claimed(p)'
  <2>1. ASSUME NEW p \in Prios PROVE First(c, p)' = Claimed(p)
    BY <1>1 DEF First, Claimed
  <2>2. QED
    BY <1>1, <2>1, SameRing
<1>5. Consumes(c)'
  BY <1>1, <1>2, <1>3, <1>4 DEF Consumes
<1>6. QED
  BY <1>1, <1>2, <1>5, ReadingStep

\* The call is over, with an empty burst or when all is released.
LEMMA ReturnedConsumes ==
  ASSUME TypeOK, NEW c \in Consumers, DequeueReturns(c)
  PROVE  /\ OtherConsumers(c) /\ Consumes(c)' /\ \A p \in Prios : ~Owns(c, p)'
<1>1. OtherConsumers(c) /\ cpc'[c] = "idle" /\ got'[c] = <<>> /\ copied'[c] = 0
  BY DEF TypeOK, DequeueReturns, CGoto, OtherConsumers
<1>2. QED
  BY <1>1 DEF Consumes, Owns, Busy

\* What a consumer sees of a priority it can have: the heads it read are not ahead.
LEMMA SeenPos ==
  ASSUME IInv, NEW c \in Consumers, cpc[c] = "tails", NEW p \in Prios
  PROVE  Seen(c)[p] = Produced(p) - First(c, p) /\ First(c, p) <= Produced(p)
<1>1. PICK i \in Index, j \in Index : i = prodTail[p] /\ j = heads[c][p]
  BY EndTypes, ConsumerAt DEF IInv
<1>2. Pos(i) = Produced(p) /\ Pos(j) = First(c, p)
  BY <1>1 DEF Produced, First
<1>3. First(c, p) <= Claimed(p) /\ Claimed(p) <= Produced(p)
  BY DEF IInv, Consumes, Window
<1>4. Pos(j) <= Pos(i)
  BY <1>2, <1>3, EndPositions, BurstPosition DEF IInv
<1>5. Minus(i, j) = Pos(i) - Pos(j)
  BY <1>4, MinusPos
<1>6. Seen(c)[p] = Minus(i, j)
  BY <1>1 DEF Seen
<1>7. QED
  BY <1>2, <1>4, <1>5, <1>6

LEMMA ReadTailsKeeps ==
  ASSUME IInv, TypeOK', NEW c \in Consumers, ReadTails(c)
  PROVE  IInv'
<1>1. cpc[c] = "tails" /\ UNCHANGED <<ringVars, prodVars>> /\ ~Busy(c)
  BY DEF ReadTails, Busy
<1>2. CASE DequeueReturns(c)
  BY <1>1, <1>2, ReturnedConsumes, ReadingStep DEF IInv
<1>3. CASE /\ Seen(c) # AllPrios(0) /\ entries' = [entries EXCEPT ![c] = Weigh(Seen(c))]
           /\ CGoto(c, "cas") /\ UNCHANGED <<heads, at, copied, got>>
  <2>1. /\ OtherConsumers(c) /\ cpc'[c] = "cas" /\ entries'[c] = Weigh(Seen(c))
        /\ heads'[c] = heads[c] /\ got'[c] = got[c] /\ copied'[c] = copied[c]
    BY <1>3 DEF IInv, TypeOK, CGoto, OtherConsumers
  <2>2. PICK s, w : s = Seen(c) /\ w = Weigh(s)
    OBVIOUS
  <2>3. s \in [Prios -> Nat] /\ w \in [Prios -> Nat] /\ Shared(s, w)
    BY <2>2, SeenNat, WeighIsFair DEF IInv
  <2>4. \E p \in Prios : s[p] # 0
    BY <1>3, <2>2, <2>3 DEF AllPrios
  <2>5. Total(s) > 0 /\ Total(s) \in Nat
    <3>1. s[0] \in Nat /\ s[1] \in Nat /\ s[2] \in Nat /\ s[3] \in Nat
      BY <2>3, ConstantFacts
    <3>2. s[0] # 0 \/ s[1] # 0 \/ s[2] # 0 \/ s[3] # 0
      <4>1. \A p \in Prios : p = 0 \/ p = 1 \/ p = 2 \/ p = 3
        BY DEF Prios
      <4>2. QED
        BY <2>4, <4>1
    <3>3. PICK i \in Nat, j \in Nat, k \in Nat, l \in Nat :
            i = s[0] /\ j = s[1] /\ k = s[2] /\ l = s[3]
      BY <3>1
    <3>4. i + j + k + l \in Nat /\ i + j + k + l > 0
      <4>1. PICK m \in Nat, n \in Nat : m = i + j /\ n = k + l
        OBVIOUS
      <4>2. (i # 0 \/ j # 0 => m > 0) /\ (k # 0 \/ l # 0 => n > 0)
        BY <4>1
      <4>3. m > 0 \/ n > 0
        BY <3>2, <3>3, <4>2
      <4>4. i + j + k + l = m + n
        BY <4>1
      <4>5. QED
        BY <4>3, <4>4
    <3>5. QED
      BY <3>3, <3>4 DEF Total
  <2>6. Total(w) \in 1..MaxBurst
    <3>1. Total(w) = IF Total(s) < MaxBurst THEN Total(s) ELSE MaxBurst
      BY <2>3 DEF Shared
    <3>2. MaxBurst \in Nat /\ MaxBurst > 0
      BY ConstantsAssumption
    <3>3. QED
      BY <2>5, <3>1, <3>2
  <2>7. ASSUME NEW p \in Prios
        PROVE  First(c, p)' <= Claimed(p)' /\ End(c, p)' <= Produced(p)'
    <3>1. First(c, p)' = First(c, p) /\ Claimed(p)' = Claimed(p) /\ Produced(p)' = Produced(p)
      BY <1>1, <2>1, SameRing DEF First
    <3>2. End(c, p)' = First(c, p) + w[p]
      BY <2>1, <2>2, <3>1 DEF End
    <3>3. w[p] <= s[p] /\ s[p] = Produced(p) - First(c, p) /\ w[p] \in Nat
      BY <1>1, <2>2, <2>3, SeenPos DEF Shared
    <3>4. First(c, p) <= Claimed(p)
      BY <1>1 DEF IInv, Consumes
    <3>5. QED
      BY <3>1, <3>2, <3>3, <3>4, EndPositions, BurstPosition DEF IInv
  <2>8. got[c] = <<>> /\ copied[c] = 0
    BY <1>1 DEF IInv, Consumes
  <2>9. Consumes(c)' /\ \A p \in Prios : ~Owns(c, p)'
    BY <2>1, <2>2, <2>6, <2>7, <2>8 DEF Consumes, Owns, Busy
  <2>10. QED
    BY <1>1, <2>1, <2>9, ReadingStep
<1>4. QED
  BY <1>2, <1>3 DEF ReadTails

LEMMA CopyKeeps ==
  ASSUME IInv, TypeOK', NEW c \in Consumers, Copy(c)
  PROVE  IInv'
<1>1. /\ OtherConsumers(c) /\ UNCHANGED <<ringVars, prodVars>>
      /\ cpc[c] = "copy" /\ copied'[c] = copied[c] + 1
      /\ cpc'[c] = IF copied[c] + 1 = entries[c][at[c]] THEN "release" ELSE "copy"
      /\ heads'[c] = heads[c] /\ entries'[c] = entries[c] /\ at'[c] = at[c]
  BY DEF IInv, TypeOK, Copy, CGoto, OtherConsumers
<1>2. got'[c] # <<>>
  <2>1. PICK x : got' = [got EXCEPT ![c] = Append(@, x)]
    BY DEF Copy
  <2>2. got[c] \in Seq(Objects \cup {None}) /\ got'[c] = Append(got[c], x)
    BY <2>1 DEF IInv, TypeOK
  <2>3. QED
    BY <2>2
<1>3. /\ Busy(c)' /\ Busy(c)
      /\ \A p \in Prios : /\ Owns(c, p)' <=> Owns(c, p)
                          /\ First(c, p)' = First(c, p) /\ End(c, p)' = End(c, p)
                          /\ Claimed(p)' = Claimed(p) /\ Consumed(p)' = Consumed(p)
  BY <1>1, SameRing DEF Busy, Owns, First, End
<1>4. copied[c] < entries[c][at[c]] /\ copied[c] \in Nat /\ entries[c][at[c]] \in Nat
  BY <1>1, ConsumerAt DEF IInv, Consumes
<1>5. Consumes(c)'
  BY <1>1, <1>2, <1>3, <1>4 DEF IInv, Consumes
<1>6. QED
  BY <1>1, <1>3, <1>5, ReadingStep

\* The compare-and-set of the heads fails, ...
LEMMA ReserveBurstFails ==
  ASSUME IInv, TypeOK', NEW c \in Consumers, ReserveBurst(c), consHead # heads[c]
  PROVE  IInv'
<1>1. /\ OtherConsumers(c) /\ UNCHANGED <<ringVars, prodVars>>
      /\ cpc[c] = "cas" /\ cpc'[c] = "retry" /\ got'[c] = got[c] /\ copied'[c] = copied[c]
  BY DEF IInv, TypeOK, ReserveBurst, CGoto, OtherConsumers, ringVars
<1>2. ~Busy(c) /\ ~Busy(c)' /\ \A p \in Prios : ~Owns(c, p)'
  BY <1>1 DEF Busy, Owns
<1>3. Consumes(c)'
  BY <1>1, <1>2 DEF IInv, Consumes
<1>4. QED
  BY <1>1, <1>2, <1>3, ReadingStep

\* ... or reserves the burst: what was weighed is there, for the heads are those read.
LEMMA ClaimFacts ==
  ASSUME IInv, NEW c \in Consumers, ReserveBurst(c), consHead = heads[c], NEW p \in Prios
  PROVE  /\ First(c, p) = Claimed(p)
         /\ Claimed(p)' = Claimed(p) + entries[c][p] /\ Claimed(p)' = End(c, p)
         /\ Claimed(p) + entries[c][p] <= Produced(p)
         /\ Claimed(p) \in Nat /\ Produced(p) \in Nat /\ entries[c][p] \in Nat
<1>1. PICK i \in Index : i = heads[c][p] /\ i = consHead[p]
  BY ConsumerAt DEF IInv
<1>2. entries[c][p] \in Nat /\ Produced(p) \in Nat /\ Pos(i) \in Nat
  BY ConsumerAt, EndPositions, PosFacts DEF IInv
<1>3. First(c, p) = Pos(i) /\ Claimed(p) = Pos(i) /\ End(c, p) = Pos(i) + entries[c][p]
  BY <1>1 DEF First, Claimed, End
<1>4. End(c, p) <= Produced(p)
  BY DEF IInv, Consumes, ReserveBurst
<1>5. Pos(i) + entries[c][p] < IndexMod
  <2>1. Produced(p) <= MaxObjects
    BY WithinObjects DEF IInv
  <2>2. QED
    BY <1>2, <1>3, <1>4, <2>1, ConstantFacts
<1>6. Pos(Plus(i, entries[c][p])) = Pos(i) + entries[c][p]
  BY <1>2, <1>5, PlusPos
<1>7. consHead'[p] = Plus(i, entries[c][p])
  BY <1>1 DEF ReserveBurst
<1>8. Claimed(p)' = Pos(i) + entries[c][p]
  BY <1>6, <1>7 DEF Claimed
<1>9. QED
  BY <1>2, <1>3, <1>4, <1>8

LEMMA ReserveBurstKeeps ==
  ASSUME IInv, TypeOK', NEW c \in Consumers, ReserveBurst(c), consHead = heads[c]
  PROVE  IInv'
<1>1. /\ OtherConsumers(c)
      /\ UNCHANGED <<prodVars, prodHead, prodTail, slot, consTail>>
      /\ cpc[c] = "cas" /\ cpc'[c] = "copy" /\ at'[c] = Highest(Below(entries[c], 4))
      /\ heads'[c] = heads[c] /\ entries'[c] = entries[c]
      /\ got'[c] = got[c] /\ copied'[c] = copied[c]
  BY DEF IInv, TypeOK, ReserveBurst, CGoto, OtherConsumers
<1>2. /\ TypeOK /\ Consumes(c) /\ ~Busy(c) /\ Busy(c)'
      /\ copied[c] = 0 /\ Total(entries[c]) > 0 /\ entries[c] \in [Prios -> Nat]
  BY <1>1, ConsumerAt DEF IInv, Busy, Consumes
<1>3. entries[c][at'[c]] > 0 /\ at'[c] \in Prios
  <2>1. at'[c] \in Below(entries[c], 4)
    BY <1>1, <1>2, BelowFacts, HighestFacts
  <2>2. QED
    BY <1>2, <2>1, BelowFacts
<1>4. \A p \in Prios : /\ Reserved(p)' = Reserved(p) /\ Produced(p)' = Produced(p)
                       /\ Consumed(p)' = Consumed(p)
                       /\ First(c, p)' = First(c, p) /\ End(c, p)' = End(c, p)
  BY <1>1 DEF Reserved, Produced, Consumed, First, End
<1>5. ASSUME NEW p \in Prios
      PROVE  /\ Window(p)' /\ Claimed(p) <= Claimed(p)' /\ Consumed(p) <= Consumed(p)'
             /\ Consumed(p)' <= First(c, p)' /\ End(c, p)' <= Claimed(p)'
  <2>1. /\ Reserved(p) \in Nat /\ Produced(p) \in Nat
        /\ Claimed(p) \in Nat /\ Consumed(p) \in Nat /\ Window(p)
    BY <1>2, EndPositions DEF IInv
  <2>2. PICK n : n = Claimed(p)'
    OBVIOUS
  <2>3. /\ First(c, p) = Claimed(p) /\ End(c, p) = n
        /\ n = Claimed(p) + entries[c][p] /\ n <= Produced(p) /\ entries[c][p] \in Nat
    BY <2>2, ClaimFacts
  <2>4. /\ Consumed(p) <= n /\ n <= Produced(p) /\ Claimed(p) <= n /\ Consumed(p) <= Consumed(p)
        /\ Consumed(p) <= Claimed(p) /\ n <= n
    BY <2>1, <2>3 DEF Window
  <2>5. QED
    BY <1>4, <2>1, <2>2, <2>3, <2>4 DEF Window
<1>6. Consumes(c)'
  <2>1. copied'[c] < entries'[c][at'[c]]
    BY <1>1, <1>2, <1>3
  <2>2. entries'[c][at'[c]] > 0
    BY <1>1, <1>3
  <2>3. QED
    BY <1>1, <1>2, <1>5, <2>1, <2>2 DEF Consumes
<1>7. ASSUME NEW d \in Consumers \ {c}, NEW p \in Prios, Owns(d, p)
      PROVE  Consumed(p)' <= First(d, p) /\ End(d, p) <= First(c, p)'
  BY <1>4, <1>7, ClaimFacts DEF IInv, Consumes
<1>8. QED
  BY <1>1, <1>5, <1>6, <1>7, ConsumerStep

\* A priority is released when its turn has come, and its slots are free then.
LEMMA ReleaseFacts ==
  ASSUME IInv, NEW c \in Consumers, Release(c), NEW p \in Prios, p = at[c]
  PROVE  /\ Consumed(p) = First(c, p) /\ Consumed(p)' = End(c, p)
         /\ End(c, p) = First(c, p) + entries[c][p] /\ entries[c][p] > 0 /\ Owns(c, p)
         /\ End(c, p) <= Claimed(p)
         /\ \A q \in Prios \ {p} : Consumed(q)' = Consumed(q)
<1>1. PICK i \in Index : i = heads[c][p] /\ i = consTail[p]
  BY ConsumerAt DEF IInv, Release
<1>2. entries[c][p] \in Nat /\ Claimed(p) \in Nat /\ Pos(i) \in Nat
  BY ConsumerAt, EndPositions, PosFacts DEF IInv
<1>3. First(c, p) = Pos(i) /\ Consumed(p) = Pos(i) /\ End(c, p) = Pos(i) + entries[c][p]
  BY <1>1 DEF First, Consumed, End
<1>4. Owns(c, p) /\ entries[c][p] > 0
  <2>1. cpc[c] = "release" /\ Busy(c)
    BY DEF Release, Busy
  <2>2. p <= at[c]
    BY ConstantFacts
  <2>3. QED
    BY <2>1, <2>2 DEF IInv, Consumes, Owns
<1>5. End(c, p) <= Claimed(p)
  BY <1>4 DEF IInv, Consumes
<1>6. Pos(i) + entries[c][p] < IndexMod
  <2>1. Claimed(p) <= MaxObjects
    BY WithinObjects DEF IInv
  <2>2. QED
    BY <1>2, <1>3, <1>5, <2>1, ConstantFacts
<1>7. Pos(Plus(i, entries[c][p])) = Pos(i) + entries[c][p]
  BY <1>2, <1>6, PlusPos
<1>8. /\ consTail'[p] = Plus(i, entries[c][p])
      /\ \A q \in Prios \ {p} : consTail'[q] = consTail[q]
  BY <1>1 DEF IInv, TypeOK, Release
<1>9. Consumed(p)' = Pos(i) + entries[c][p] /\ \A q \in Prios \ {p} : Consumed(q)' = Consumed(q)
  BY <1>7, <1>8 DEF Consumed
<1>10. QED
  BY <1>3, <1>4, <1>5, <1>9

LEMMA ReleaseKeeps ==
  ASSUME IInv, TypeOK', NEW c \in Consumers, Release(c)
  PROVE  IInv'
<1>1. PICK p \in Prios : p = at[c]
  BY ConsumerAt DEF IInv
<1>2. UNCHANGED <<prodHead, prodTail, consHead, slot, prodVars>> /\ cpc[c] = "release"
  BY DEF Release
<1>3. \A q \in Prios : /\ Reserved(q)' = Reserved(q) /\ Produced(q)' = Produced(q)
                       /\ Claimed(q)' = Claimed(q)
                       /\ Reserved(q) \in Nat /\ Produced(q) \in Nat
                       /\ Claimed(q) \in Nat /\ Consumed(q) \in Nat /\ Window(q)
  BY <1>2, EndPositions DEF IInv, Reserved, Produced, Claimed
<1>4. PICK n \in Nat : n = End(c, p)
  BY BurstPosition DEF IInv
<1>5. /\ Consumed(p) = First(c, p) /\ Consumed(p)' = n /\ n <= Claimed(p)
      /\ n = Consumed(p) + entries[c][p] /\ entries[c][p] > 0 /\ entries[c][p] \in Nat
      /\ Owns(c, p) /\ \A q \in Prios \ {p} : Consumed(q)' = Consumed(q)
  BY <1>1, <1>4, ReleaseFacts, ConsumerAt DEF IInv
<1>6. ASSUME NEW q \in Prios
      PROVE  Window(q)' /\ Claimed(q) <= Claimed(q)' /\ Consumed(q) <= Consumed(q)'
  <2>1. CASE q = p
    <3>1. /\ Consumed(p) <= n /\ n <= Claimed(p) /\ Claimed(p) <= Claimed(p)
          /\ Reserved(p) <= n + RingSize - 1
      BY <1>3, <1>5, ConstantFacts DEF Window
    <3>2. QED
      BY <1>3, <1>5, <2>1, <3>1 DEF Window
  <2>2. CASE q # p
    BY <1>3, <1>5, <2>2 DEF Window
  <2>3. QED
    BY <2>1, <2>2
<1>7. ASSUME NEW d \in Consumers \ {c}, NEW q \in Prios, Owns(d, q)
      PROVE  Consumed(q)' <= First(d, q)
  <2>1. CASE q = p
    <3>1. /\ Consumed(p) <= First(d, p) /\ First(d, p) \in Nat
          /\ End(d, p) = First(d, p) + entries[d][p]
      BY <1>7, <2>1, BurstPosition DEF IInv, Consumes
    <3>2. entries[d][p] > 0 /\ entries[d][p] \in Nat
      BY <1>7, <2>1, ConsumerAt DEF IInv, Owns
    <3>3. End(c, p) <= First(d, p) \/ End(d, p) <= First(c, p)
      BY <1>5, <1>7, <2>1 DEF IInv, ConsumersApart
    <3>4. QED
      BY <1>3, <1>4, <1>5, <2>1, <3>1, <3>2, <3>3
  <2>2. CASE q # p
    BY <1>5, <1>7, <2>2 DEF IInv, Consumes
  <2>3. QED
    BY <2>1, <2>2
<1>8. CASE DequeueReturns(c)
  BY <1>2, <1>6, <1>7, <1>8, ReturnedConsumes, ConsumerStep DEF IInv
<1>9. CASE /\ Below(entries[c], p) # {} /\ at' = [at EXCEPT ![c] = Highest(Below(entries[c], p))]
           /\ copied' = [copied EXCEPT ![c] = 0] /\ CGoto(c, "copy")
           /\ UNCHANGED <<heads, entries, got>>
  <2>1. PICK a : a = Highest(Below(entries[c], p))
    OBVIOUS
  <2>2. a \in Prios /\ a < p /\ entries[c][a] > 0 /\ a \in Nat /\ p \in Nat
    <3>1. entries[c] \in [Prios -> Nat] /\ p \in Nat
      BY <1>1, ConsumerAt DEF IInv
    <3>2. a \in Below(entries[c], p)
      BY <1>9, <2>1, <3>1, BelowFacts, HighestFacts
    <3>3. QED
      BY <3>1, <3>2, BelowFacts, ConstantFacts
  <2>3. /\ OtherConsumers(c) /\ cpc'[c] = "copy" /\ at'[c] = a /\ copied'[c] = 0
        /\ heads'[c] = heads[c] /\ entries'[c] = entries[c]
    BY <1>9, <2>1 DEF IInv, TypeOK, CGoto, OtherConsumers
  <2>4. Busy(c)' /\ Busy(c)
    BY <1>2, <2>3 DEF Busy
  <2>5. ASSUME NEW q \in Prios, Owns(c, q)'
        PROVE  /\ Owns(c, q) /\ q # p
               /\ First(c, q)' = First(c, q) /\ End(c, q)' = End(c, q)
    <3>1. q \in Nat /\ q <= a /\ entries[c][q] > 0
      BY <2>3, <2>5, ConstantFacts DEF Owns
    <3>2. q <= p /\ q # p
      BY <2>2, <3>1
    <3>3. QED
      BY <1>1, <2>3, <2>4, <3>1, <3>2 DEF Owns, First, End
  <2>6. Consumes(c)'
    <3>1. ASSUME NEW q \in Prios, Owns(c, q)'
          PROVE  Consumed(q)' <= First(c, q)' /\ End(c, q)' <= Claimed(q)'
      BY <1>3, <1>5, <2>5, <3>1 DEF IInv, Consumes
    <3>2. entries'[c][at'[c]] > 0 /\ copied'[c] < entries'[c][at'[c]]
      BY <2>2, <2>3
    <3>3. QED
      BY <2>3, <2>4, <3>1, <3>2 DEF Consumes
  <2>7. QED
    BY <1>2, <1>6, <1>7, <2>3, <2>5, <2>6, ConsumerStep
<1>10. QED
  BY <1>1, <1>8, <1>9 DEF Release, NextPrio

LEMMA ConsumersKeep ==
  ASSUME IInv, NEW c \in Consumers, DequeueStep(c)
  PROVE  IInv'
<1>1. TypeOK'
  BY ConsumerTypes DEF IInv
<1>2. ReserveBurst(c) => IInv'
  BY <1>1, ReserveBurstFails, ReserveBurstKeeps
<1>3. QED
  BY <1>1, <1>2, ReadHeadsKeeps, ReadTailsKeeps, CopyKeeps, ReleaseKeeps DEF DequeueStep

-----------------------------------------------------------------------------
(* The invariant, and what follows at once *)

LEMMA InitIInv == Init => IInv
<1> SUFFICES ASSUME Init PROVE IInv
  OBVIOUS
<1>1. TypeOK
  BY InitTypes
<1>2. Start \in Index /\ Pos(Start) = 0
  BY PosStart
<1>3. \A p \in Prios : Reserved(p) = 0 /\ Produced(p) = 0 /\ Claimed(p) = 0 /\ Consumed(p) = 0
  BY <1>2 DEF Init, AllPrios, Reserved, Produced, Claimed, Consumed
<1>4. \A p \in Prios : Window(p)
  BY <1>3, ConstantFacts DEF Window
<1>5. Numbered
  <2>1. Entering = {} /\ made = 0
    BY DEF Init, Entering
  <2>2. IsFiniteSet(Entering) /\ Cardinality(Entering) = 0
    BY <2>1, FS_EmptySet
  <2>3. QED
    BY <1>3, <2>1, <2>2 DEF Numbered
<1>6. (\A c \in Producers : Produces(c)) /\ ProducersApart
  BY DEF Init, Produces, Holding, ProducersApart
<1>7. (\A c \in Consumers : Consumes(c)) /\ ConsumersApart
  BY DEF Init, Consumes, Owns, Busy, ConsumersApart
<1>8. QED
  BY <1>1, <1>4, <1>5, <1>6, <1>7 DEF IInv

LEMMA StutterKeeps ==
  ASSUME IInv, UNCHANGED vars
  PROVE  IInv'
<1>1. /\ UNCHANGED <<prodHead, prodTail, consHead, consTail, slot, made, ppc, prio, object, head>>
      /\ UNCHANGED <<cpc, heads, entries, at, copied, got>>
  BY DEF vars, ringVars, prodVars, consVars
<1>2. TypeOK'
  BY <1>1 DEF IInv, TypeOK
<1>3. \A p \in Prios : /\ Reserved(p)' = Reserved(p) /\ Produced(p)' = Produced(p)
                       /\ Claimed(p)' = Claimed(p) /\ Consumed(p)' = Consumed(p)
  BY <1>1 DEF Reserved, Produced, Claimed, Consumed
<1>4. (\A p \in Prios : Window(p)') /\ Numbered'
  BY <1>1, <1>3 DEF IInv, Window, Numbered, Entering
<1>5. (\A c \in Producers : Produces(c)') /\ ProducersApart'
  <2>1. \A c \in Producers : prio[c] \in Prios
    BY ProducerAt DEF IInv
  <2>2. QED
    BY <1>1, <1>3, <2>1 DEF IInv, Produces, Holding, ProducersApart
<1>6. (\A c \in Consumers : Consumes(c)') /\ ConsumersApart'
  <2>1. \A c \in Consumers, p \in Prios :
          /\ First(c, p)' = First(c, p) /\ End(c, p)' = End(c, p)
          /\ Owns(c, p)' <=> Owns(c, p)
    BY <1>1 DEF First, End, Owns, Busy
  <2>2. QED
    BY <1>1, <1>3, <2>1 DEF IInv, Consumes, Busy, ConsumersApart
<1>7. QED
  BY <1>2, <1>4, <1>5, <1>6 DEF IInv

LEMMA Invariance == Spec => []IInv
<1>1. IInv /\ [Next]_vars => IInv'
  BY ProducersKeep, ConsumersKeep, StutterKeeps DEF Next
<1>2. QED
  BY <1>1, InitIInv, PTL DEF Spec

\* The types of the state, the state of a call included, for any start of the indexes.
THEOREM TypeCorrect == Spec => []TypeOK
<1>1. IInv => TypeOK
  BY DEF IInv
<1>2. QED
  BY <1>1, Invariance, PTL

\* The ends of a ring follow each other and no producer is a whole ring ahead: the guard
\* in __mring_mp_do_enqueue is enough, although prod.head and cons.tail are read at
\* different moments, with indexes that wrap as with others.
THEOREM NeverOverrun == Spec => [](\A p \in Prios : Window(p))
<1>1. IInv => \A p \in Prios : Window(p)
  BY DEF IInv
<1>2. QED
  BY <1>1, Invariance, PTL

\* A dequeue that goes on to reserve its burst has weighed what it saw.
LEMMA NextShares ==
  ASSUME TypeOK, [Next]_vars, NEW c \in Consumers,
         cpc[c] = "tails", cpc'[c] = "cas"
  PROVE  Shared(Seen(c), entries'[c])
<1>1. Shared(Seen(c), Weigh(Seen(c)))
  BY SeenNat, WeighIsFair
<1>2. ReadTails(c) /\ entries' = [entries EXCEPT ![c] = Weigh(Seen(c))]
  <2>1. ASSUME NEW d \in Producers, EnqueueStep(d) PROVE cpc' = cpc
    BY <2>1 DEF EnqueueStep, Enqueue, Room, ReserveSlot, ReadHeadAgain, Write, Publish, consVars
  <2>2. ASSUME NEW d \in Consumers, DequeueStep(d), d # c PROVE cpc'[c] = cpc[c]
    BY <2>2 DEF TypeOK, DequeueStep, ReadHeads, ReadTails, ReserveBurst, Copy, Release, NextPrio,
                DequeueReturns, CGoto
  <2>3. CASE DequeueStep(c)
    BY <2>3 DEF TypeOK, DequeueStep, ReadHeads, ReadTails, ReserveBurst, Copy, Release, NextPrio,
                DequeueReturns, CGoto
  <2>4. CASE UNCHANGED vars
    BY <2>4 DEF vars, consVars
  <2>5. QED
    BY <2>1, <2>2, <2>3, <2>4 DEF Next
<1>3. entries'[c] = Weigh(Seen(c))
  BY <1>2 DEF TypeOK
<1>4. QED
  BY <1>1, <1>3

\* Every dequeue shares its burst among the priorities by their quotas, however
\* many cores enqueue and dequeue meanwhile (mring_dequeue_mp_burst).
THEOREM BurstsAreFair == Spec => FairShare
<1>1. TypeOK /\ [Next]_vars =>
        [\A c \in Consumers : cpc[c] = "tails" /\ cpc'[c] = "cas" =>
           Shared(Seen(c), entries'[c])]_vars
  BY NextShares
<1>2. QED
  BY <1>1, TypeCorrect, PTL DEF Spec, FairShare

\* A refusal is the end of Room; what FreeEntries says there is exact for an old
\* prod_head, and the ring can only be fuller than that.
LEMMA RefusalsAreFull ==
  ASSUME IInv, [Next]_vars, NEW c \in Producers, ppc[c] = "room", ppc'[c] = "idle"
  PROVE  Minus(prodHead[prio[c]], consTail[prio[c]]) = RingSize - 1
<1>1. Room(c) /\ FreeEntries(consTail[prio[c]], head[c]) = 0
  <2>1. ppc \in [Producers -> ProducerPoints]
    BY DEF IInv, TypeOK
  <2>2. ASSUME NEW d \in Consumers, DequeueStep(d) PROVE ppc' = ppc
    BY <2>2 DEF DequeueStep, ReadHeads, ReadTails, ReserveBurst, Copy, Release, prodVars
  <2>3. ASSUME NEW d \in Producers, EnqueueStep(d), d # c PROVE ppc'[c] = ppc[c]
    BY <2>1, <2>3 DEF EnqueueStep, Enqueue, Room, ReserveSlot, ReadHeadAgain, Write, Publish,
                      EnqueueReturns, PGoto
  <2>4. ASSUME EnqueueStep(c) PROVE Room(c) /\ FreeEntries(consTail[prio[c]], head[c]) = 0
    BY <2>1, <2>4 DEF EnqueueStep, Enqueue, Room, ReserveSlot, ReadHeadAgain, Write, Publish, PGoto
  <2>5. CASE UNCHANGED vars
    BY <2>5 DEF vars, prodVars
  <2>6. QED
    BY <2>2, <2>3, <2>4, <2>5 DEF Next
<1>2. PICK p \in Prios, h \in Index, i \in Index, t \in Index :
        p = prio[c] /\ h = head[c] /\ i = prodHead[p] /\ t = consTail[p]
  BY ProducerAt, EndTypes DEF IInv
<1>3. /\ Pos(h) \in Nat /\ Pos(i) \in Nat /\ Pos(t) \in Nat
      /\ Reserved(p) = Pos(i) /\ Consumed(p) = Pos(t)
  BY <1>2, PosFacts DEF Reserved, Consumed
<1>4. /\ Pos(h) <= Pos(i) /\ Pos(i) <= Pos(t) + RingSize - 1 /\ Pos(t) <= Pos(i)
      /\ Pos(t) <= MaxObjects /\ Pos(i) <= MaxObjects
  <2>1. Pos(h) <= Reserved(p) /\ TypeOK /\ Numbered /\ Window(p)
    BY <1>2 DEF IInv, Produces
  <2>2. Reserved(p) <= MaxObjects /\ Consumed(p) <= MaxObjects
    BY <2>1, WithinObjects
  <2>3. Consumed(p) <= Reserved(p) /\ Reserved(p) <= Consumed(p) + RingSize - 1
    BY <2>1, EndPositions DEF Window
  <2>4. QED
    BY <1>3, <2>1, <2>2, <2>3
<1>5. FreeEntries(t, h) = RingSize - 1 + Pos(t) - Pos(h)
  <2>1. Pos(h) <= Pos(t) + RingSize - 1 /\ Pos(h) <= MaxObjects
    BY <1>3, <1>4, ConstantFacts
  <2>2. QED
    BY <1>4, <2>1, FreePos
<1>6. FreeEntries(t, h) = 0
  BY <1>1, <1>2
<1>7. Pos(i) - Pos(t) = RingSize - 1
  BY <1>3, <1>4, <1>5, <1>6, ConstantFacts
<1>8. Minus(i, t) = Pos(i) - Pos(t)
  BY <1>4, MinusPos
<1>9. QED
  BY <1>2, <1>7, <1>8

\* mring_enqueue refuses an object, for EM a fatal error, only when every usable slot is
\* taken at that moment: the old prod_head of a delayed producer is never mistaken for a
\* full ring, with indexes that wrap as with others.
THEOREM RefusedOnlyByAFullRing == Spec => RefusedOnlyWhenFull
<1>1. IInv /\ [Next]_vars =>
        [\A c \in Producers : ppc[c] = "room" /\ ppc'[c] = "idle" =>
           Minus(prodHead[prio[c]], consTail[prio[c]]) = RingSize - 1]_vars
  BY RefusalsAreFull
<1>2. QED
  BY <1>1, Invariance, PTL DEF Spec, RefusedOnlyWhenFull

-----------------------------------------------------------------------------
(* The slots of successive positions *)

Content == Objects \cup {None}
Ring == [0..RingSize - 1 -> Content]

\* The contents of n slots of the ring s, from that of position k on.
Run(s, k, n) == [i \in 1..n |-> s[SlotOf(k + i - 1)]]

LEMMA SlotFacts ==
  ASSUME NEW s \in Ring, NEW k \in Nat
  PROVE  SlotOf(k) \in 0..RingSize - 1 /\ s[SlotOf(k)] \in Content
<1>1. Start \in Nat /\ RingSize \in Nat /\ RingSize > 0
  BY ConstantsAssumption
<1>2. PICK x \in Nat : x = Start + k
  BY <1>1
<1>3. x % RingSize \in 0..RingSize - 1
  BY <1>1
<1>4. SlotOf(k) \in 0..RingSize - 1
  BY <1>2, <1>3 DEF SlotOf
<1>5. QED
  BY <1>4 DEF Ring

LEMMA RunFacts ==
  ASSUME NEW s \in Ring, NEW k \in Nat, NEW n \in Nat
  PROVE  /\ Run(s, k, n) \in Seq(Content) /\ Len(Run(s, k, n)) = n
         /\ \A i \in 1..n : Run(s, k, n)[i] = s[SlotOf(k + i - 1)]
         /\ n = 0 => Run(s, k, n) = <<>>
<1>1. ASSUME NEW i \in 1..n
      PROVE  s[SlotOf(k + i - 1)] \in Content
  <2>1. PICK j \in Nat : j = k + i - 1
    OBVIOUS
  <2>2. QED
    BY <2>1, SlotFacts
<1>2. PICK r : r = Run(s, k, n)
  OBVIOUS
<1>3. r \in [1..n -> Content] /\ \A i \in 1..n : r[i] = s[SlotOf(k + i - 1)]
  BY <1>1, <1>2 DEF Run
<1>4. r \in Seq(Content) /\ Len(r) = n
  BY <1>3
<1>5. n = 0 => r = <<>>
  BY <1>4
<1>6. QED
  BY <1>2, <1>3, <1>4, <1>5

\* One slot more, ...
LEMMA RunAppend ==
  ASSUME NEW s \in Ring, NEW k \in Nat, NEW n \in Nat
  PROVE  Run(s, k, n + 1) = Append(Run(s, k, n), s[SlotOf(k + n)])
<1>1. PICK x \in Content : x = s[SlotOf(k + n)]
  <2>1. PICK j \in Nat : j = k + n
    OBVIOUS
  <2>2. QED
    BY <2>1, SlotFacts
<1>2. PICK r \in Seq(Content), t \in Seq(Content) :
        /\ r = Run(s, k, n) /\ Len(r) = n /\ \A i \in 1..n : r[i] = s[SlotOf(k + i - 1)]
        /\ t = Run(s, k, n + 1) /\ Len(t) = n + 1
        /\ \A i \in 1..(n + 1) : t[i] = s[SlotOf(k + i - 1)]
  <2>1. n + 1 \in Nat
    OBVIOUS
  <2>2. QED
    BY <2>1, RunFacts
<1>3. PICK u : u = Append(r, x)
  OBVIOUS
<1>4. /\ u \in Seq(Content) /\ Len(u) = n + 1 /\ u[n + 1] = x
      /\ \A i \in 1..n : u[i] = r[i]
  <2>1. x \in Content /\ r \in Seq(Content) /\ Len(r) = n
    BY <1>1, <1>2
  <2>2. QED
    BY <1>3, <2>1, AppendFacts
<1>5. ASSUME NEW i \in 1..(n + 1)
      PROVE  t[i] = u[i]
  <2>1. CASE i \in 1..n
    BY <1>2, <1>4, <2>1
  <2>2. CASE i = n + 1
    <3>1. k + i - 1 = k + n
      BY <2>2
    <3>2. QED
      BY <1>1, <1>2, <1>4, <2>2, <3>1
  <2>3. QED
    BY <2>1, <2>2
<1>6. QED
  BY <1>1, <1>2, <1>3, <1>4, <1>5, SeqEqual

\* ... the first one by itself, ...
LEMMA RunFirst ==
  ASSUME NEW s \in Ring, NEW k \in Nat, NEW n \in Nat, n > 0
  PROVE  /\ s[SlotOf(k)] \in Content
         /\ Run(s, k + 1, n - 1) \in Seq(Content)
         /\ Run(s, k, n) = <<s[SlotOf(k)]>> \o Run(s, k + 1, n - 1)
<1>1. PICK x \in Content : x = s[SlotOf(k)]
  BY SlotFacts
<1>2. k + 1 \in Nat /\ n - 1 \in Nat
  OBVIOUS
<1>3. PICK r \in Seq(Content), t \in Seq(Content) :
        /\ r = Run(s, k, n) /\ Len(r) = n /\ \A i \in 1..n : r[i] = s[SlotOf(k + i - 1)]
        /\ t = Run(s, k + 1, n - 1) /\ Len(t) = n - 1
        /\ \A i \in 1..(n - 1) : t[i] = s[SlotOf(k + 1 + i - 1)]
  BY <1>2, RunFacts
<1>4. PICK h \in Seq(Content) : h = <<x>> /\ Len(h) = 1 /\ h[1] = x
  <2>1. <<x>> \in Seq(Content) /\ Len(<<x>>) = 1 /\ <<x>>[1] = x
    BY <1>1
  <2>2. QED
    BY <2>1
<1>5. PICK u \in Seq(Content) :
        /\ u = h \o t /\ Len(u) = n
        /\ \A i \in 1..1 : u[i] = h[i]
        /\ \A i \in 1..(n - 1) : u[1 + i] = t[i]
  <2>1. /\ h \o t \in Seq(Content) /\ Len(h \o t) = 1 + (n - 1)
        /\ \A i \in 1..1 : (h \o t)[i] = h[i]
        /\ \A i \in 1..(n - 1) : (h \o t)[1 + i] = t[i]
    BY <1>3, <1>4, ConcatFacts
  <2>2. 1 + (n - 1) = n
    OBVIOUS
  <2>3. QED
    BY <2>1, <2>2
<1>6. ASSUME NEW i \in 1..n
      PROVE  r[i] = u[i]
  <2>1. CASE i = 1
    <3>1. k + i - 1 = k /\ 1 \in 1..1
      BY <2>1
    <3>2. QED
      BY <1>1, <1>3, <1>4, <1>5, <2>1, <3>1
  <2>2. CASE i # 1
    <3>1. PICK j \in 1..(n - 1) : i = 1 + j
      <4>1. i - 1 \in 1..(n - 1) /\ i = 1 + (i - 1)
        BY <2>2
      <4>2. QED
        BY <4>1
    <3>2. k + i - 1 = k + 1 + j - 1
      BY <3>1
    <3>3. t[j] = s[SlotOf(k + 1 + j - 1)] /\ u[1 + j] = t[j] /\ r[i] = s[SlotOf(k + i - 1)]
      BY <1>3, <1>5, <3>1
    <3>4. QED
      BY <3>1, <3>2, <3>3
  <2>3. QED
    BY <2>1, <2>2
<1>7. r = u
  BY <1>3, <1>5, <1>6, SeqEqual
<1>8. QED
  BY <1>1, <1>3, <1>4, <1>5, <1>7

\* ... and cut in two.
LEMMA RunCut ==
  ASSUME NEW s \in Ring, NEW k \in Nat, NEW n \in Nat, NEW m \in 0..n
  PROVE  /\ Run(s, k, m) = SubSeq(Run(s, k, n), 1, m)
         /\ Run(s, k + m, n - m) = SubSeq(Run(s, k, n), m + 1, n)
<1>1. m \in Nat /\ k + m \in Nat /\ n - m \in Nat
  OBVIOUS
<1>2. PICK r, t, u : r = Run(s, k, n) /\ t = Run(s, k, m) /\ u = Run(s, k + m, n - m)
  OBVIOUS
<1>3. /\ r \in Seq(Content) /\ Len(r) = n /\ \A i \in 1..n : r[i] = s[SlotOf(k + i - 1)]
      /\ t \in Seq(Content) /\ Len(t) = m /\ \A i \in 1..m : t[i] = s[SlotOf(k + i - 1)]
  <2>1. /\ r \in Seq(Content) /\ Len(r) = n
        /\ \A i \in 1..n : r[i] = s[SlotOf(k + i - 1)]
    BY <1>2, RunFacts
  <2>2. /\ t \in Seq(Content) /\ Len(t) = m
        /\ \A i \in 1..m : t[i] = s[SlotOf(k + i - 1)]
    BY <1>1, <1>2, RunFacts
  <2>3. QED
    BY <2>1, <2>2
<1>4. /\ u \in Seq(Content) /\ Len(u) = n - m
      /\ \A i \in 1..(n - m) : u[i] = s[SlotOf(k + m + i - 1)]
  BY <1>1, <1>2, RunFacts
<1>5. PICK v, w : v = SubSeq(r, 1, m) /\ w = SubSeq(r, m + 1, Len(r))
  OBVIOUS
<1>6. /\ v \in Seq(Content) /\ Len(v) = m /\ \A i \in 1..m : v[i] = r[i]
      /\ w \in Seq(Content) /\ Len(w) = n - m /\ \A i \in 1..(n - m) : w[i] = r[m + i]
  <2>1. m \in 0..Len(r) /\ Len(r) = n /\ r \in Seq(Content)
    BY <1>3
  <2>2. v \in Seq(Content) /\ Len(v) = m /\ \A i \in 1..m : v[i] = r[i]
    BY <1>5, <2>1, CutFacts
  <2>3. w \in Seq(Content) /\ Len(w) = Len(r) - m /\ \A i \in 1..(Len(r) - m) : w[i] = r[m + i]
    BY <1>5, <2>1, CutFacts
  <2>4. QED
    BY <2>1, <2>2, <2>3
<1>7. \A i \in 1..m : t[i] = v[i]
  <2>1. \A i \in 1..m : i \in 1..n
    OBVIOUS
  <2>2. QED
    BY <1>3, <1>6, <2>1
<1>8. ASSUME NEW i \in 1..(n - m)
      PROVE  u[i] = w[i]
  <2>1. PICK j \in 1..n : j = m + i /\ k + j - 1 = k + m + i - 1
    BY <1>1
  <2>2. u[i] = s[SlotOf(k + m + i - 1)] /\ r[j] = s[SlotOf(k + j - 1)] /\ w[i] = r[j]
    BY <1>3, <1>4, <1>6, <2>1
  <2>3. QED
    BY <2>1, <2>2
<1>9. t = v
  BY <1>3, <1>6, <1>7, SeqEqual
<1>10. u = w
  BY <1>4, <1>6, <1>8, SeqEqual
<1>11. QED
  BY <1>2, <1>3, <1>5, <1>9, <1>10

\* A slot that is ahead of them by less than a ring is none of them.
LEMMA RunKept ==
  ASSUME NEW s \in Ring, NEW x, NEW k \in Nat, NEW n \in Nat, NEW l \in Nat,
         k + n <= l, l < k + RingSize
  PROVE  Run([s EXCEPT ![SlotOf(l)] = x], k, n) = Run(s, k, n)
<1>1. ASSUME NEW i \in 1..n
      PROVE  [s EXCEPT ![SlotOf(l)] = x][SlotOf(k + i - 1)] = s[SlotOf(k + i - 1)]
  <2>1. PICK j \in Nat : j = k + i - 1
    OBVIOUS
  <2>2. j < l /\ l < j + RingSize
    BY <2>1, ConstantFacts
  <2>3. SlotOf(j) # SlotOf(l) /\ SlotOf(j) \in 0..RingSize - 1
    BY <2>2, SlotsApart, SlotFacts
  <2>4. QED
    BY <2>1, <2>3 DEF Ring
<1>2. QED
  BY <1>1 DEF Run

\* Slots is such a run.
LEMMA SlotsRun ==
  ASSUME NEW s, NEW first \in Index, NEW n \in Nat, Pos(first) + n <= IndexMod
  PROVE  [i \in 1..n |-> s[Plus(first, i - 1) % RingSize]] = Run(s, Pos(first), n)
<1>1. Pos(first) \in Nat /\ IndexMod \in Nat
  BY PosFacts, ConstantFacts
<1>2. ASSUME NEW i \in 1..n
      PROVE  Plus(first, i - 1) % RingSize = SlotOf(Pos(first) + i - 1)
  <2>1. PICK j \in Nat : j = i - 1
    OBVIOUS
  <2>2. Pos(first) + j < IndexMod /\ Pos(first) + j = Pos(first) + i - 1
    BY <1>1, <2>1
  <2>3. PICK y \in Index : y = Plus(first, j) /\ Pos(y) = Pos(first) + j
    BY <2>2, PlusPos
  <2>4. y % RingSize = SlotOf(Pos(y))
    BY SlotPos
  <2>5. QED
    BY <2>1, <2>2, <2>3, <2>4
<1>3. QED
  BY <1>2 DEF Run

-----------------------------------------------------------------------------
(* The queues and the bursts of the promise, by position *)

\* What is in the ring of p for consumers to claim.
Queue(p) == Run(slot[p], Claimed(p), Produced(p) - Claimed(p))

\* What c has yet to copy, by priority.
Rest(c) ==
  [p \in Prios |->
     IF p > at[c] THEN <<>>
     ELSE IF p < at[c] THEN Run(slot[p], First(c, p), entries[c][p])
     ELSE Run(slot[p], First(c, p) + copied[c], entries[c][p] - copied[c])]

\* What is copied, before the rest, highest priority first.
Join(g, r) == g \o r[3] \o r[2] \o r[1] \o r[0]

Burst(c) == IF Busy(c) THEN Join(got[c], Rest(c)) ELSE <<>>

LEMMA RingTypes ==
  ASSUME IInv, NEW p \in Prios
  PROVE  slot[p] \in Ring
BY DEF IInv, TypeOK, Ring, Content

\* How much there is of each.
LEMMA Lengths ==
  ASSUME IInv
  PROVE  /\ \A p \in Prios : /\ Claimed(p) \in Nat /\ Produced(p) \in Nat
                             /\ Produced(p) - Claimed(p) \in Nat
                             /\ Produced(p) <= IndexMod
         /\ \A c \in Consumers, p \in Prios :
              /\ First(c, p) \in Nat /\ entries[c][p] \in Nat
              /\ Busy(c) /\ p <= at[c] =>
                   First(c, p) + entries[c][p] <= Claimed(p) \/ entries[c][p] = 0
              /\ Busy(c) /\ p = at[c] =>
                   copied[c] \in 0..entries[c][p] /\ entries[c][p] - copied[c] \in Nat
<1>1. ASSUME NEW p \in Prios
      PROVE  /\ Claimed(p) \in Nat /\ Produced(p) \in Nat
             /\ Produced(p) - Claimed(p) \in Nat /\ Produced(p) <= IndexMod
  <2>1. /\ Claimed(p) \in Nat /\ Produced(p) \in Nat /\ Window(p)
        /\ Produced(p) <= MaxObjects
    BY EndPositions, WithinObjects DEF IInv
  <2>2. QED
    BY <2>1, ConstantFacts DEF Window
<1>2. ASSUME NEW c \in Consumers, NEW p \in Prios
      PROVE  First(c, p) \in Nat /\ entries[c][p] \in Nat
  BY BurstPosition DEF IInv
<1>3. ASSUME NEW c \in Consumers, NEW p \in Prios, Busy(c), p <= at[c]
      PROVE  First(c, p) + entries[c][p] <= Claimed(p) \/ entries[c][p] = 0
  <2>1. CASE entries[c][p] > 0
    BY <1>3, <2>1 DEF IInv, Consumes, Owns, End
  <2>2. QED
    BY <1>2, <2>1
<1>4. ASSUME NEW c \in Consumers, NEW p \in Prios, Busy(c), p = at[c]
      PROVE  copied[c] \in 0..entries[c][p] /\ entries[c][p] - copied[c] \in Nat
  <2>1. copied[c] \in Nat /\ entries[c][p] \in Nat
    BY ConsumerAt DEF IInv
  <2>2. copied[c] < entries[c][p] \/ copied[c] = entries[c][p]
    BY <1>4 DEF IInv, Consumes, Busy
  <2>3. QED
    BY <2>1, <2>2
<1>5. QED
  BY <1>1, <1>2, <1>3, <1>4

\* The slots of a queue are those of its positions, ...
LEMMA QueueShown ==
  ASSUME IInv, NEW p \in Prios
  PROVE  Slots(p, consHead[p], Minus(prodTail[p], consHead[p])) = Queue(p)
<1>1. PICK i \in Index, j \in Index : i = prodTail[p] /\ j = consHead[p]
  BY EndTypes DEF IInv
<1>2. Pos(i) = Produced(p) /\ Pos(j) = Claimed(p)
  BY <1>1 DEF Produced, Claimed
<1>3. PICK n \in Nat : n = Produced(p) - Claimed(p)
  BY Lengths
<1>4. Minus(i, j) = n
  <2>1. Pos(j) <= Pos(i)
    BY <1>2 DEF IInv, Window
  <2>2. QED
    BY <1>2, <1>3, <2>1, MinusPos
<1>5. Pos(j) + n <= IndexMod
  BY <1>2, <1>3, Lengths
<1>6. [k \in 1..n |-> slot[p][Plus(j, k - 1) % RingSize]] = Run(slot[p], Pos(j), n)
  BY <1>5, SlotsRun
<1>7. QED
  BY <1>1, <1>2, <1>3, <1>4, <1>6 DEF Slots, Queue

\* ... and so are those of a burst.
LEMMA RestShown ==
  ASSUME IInv, NEW c \in Consumers, Busy(c), NEW p \in Prios
  PROVE  ToCopy(c, p) = Rest(c)[p]
<1>1. PICK i \in Index : i = heads[c][p] /\ Pos(i) = First(c, p)
  BY ConsumerAt DEF IInv, First
<1>2. PICK n \in Nat : n = entries[c][p]
  BY Lengths
<1>3. p \in Nat /\ at[c] \in Nat /\ Pos(i) \in Nat
  BY <1>1, ConstantFacts, ConsumerAt, PosFacts DEF IInv
<1>4. p <= at[c] => Pos(i) + n < IndexMod
  <2>1. p <= at[c] => Pos(i) + n <= Claimed(p) \/ n = 0
    BY <1>1, <1>2, Lengths
  <2>2. Claimed(p) <= MaxObjects /\ Claimed(p) \in Nat
    BY WithinObjects, EndPositions DEF IInv
  <2>3. Pos(i) < IndexMod
    BY PosFacts
  <2>4. QED
    BY <1>3, <2>1, <2>2, <2>3, ConstantFacts
<1>5. CASE p > at[c]
  BY <1>5 DEF ToCopy, Rest
<1>6. CASE p < at[c]
  <2>1. [k \in 1..n |-> slot[p][Plus(i, k - 1) % RingSize]] = Run(slot[p], Pos(i), n)
    <3>1. Pos(i) + n <= IndexMod
      BY <1>3, <1>4, <1>6, ConstantFacts
    <3>2. QED
      BY <3>1, SlotsRun
  <2>2. ~(p > at[c])
    BY <1>3, <1>6
  <2>3. QED
    BY <1>1, <1>2, <1>6, <2>1, <2>2 DEF ToCopy, Rest, Slots
<1>7. CASE p = at[c]
  <2>1. PICK m \in 0..n : m = copied[c] /\ n - m \in Nat
    BY <1>2, <1>7, Lengths
  <2>2. Pos(i) + n < IndexMod
    BY <1>3, <1>4, <1>7
  <2>3. PICK j : j = Plus(i, m)
    OBVIOUS
  <2>4. j \in Index /\ Pos(j) = Pos(i) + m
    <3>1. m \in Nat /\ Pos(i) + m < IndexMod
      BY <1>3, <2>1, <2>2, ConstantFacts
    <3>2. QED
      BY <2>3, <3>1, PlusPos
  <2>5. [k \in 1..(n - m) |-> slot[p][Plus(j, k - 1) % RingSize]] = Run(slot[p], Pos(j), n - m)
    <3>1. PICK l \in Nat : l = n - m
      BY <2>1
    <3>2. Pos(j) + l <= IndexMod
      BY <1>3, <2>1, <2>2, <2>4, <3>1, ConstantFacts
    <3>3. QED
      BY <2>4, <3>1, <3>2, SlotsRun
  <2>6. ~(p > at[c]) /\ ~(p < at[c])
    BY <1>3, <1>7
  <2>7. QED
    BY <1>1, <1>2, <1>7, <2>1, <2>3, <2>4, <2>5, <2>6 DEF ToCopy, Rest, Slots
<1>8. QED
  BY <1>3, <1>5, <1>6, <1>7

\* The state of the promise.
Queues == [p \in Prios |-> Slots(p, consHead[p], Minus(prodTail[p], consHead[p]))]
Bursts ==
  [c \in Consumers |->
     IF cpc[c] \notin {"copy", "release"} THEN <<>>
     ELSE got[c] \o ToCopy(c, 3) \o ToCopy(c, 2) \o ToCopy(c, 1) \o ToCopy(c, 0)]

LEMMA Shown ==
  IInv => /\ Queues = [p \in Prios |-> Queue(p)]
          /\ Bursts = [c \in Consumers |-> Burst(c)]
<1> SUFFICES ASSUME IInv
             PROVE  /\ Queues = [p \in Prios |-> Queue(p)]
                    /\ Bursts = [c \in Consumers |-> Burst(c)]
  OBVIOUS
<1>1. Queues = [p \in Prios |-> Queue(p)]
  BY QueueShown DEF Queues
<1>2. ASSUME NEW c \in Consumers
      PROVE  Bursts[c] = Burst(c)
  <2>1. CASE Busy(c)
    <3>1. /\ ToCopy(c, 3) = Rest(c)[3] /\ ToCopy(c, 2) = Rest(c)[2]
          /\ ToCopy(c, 1) = Rest(c)[1] /\ ToCopy(c, 0) = Rest(c)[0]
      BY <2>1, RestShown, ConstantFacts
    <3>2. QED
      BY <2>1, <3>1 DEF Bursts, Burst, Busy, Join
  <2>2. CASE ~Busy(c)
    BY <2>2 DEF Bursts, Burst, Busy
  <2>3. QED
    BY <2>1, <2>2
<1>3. Bursts = [c \in Consumers |-> Burst(c)]
  BY <1>2 DEF Bursts
<1>4. QED
  BY <1>1, <1>3

LEMMA ShownNext ==
  IInv' => /\ Queues' = [p \in Prios |-> Queue(p)']
           /\ Bursts' = [c \in Consumers |-> Burst(c)']
<1>1. IInv' => (/\ Queues = [p \in Prios |-> Queue(p)]
                /\ Bursts = [c \in Consumers |-> Burst(c)])'
  BY Shown, PTL
<1>2. QED
  BY <1>1

-----------------------------------------------------------------------------
(* Bursts *)

LEMMA JoinFacts ==
  ASSUME NEW S, NEW g \in Seq(S), NEW r \in [Prios -> Seq(S)]
  PROVE  /\ Join(g, r) = (((g \o r[3]) \o r[2]) \o r[1]) \o r[0]
         /\ g \in Seq(S) /\ r[3] \in Seq(S) /\ r[2] \in Seq(S) /\ r[1] \in Seq(S) /\ r[0] \in Seq(S)
BY ConstantFacts DEF Join

\* Nothing left to copy.
LEMMA JoinEnd ==
  ASSUME NEW S, NEW g \in Seq(S), NEW r, \A p \in Prios : r[p] = <<>>
  PROVE  Join(g, r) = g
<1>1. r[3] = <<>> /\ r[2] = <<>> /\ r[1] = <<>> /\ r[0] = <<>>
  BY ConstantFacts
<1>2. g \o <<>> = g
  BY ConcatEmptySeq
<1>3. QED
  BY <1>1, <1>2 DEF Join

\* Nothing copied yet.
LEMMA JoinStart ==
  ASSUME NEW S, NEW r \in [Prios -> Seq(S)]
  PROVE  Join(<<>>, r) = r[3] \o r[2] \o r[1] \o r[0]
<1>1. r[3] \in Seq(S)
  BY ConstantFacts
<1>2. <<>> \o r[3] = r[3]
  BY <1>1, ConcatEmptySeq
<1>3. QED
  BY <1>2 DEF Join

\* Only where the copied part ends and the rest of the highest priority begins has changed.
LEMMA JoinMoves ==
  ASSUME NEW g \in Seq(Content), NEW h \in Seq(Content),
         NEW r \in [Prios -> Seq(Content)], NEW u \in [Prios -> Seq(Content)], NEW p \in Prios,
         g \o r[p] = h \o u[p],
         \A q \in Prios : q > p => r[q] = <<>> /\ u[q] = <<>>,
         \A q \in Prios : q < p => u[q] = r[q]
  PROVE  Join(h, u) = Join(g, r)
<1>1. g \o <<>> = g /\ h \o <<>> = h
  BY ConcatEmptySeq
<1>2. p = 0 \/ p = 1 \/ p = 2 \/ p = 3
  BY DEF Prios
<1>3. CASE p = 3
  <2>1. u[2] = r[2] /\ u[1] = r[1] /\ u[0] = r[0]
    BY <1>3, ConstantFacts
  <2>2. QED
    BY <1>3, <2>1 DEF Join
<1>4. CASE p = 2
  <2>1. u[1] = r[1] /\ u[0] = r[0] /\ u[3] = <<>> /\ r[3] = <<>>
    BY <1>4, ConstantFacts
  <2>2. QED
    BY <1>1, <1>4, <2>1 DEF Join
<1>5. CASE p = 1
  <2>1. /\ u[0] = r[0] /\ u[3] = <<>> /\ r[3] = <<>>
        /\ u[2] = <<>> /\ r[2] = <<>>
    BY <1>5, ConstantFacts
  <2>2. QED
    BY <1>1, <1>5, <2>1 DEF Join
<1>6. CASE p = 0
  <2>1. /\ u[3] = <<>> /\ u[2] = <<>> /\ u[1] = <<>>
        /\ r[3] = <<>> /\ r[2] = <<>> /\ r[1] = <<>>
    BY <1>6, ConstantFacts
  <2>2. QED
    BY <1>1, <1>6, <2>1 DEF Join
<1>7. QED
  BY <1>2, <1>3, <1>4, <1>5, <1>6

\* What is left to copy are runs of contents, and nothing is left of the priorities that
\* are done with.
LEMMA RestFacts ==
  ASSUME IInv, NEW c \in Consumers, Busy(c)
  PROVE  /\ Rest(c) \in [Prios -> Seq(Content)] /\ got[c] \in Seq(Content)
         /\ \A p \in Prios :
              /\ p > at[c] => Rest(c)[p] = <<>>
              /\ p < at[c] => /\ Rest(c)[p] = Run(slot[p], First(c, p), entries[c][p])
                              /\ entries[c][p] = 0 => Rest(c)[p] = <<>>
              /\ p = at[c] => Rest(c)[p] = Run(slot[p], First(c, p) + copied[c],
                                               entries[c][p] - copied[c])
<1>1. got[c] \in Seq(Content) /\ at[c] \in Nat
  BY ConsumerAt DEF IInv, Content
<1>2. ASSUME NEW p \in Prios
      PROVE  /\ Rest(c)[p] \in Seq(Content)
             /\ p > at[c] => Rest(c)[p] = <<>>
             /\ p < at[c] => /\ Rest(c)[p] = Run(slot[p], First(c, p), entries[c][p])
                             /\ entries[c][p] = 0 => Rest(c)[p] = <<>>
             /\ p = at[c] => Rest(c)[p] = Run(slot[p], First(c, p) + copied[c],
                                              entries[c][p] - copied[c])
  <2>1. p \in Nat /\ First(c, p) \in Nat /\ entries[c][p] \in Nat /\ slot[p] \in Ring
    BY ConstantFacts, Lengths, RingTypes
  <2>2. CASE p > at[c]
    <3>1. Rest(c)[p] = <<>> /\ ~(p < at[c]) /\ ~(p = at[c]) /\ <<>> \in Seq(Content)
      BY <1>1, <2>1, <2>2 DEF Rest
    <3>2. QED
      BY <3>1
  <2>3. CASE p < at[c]
    <3>1. ~(p > at[c]) /\ ~(p = at[c])
      BY <1>1, <2>1, <2>3
    <3>2. Rest(c)[p] = Run(slot[p], First(c, p), entries[c][p])
      BY <2>3, <3>1 DEF Rest
    <3>3. QED
      BY <2>1, <3>1, <3>2, RunFacts
  <2>4. CASE p = at[c]
    <3>1. ~(p > at[c]) /\ ~(p < at[c])
      BY <1>1, <2>1, <2>4
    <3>2. PICK n \in Nat, k \in Nat :
            n = entries[c][p] - copied[c] /\ k = First(c, p) + copied[c]
      <4>1. /\ entries[c][p] - copied[c] \in Nat /\ copied[c] \in 0..entries[c][p]
        BY <2>4, Lengths
      <4>2. First(c, p) + copied[c] \in Nat
        BY <2>1, <4>1
      <4>3. QED
        BY <4>1, <4>2
    <3>3. Rest(c)[p] = Run(slot[p], k, n)
      BY <2>4, <3>1, <3>2 DEF Rest
    <3>4. Rest(c)[p] \in Seq(Content)
      BY <2>1, <3>3, RunFacts
    <3>5. QED
      BY <3>1, <3>2, <3>3, <3>4
  <2>5. QED
    BY <1>1, <2>1, <2>2, <2>3, <2>4
<1>3. Rest(c) \in [Prios -> Seq(Content)]
  <2>1. \A p \in Prios : Rest(c)[p] \in Seq(Content)
    BY <1>2
  <2>2. Rest(c) = [p \in Prios |-> Rest(c)[p]]
    BY DEF Rest
  <2>3. QED
    BY <2>1, <2>2
<1>4. QED
  BY <1>1, <1>2, <1>3

-----------------------------------------------------------------------------
(* Steps that the promise does not see *)

\* A consumer that does not step, with the slots as they were.
LEMMA BurstKept ==
  ASSUME NEW c, UNCHANGED slot,
         cpc'[c] = cpc[c], heads'[c] = heads[c], entries'[c] = entries[c],
         at'[c] = at[c], copied'[c] = copied[c], got'[c] = got[c]
  PROVE  Burst(c)' = Burst(c)
<1>1. Rest(c)' = Rest(c)
  BY DEF Rest, First
<1>2. QED
  BY <1>1 DEF Burst, Busy

LEMMA OtherBurstsKept ==
  ASSUME NEW c, OtherConsumers(c), UNCHANGED slot
  PROVE  \A d \in Consumers \ {c} : Burst(d)' = Burst(d)
BY BurstKept DEF OtherConsumers

LEMMA AllBurstsKept ==
  ASSUME UNCHANGED <<consVars, slot>>
  PROVE  \A d \in Consumers : Burst(d)' = Burst(d)
BY BurstKept DEF consVars

LEMMA QueuesKept ==
  ASSUME UNCHANGED <<slot, prodTail, consHead>>
  PROVE  \A p \in Prios : Queue(p)' = Queue(p)
BY DEF Queue, Claimed, Produced

LEMMA Unseen ==
  ASSUME IInv, IInv', \A p \in Prios : Queue(p)' = Queue(p),
         \A c \in Consumers : Burst(c)' = Burst(c)
  PROVE  UNCHANGED Promise!vars
<1>1. Queues' = Queues
  BY Shown, ShownNext
<1>2. Bursts' = Bursts
  BY Shown, ShownNext
<1>3. QED
  BY <1>1, <1>2 DEF Promise!vars, Queues, Bursts

\* The slot a producer writes is none of those in a queue or a burst.
LEMMA WriteUnseen ==
  ASSUME IInv, IInv', NEW c \in Producers, Write(c)
  PROVE  UNCHANGED Promise!vars
<1>1. PICK p \in Prios, l \in Nat : p = prio[c] /\ l = Pos(head[c])
  BY ProducerAt, HeadPosition DEF IInv
<1>2. PICK x : x = object[c]
  OBVIOUS
<1>3. /\ slot'[p] = [slot[p] EXCEPT ![SlotOf(l)] = x]
      /\ \A q \in Prios \ {p} : slot'[q] = slot[q]
  <2>1. PICK i \in Index : i = head[c]
    BY ProducerAt DEF IInv
  <2>2. i % RingSize = SlotOf(l)
    BY <1>1, <2>1, SlotPos
  <2>3. slot' = [slot EXCEPT ![p][SlotOf(l)] = x]
    BY <1>1, <1>2, <2>1, <2>2 DEF Write
  <2>4. QED
    BY <2>3 DEF IInv, TypeOK
<1>4. UNCHANGED <<prodHead, prodTail, consHead, consTail, consVars>>
  BY DEF Write
<1>5. /\ Produced(p) <= l /\ l < Consumed(p) + RingSize
      /\ Consumed(p) <= Claimed(p) /\ Claimed(p) <= Produced(p)
      /\ Consumed(p) \in Nat /\ Claimed(p) \in Nat /\ Produced(p) \in Nat
  <2>1. Produced(p) <= l /\ l < Reserved(p) /\ Window(p)
    BY <1>1 DEF IInv, Produces, Holding, Write
  <2>2. /\ Consumed(p) \in Nat /\ Claimed(p) \in Nat
        /\ Produced(p) \in Nat /\ Reserved(p) \in Nat
    BY EndPositions DEF IInv
  <2>3. QED
    BY <2>1, <2>2, ConstantFacts DEF Window
<1>6. slot[p] \in Ring
  BY RingTypes
<1>7. ASSUME NEW k \in Nat, NEW n \in Nat, Consumed(p) <= k, k + n <= Produced(p)
      PROVE  Run(slot'[p], k, n) = Run(slot[p], k, n)
  <2>1. k + n <= l /\ l < k + RingSize
    BY <1>5, <1>7, ConstantFacts
  <2>2. PICK s \in Ring : s = slot[p]
    BY <1>6
  <2>3. l \in Nat
    BY <1>1
  <2>4. Run([s EXCEPT ![SlotOf(l)] = x], k, n) = Run(s, k, n)
    BY <2>1, <2>2, <2>3, RunKept
  <2>5. QED
    BY <1>3, <2>2, <2>4
<1>8. ASSUME NEW q \in Prios
      PROVE  Queue(q)' = Queue(q)
  <2>1. Claimed(q)' = Claimed(q) /\ Produced(q)' = Produced(q)
    BY <1>4 DEF Claimed, Produced
  <2>2. CASE q = p
    <3>1. PICK n \in Nat : n = Produced(p) - Claimed(p)
      BY Lengths
    <3>2. Claimed(p) + n <= Produced(p)
      BY <1>5, <3>1
    <3>3. Run(slot'[p], Claimed(p), n) = Run(slot[p], Claimed(p), n)
      BY <1>5, <1>7, <3>2
    <3>4. QED
      BY <2>1, <2>2, <3>1, <3>3 DEF Queue
  <2>3. CASE q # p
    BY <1>3, <2>1, <2>3 DEF Queue
  <2>4. QED
    BY <2>2, <2>3
<1>9. ASSUME NEW d \in Consumers
      PROVE  Burst(d)' = Burst(d)
  <2>1. /\ UNCHANGED <<cpc, heads, entries, at, copied, got>>
        /\ Busy(d)' <=> Busy(d)
        /\ \A q \in Prios : First(d, q)' = First(d, q)
    BY <1>4 DEF consVars, Busy, First
  <2>2. ASSUME NEW q \in Prios, Busy(d)
        PROVE  Rest(d)'[q] = Rest(d)[q]
    <3>1. CASE q # p
      BY <1>3, <2>1, <3>1 DEF Rest
    <3>2. CASE q = p /\ p > at[d]
      BY <2>1, <3>2 DEF Rest
    <3>3. CASE q = p /\ p < at[d]
      <4>1. PICK k \in Nat, n \in Nat : k = First(d, p) /\ n = entries[d][p]
        BY Lengths
      <4>2. Run(slot'[p], k, n) = Run(slot[p], k, n)
        <5>1. CASE n = 0
          BY <5>1 DEF Run
        <5>2. CASE n # 0
          <6>1. p <= at[d]
            BY <3>3, ConstantFacts, ConsumerAt DEF IInv
          <6>2. Owns(d, p) /\ k + n = End(d, p)
            BY <2>2, <4>1, <5>2, <6>1 DEF Owns, End
          <6>3. Consumed(p) <= k /\ k + n <= Claimed(p)
            BY <4>1, <6>2 DEF IInv, Consumes
          <6>4. k + n <= Produced(p)
            BY <1>5, <6>3
          <6>5. QED
            BY <1>7, <6>3, <6>4
        <5>3. QED
          BY <5>1, <5>2
      <4>3. QED
        BY <2>1, <3>3, <4>1, <4>2 DEF Rest
    <3>4. CASE q = p /\ p = at[d]
      <4>1. PICK k \in Nat, n \in Nat, m \in Nat :
              k = First(d, p) /\ n = entries[d][p] /\ m = copied[d]
        BY Lengths, ConsumerAt DEF IInv
      <4>2. m <= n /\ n - m \in Nat /\ k + m \in Nat
        BY <2>2, <3>4, <4>1, Lengths
      <4>3. Owns(d, p) /\ k + n = End(d, p)
        <5>1. p <= at[d] /\ n > 0
          BY <2>2, <3>4, <4>1, ConstantFacts DEF IInv, Consumes
        <5>2. QED
          BY <2>2, <4>1, <5>1 DEF Owns, End
      <4>4. Consumed(p) <= k /\ k + n <= Claimed(p)
        BY <4>1, <4>3 DEF IInv, Consumes
      <4>5. Consumed(p) <= k + m /\ (k + m) + (n - m) <= Produced(p)
        BY <1>5, <4>1, <4>2, <4>4
      <4>6. Run(slot'[p], k + m, n - m) = Run(slot[p], k + m, n - m)
        BY <1>7, <4>2, <4>5
      <4>7. QED
        BY <2>1, <3>4, <4>1, <4>6 DEF Rest
    <3>5. QED
      BY <3>1, <3>2, <3>3, <3>4, ConstantFacts, ConsumerAt DEF IInv
  <2>3. CASE Busy(d)
    <3>1. Rest(d)' = Rest(d)
      <4>1. Rest(d)' = [q \in Prios |-> Rest(d)'[q]] /\ Rest(d) = [q \in Prios |-> Rest(d)[q]]
        BY DEF Rest
      <4>2. QED
        BY <2>2, <2>3, <4>1
    <3>2. QED
      BY <2>1, <3>1 DEF Burst
  <2>4. CASE ~Busy(d)
    BY <2>1, <2>4 DEF Burst
  <2>5. QED
    BY <2>3, <2>4
<1>10. QED
  BY <1>8, <1>9, Unseen

\* The other steps of an enqueue but the last.
LEMMA EnqueueUnseen ==
  ASSUME IInv, IInv', NEW c \in Producers,
         \/ \E p \in UsedPrios : Enqueue(c, p)
         \/ Room(c) \/ ReserveSlot(c) \/ ReadHeadAgain(c)
  PROVE  UNCHANGED Promise!vars
<1>1. UNCHANGED <<slot, prodTail, consHead, consVars>>
  BY DEF Enqueue, Room, ReserveSlot, ReadHeadAgain, ringVars
<1>2. QED
  BY <1>1, QueuesKept, AllBurstsKept, Unseen

\* A step of a consumer that has no burst before it and after it.
LEMMA NoBurstUnseen ==
  ASSUME IInv, IInv', NEW c \in Consumers, OtherConsumers(c),
         UNCHANGED <<slot, prodTail, consHead>>, ~Busy(c), ~Busy(c)'
  PROVE  UNCHANGED Promise!vars
<1>1. Burst(c)' = Burst(c)
  BY DEF Burst
<1>2. \A d \in Consumers : Burst(d)' = Burst(d)
  BY <1>1, OtherBurstsKept
<1>3. QED
  BY <1>2, QueuesKept, Unseen

LEMMA ReadHeadsUnseen ==
  ASSUME IInv, IInv', NEW c \in Consumers, ReadHeads(c)
  PROVE  UNCHANGED Promise!vars
<1>1. /\ OtherConsumers(c) /\ UNCHANGED <<slot, prodTail, consHead>>
      /\ cpc[c] \in {"idle", "retry"} /\ cpc'[c] = "tails"
  BY DEF IInv, TypeOK, ReadHeads, CGoto, OtherConsumers, ringVars
<1>2. QED
  BY <1>1, NoBurstUnseen DEF Busy

LEMMA ReadTailsUnseen ==
  ASSUME IInv, IInv', NEW c \in Consumers, ReadTails(c)
  PROVE  UNCHANGED Promise!vars
<1>1. UNCHANGED <<slot, prodTail, consHead>> /\ cpc[c] = "tails"
  BY DEF ReadTails, ringVars
<1>2. OtherConsumers(c) /\ cpc'[c] \in {"idle", "cas"}
  <2>1. CASE DequeueReturns(c)
    BY <2>1 DEF IInv, TypeOK, DequeueReturns, CGoto, OtherConsumers
  <2>2. CASE /\ entries' = [entries EXCEPT ![c] = Weigh(Seen(c))]
             /\ CGoto(c, "cas") /\ UNCHANGED <<heads, at, copied, got>>
    BY <2>2 DEF IInv, TypeOK, CGoto, OtherConsumers
  <2>3. QED
    BY <2>1, <2>2 DEF ReadTails
<1>3. QED
  BY <1>1, <1>2, NoBurstUnseen DEF Busy

LEMMA ReserveFailsUnseen ==
  ASSUME IInv, IInv', NEW c \in Consumers, ReserveBurst(c), consHead # heads[c]
  PROVE  UNCHANGED Promise!vars
<1>1. /\ OtherConsumers(c) /\ UNCHANGED <<slot, prodTail, consHead>>
      /\ cpc[c] = "cas" /\ cpc'[c] = "retry"
  BY DEF IInv, TypeOK, ReserveBurst, CGoto, OtherConsumers
<1>2. QED
  BY <1>1, NoBurstUnseen DEF Busy

\* An object is copied: it was in the burst already.
LEMMA CopyUnseen ==
  ASSUME IInv, IInv', NEW c \in Consumers, Copy(c)
  PROVE  UNCHANGED Promise!vars
<1>1. PICK p \in Prios, i \in Index : p = at[c] /\ i = heads[c][p] /\ Pos(i) = First(c, p)
  BY ConsumerAt DEF IInv, First
<1>2. PICK k \in Nat, n \in Nat, m \in Nat :
        k = First(c, p) /\ n = entries[c][p] /\ m = copied[c]
  BY Lengths, ConsumerAt DEF IInv
<1>3. m < n /\ cpc[c] = "copy" /\ Busy(c)
  BY <1>1, <1>2 DEF IInv, Consumes, Copy, Busy
<1>4. slot[p] \in Ring
  BY RingTypes
<1>5. PICK x \in Content : x = slot[p][SlotOf(k + m)]
  <2>1. PICK j \in Nat : j = k + m
    OBVIOUS
  <2>2. QED
    BY <1>4, <2>1, SlotFacts
<1>6. slot[p][Plus(heads[c][p], copied[c]) % RingSize] = x
  <2>1. k + n < IndexMod
    <3>1. k + n <= Claimed(p) \/ n = 0
      BY <1>1, <1>2, <1>3, Lengths, ConstantFacts
    <3>2. Claimed(p) <= MaxObjects /\ Claimed(p) \in Nat
      BY WithinObjects, EndPositions DEF IInv
    <3>3. QED
      BY <1>3, <3>1, <3>2, ConstantFacts
  <2>2. k + m < IndexMod
    BY <1>3, <2>1, ConstantFacts
  <2>3. PICK j \in Index : j = Plus(i, m) /\ Pos(j) = k + m
    BY <1>1, <1>2, <2>2, PlusPos
  <2>4. j % RingSize = SlotOf(k + m)
    BY <2>3, SlotPos
  <2>5. QED
    BY <1>1, <1>2, <1>5, <2>3, <2>4
<1>7. /\ OtherConsumers(c) /\ UNCHANGED <<slot, prodTail, consHead>>
      /\ cpc'[c] \in {"copy", "release"} /\ heads'[c] = heads[c] /\ entries'[c] = entries[c]
      /\ at'[c] = at[c] /\ copied'[c] = m + 1 /\ got'[c] = Append(got[c], x)
  BY <1>1, <1>2, <1>6 DEF IInv, TypeOK, Copy, CGoto, OtherConsumers, ringVars
<1>8. PICK t : t = Run(slot[p], k + m + 1, n - m - 1)
  OBVIOUS
<1>9. /\ t \in Seq(Content) /\ Rest(c)[p] = <<x>> \o t
      /\ \A q \in Prios : q > p => Rest(c)[q] = <<>>
      /\ Rest(c) \in [Prios -> Seq(Content)] /\ got[c] \in Seq(Content)
  <2>1. PICK j \in Nat, l \in Nat : j = k + m /\ l = n - m /\ l > 0
    BY <1>3
  <2>2. /\ Run(slot[p], j + 1, l - 1) \in Seq(Content)
        /\ Run(slot[p], j, l) = <<slot[p][SlotOf(j)]>> \o Run(slot[p], j + 1, l - 1)
    BY <1>4, <2>1, RunFirst
  <2>3. j + 1 = k + m + 1 /\ l - 1 = n - m - 1
    BY <2>1
  <2>4. Rest(c)[p] = Run(slot[p], j, l)
    BY <1>1, <1>2, <1>3, <2>1, RestFacts
  <2>5. QED
    BY <1>1, <1>3, <1>5, <1>8, <2>1, <2>2, <2>3, <2>4, RestFacts
<1>10. Rest(c)' = [Rest(c) EXCEPT ![p] = t]
  <2>1. \A q \in Prios : First(c, q)' = First(c, q)
    BY <1>7 DEF First
  <2>2. k + (m + 1) = k + m + 1 /\ n - (m + 1) = n - m - 1
    OBVIOUS
  <2>3. ASSUME NEW q \in Prios
        PROVE  Rest(c)'[q] = IF q = p THEN t ELSE Rest(c)[q]
    <3>1. CASE q = p
      <4>1. ~(p > at[c]) /\ ~(p < at[c])
        BY <1>1, ConstantFacts
      <4>2. QED
        BY <1>1, <1>2, <1>7, <1>8, <2>1, <2>2, <3>1, <4>1 DEF Rest
    <3>2. CASE q # p
      <4>1. q > p \/ q < p
        BY <3>2, ConstantFacts
      <4>2. QED
        BY <1>1, <1>7, <2>1, <4>1, <3>2 DEF Rest
    <3>3. QED
      BY <3>1, <3>2
  <2>4. Rest(c)' = [q \in Prios |-> Rest(c)'[q]]
    BY DEF Rest
  <2>5. Rest(c) \in [Prios -> Seq(Content)]
    BY <1>9
  <2>6. QED
    BY <2>3, <2>4, <2>5
<1>11. Join(Append(got[c], x), Rest(c)') = Join(got[c], Rest(c))
  <2>1. PICK u, r, g : u = Rest(c)' /\ r = Rest(c) /\ g = got[c]
    OBVIOUS
  <2>2. /\ r \in [Prios -> Seq(Content)] /\ g \in Seq(Content) /\ u = [r EXCEPT ![p] = t]
        /\ r[p] = <<x>> \o t /\ \A q \in Prios : q > p => r[q] = <<>>
        /\ t \in Seq(Content) /\ x \in Content /\ p \in Prios
    BY <1>1, <1>5, <1>9, <1>10, <2>1
  <2>3. PICK h : h = Append(g, x)
    OBVIOUS
  <2>4. h \in Seq(Content) /\ g \o r[p] = h \o u[p]
    <3>1. <<x>> \in Seq(Content)
      BY <2>2
    <3>2. h = g \o <<x>> /\ h \in Seq(Content)
      BY <2>2, <2>3, AppendIsConcat
    <3>3. (g \o <<x>>) \o t = g \o (<<x>> \o t)
      BY <2>2, <3>1, ConcatAssociative
    <3>4. u[p] = t
      BY <2>2
    <3>5. QED
      BY <2>2, <3>2, <3>3, <3>4
  <2>5. /\ u \in [Prios -> Seq(Content)]
        /\ \A q \in Prios : q > p => r[q] = <<>> /\ u[q] = <<>>
        /\ \A q \in Prios : q < p => u[q] = r[q]
    <3>1. \A q \in Prios : (q > p => q # p) /\ (q < p => q # p)
      BY <1>1, ConstantFacts
    <3>2. u \in [Prios -> Seq(Content)] /\ \A q \in Prios : q # p => u[q] = r[q]
      BY <2>2
    <3>3. QED
      BY <2>2, <3>1, <3>2
  <2>6. Join(h, u) = Join(g, r)
    <3>1. g \in Seq(Content) /\ r \in [Prios -> Seq(Content)]
      BY <2>2
    <3>2. /\ g \o r[p] = h \o u[p] /\ h \in Seq(Content) /\ u \in [Prios -> Seq(Content)]
          /\ p \in Prios
      BY <1>1, <2>4, <2>5
    <3>3. /\ \A q \in Prios : q > p => r[q] = <<>> /\ u[q] = <<>>
          /\ \A q \in Prios : q < p => u[q] = r[q]
      BY <2>5
    <3>4. QED
      BY <3>1, <3>2, <3>3, JoinMoves, Zenon
  <2>7. QED
    BY <2>1, <2>3, <2>6
<1>12. Burst(c)' = Burst(c)
  <2>1. Busy(c)' /\ Busy(c)
    BY <1>3, <1>7 DEF Busy
  <2>2. Join(got[c], Rest(c))' = Join(got'[c], Rest(c)')
    BY DEF Join
  <2>3. QED
    BY <1>7, <1>11, <2>1, <2>2 DEF Burst
<1>13. \A d \in Consumers : Burst(d)' = Burst(d)
  BY <1>7, <1>12, OtherBurstsKept
<1>14. QED
  BY <1>7, <1>13, QueuesKept, Unseen

\* The next priority's turn to be copied.
LEMMA TurnUnseen ==
  ASSUME IInv, IInv', NEW c \in Consumers, Release(c), Below(entries[c], at[c]) # {}
  PROVE  UNCHANGED Promise!vars
<1>1. PICK p, a : p \in Prios /\ p = at[c] /\ a = Highest(Below(entries[c], p))
  BY ConsumerAt DEF IInv
<1>2. /\ OtherConsumers(c) /\ UNCHANGED <<slot, prodTail, consHead>>
      /\ cpc[c] = "release" /\ cpc'[c] = "copy" /\ heads'[c] = heads[c]
      /\ entries'[c] = entries[c] /\ at'[c] = a /\ copied'[c] = 0 /\ got'[c] = got[c]
  BY <1>1 DEF IInv, TypeOK, Release, NextPrio, CGoto, OtherConsumers
<1>3. Busy(c) /\ Busy(c)' /\ copied[c] = entries[c][p] /\ p \in Nat
  BY <1>1, <1>2, ConstantFacts DEF IInv, Consumes, Busy
<1>4. /\ a \in Prios /\ a \in Nat /\ a < p
      /\ \A q \in Prios : q < p /\ q > a => entries[c][q] = 0
  <2>1. entries[c] \in [Prios -> Nat]
    BY ConsumerAt DEF IInv
  <2>2. PICK S : S = Below(entries[c], p)
    OBVIOUS
  <2>3. /\ S \in SUBSET Prios /\ S # {} /\ \A q \in S : q < p
        /\ \A q \in Prios : entries[c][q] > 0 /\ q < p => q \in S
    BY <1>1, <1>3, <2>1, <2>2, BelowFacts
  <2>4. a \in S /\ \A q \in S : q <= a
    BY <1>1, <2>2, <2>3, HighestFacts
  <2>5. a \in Prios /\ a \in Nat /\ a < p
    BY <2>3, <2>4, ConstantFacts
  <2>6. ASSUME NEW q \in Prios, q < p, q > a
        PROVE  entries[c][q] = 0
    <3>1. ~(q <= a) /\ entries[c][q] \in Nat
      BY <2>1, <2>5, <2>6, ConstantFacts
    <3>2. QED
      BY <2>3, <2>4, <2>6, <3>1
  <2>7. QED
    BY <2>5, <2>6
<1>5. ASSUME NEW q \in Prios
      PROVE  Rest(c)'[q] = Rest(c)[q]
  <2>1. q \in Nat /\ First(c, q)' = First(c, q)
    BY <1>2, ConstantFacts DEF First
  <2>2. CASE q > p
    <3>1. q > a
      BY <1>3, <1>4, <2>1, <2>2
    <3>2. QED
      BY <1>1, <1>2, <2>2, <3>1 DEF Rest
  <2>3. CASE q = p
    <3>1. q > a /\ ~(q > at[c]) /\ ~(q < at[c])
      BY <1>1, <1>3, <1>4, <2>3
    <3>2. entries[c][p] - copied[c] = 0
      BY <1>3, ConsumerAt DEF IInv
    <3>3. Rest(c)[q] = Run(slot[p], First(c, p) + copied[c], 0)
      BY <2>3, <3>1, <3>2 DEF Rest
    <3>4. Rest(c)[q] = <<>>
      BY <3>3 DEF Run
    <3>5. QED
      BY <1>2, <3>1, <3>4 DEF Rest
  <2>4. CASE q < p /\ q > a
    <3>1. Rest(c)[q] = <<>>
      BY <1>1, <1>3, <1>4, <2>4, RestFacts
    <3>2. QED
      BY <1>2, <2>4, <3>1 DEF Rest
  <2>5. CASE q = a
    <3>1. ~(q > at[c]) /\ q < at[c] /\ ~(q > a) /\ ~(q < a)
      BY <1>1, <1>3, <1>4, <2>5
    <3>2. PICK k \in Nat, n \in Nat : k = First(c, q) /\ n = entries[c][q]
      BY Lengths
    <3>3. k + 0 = k /\ n - 0 = n
      OBVIOUS
    <3>4. Rest(c)'[q] = Run(slot[q], k + 0, n - 0)
      BY <1>2, <2>1, <3>1, <3>2 DEF Rest
    <3>5. Rest(c)[q] = Run(slot[q], k, n)
      BY <3>1, <3>2 DEF Rest
    <3>6. QED
      BY <3>3, <3>4, <3>5
  <2>6. CASE q < a
    <3>1. ~(q > at[c]) /\ q < at[c] /\ ~(q > a)
      BY <1>1, <1>3, <1>4, <2>1, <2>6
    <3>2. QED
      BY <1>2, <2>1, <2>6, <3>1 DEF Rest
  <2>7. QED
    BY <1>3, <1>4, <2>1, <2>2, <2>3, <2>4, <2>5, <2>6
<1>6. Rest(c)' = Rest(c)
  <2>1. Rest(c)' = [q \in Prios |-> Rest(c)'[q]] /\ Rest(c) = [q \in Prios |-> Rest(c)[q]]
    BY DEF Rest
  <2>2. QED
    BY <1>5, <2>1
<1>7. Burst(c)' = Burst(c)
  BY <1>2, <1>3, <1>6 DEF Burst
<1>8. \A d \in Consumers : Burst(d)' = Burst(d)
  BY <1>2, <1>7, OtherBurstsKept
<1>9. QED
  BY <1>2, <1>8, QueuesKept, Unseen

-----------------------------------------------------------------------------
(* Steps that the promise allows *)

\* The slot that is published holds the object, and there was room for it.
LEMMA PublishPuts ==
  ASSUME IInv, IInv', NEW c \in Producers, Publish(c)
  PROVE  Promise!Next
<1>1. PICK p \in Prios : p = prio[c]
  BY ProducerAt DEF IInv
<1>2. UNCHANGED <<consVars, consHead, slot>> /\ ppc[c] = "publish"
  BY DEF Publish
<1>3. PICK k \in Nat, m \in Nat : k = Claimed(p) /\ m = Produced(p)
  BY Lengths
<1>4. PICK n \in Nat : n = m - k
  BY <1>3, Lengths
<1>5. Produced(p)' = m + 1 /\ m < Reserved(p) /\ Pos(head[c]) = m
  BY <1>1, <1>3, PublishFacts
<1>6. \A q \in Prios : /\ Claimed(q)' = Claimed(q)
                       /\ q # p => Produced(q)' = Produced(q)
  BY <1>1, <1>2, PublishFacts DEF Claimed
<1>7. PICK x \in Objects : x = object[c] /\ slot[p][SlotOf(m)] = x
  BY <1>1, <1>2, <1>5 DEF IInv, Produces
<1>8. Queue(p) = Run(slot[p], k, n) /\ slot[p] \in Ring
  BY <1>3, <1>4, RingTypes DEF Queue
<1>9. Queue(p)' = Append(Queue(p), x)
  <2>1. Run(slot[p], k, n + 1) = Append(Run(slot[p], k, n), slot[p][SlotOf(k + n)])
    BY <1>8, RunAppend
  <2>2. k + n = m /\ (m + 1) - k = n + 1
    BY <1>4
  <2>3. Queue(p)' = Run(slot[p], k, (m + 1) - k)
    BY <1>2, <1>3, <1>5, <1>6 DEF Queue
  <2>4. QED
    BY <1>7, <1>8, <2>1, <2>2, <2>3
<1>10. \A q \in Prios \ {p} : Queue(q)' = Queue(q)
  BY <1>2, <1>6 DEF Queue
<1>11. Queue(p) \in Seq(Content) /\ Len(Queue(p)) = n
  BY <1>8, RunFacts
<1>12. n < RingSize - 1
  <2>1. Window(p) /\ Consumed(p) \in Nat /\ Reserved(p) \in Nat
    BY EndPositions DEF IInv
  <2>2. QED
    BY <1>3, <1>4, <1>5, <2>1, ConstantFacts DEF Window
<1>13. Queues[p] = Queue(p) /\ Queues' = [Queues EXCEPT ![p] = Append(Queue(p), x)]
  BY <1>9, <1>10, Shown, ShownNext
<1>14. Bursts' = Bursts
  BY <1>2, AllBurstsKept, Shown, ShownNext
<1>15. Len(Queues[p]) - Len(Queues'[p]) = -1
  <2>1. x \in Content
    BY DEF Content
  <2>2. Len(Append(Queue(p), x)) = n + 1
    BY <1>11, <2>1, AppendFacts
  <2>3. Queues'[p] = Append(Queue(p), x)
    BY <1>13 DEF Queues
  <2>4. QED
    BY <1>11, <1>13, <2>2, <2>3
<1>16. Promise!Put(p)
  <2>1. Promise!Number(p) = -1
    BY <1>15 DEF Promise!Number, Queues
  <2>2. Len(Queues[p]) < RingSize - 1
    BY <1>11, <1>12, <1>13
  <2>3. \E y \in Objects : Queues' = [Queues EXCEPT ![p] = Append(Queues[p], y)]
    BY <1>13
  <2>4. QED
    BY <1>14, <2>1, <2>2, <2>3 DEF Promise!Put, Queues, Bursts
<1>17. p \in Promise!Prios
  BY DEF Promise!Prios, Prios
<1>18. QED
  BY <1>16, <1>17 DEF Promise!Next

\* What a successful compare-and-set of the heads takes from each priority.
LEMMA ClaimedRun ==
  ASSUME IInv, IInv', NEW c \in Consumers, ReserveBurst(c), consHead = heads[c],
         NEW p \in Prios
  PROVE  /\ entries[c][p] \in Nat /\ Queue(p) \in Seq(Content)
         /\ Len(Queue(p)) - Len(Queue(p)') = entries[c][p]
         /\ Queue(p)' = SubSeq(Queue(p), entries[c][p] + 1, Len(Queue(p)))
         /\ Rest(c)'[p] = SubSeq(Queue(p), 1, entries[c][p])
<1>1. PICK k \in Nat, m \in Nat, b \in Nat :
        k = Claimed(p) /\ m = entries[c][p] /\ b = Produced(p) /\ k + m <= b
  BY ClaimFacts
<1>2. PICK n \in Nat : n = b - k /\ m \in 0..n
  BY <1>1
<1>3. /\ UNCHANGED <<slot, prodTail>> /\ cpc[c] = "cas"
      /\ at'[c] = Highest(Below(entries[c], 4)) /\ cpc'[c] = "copy"
      /\ heads'[c] = heads[c] /\ entries'[c] = entries[c] /\ copied'[c] = copied[c]
  BY DEF IInv, TypeOK, ReserveBurst, CGoto
<1>4. Claimed(p)' = k + m /\ Produced(p)' = b /\ First(c, p) = k /\ First(c, p)' = k
  BY <1>1, <1>3, ClaimFacts DEF Produced, First
<1>5. slot[p] \in Ring
  BY RingTypes
<1>6. Queue(p) = Run(slot[p], k, n) /\ Queue(p)' = Run(slot[p], k + m, n - m)
  <2>1. b - (k + m) = n - m
    BY <1>2
  <2>2. QED
    BY <1>1, <1>2, <1>3, <1>4, <2>1 DEF Queue
<1>7. Queue(p) \in Seq(Content) /\ Len(Queue(p)) = n
  BY <1>5, <1>6, RunFacts
<1>8. Len(Queue(p)') = n - m
  <2>1. k + m \in Nat /\ n - m \in Nat
    BY <1>2
  <2>2. QED
    BY <1>5, <1>6, <2>1, RunFacts
<1>9. /\ Run(slot[p], k, m) = SubSeq(Run(slot[p], k, n), 1, m)
      /\ Run(slot[p], k + m, n - m) = SubSeq(Run(slot[p], k, n), m + 1, n)
  <2>1. PICK s \in Ring : s = slot[p]
    BY <1>5
  <2>2. k \in Nat /\ n \in Nat /\ m \in 0..n
    BY <1>1, <1>2
  <2>3. /\ Run(s, k, m) = SubSeq(Run(s, k, n), 1, m)
        /\ Run(s, k + m, n - m) = SubSeq(Run(s, k, n), m + 1, n)
    BY <2>2, RunCut
  <2>4. QED
    BY <2>1, <2>3
<1>10. Rest(c)'[p] = Run(slot[p], k, m)
  <2>1. PICK a : a = at'[c]
    OBVIOUS
  <2>2. copied[c] = 0 /\ Total(entries[c]) > 0 /\ entries[c] \in [Prios -> Nat]
    BY <1>3, ConsumerAt DEF IInv, Consumes, Busy
  <2>3. PICK S : S = Below(entries[c], 4)
    OBVIOUS
  <2>4. /\ S \in SUBSET Prios /\ S # {}
        /\ \A q \in Prios : entries[c][q] > 0 /\ q < 4 => q \in S
    BY <2>2, <2>3, BelowFacts
  <2>5. a \in S /\ \A q \in S : q <= a
    BY <1>3, <2>1, <2>3, <2>4, HighestFacts
  <2>6. a \in Nat /\ p \in Nat /\ p < 4
    BY <2>4, <2>5, ConstantFacts
  <2>7. CASE p > a
    <3>1. ~(p <= a)
      BY <2>6, <2>7
    <3>2. m = 0
      BY <1>1, <2>4, <2>5, <2>6, <3>1
    <3>3. Rest(c)'[p] = <<>>
      BY <2>1, <2>7 DEF Rest
    <3>4. QED
      BY <1>5, <3>2, <3>3, RunFacts
  <2>8. CASE p < a
    <3>1. ~(p > a)
      BY <2>6, <2>8
    <3>2. QED
      BY <1>1, <1>3, <1>4, <2>1, <2>8, <3>1 DEF Rest
  <2>9. CASE p = a
    <3>1. ~(p > a) /\ ~(p < a) /\ k + 0 = k /\ m - 0 = m
      BY <2>6, <2>9
    <3>2. Rest(c)'[p] = Run(slot[p], k + 0, m - 0)
      BY <1>1, <1>3, <1>4, <2>1, <2>2, <3>1 DEF Rest
    <3>3. QED
      BY <3>1, <3>2
  <2>10. QED
    BY <2>6, <2>7, <2>8, <2>9
<1>11. n - (n - m) = m
  BY <1>2
<1>12. QED
  BY <1>1, <1>6, <1>7, <1>8, <1>9, <1>10, <1>11

LEMMA ReserveTakes ==
  ASSUME IInv, IInv', NEW c \in Consumers, ReserveBurst(c), consHead = heads[c]
  PROVE  Promise!Next
<1>1. /\ OtherConsumers(c) /\ UNCHANGED slot /\ cpc[c] = "cas" /\ cpc'[c] = "copy"
      /\ got'[c] = got[c]
  BY DEF IInv, TypeOK, ReserveBurst, CGoto, OtherConsumers
<1>2. ~Busy(c) /\ Busy(c)' /\ got[c] = <<>>
  BY <1>1 DEF Busy, IInv, Consumes
<1>3. Queues = [p \in Prios |-> Queue(p)] /\ Queues' = [p \in Prios |-> Queue(p)']
  BY Shown, ShownNext
<1>4. Bursts = [d \in Consumers |-> Burst(d)] /\ Bursts' = [d \in Consumers |-> Burst(d)']
  BY Shown, ShownNext
<1>5. \A p \in Prios : Promise!Number(p) = entries[c][p]
  <2>1. ASSUME NEW p \in Prios
        PROVE  Len(Queues[p]) - Len(Queues'[p]) = entries[c][p]
    BY <1>3, ClaimedRun
  <2>2. QED
    BY <2>1 DEF Promise!Number, Queues
<1>6. Bursts[c] = <<>>
  BY <1>2, <1>4 DEF Burst
<1>7. Promise!Number(0) + Promise!Number(1) + Promise!Number(2) + Promise!Number(3) \in 1..MaxBurst
  <2>1. Total(entries[c]) \in 1..MaxBurst
    BY <1>1 DEF IInv, Consumes
  <2>2. QED
    BY <1>5, <2>1, ConstantFacts DEF Total
<1>8. \A p \in Prios : /\ Promise!Number(p) >= 0
                       /\ Queues'[p] = SubSeq(Queues[p], Promise!Number(p) + 1, Len(Queues[p]))
  <2>1. ASSUME NEW p \in Prios
        PROVE  /\ entries[c][p] >= 0
               /\ Queues'[p] = SubSeq(Queues[p], entries[c][p] + 1, Len(Queues[p]))
    BY <1>3, ClaimedRun
  <2>2. QED
    BY <1>5, <2>1
<1>9. Burst(c)' = SubSeq(Queue(3), 1, entries[c][3]) \o SubSeq(Queue(2), 1, entries[c][2])
                  \o SubSeq(Queue(1), 1, entries[c][1]) \o SubSeq(Queue(0), 1, entries[c][0])
  <2>1. PICK r : r = Rest(c)'
    OBVIOUS
  <2>2. \A p \in Prios : r[p] = SubSeq(Queue(p), 1, entries[c][p])
    BY <2>1, ClaimedRun
  <2>3. \A p \in Prios : SubSeq(Queue(p), 1, entries[c][p]) \in Seq(Content)
    <3>1. ASSUME NEW p \in Prios
          PROVE  SubSeq(Queue(p), 1, entries[c][p]) \in Seq(Content)
      <4>1. entries[c][p] \in Nat /\ Queue(p) \in Seq(Content)
        BY ClaimedRun
      <4>2. entries[c][p] \in 0..Len(Queue(p))
        <5>1. PICK k \in Nat, m \in Nat, b \in Nat :
                k = Claimed(p) /\ m = entries[c][p] /\ b = Produced(p) /\ k + m <= b
          BY ClaimFacts
        <5>2. b - k \in Nat /\ m \in 0..(b - k)
          BY <5>1
        <5>3. Len(Queue(p)) = b - k
          BY <5>1, <5>2, RingTypes, RunFacts DEF Queue
        <5>4. QED
          BY <5>1, <5>2, <5>3
      <4>3. QED
        BY <4>1, <4>2, CutFacts
    <3>2. QED
      BY <3>1
  <2>4. r \in [Prios -> Seq(Content)]
    <3>1. r = [p \in Prios |-> r[p]]
      BY <2>1 DEF Rest
    <3>2. QED
      BY <2>2, <2>3, <3>1
  <2>5. Join(<<>>, r) = r[3] \o r[2] \o r[1] \o r[0]
    BY <2>4, JoinStart
  <2>6. Burst(c)' = Join(<<>>, r)
    BY <1>1, <1>2, <2>1 DEF Burst, Join
  <2>7. QED
    BY <2>2, <2>5, <2>6, ConstantFacts
<1>10. Bursts' = [Bursts EXCEPT ![c] = SubSeq(Queues[3], 1, Promise!Number(3))
                                       \o SubSeq(Queues[2], 1, Promise!Number(2))
                                       \o SubSeq(Queues[1], 1, Promise!Number(1))
                                       \o SubSeq(Queues[0], 1, Promise!Number(0))]
  <2>1. \A d \in Consumers \ {c} : Burst(d)' = Burst(d)
    BY <1>1, OtherBurstsKept
  <2>2. PICK z : z = Burst(c)'
    OBVIOUS
  <2>3. Bursts' = [Bursts EXCEPT ![c] = z]
    BY <1>4, <2>1, <2>2
  <2>4. z = SubSeq(Queues[3], 1, Promise!Number(3)) \o SubSeq(Queues[2], 1, Promise!Number(2))
            \o SubSeq(Queues[1], 1, Promise!Number(1)) \o SubSeq(Queues[0], 1, Promise!Number(0))
    <3>1. \A p \in Prios :
            SubSeq(Queues[p], 1, Promise!Number(p)) = SubSeq(Queue(p), 1, entries[c][p])
      BY <1>3, <1>5
    <3>2. /\ SubSeq(Queues[3], 1, Promise!Number(3)) = SubSeq(Queue(3), 1, entries[c][3])
          /\ SubSeq(Queues[2], 1, Promise!Number(2)) = SubSeq(Queue(2), 1, entries[c][2])
          /\ SubSeq(Queues[1], 1, Promise!Number(1)) = SubSeq(Queue(1), 1, entries[c][1])
          /\ SubSeq(Queues[0], 1, Promise!Number(0)) = SubSeq(Queue(0), 1, entries[c][0])
      BY <3>1, ConstantFacts
    <3>3. QED
      BY <1>9, <2>2, <3>2, Zenon
  <2>5. QED
    BY <2>3, <2>4
<1>11. Promise!Take(c)
  <2>1. DOMAIN Queues' = Prios /\ Prios = Promise!Prios
    BY <1>3 DEF Promise!Prios, Prios
  <2>2. QED
    BY <1>6, <1>7, <1>8, <1>10, <2>1 DEF Promise!Take, Promise!Oldest, Queues, Bursts
<1>12. QED
  BY <1>11 DEF Promise!Next

\* The last priority is released: what the call returns is its burst.
LEMMA ReturnDelivers ==
  ASSUME IInv, IInv', NEW c \in Consumers, Release(c), Below(entries[c], at[c]) = {}
  PROVE  Promise!Next
<1>1. PICK p \in Prios : p = at[c]
  BY ConsumerAt DEF IInv
<1>2. /\ OtherConsumers(c) /\ UNCHANGED <<slot, prodTail, consHead>>
      /\ cpc[c] = "release" /\ cpc'[c] = "idle"
  BY DEF IInv, TypeOK, Release, NextPrio, DequeueReturns, CGoto, OtherConsumers
<1>3. Busy(c) /\ ~Busy(c)' /\ copied[c] = entries[c][p] /\ got[c] # <<>> /\ p \in Nat
  BY <1>1, <1>2, ConstantFacts DEF IInv, Consumes, Busy
<1>4. ASSUME NEW q \in Prios
      PROVE  Rest(c)[q] = <<>>
  <2>1. CASE q > p
    BY <1>1, <1>3, <2>1, RestFacts
  <2>2. CASE q = p
    <3>1. entries[c][p] - copied[c] = 0
      BY <1>3, ConsumerAt DEF IInv
    <3>2. Rest(c)[p] = Run(slot[p], First(c, p) + copied[c], 0)
      BY <1>1, <1>3, <3>1, RestFacts
    <3>3. QED
      BY <2>2, <3>2 DEF Run
  <2>3. CASE q < p
    <3>1. entries[c] \in [Prios -> Nat] /\ entries[c][q] \in Nat
      BY ConsumerAt DEF IInv
    <3>2. ~(entries[c][q] > 0)
      BY <1>1, <1>3, <2>3, <3>1, BelowFacts
    <3>3. entries[c][q] = 0
      BY <3>1, <3>2
    <3>4. QED
      BY <1>1, <1>3, <2>3, <3>3, RestFacts
  <2>4. q > p \/ q = p \/ q < p
    BY <1>1, ConstantFacts
  <2>5. QED
    BY <2>1, <2>2, <2>3, <2>4
<1>5. Burst(c) = got[c]
  BY <1>3, <1>4, RestFacts, JoinEnd DEF Burst
<1>6. Burst(c)' = <<>>
  BY <1>3 DEF Burst
<1>7. Bursts[c] # <<>> /\ Bursts' = [Bursts EXCEPT ![c] = <<>>]
  BY <1>2, <1>3, <1>5, <1>6, OtherBurstsKept, Shown, ShownNext
<1>8. Queues' = Queues
  BY <1>2, QueuesKept, Shown, ShownNext
<1>9. Promise!Deliver(c)
  BY <1>7, <1>8 DEF Promise!Deliver, Queues, Bursts
<1>10. QED
  BY <1>9 DEF Promise!Next

-----------------------------------------------------------------------------
(* The refinement *)

LEMMA StepsAllowed ==
  ASSUME IInv, IInv', [Next]_vars
  PROVE  [Promise!Next]_(Promise!vars)
<1>1. ASSUME NEW c \in Producers, EnqueueStep(c)
      PROVE  [Promise!Next]_(Promise!vars)
  BY <1>1, EnqueueUnseen, WriteUnseen, PublishPuts DEF EnqueueStep
<1>2. ASSUME NEW c \in Consumers, DequeueStep(c)
      PROVE  [Promise!Next]_(Promise!vars)
  <2>1. CASE ReserveBurst(c)
    BY <2>1, ReserveFailsUnseen, ReserveTakes
  <2>2. CASE Release(c)
    BY <2>2, TurnUnseen, ReturnDelivers
  <2>3. QED
    BY <1>2, <2>1, <2>2, ReadHeadsUnseen, ReadTailsUnseen, CopyUnseen DEF DequeueStep
<1>3. CASE UNCHANGED vars
  <2>1. UNCHANGED <<slot, prodTail, consHead, consVars>>
    BY <1>3 DEF vars, ringVars
  <2>2. QED
    BY <2>1, QueuesKept, AllBurstsKept, Unseen
<1>4. QED
  BY <1>1, <1>2, <1>3 DEF Next

LEMMA InitAllowed == Init => Promise!Init
<1> SUFFICES ASSUME Init PROVE Promise!Init
  OBVIOUS
<1>1. IInv
  BY InitIInv
<1>2. ASSUME NEW p \in Prios PROVE Queue(p) = <<>>
  <2>1. Pos(Start) = 0
    BY PosStart
  <2>2. Claimed(p) = 0 /\ Produced(p) = 0
    BY <2>1 DEF Init, AllPrios, Claimed, Produced
  <2>3. QED
    BY <2>2 DEF Queue, Run
<1>3. ASSUME NEW c \in Consumers PROVE Burst(c) = <<>>
  BY DEF Init, Burst, Busy
<1>4. Queues = [p \in Promise!Prios |-> <<>>] /\ Bursts = [c \in Consumers |-> <<>>]
  BY <1>1, <1>2, <1>3, Shown DEF Promise!Prios, Prios
<1>5. QED
  BY <1>4 DEF Promise!Init, Queues, Bursts

\* The multiring is a FIFO per priority, for every ring size, number of cores and start of
\* the indexes: no slot is read before it is written nor overwritten before it is read, and
\* a dequeue returns what it reserved, in whatever order the cores are delayed between
\* their compare-and-sets, their slots and their tails.
THEOREM Refinement == Spec => ImplementsPriorityFifos
<1>1. IInv /\ IInv' /\ [Next]_vars => [Promise!Next]_(Promise!vars)
  BY StepsAllowed
<1>2. QED
  BY <1>1, InitAllowed, Invariance, PTL DEF Spec, ImplementsPriorityFifos, Promise!Spec
=============================================================================
