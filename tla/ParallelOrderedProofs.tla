------------------------ MODULE ParallelOrderedProofs ------------------------
(***************************************************************************)
(* Proofs about ParallelOrdered, for any number of cores, queues and       *)
(* events, any capacity of the rings and size of the bursts.               *)
(***************************************************************************)
EXTENDS ParallelOrdered, SequencesExt, SequenceTheorems, FiniteSetTheorems, TLAPS

USE DEF stateVars

-----------------------------------------------------------------------------
(* Sequences *)

(* Appending to a sequence.                                                    *)
LEMMA AppendFacts ==
  ASSUME NEW S, NEW s \in Seq(S), NEW x \in S
  PROVE  /\ Append(s, x) \in Seq(S)
         /\ Len(Append(s, x)) = Len(s) + 1
         /\ \A i \in 1..Len(s) : Append(s, x)[i] = s[i]
         /\ Append(s, x)[Len(s) + 1] = x
  OBVIOUS

(* Cutting a sequence in two.                                                  *)
LEMMA CutFacts ==
  ASSUME NEW S, NEW s \in Seq(S), NEW n \in 0..Len(s)
  PROVE  /\ SubSeq(s, 1, n) \in Seq(S)
         /\ Len(SubSeq(s, 1, n)) = n
         /\ \A i \in 1..n : SubSeq(s, 1, n)[i] = s[i]
         /\ SubSeq(s, n + 1, Len(s)) \in Seq(S)
         /\ Len(SubSeq(s, n + 1, Len(s))) = Len(s) - n
         /\ \A i \in 1..(Len(s) - n) : SubSeq(s, n + 1, Len(s))[i] = s[n + i]
<1> Len(s) \in Nat /\ n \in Int /\ n + 1 \in Int /\ Len(s) \in Int
  OBVIOUS
<1>1. \A i \in 1..n : s[i] \in S
  OBVIOUS
<1>2. \A i \in (n + 1)..Len(s) : s[i] \in S
  OBVIOUS
<1>3. /\ SubSeq(s, 1, n) \in Seq(S)
      /\ Len(SubSeq(s, 1, n)) = IF 1 <= n THEN n - 1 + 1 ELSE 0
      /\ \A i \in 1..(n - 1 + 1) : SubSeq(s, 1, n)[i] = s[1 + i - 1]
  BY <1>1, SubSeqProperties
<1>4. /\ SubSeq(s, n + 1, Len(s)) \in Seq(S)
      /\ Len(SubSeq(s, n + 1, Len(s))) = IF n + 1 <= Len(s) THEN Len(s) - (n + 1) + 1 ELSE 0
      /\ \A i \in 1..(Len(s) - (n + 1) + 1) : SubSeq(s, n + 1, Len(s))[i] = s[n + 1 + i - 1]
  BY <1>2, SubSeqProperties
<1>5. QED
  BY <1>3, <1>4

(* One sequence behind another.                                                *)
LEMMA ConcatFacts ==
  ASSUME NEW S, NEW s \in Seq(S), NEW t \in Seq(S)
  PROVE  /\ s \o t \in Seq(S)
         /\ Len(s) \in Nat /\ Len(t) \in Nat
         /\ Len(s \o t) = Len(s) + Len(t)
         /\ \A i \in 1..Len(s) : (s \o t)[i] = s[i]
         /\ \A i \in 1..Len(t) : (s \o t)[Len(s) + i] = t[i]
<1>1. /\ s \o t \in Seq(S) /\ Len(s \o t) = Len(s) + Len(t)
      /\ \A i \in 1..(Len(s) + Len(t)) :
           (s \o t)[i] = IF i <= Len(s) THEN s[i] ELSE t[i - Len(s)]
  BY ConcatProperties
<1>2. Len(s) \in Nat /\ Len(t) \in Nat
  OBVIOUS
<1>3. \A i \in 1..Len(t) : (s \o t)[Len(s) + i] = t[i]
  <2>1. TAKE i \in 1..Len(t)
  <2>2. /\ Len(s) + i \in 1..(Len(s) + Len(t)) /\ ~(Len(s) + i <= Len(s))
        /\ (Len(s) + i) - Len(s) = i
    BY <1>2
  <2>3. QED
    BY <1>1, <2>2
<1>4. QED
  BY <1>1, <1>2, <1>3

(* Leaving out the first element of a sequence.                                *)
LEMMA TailFacts ==
  ASSUME NEW S, NEW s \in Seq(S), s # <<>>
  PROVE  /\ Head(s) = s[1] /\ Head(s) \in S
         /\ Len(s) \in Nat \ {0} /\ 1 \in 1..Len(s)
         /\ Tail(s) \in Seq(S)
         /\ Len(Tail(s)) = Len(s) - 1
         /\ \A i \in 1..Len(Tail(s)) : Tail(s)[i] = s[i + 1]
         /\ Len(s) > 1 => Tail(s) # <<>>
         /\ ~(Len(s) > 1) => Tail(s) = <<>>
<1>1. Len(s) \in Nat \ {0}
  OBVIOUS
<1>2. Tail(s) \in Seq(S) /\ Len(Tail(s)) = Len(s) - 1
  OBVIOUS
<1>3. \A i \in 1..Len(Tail(s)) : Tail(s)[i] = s[i + 1]
  OBVIOUS
<1>4. ASSUME Len(s) > 1 PROVE Tail(s) # <<>>
  <2>1. Len(Tail(s)) # 0
    BY <1>1, <1>2, <1>4
  <2>2. QED
    BY <1>2, <2>1, EmptySeq
<1>5. ASSUME ~(Len(s) > 1) PROVE Tail(s) = <<>>
  BY <1>1, <1>2, <1>5
<1>6. QED
  BY <1>1, <1>2, <1>3, <1>4, <1>5

(* A sequence without repetitions.                                             *)
LEMMA InjectiveFacts ==
  ASSUME NEW S, NEW s \in Seq(S)
  PROVE  IsInjective(s) <=> \A i, j \in 1..Len(s) : s[i] = s[j] => i = j
<1>1. DOMAIN s = 1..Len(s)
  OBVIOUS
<1>2. QED
  BY <1>1 DEF IsInjective

(* What a sequence holds when an element is put behind it.                     *)
LEMMA AppendMembers ==
  ASSUME NEW S, NEW s \in Seq(S), NEW x \in S, NEW t, t = Append(s, x)
  PROVE  /\ \A y : Contains(t, y) <=> Contains(s, y) \/ y = x
         /\ IsInjective(s) /\ ~Contains(s, x) => IsInjective(t)
<1>1. t \in Seq(S) /\ Len(s) \in Nat
  BY AppendFacts
<1>2. Len(t) = Len(s) + 1 /\ t[Len(s) + 1] = x /\ \A i \in 1..Len(s) : t[i] = s[i]
  BY AppendFacts
<1>3. /\ \A i \in 1..Len(t) : i \in 1..Len(s) \/ i = Len(s) + 1
      /\ \A i \in 1..Len(s) : i \in 1..Len(t) /\ i # Len(s) + 1
      /\ Len(s) + 1 \in 1..Len(t)
  BY <1>1, <1>2
<1>4. \A y : Contains(t, y) <=> Contains(s, y) \/ y = x
  BY <1>2, <1>3 DEF Contains
<1>5. ASSUME IsInjective(s), ~Contains(s, x)
      PROVE  IsInjective(t)
  <2>1. \A i, j \in 1..Len(s) : s[i] = s[j] => i = j
    BY <1>5, InjectiveFacts
  <2>2. \A i \in 1..Len(s) : s[i] # x
    BY <1>5 DEF Contains
  <2>3. \A i, j \in 1..Len(t) : t[i] = t[j] => i = j
    BY <1>2, <1>3, <2>1, <2>2
  <2>4. QED
    BY <1>1, <2>3, InjectiveFacts
<1>6. QED
  BY <1>4, <1>5

(* What it holds when its first element is left out.                           *)
LEMMA TailMembers ==
  ASSUME NEW S, NEW s \in Seq(S), s # <<>>, NEW t, t = Tail(s)
  PROVE  /\ \A y : Contains(s, y) <=> y = Head(s) \/ Contains(t, y)
         /\ IsInjective(s) => IsInjective(t) /\ ~Contains(t, Head(s))
<1>1. /\ Head(s) = s[1] /\ Len(s) \in Nat \ {0} /\ Len(t) = Len(s) - 1 /\ t \in Seq(S)
      /\ \A i \in 1..Len(t) : t[i] = s[i + 1]
  BY TailFacts
<1>2. /\ \A i \in 1..Len(t) : i + 1 \in 1..Len(s) /\ i + 1 # 1
      /\ \A i \in 1..Len(s) : i = 1 \/ \E j \in 1..Len(t) : i = j + 1
      /\ 1 \in 1..Len(s)
  <2>1. \A i \in 1..Len(s) : i # 1 => i - 1 \in 1..Len(t) /\ i = (i - 1) + 1
    BY <1>1
  <2>2. QED
    BY <1>1, <2>1
<1>3. \A y : Contains(s, y) <=> y = Head(s) \/ Contains(t, y)
  <2>1. \A i \in 1..Len(s) : s[i] = Head(s) \/ \E j \in 1..Len(t) : t[j] = s[i]
    BY <1>1, <1>2
  <2>2. \A j \in 1..Len(t) : \E i \in 1..Len(s) : s[i] = t[j]
    BY <1>1, <1>2
  <2>3. \E i \in 1..Len(s) : s[i] = Head(s)
    BY <1>1, <1>2
  <2>4. QED
    BY <2>1, <2>2, <2>3 DEF Contains
<1>4. ASSUME IsInjective(s)
      PROVE  IsInjective(t) /\ ~Contains(t, Head(s))
  <2>1. \A i, j \in 1..Len(s) : s[i] = s[j] => i = j
    BY <1>4, InjectiveFacts
  <2>2. ASSUME NEW i \in 1..Len(t), NEW j \in 1..Len(t), t[i] = t[j]
        PROVE  i = j
    <3>1. i + 1 = j + 1
      BY <1>1, <1>2, <2>1, <2>2
    <3>2. QED
      BY <3>1
  <2>3. \A i \in 1..Len(t) : t[i] # Head(s)
    BY <1>1, <1>2, <2>1
  <2>4. IsInjective(t)
    <3>1. t \in Seq(S) /\ \A i, j \in 1..Len(t) : t[i] = t[j] => i = j
      BY <1>1, <2>2
    <3>2. QED
      BY <3>1, InjectiveFacts
  <2>5. QED
    BY <2>3, <2>4 DEF Contains
<1>5. QED
  BY <1>3, <1>4

(* What s holds is in a or in b; in one of them, if nothing is in s twice.     *)
Parts(s, a, b) ==
  /\ \A y : Contains(s, y) <=> Contains(a, y) \/ Contains(b, y)
  /\ IsInjective(s) => /\ IsInjective(a) /\ IsInjective(b)
                       /\ \A y : ~(Contains(a, y) /\ Contains(b, y))

(* What the parts hold when it is cut in two.                                  *)
LEMMA CutMembers ==
  ASSUME NEW S, NEW s \in Seq(S), NEW n \in 0..Len(s)
  PROVE  Parts(s, SubSeq(s, 1, n), SubSeq(s, n + 1, Len(s)))
<1>0. PICK a, b : a = SubSeq(s, 1, n) /\ b = SubSeq(s, n + 1, Len(s))
  OBVIOUS
<1>1. /\ Len(s) \in Nat /\ n \in Nat /\ n <= Len(s)
      /\ Len(a) = n /\ \A i \in 1..n : a[i] = s[i]
      /\ Len(b) = Len(s) - n /\ \A i \in 1..(Len(s) - n) : b[i] = s[n + i]
      /\ a \in Seq(S) /\ b \in Seq(S)
  BY <1>0, CutFacts
<1>2. /\ \A i \in 1..Len(a) : i \in 1..Len(s) /\ a[i] = s[i] /\ i <= n
      /\ \A i \in 1..Len(b) : n + i \in 1..Len(s) /\ b[i] = s[n + i] /\ ~(n + i <= n)
  <2>1. \A i \in 1..Len(a) : i \in 1..n
    BY <1>1
  <2>2. \A i \in 1..Len(b) : i \in 1..(Len(s) - n)
    BY <1>1
  <2>3. \A i \in 1..(Len(s) - n) : n + i \in 1..Len(s) /\ ~(n + i <= n)
    <3>1. Len(s) \in Nat /\ n \in Nat /\ n <= Len(s)
      BY <1>1
    <3>2. QED
      BY <3>1
  <2>4. \A i \in 1..n : i \in 1..Len(s) /\ i <= n
    <3>1. Len(s) \in Nat /\ n \in Nat /\ n <= Len(s)
      BY <1>1
    <3>2. QED
      BY <3>1
  <2>5. QED
    BY <1>1, <2>1, <2>2, <2>3, <2>4
<1>3. \A i \in 1..Len(s) : i \in 1..Len(a) \/ \E j \in 1..Len(b) : i = n + j
  <2>1. \A i \in 1..Len(s) : i \in 1..Len(a) \/ (i - n \in 1..Len(b) /\ i = n + (i - n))
    <3>1. Len(s) \in Nat /\ n \in Nat /\ Len(a) = n /\ Len(b) = Len(s) - n
      BY <1>1
    <3>2. QED
      BY <3>1
  <2>2. QED
    BY <2>1
<1>4. \A y : Contains(s, y) <=> Contains(a, y) \/ Contains(b, y)
  <2>1. \A i \in 1..Len(s) : Contains(a, s[i]) \/ Contains(b, s[i])
    <3> SUFFICES ASSUME NEW i \in 1..Len(s)
                 PROVE  Contains(a, s[i]) \/ Contains(b, s[i])
      OBVIOUS
    <3>1. CASE i \in 1..Len(a)
      BY <1>2, <3>1 DEF Contains
    <3>2. CASE \E j \in 1..Len(b) : i = n + j
      BY <1>2, <3>2 DEF Contains
    <3>3. QED
      BY <1>3, <3>1, <3>2
  <2>2. \A j \in 1..Len(a) : Contains(s, a[j])
    BY <1>2 DEF Contains
  <2>3. \A j \in 1..Len(b) : Contains(s, b[j])
    BY <1>2 DEF Contains
  <2>4. ASSUME NEW y
        PROVE  Contains(s, y) <=> Contains(a, y) \/ Contains(b, y)
    <3>1. Contains(s, y) => Contains(a, y) \/ Contains(b, y)
      BY <2>1, Zenon DEF Contains
    <3>2. Contains(a, y) => Contains(s, y)
      BY <2>2, Zenon DEF Contains
    <3>3. Contains(b, y) => Contains(s, y)
      BY <2>3, Zenon DEF Contains
    <3>4. QED
      BY <3>1, <3>2, <3>3
  <2>5. QED
    BY <2>4
<1>5. ASSUME IsInjective(s)
      PROVE  /\ IsInjective(a) /\ IsInjective(b)
             /\ \A y : ~(Contains(a, y) /\ Contains(b, y))
  <2>1. \A i, j \in 1..Len(s) : s[i] = s[j] => i = j
    BY <1>5, InjectiveFacts
  <2>2. ASSUME NEW i \in 1..Len(b), NEW j \in 1..Len(b), b[i] = b[j]
        PROVE  i = j
    <3>1. n + i = n + j
      BY <1>2, <2>1, <2>2
    <3>2. QED
      BY <1>1, <3>1
  <2>3. \A i, j \in 1..Len(a) : a[i] = a[j] => i = j
    BY <1>2, <2>1
  <2>4. \A i \in 1..Len(a), j \in 1..Len(b) : a[i] # b[j]
    BY <1>2, <2>1
  <2>5. IsInjective(a) /\ IsInjective(b)
    BY <1>1, <2>2, <2>3, InjectiveFacts
  <2>6. QED
    BY <2>4, <2>5 DEF Contains
<1>6. QED
  BY <1>0, <1>4, <1>5 DEF Parts

(* One sequence behind another when the first one loses its head ...           *)
LEMMA ConcatTail ==
  ASSUME NEW S, NEW s \in Seq(S), NEW t \in Seq(S), s # <<>>
  PROVE  /\ s \o t # <<>>
         /\ Head(s \o t) = Head(s)
         /\ Tail(s \o t) = Tail(s) \o t
<1>1. PICK u : u = s \o t
  OBVIOUS
<1>2. /\ u \in Seq(S) /\ Len(u) = Len(s) + Len(t) /\ Len(s) \in Nat /\ Len(t) \in Nat
      /\ \A i \in 1..Len(s) : u[i] = s[i]
      /\ \A i \in 1..Len(t) : u[Len(s) + i] = t[i]
  BY <1>1, ConcatFacts
<1>3. /\ Head(s) = s[1] /\ Len(s) \in Nat \ {0} /\ 1 \in 1..Len(s)
      /\ Tail(s) \in Seq(S) /\ Len(Tail(s)) = Len(s) - 1
      /\ \A i \in 1..Len(Tail(s)) : Tail(s)[i] = s[i + 1]
  BY TailFacts
<1>4. u # <<>> /\ Head(u) = s[1]
  BY <1>2, <1>3
<1>5. /\ Tail(u) \in Seq(S) /\ Len(Tail(u)) = Len(u) - 1
      /\ \A i \in 1..Len(Tail(u)) : Tail(u)[i] = u[i + 1]
  BY <1>2, <1>4, TailFacts
<1>6. PICK v : v = Tail(s)
  OBVIOUS
<1>7. PICK w : w = v \o t
  OBVIOUS
<1>8. /\ w \in Seq(S) /\ Len(w) = Len(v) + Len(t)
      /\ \A i \in 1..Len(v) : w[i] = v[i]
      /\ \A i \in 1..Len(t) : w[Len(v) + i] = t[i]
  BY <1>3, <1>6, <1>7, ConcatFacts
<1>9. Len(w) = Len(Tail(u))
  BY <1>2, <1>3, <1>5, <1>6, <1>8
<1>10. ASSUME NEW i \in 1..Len(w)
       PROVE  w[i] = Tail(u)[i]
  <2>1. Tail(u)[i] = u[i + 1]
    BY <1>5, <1>9, <1>10
  <2>2. CASE i \in 1..Len(v)
    <3>1. i + 1 \in 1..Len(s)
      BY <1>2, <1>3, <1>6, <2>2
    <3>2. w[i] = v[i] /\ v[i] = s[i + 1]
      BY <1>3, <1>6, <1>8, <2>2
    <3>3. QED
      BY <1>2, <2>1, <3>1, <3>2
  <2>3. CASE i \notin 1..Len(v)
    <3>1. PICK j : j = i - Len(v)
      OBVIOUS
    <3>2. j \in 1..Len(t) /\ i = Len(v) + j /\ i + 1 = Len(s) + j
      BY <1>2, <1>3, <1>6, <1>8, <1>10, <2>3, <3>1
    <3>3. w[i] = t[j] /\ u[i + 1] = t[j]
      BY <1>2, <1>8, <3>2
    <3>4. QED
      BY <2>1, <3>3
  <2>4. QED
    BY <2>2, <2>3
<1>11. w = Tail(u)
  BY <1>5, <1>8, <1>9, <1>10, SeqEqual
<1>12. QED
  BY <1>1, <1>3, <1>4, <1>6, <1>7, <1>11

(* ... and when the second one grows.                                          *)
LEMMA ConcatAppend ==
  ASSUME NEW S, NEW s \in Seq(S), NEW t \in Seq(S), NEW x \in S
  PROVE  s \o Append(t, x) = Append(s \o t, x)
<1>1. PICK u, v : u = s \o t /\ v = Append(t, x)
  OBVIOUS
<1>2. PICK l, r : l = s \o v /\ r = Append(u, x)
  OBVIOUS
<1>3. /\ u \in Seq(S) /\ Len(u) = Len(s) + Len(t) /\ Len(s) \in Nat /\ Len(t) \in Nat
      /\ \A i \in 1..Len(s) : u[i] = s[i]
      /\ \A i \in 1..Len(t) : u[Len(s) + i] = t[i]
  BY <1>1, ConcatFacts
<1>4. /\ v \in Seq(S) /\ Len(v) = Len(t) + 1
      /\ \A i \in 1..Len(t) : v[i] = t[i]
      /\ v[Len(t) + 1] = x
  BY <1>1, AppendFacts
<1>5. /\ l \in Seq(S) /\ Len(l) = Len(s) + Len(v)
      /\ \A i \in 1..Len(s) : l[i] = s[i]
      /\ \A i \in 1..Len(v) : l[Len(s) + i] = v[i]
  <2>1. s \in Seq(S) /\ v \in Seq(S) /\ l = s \o v
    BY <1>2, <1>4
  <2>2. QED
    BY <2>1, ConcatFacts
<1>6. /\ r \in Seq(S) /\ Len(r) = Len(u) + 1
      /\ \A i \in 1..Len(u) : r[i] = u[i]
      /\ r[Len(u) + 1] = x
  BY <1>2, <1>3, AppendFacts
<1>7. Len(l) = Len(r)
  BY <1>3, <1>4, <1>5, <1>6
<1>8. ASSUME NEW i \in 1..Len(l)
      PROVE  l[i] = r[i]
  <2>1. CASE i \in 1..Len(s)
    <3>1. i \in 1..Len(u)
      BY <1>3, <2>1
    <3>2. QED
      BY <1>3, <1>5, <1>6, <2>1, <3>1
  <2>2. CASE i \notin 1..Len(s)
    <3>1. PICK j : j = i - Len(s)
      OBVIOUS
    <3>2. j \in 1..Len(v) /\ i = Len(s) + j /\ (j \in 1..Len(t) \/ j = Len(t) + 1)
      BY <1>3, <1>4, <1>5, <1>8, <2>2, <3>1
    <3>3. l[i] = v[j]
      BY <1>5, <3>2
    <3>4. CASE j \in 1..Len(t)
      <4>1. i \in 1..Len(u)
        BY <1>3, <3>2, <3>4
      <4>2. r[i] = t[j] /\ v[j] = t[j]
        BY <1>3, <1>4, <1>6, <3>2, <3>4, <4>1
      <4>3. QED
        BY <3>3, <4>2
    <3>5. CASE j = Len(t) + 1
      <4>1. i = Len(u) + 1
        BY <1>3, <3>2, <3>5
      <4>2. QED
        BY <1>4, <1>6, <3>3, <3>5, <4>1
    <3>6. QED
      BY <3>2, <3>4, <3>5
  <2>3. QED
    BY <2>1, <2>2
<1>9. l = r
  BY <1>5, <1>6, <1>7, <1>8, SeqEqual
<1>10. QED
  BY <1>1, <1>2, <1>9

(* A sequence of one element and another behind it.                            *)
LEMMA FirstOf ==
  ASSUME NEW S, NEW x \in S, NEW s \in Seq(S)
  PROVE  /\ <<x>> \o s \in Seq(S) /\ <<x>> \o s # <<>>
         /\ Len(<<x>> \o s) = Len(s) + 1
         /\ Head(<<x>> \o s) = x /\ Tail(<<x>> \o s) = s
<1>1. PICK f : f = <<x>>
  OBVIOUS
<1>2. f \in Seq(S) /\ f # <<>> /\ Head(f) = x /\ Tail(f) = <<>> /\ Len(f) = 1
  BY <1>1
<1>3. <<>> \o s = s
  OBVIOUS
<1>4. f \o s \in Seq(S) /\ Len(f \o s) = Len(f) + Len(s) /\ Len(s) \in Nat
  BY <1>2, ConcatFacts
<1>5. f \o s # <<>> /\ Head(f \o s) = Head(f) /\ Tail(f \o s) = Tail(f) \o s
  BY <1>2, ConcatTail
<1>6. QED
  BY <1>1, <1>2, <1>3, <1>4, <1>5

(* Putting a sequence's head before its tail.                                  *)
LEMMA SplitFirst ==
  ASSUME NEW S, NEW s \in Seq(S), s # <<>>
  PROVE  <<Head(s)>> \o Tail(s) = s
<1>1. PICK x, t : x = Head(s) /\ t = Tail(s)
  OBVIOUS
<1>2. /\ x = s[1] /\ x \in S /\ t \in Seq(S) /\ Len(t) = Len(s) - 1 /\ Len(s) \in Nat \ {0}
      /\ \A i \in 1..Len(t) : t[i] = s[i + 1]
  BY <1>1, TailFacts
<1>3. PICK f, u : f = <<x>> /\ u = f \o t
  OBVIOUS
<1>4. f \in Seq(S) /\ Len(f) = 1 /\ f[1] = x
  BY <1>2, <1>3
<1>5. /\ u \in Seq(S) /\ Len(u) = Len(f) + Len(t)
      /\ \A i \in 1..Len(f) : u[i] = f[i]
      /\ \A i \in 1..Len(t) : u[Len(f) + i] = t[i]
  BY <1>2, <1>3, <1>4, ConcatFacts
<1>6. Len(u) = Len(s)
  BY <1>2, <1>4, <1>5
<1>7. ASSUME NEW i \in 1..Len(u)
      PROVE  u[i] = s[i]
  <2>1. CASE i = 1
    BY <1>2, <1>4, <1>5, <2>1
  <2>2. CASE i # 1
    <3>1. PICK j : j = i - 1
      OBVIOUS
    <3>2. j \in 1..Len(t) /\ i = 1 + j /\ i = j + 1
      BY <1>2, <1>6, <1>7, <2>2, <3>1
    <3>3. u[i] = t[j] /\ t[j] = s[i]
      BY <1>2, <1>4, <1>5, <3>2
    <3>4. QED
      BY <3>3
  <2>3. QED
    BY <2>1, <2>2
<1>8. u = s
  BY <1>5, <1>6, <1>7, SeqEqual
<1>9. QED
  BY <1>1, <1>3, <1>8

(* Cutting a sequence and joining the parts.                                   *)
LEMMA Rejoin ==
  ASSUME NEW S, NEW s \in Seq(S), NEW n \in 0..Len(s)
  PROVE  SubSeq(s, 1, n) \o SubSeq(s, n + 1, Len(s)) = s
<1>1. PICK a, b : a = SubSeq(s, 1, n) /\ b = SubSeq(s, n + 1, Len(s))
  OBVIOUS
<1>2. /\ a \in Seq(S) /\ Len(a) = n /\ \A i \in 1..n : a[i] = s[i]
      /\ b \in Seq(S) /\ Len(b) = Len(s) - n /\ \A i \in 1..(Len(s) - n) : b[i] = s[n + i]
  BY <1>1, CutFacts
<1>3. PICK u : u = a \o b
  OBVIOUS
<1>4. /\ u \in Seq(S) /\ Len(u) = Len(a) + Len(b)
      /\ \A i \in 1..Len(a) : u[i] = a[i]
      /\ \A i \in 1..Len(b) : u[Len(a) + i] = b[i]
  BY <1>2, <1>3, ConcatFacts
<1>5. Len(s) \in Nat /\ n \in Nat /\ Len(u) = Len(s)
  BY <1>2, <1>4
<1>6. ASSUME NEW i \in 1..Len(u)
      PROVE  u[i] = s[i]
  <2>1. CASE i \in 1..n
    BY <1>2, <1>4, <2>1
  <2>2. CASE i \notin 1..n
    <3>1. PICK j : j = i - n
      OBVIOUS
    <3>2. j \in 1..(Len(s) - n) /\ i = n + j
      BY <1>5, <1>6, <2>2, <3>1
    <3>3. u[i] = b[j] /\ b[j] = s[i]
      BY <1>2, <1>4, <3>2
    <3>4. QED
      BY <3>3
  <2>3. QED
    BY <2>1, <2>2
<1>7. u = s
  BY <1>4, <1>5, <1>6, SeqEqual
<1>8. QED
  BY <1>1, <1>3, <1>7

(* The elements of s, each with what h names for it.                           *)
Named(s, h) == [i \in 1..Len(s) |-> <<s[i], h[s[i]]>>]

(* g says of the elements of s what h says.                                    *)
Agree(s, h, g) == \A y : Contains(s, y) => g[y] = h[y]

(* It depends on what h says of these only.                                    *)
LEMMA NamedSame ==
  ASSUME NEW S, NEW s \in Seq(S), NEW h, NEW g, Agree(s, h, g)
  PROVE  Named(s, g) = Named(s, h)
<1>1. \A i \in 1..Len(s) : g[s[i]] = h[s[i]]
  BY DEF Contains, Agree
<1>2. QED
  BY <1>1 DEF Named

(* The elements of that sequence.                                              *)
NamesOf(s, h) == {<<s[i], h[s[i]]>> : i \in 1..Len(s)}

(* Its elements.                                                               *)
LEMMA NamedTypes ==
  ASSUME NEW S, NEW T, NEW s \in Seq(S), NEW h, NamesOf(s, h) \subseteq T
  PROVE  /\ Named(s, h) \in Seq(T) /\ Len(Named(s, h)) = Len(s)
         /\ \A i \in 1..Len(s) : Named(s, h)[i] = <<s[i], h[s[i]]>>
<1>1. Len(s) \in Nat
  OBVIOUS
<1>2. Named(s, h) \in [1..Len(s) -> T]
  BY DEF Named, NamesOf
<1>3. Named(s, h) \in Seq(T)
  BY <1>1, <1>2, SeqDef
<1>4. DOMAIN Named(s, h) = 1..Len(s)
  BY <1>2
<1>5. Len(Named(s, h)) = Len(s)
  BY <1>1, <1>2, <1>3, <1>4
<1>6. \A i \in 1..Len(s) : Named(s, h)[i] = <<s[i], h[s[i]]>>
  BY DEF Named
<1>7. QED
  BY <1>3, <1>5, <1>6

(* With one more element ...                                                   *)
LEMMA NamedAppend ==
  ASSUME NEW S, NEW s \in Seq(S), NEW e \in S, NEW h, NEW g,
         Agree(s, h, g)
  PROVE  Named(Append(s, e), g) = Append(Named(s, h), <<e, g[e]>>)
<1>0. PICK t : t = Append(s, e)
  OBVIOUS
<1>1. /\ t \in Seq(S) /\ Len(t) = Len(s) + 1 /\ Len(s) \in Nat
      /\ \A i \in 1..Len(s) : t[i] = s[i]
      /\ t[Len(s) + 1] = e
  BY <1>0, AppendFacts
<1>2. PICK T : T = NamesOf(s, h) \cup NamesOf(t, g)
  OBVIOUS
<1>3. NamesOf(s, h) \subseteq T /\ NamesOf(t, g) \subseteq T
  BY <1>2
<1>4. <<e, g[e]>> \in T
  <2>1. Len(s) + 1 \in 1..Len(t)
    BY <1>1
  <2>2. QED
    BY <1>1, <1>3, <2>1 DEF NamesOf
<1>5. PICK a, b, x : a = Named(s, h) /\ b = Named(t, g) /\ x = <<e, g[e]>>
  OBVIOUS
<1>6. a \in Seq(T) /\ Len(a) = Len(s) /\ \A i \in 1..Len(s) : a[i] = <<s[i], h[s[i]]>>
  <2>1. s \in Seq(S) /\ NamesOf(s, h) \subseteq T
    BY <1>3
  <2>2. /\ Named(s, h) \in Seq(T) /\ Len(Named(s, h)) = Len(s)
        /\ \A i \in 1..Len(s) : Named(s, h)[i] = <<s[i], h[s[i]]>>
    BY <2>1, NamedTypes
  <2>3. QED
    BY <1>5, <2>2
<1>7. b \in Seq(T) /\ Len(b) = Len(t) /\ \A i \in 1..Len(t) : b[i] = <<t[i], g[t[i]]>>
  <2>1. t \in Seq(S) /\ NamesOf(t, g) \subseteq T
    BY <1>1, <1>3, <1>5
  <2>2. /\ Named(t, g) \in Seq(T) /\ Len(Named(t, g)) = Len(t)
        /\ \A i \in 1..Len(t) : Named(t, g)[i] = <<t[i], g[t[i]]>>
    BY <2>1, NamedTypes
  <2>3. QED
    BY <1>5, <2>2
<1>8. PICK r : r = Append(a, x)
  OBVIOUS
<1>9. /\ r \in Seq(T) /\ Len(r) = Len(a) + 1
      /\ \A i \in 1..Len(a) : r[i] = a[i]
      /\ r[Len(a) + 1] = x
  <2>1. a \in Seq(T) /\ x \in T /\ r = Append(a, x)
    BY <1>4, <1>5, <1>6, <1>8
  <2>2. QED
    BY <2>1, AppendFacts
<1>10. ASSUME NEW i \in 1..Len(b)
       PROVE  b[i] = r[i]
  <2>1. b[i] = <<t[i], g[t[i]]>> /\ (i \in 1..Len(s) \/ i = Len(s) + 1)
    BY <1>1, <1>7, <1>10
  <2>2. CASE i \in 1..Len(s)
    <3>1. t[i] = s[i] /\ g[s[i]] = h[s[i]]
      BY <1>1, <2>2 DEF Contains, Agree
    <3>2. r[i] = <<s[i], h[s[i]]>>
      BY <1>6, <1>9, <2>2
    <3>3. QED
      BY <2>1, <3>1, <3>2
  <2>3. CASE i = Len(s) + 1
    BY <1>1, <1>5, <1>6, <1>9, <2>1, <2>3
  <2>4. QED
    BY <2>1, <2>2, <2>3
<1>11. b = r
  BY <1>1, <1>6, <1>7, <1>9, <1>10, SeqEqual
<1>12. QED
  BY <1>0, <1>5, <1>8, <1>11

(* ... and with one less.                                                      *)
LEMMA NamedTail ==
  ASSUME NEW S, NEW s \in Seq(S), NEW h, s # <<>>
  PROVE  /\ Named(s, h) # <<>>
         /\ Head(Named(s, h)) = <<Head(s), h[Head(s)]>>
         /\ Named(Tail(s), h) = Tail(Named(s, h))
<1>0. PICK t : t = Tail(s)
  OBVIOUS
<1>1. /\ Head(s) = s[1] /\ Len(s) \in Nat \ {0} /\ 1 \in 1..Len(s)
      /\ t \in Seq(S) /\ Len(t) = Len(s) - 1
      /\ \A i \in 1..Len(t) : t[i] = s[i + 1]
  BY <1>0, TailFacts
<1>2. PICK T : T = NamesOf(s, h)
  OBVIOUS
<1>3. NamesOf(s, h) \subseteq T
  BY <1>2
<1>4. \A i \in 1..Len(t) : i + 1 \in 1..Len(s)
  BY <1>1
<1>5. NamesOf(t, h) \subseteq T
  BY <1>1, <1>3, <1>4 DEF NamesOf
<1>6. PICK a, b : a = Named(s, h) /\ b = Named(t, h)
  OBVIOUS
<1>7. a \in Seq(T) /\ Len(a) = Len(s) /\ \A i \in 1..Len(s) : a[i] = <<s[i], h[s[i]]>>
  <2>1. s \in Seq(S) /\ NamesOf(s, h) \subseteq T
    BY <1>3
  <2>2. /\ Named(s, h) \in Seq(T) /\ Len(Named(s, h)) = Len(s)
        /\ \A i \in 1..Len(s) : Named(s, h)[i] = <<s[i], h[s[i]]>>
    BY <2>1, NamedTypes
  <2>3. QED
    BY <1>6, <2>2
<1>8. b \in Seq(T) /\ Len(b) = Len(t) /\ \A i \in 1..Len(t) : b[i] = <<t[i], h[t[i]]>>
  <2>1. t \in Seq(S) /\ NamesOf(t, h) \subseteq T
    BY <1>1, <1>5, <1>6
  <2>2. /\ Named(t, h) \in Seq(T) /\ Len(Named(t, h)) = Len(t)
        /\ \A i \in 1..Len(t) : Named(t, h)[i] = <<t[i], h[t[i]]>>
    BY <2>1, NamedTypes
  <2>3. QED
    BY <1>6, <2>2
<1>9. a # <<>>
  BY <1>1, <1>7
<1>10. /\ Head(a) = a[1] /\ Tail(a) \in Seq(T) /\ Len(Tail(a)) = Len(a) - 1
       /\ \A i \in 1..Len(Tail(a)) : Tail(a)[i] = a[i + 1]
  BY <1>7, <1>9, TailFacts
<1>11. Len(b) = Len(Tail(a))
  BY <1>1, <1>7, <1>8, <1>10
<1>12. ASSUME NEW i \in 1..Len(b)
       PROVE  b[i] = Tail(a)[i]
  <2>1. i \in 1..Len(t) /\ i + 1 \in 1..Len(s) /\ i \in 1..Len(Tail(a))
    BY <1>4, <1>8, <1>11, <1>12
  <2>2. b[i] = <<t[i], h[t[i]]>> /\ t[i] = s[i + 1] /\ a[i + 1] = <<s[i + 1], h[s[i + 1]]>>
    BY <1>1, <1>7, <1>8, <2>1
  <2>3. QED
    BY <1>10, <2>1, <2>2
<1>13. b = Tail(a)
  BY <1>8, <1>10, <1>11, <1>12, SeqEqual
<1>14. QED
  BY <1>0, <1>1, <1>6, <1>7, <1>9, <1>10, <1>13

-----------------------------------------------------------------------------
(* The invariant *)

(* How a core's local state goes with its control point.                       *)
Shape(c) ==
  /\ pc[c] = "emit" <=> emit[c] # None
  /\ emit[c] = None => input[c] = None
  /\ pc[c] = "order" <=> bulk[c] # <<>>
  /\ pc[c] = "order" <=> schedLock = c
  /\ pc[c] = "idle" => batch[c] = <<>>
  /\ pc[c] = "loop" => batch[c] # <<>>

(* The places of an event: some there are once, some with each core.           *)
CommonPlaces == {"pool", "app", "waiting", "sched", "out"}
CorePlaces == {"refused", "bulk", "batch"}

(* Event e is in place k, of core c if each core has one, and nowhere else.    *)
Only(e, k, c) ==
  /\ k \in CommonPlaces \/ (k \in CorePlaces /\ c \in Cores)
  /\ e \in free <=> k = "pool"
  /\ e \in app <=> k = "app"
  /\ e \in done <=> k = "waiting"
  /\ Contains(schedQ, e) <=> k = "sched"
  /\ Contains(out, e) <=> k = "out"
  /\ \A d \in Cores : /\ input[d] = e /\ emit[d] # e <=> k = "refused" /\ c = d
                      /\ Contains(bulk[d], e) <=> k = "bulk" /\ c = d
                      /\ Contains(batch[d], e) <=> k = "batch" /\ c = d

Placed ==
  /\ IsInjective(schedQ) /\ IsInjective(out)
  /\ \A c \in Cores : IsInjective(bulk[c]) /\ IsInjective(batch[c])
  /\ \A e \in Events : \E k \in CommonPlaces \cup CorePlaces, c \in Cores \cup {None} : Only(e, k, c)

(* An event that waits in the sched-queue or in a burst names its queue, ...   *)
Waits(e) == Contains(schedQ, e) \/ \E c \in Cores : Contains(bulk[c], e) \/ Contains(batch[c], e)

(* ... and one with an order to keep is with the application or dispatched.    *)
Handed(e) == e \in app \/ \E c \in Cores : Contains(batch[c], e)

Headers ==
  /\ \A e \in Events : Waits(e) => hdrQ[e] \in Queues
  /\ \A e \in ordered : Handed(e)

(* Core c performs the operation of an event of q.                             *)
Emitting(c, q) == emit[c] # None /\ hdrQ[emit[c]] = q

(* The events of q in order: all of them have the order of q to keep or wait   *)
(* for their turn in it, and none is there twice.  While a core emits for q it *)
(* has the lock and there is no first event.  If nobody does, there is a first *)
(* event if there is any, and it is not finished.                              *)
OrderOf(q) ==
  /\ IsInjective(orderQ[q]) /\ Len(orderQ[q]) <= OrderCap
  /\ \A e \in Events : Contains(orderQ[q], e) => e # orderFirst[q]
  /\ \A e \in Events : Contains(orderQ[q], e) \/ orderFirst[q] = e =>
                         e \in ordered \cup done /\ hdrQ[e] = q
  /\ \A c \in Cores : Emitting(c, q) =>
       /\ lock[q] = c /\ orderFirst[q] = None
       /\ emit[c] \in done /\ ~Contains(orderQ[q], emit[c])
  /\ (\A c \in Cores : ~Emitting(c, q)) =>
       /\ orderFirst[q] = None => orderQ[q] = <<>>
       /\ orderFirst[q] \notin done

(* Event e has a turn: it is in the order of its queue, or leaving.            *)
HasTurn(e) ==
  /\ hdrQ[e] \in Queues
  /\ \/ orderFirst[hdrQ[e]] = e
     \/ Contains(orderQ[hdrQ[e]], e)
     \/ \E c \in Cores : emit[c] = e

Orders ==
  /\ \A q \in Queues : OrderOf(q)
  /\ \A e \in ordered \cup done : HasTurn(e)
  /\ \A c \in Cores : emit[c] # None => hdrQ[emit[c]] \in Queues

(* The inductive invariant.                                                    *)
IInv ==
  /\ TypeOK
  /\ \A c \in Cores : Shape(c)
  /\ Placed
  /\ Headers
  /\ Orders

-----------------------------------------------------------------------------
(* Types *)

(* Where a send puts an event.                                                 *)
LEMMA SwitchTypes ==
  ASSUME TypeOK, NEW e \in Events, NEW d \in Ends, SendSwitch(e, d)
  PROVE  /\ hdrQ' \in [Events -> Queues \cup {None}]
         /\ schedQ' \in Seq(Events) /\ out' \in Seq(Events)
<1>1. /\ hdrQ' \in {[hdrQ EXCEPT ![e] = d], [hdrQ EXCEPT ![e] = None]}
      /\ d \notin Queues => hdrQ' = [hdrQ EXCEPT ![e] = None]
  BY DEF SendSwitch, SendParallelOrdered
<1>2. schedQ' \in {schedQ, Append(schedQ, e)} /\ out' \in {out, Append(out, e)}
  BY DEF SendSwitch, SendParallelOrdered
<1>3. Append(schedQ, e) \in Seq(Events) /\ Append(out, e) \in Seq(Events)
  BY AppendFacts DEF TypeOK
<1>4. QED
  BY <1>1, <1>2, <1>3 DEF TypeOK

(* How an event's order is recorded.                                           *)
LEMMA MaintainTypes ==
  ASSUME TypeOK, NEW e \in Events, NEW q \in Queues, MaintainOrder(e, q)
  PROVE  /\ orderFirst' \in [Queues -> Events \cup {None}]
         /\ orderQ' \in [Queues -> Seq(Events)]
         /\ ordered' \subseteq Events
BY DEF TypeOK, MaintainOrder

(* What it leaves when an event is done.                                       *)
LEMMA CompleteTypes ==
  ASSUME TypeOK, NEW c \in Cores, NEW e \in Events, NEW d \in Ends, hdrQ[e] \in Queues,
         Complete(c, e, d)
  PROVE  /\ ordered' \subseteq Events /\ done' \subseteq Events
         /\ op' \in [Events -> Ends]
         /\ orderFirst' \in [Queues -> Events \cup {None}]
         /\ lock' \in [Queues -> Cores \cup {None}]
         /\ emit' \in [Cores -> Events \cup {None}]
         /\ input' \in [Cores -> Events \cup {None}]
<1> DEFINE q == hdrQ[e]
<1>1. /\ ordered' = ordered \ {e} /\ done' = done \cup {e} /\ op' = [op EXCEPT ![e] = d]
      /\ \/ /\ orderFirst' = [orderFirst EXCEPT ![q] = None] /\ lock' = [lock EXCEPT ![q] = c]
            /\ emit' = [emit EXCEPT ![c] = e] /\ input' = [input EXCEPT ![c] = e]
         \/ UNCHANGED <<orderFirst, lock, emit, input>>
  BY DEF Complete, emitVars
<1>2. q \in Queues
  OBVIOUS
<1> HIDE DEF q
<1>3. ordered' \subseteq Events /\ done' \subseteq Events /\ op' \in [Events -> Ends]
  BY <1>1 DEF TypeOK
<1>4. TypeOK /\ orderFirst \in [Queues -> Events \cup {None}] /\ lock \in [Queues -> Cores \cup {None}]
      /\ emit \in [Cores -> Events \cup {None}] /\ input \in [Cores -> Events \cup {None}]
  BY DEF TypeOK
<1>5. /\ [orderFirst EXCEPT ![q] = None] \in [Queues -> Events \cup {None}]
      /\ [lock EXCEPT ![q] = c] \in [Queues -> Cores \cup {None}]
  BY <1>2, <1>4
<1>6. /\ [emit EXCEPT ![c] = e] \in [Cores -> Events \cup {None}]
      /\ [input EXCEPT ![c] = e] \in [Cores -> Events \cup {None}]
  BY <1>4
<1>7. QED
  BY <1>1, <1>3, <1>4, <1>5, <1>6

(* The control points.                                                         *)
LEMMA GotoTypes ==
  ASSUME TypeOK, NEW c \in Cores, Resume(c) \/ \E p \in ControlPoints : Goto(c, p)
  PROVE  pc' \in [Cores -> ControlPoints]
<1>1. \E p \in ControlPoints : Goto(c, p)
  BY DEF Resume, ControlPoints
<1>2. QED
  BY <1>1 DEF TypeOK, Goto

(* The event whose turn it is and its queue.                                   *)
LEMMA EmitFacts ==
  ASSUME IInv, NEW c \in Cores, pc[c] = "emit"
  PROVE  /\ emit[c] \in Events /\ emit[c] # None /\ hdrQ[emit[c]] \in Queues
         /\ op[emit[c]] \in Ends /\ emit[c] \in done
<1>1. emit[c] \in Events /\ emit[c] # None
  BY DEF IInv, TypeOK, Shape
<1>2. hdrQ[emit[c]] \in Queues
  BY <1>1 DEF IInv, Orders
<1>3. emit[c] \in done
  BY <1>1, <1>2 DEF IInv, Orders, OrderOf, Emitting
<1>4. QED
  BY <1>1, <1>2, <1>3 DEF IInv, TypeOK

(* The first of the events a core dispatches, and its queue.                   *)
LEMMA BatchFacts ==
  ASSUME IInv, NEW c \in Cores, pc[c] = "loop"
  PROVE  /\ batch[c] \in Seq(Events) /\ batch[c] # <<>>
         /\ Head(batch[c]) \in Events /\ Contains(batch[c], Head(batch[c]))
         /\ hdrQ[Head(batch[c])] \in Queues
<1>1. batch[c] \in Seq(Events) /\ batch[c] # <<>>
  BY DEF IInv, TypeOK, Shape
<1>2. Head(batch[c]) \in Events /\ Contains(batch[c], Head(batch[c]))
  BY <1>1, TailFacts, TailMembers
<1>3. hdrQ[Head(batch[c])] \in Queues
  BY <1>2 DEF IInv, Headers, Waits
<1>4. QED
  BY <1>1, <1>2, <1>3

(* The first of the events a core puts in order, and its queue.                *)
LEMMA BulkFacts ==
  ASSUME IInv, NEW c \in Cores, pc[c] = "order"
  PROVE  /\ bulk[c] \in Seq(Events) /\ bulk[c] # <<>>
         /\ Head(bulk[c]) \in Events /\ Contains(bulk[c], Head(bulk[c]))
         /\ hdrQ[Head(bulk[c])] \in Queues
<1>1. bulk[c] \in Seq(Events) /\ bulk[c] # <<>>
  BY DEF IInv, TypeOK, Shape
<1>2. Head(bulk[c]) \in Events /\ Contains(bulk[c], Head(bulk[c]))
  BY <1>1, TailFacts, TailMembers
<1>3. hdrQ[Head(bulk[c])] \in Queues
  BY <1>2 DEF IInv, Headers, Waits
<1>4. QED
  BY <1>1, <1>2, <1>3

(* An event with an order to keep that the application gives away.             *)
LEMMA OrderedFacts ==
  ASSUME IInv, NEW e \in ordered
  PROVE  e \in Events /\ hdrQ[e] \in Queues
BY DEF IInv, TypeOK, Orders, HasTurn

(* The size of a burst taken from the sched-queue.                             *)
LEMMA BurstSize ==
  ASSUME TypeOK, schedQ # <<>>
  PROVE  /\ (IF Len(schedQ) < MaxBulk THEN Len(schedQ) ELSE MaxBulk) \in 0..Len(schedQ)
         /\ (IF Len(schedQ) < MaxBulk THEN Len(schedQ) ELSE MaxBulk) # 0
<1>1. Len(schedQ) \in Nat \ {0} /\ MaxBulk \in Nat \ {0}
  BY TailFacts, ConstantsAssumption DEF TypeOK
<1>2. QED
  BY <1>1

(* Emitting an event.                                                          *)
LEMMA EmitTypes ==
  ASSUME IInv, NEW c \in Cores, Emit(c)
  PROVE  TypeOK'
<1> DEFINE e == emit[c]
           q == hdrQ[e]
<1>1. e \in Events /\ q \in Queues /\ op[e] \in Ends /\ TypeOK
  BY EmitFacts DEF Emit, IInv
<1>2. hdrQ' \in [Events -> Queues \cup {None}] /\ schedQ' \in Seq(Events) /\ out' \in Seq(Events)
  BY <1>1, SwitchTypes DEF Emit
<1>3. orderQ' \in [Queues -> Seq(Events)]
  <2>1. orderQ' = IF orderQ[q] = <<>> THEN orderQ ELSE [orderQ EXCEPT ![q] = Tail(@)]
    BY DEF Emit
  <2>2. orderQ \in [Queues -> Seq(Events)] /\ orderQ[q] \in Seq(Events)
    BY <1>1 DEF TypeOK
  <2>3. orderQ[q] # <<>> => Tail(orderQ[q]) \in Seq(Events) /\ Head(orderQ[q]) \in Events
    BY <2>2, TailFacts
  <2> HIDE DEF q
  <2>4. QED
    BY <2>1, <2>2, <2>3
<1>4. orderQ[q] # <<>> => Head(orderQ[q]) \in Events
  <2>1. orderQ[q] \in Seq(Events)
    BY <1>1 DEF TypeOK
  <2>2. QED
    BY <2>1, TailFacts
<1>5. /\ done' = done \ {e} /\ op' = [op EXCEPT ![e] = Free]
      /\ free' \subseteq free \cup {e}
      /\ UNCHANGED <<schedLock, stateVars, ordered, bulk, batch, running>>
  BY DEF Emit, coreVars
<1>6. CASE orderQ[q] # <<>> /\ Head(orderQ[q]) \in done
  <2>1. /\ emit' = [emit EXCEPT ![c] = Head(orderQ[q])]
        /\ input' \in {input, [input EXCEPT ![c] = None]}
        /\ UNCHANGED <<orderFirst, lock, app, pc>>
    <3>1. /\ emit' = [emit EXCEPT ![c] = Head(orderQ[q])]
          /\ input' = [input EXCEPT ![c] = IF e = input[c] /\ ~(~HasRoom(op[e])) THEN None ELSE @]
          /\ UNCHANGED <<orderFirst, lock, app, pc>>
      BY <1>6 DEF Emit
    <3>2. [input EXCEPT ![c] = @] = input
      BY <1>1 DEF TypeOK
    <3>3. QED
      BY <3>1, <3>2
  <2>2. emit' \in [Cores -> Events \cup {None}] /\ input' \in [Cores -> Events \cup {None}]
    BY <1>1, <1>4, <1>6, <2>1 DEF TypeOK
  <2>3. QED
    BY <1>1, <1>2, <1>3, <1>5, <2>1, <2>2 DEF TypeOK, Ends
<1>7. CASE ~(orderQ[q] # <<>> /\ Head(orderQ[q]) \in done)
  <2>1. /\ orderFirst' = [orderFirst EXCEPT ![q] = IF orderQ[q] = <<>> THEN None ELSE Head(orderQ[q])]
        /\ lock' = [lock EXCEPT ![q] = None]
        /\ emit' = [emit EXCEPT ![c] = None]
        /\ input' = [input EXCEPT ![c] = None]
        /\ app' \subseteq app \cup {e} \cup ({input[c]} \ {None})
        /\ Resume(c)
    BY <1>7 DEF Emit
  <2>2. /\ orderFirst' \in [Queues -> Events \cup {None}] /\ lock' \in [Queues -> Cores \cup {None}]
        /\ emit' \in [Cores -> Events \cup {None}] /\ input' \in [Cores -> Events \cup {None}]
    BY <1>1, <1>4, <2>1 DEF TypeOK
  <2>3. app' \subseteq Events /\ pc' \in [Cores -> ControlPoints]
    BY <1>1, <2>1, GotoTypes DEF TypeOK
  <2>4. QED
    BY <1>1, <1>2, <1>3, <1>5, <2>2, <2>3 DEF TypeOK, Ends
<1>8. QED
  BY <1>6, <1>7

(* Every step keeps the types.                                                 *)
LEMMA TypeStep ==
  ASSUME IInv, [Next]_vars
  PROVE  TypeOK'
<1>0. TypeOK
  BY DEF IInv
<1>1. ASSUME NEW c \in Cores, NEW e \in Events, Alloc(c, e)
      PROVE  TypeOK'
  BY <1>0, <1>1 DEF TypeOK, Alloc, orderVars, hdrVars, coreVars, emitVars
<1>2. ASSUME NEW c \in Cores, NEW e \in Events, NEW d \in Ends, SendPlain(c, e, d)
      PROVE  TypeOK'
  <2>1. hdrQ' \in [Events -> Queues \cup {None}] /\ schedQ' \in Seq(Events) /\ out' \in Seq(Events)
    BY <1>0, <1>2, SwitchTypes DEF SendPlain
  <2>2. app' \subseteq Events /\ free' \subseteq Events
    BY <1>0, <1>2 DEF TypeOK, SendPlain
  <2>3. QED
    BY <1>0, <1>2, <2>1, <2>2 DEF TypeOK, SendPlain, orderVars, coreVars, emitVars
<1>3. ASSUME NEW c \in Cores, NEW e \in Events, NEW d \in Ends, SendOrdered(c, e, d)
      PROVE  TypeOK'
  <2>1. e \in ordered /\ hdrQ[e] \in Queues
    BY <1>3, OrderedFacts DEF SendOrdered
  <2>2. Complete(c, e, d)
    BY <1>3 DEF SendOrdered
  <2>3. /\ ordered' \subseteq Events /\ done' \subseteq Events
        /\ op' \in [Events -> Ends]
        /\ orderFirst' \in [Queues -> Events \cup {None}]
        /\ lock' \in [Queues -> Cores \cup {None}]
        /\ emit' \in [Cores -> Events \cup {None}]
        /\ input' \in [Cores -> Events \cup {None}]
    BY <1>0, <2>1, <2>2, CompleteTypes
  <2>4. pc' \in [Cores -> ControlPoints]
    <3>1. Goto(c, "emit") \/ UNCHANGED pc
      BY <1>3 DEF SendOrdered
    <3>2. QED
      BY <1>0, <3>1, GotoTypes DEF TypeOK, ControlPoints
  <2>5. UNCHANGED <<schedQ, schedLock, orderQ, stateVars, hdrQ, free, out, bulk, running, batch>> /\ app' = app \ {e}
    BY <1>3 DEF SendOrdered, Complete
  <2>6. QED
    BY <1>0, <2>3, <2>4, <2>5 DEF TypeOK
<1>4. ASSUME NEW c \in Cores, NEW e \in Events, NEW q \in Queues, Receive(c, e, q)
      PROVE  TypeOK'
  <2>1. hdrQ' \in [Events -> Queues \cup {None}] /\ schedQ' \in Seq(Events) /\ out' \in Seq(Events)
    BY <1>0, <1>4, SwitchTypes DEF Receive, Ends
  <2>2. QED
    BY <1>0, <1>4, <2>1 DEF TypeOK, Receive, orderVars, coreVars, emitVars
<1>5. ASSUME NEW c \in Cores, NEW e \in Events, NEW q \in Queues, ReceiveDirect(c, e, q)
      PROVE  TypeOK'
  <2>1. /\ orderFirst' \in [Queues -> Events \cup {None}]
        /\ orderQ' \in [Queues -> Seq(Events)]
        /\ ordered' \subseteq Events
    BY <1>0, <1>5, MaintainTypes DEF ReceiveDirect
  <2>2. CASE e \in ordered'
    <3>1. /\ hdrQ' = [hdrQ EXCEPT ![e] = q] /\ batch' = [batch EXCEPT ![c] = <<e>>]
          /\ Goto(c, "loop") /\ free' = free \ {e} /\ UNCHANGED <<schedQ, out>>
          /\ UNCHANGED <<schedLock, lock, stateVars, done, op, app, bulk, running, emit, input>>
      BY <1>5, <2>2 DEF ReceiveDirect, emitVars
    <3>2. pc' \in [Cores -> ControlPoints]
      BY <1>0, <3>1, GotoTypes DEF ControlPoints
    <3>3. batch' \in [Cores -> Seq(Events)] /\ hdrQ' \in [Events -> Queues \cup {None}]
      BY <1>0, <3>1 DEF TypeOK
    <3>4. QED
      BY <1>0, <2>1, <3>1, <3>2, <3>3 DEF TypeOK
  <2>3. CASE e \notin ordered'
    <3>1. /\ SendSwitch(e, q) /\ free' \subseteq free /\ UNCHANGED <<batch, pc>>
          /\ UNCHANGED <<schedLock, lock, stateVars, done, op, app, bulk, running, emit, input>>
      BY <1>5, <2>3 DEF ReceiveDirect, emitVars
    <3>2. hdrQ' \in [Events -> Queues \cup {None}] /\ schedQ' \in Seq(Events) /\ out' \in Seq(Events)
      BY <1>0, <3>1, SwitchTypes DEF Ends
    <3>3. QED
      BY <1>0, <2>1, <3>1, <3>2 DEF TypeOK
  <2>4. QED
    BY <2>2, <2>3
<1>6. ASSUME NEW c \in Cores, Schedule(c)
      PROVE  TypeOK'
  <2>1. PICK n \in 0..Len(schedQ) :
          /\ bulk' = [bulk EXCEPT ![c] = SubSeq(schedQ, 1, n)]
          /\ schedQ' = SubSeq(schedQ, n + 1, Len(schedQ))
    BY <1>0, <1>6, BurstSize DEF Schedule
  <2>2. schedQ' \in Seq(Events) /\ bulk' \in [Cores -> Seq(Events)]
    BY <1>0, <2>1, CutFacts DEF TypeOK
  <2>3. pc' \in [Cores -> ControlPoints]
    BY <1>0, <1>6, GotoTypes DEF Schedule, ControlPoints
  <2>4. QED
    BY <1>0, <1>6, <2>2, <2>3 DEF TypeOK, Schedule, orderVars, hdrVars, ownVars, emitVars
<1>7. ASSUME NEW c \in Cores, Order(c)
      PROVE  TypeOK'
  <2> DEFINE e == Head(bulk[c])
             q == hdrQ[e]
             rest == Tail(bulk[c])
  <2>1. bulk[c] \in Seq(Events) /\ bulk[c] # <<>> /\ e \in Events /\ q \in Queues
    BY <1>7, BulkFacts DEF Order
  <2>2. rest \in Seq(Events)
    BY <2>1, TailFacts
  <2>3. /\ orderFirst' \in [Queues -> Events \cup {None}]
        /\ orderQ' \in [Queues -> Seq(Events)]
        /\ ordered' \subseteq Events
    BY <1>0, <1>7, <2>1, MaintainTypes DEF Order
  <2>4. /\ lock' \in {[lock EXCEPT ![q] = c], [lock EXCEPT ![q] = None]}
        /\ bulk' = [bulk EXCEPT ![c] = rest] /\ batch' = [batch EXCEPT ![c] = Append(@, e)]
        /\ schedLock' \in {None, schedLock} /\ (Goto(c, "loop") \/ UNCHANGED pc)
        /\ UNCHANGED <<schedQ, stateVars, hdrQ, done, op, app, free, out, running, emit, input>>
    BY <1>7 DEF Order, ownVars, emitVars
  <2> HIDE DEF e, q, rest
  <2>5. pc' \in [Cores -> ControlPoints]
    BY <1>0, <2>4, GotoTypes DEF TypeOK, ControlPoints
  <2>6. bulk' \in [Cores -> Seq(Events)] /\ batch' \in [Cores -> Seq(Events)]
    BY <1>0, <2>1, <2>2, <2>4, AppendFacts DEF TypeOK
  <2>7. lock' \in [Queues -> Cores \cup {None}] /\ schedLock' \in Cores \cup {None}
    BY <1>0, <2>1, <2>4 DEF TypeOK
  <2>8. QED
    BY <1>0, <2>3, <2>4, <2>5, <2>6, <2>7 DEF TypeOK
<1>8. ASSUME NEW c \in Cores, Dispatch(c)
      PROVE  TypeOK'
  <2>1. batch[c] \in Seq(Events) /\ batch[c] # <<>> /\ Head(batch[c]) \in Events
    BY <1>8, BatchFacts DEF Dispatch
  <2>2. Tail(batch[c]) \in Seq(Events)
    BY <2>1, TailFacts
  <2>3. pc' \in [Cores -> ControlPoints]
    BY <1>0, <1>8, GotoTypes DEF Dispatch, ControlPoints
  <2>4. batch' \in [Cores -> Seq(Events)] /\ app' \subseteq Events /\ running' \in [Cores -> BOOLEAN]
    BY <1>0, <1>8, <2>1, <2>2 DEF TypeOK, Dispatch
  <2>5. QED
    BY <1>0, <1>8, <2>3, <2>4 DEF TypeOK, Dispatch, orderVars, hdrVars, emitVars
<1>9. ASSUME NEW c \in Cores, ReceiveReturns(c)
      PROVE  TypeOK'
  <2>1. pc' \in [Cores -> ControlPoints]
    BY <1>0, <1>9, GotoTypes DEF ReceiveReturns, ControlPoints
  <2>2. QED
    BY <1>0, <1>9, <2>1 DEF TypeOK, ReceiveReturns, orderVars, hdrVars, ownVars, emitVars
<1>10. ASSUME NEW c \in Cores, DropEvent(c)
       PROVE  TypeOK'
  <2> DEFINE e == Head(batch[c])
             q == hdrQ[e]
  <2>1. batch[c] \in Seq(Events) /\ batch[c] # <<>> /\ e \in Events /\ q \in Queues
    BY <1>10, BatchFacts DEF DropEvent
  <2>2. Tail(batch[c]) \in Seq(Events)
    BY <2>1, TailFacts
  <2>3. batch' \in [Cores -> Seq(Events)]
    BY <1>0, <1>10, <2>1, <2>2 DEF TypeOK, DropEvent
  <2>4. pc' \in [Cores -> ControlPoints]
    <3>1. Goto(c, "emit") \/ Goto(c, "loop") \/ Goto(c, "idle")
      BY <1>10 DEF DropEvent
    <3>2. QED
      BY <1>0, <3>1, GotoTypes DEF ControlPoints
  <2>5. CASE e \in ordered /\ Complete(c, e, Free) /\ UNCHANGED app
    <3>1. /\ ordered' \subseteq Events /\ done' \subseteq Events
          /\ op' \in [Events -> Ends]
          /\ orderFirst' \in [Queues -> Events \cup {None}]
          /\ lock' \in [Queues -> Cores \cup {None}]
          /\ emit' \in [Cores -> Events \cup {None}]
          /\ input' \in [Cores -> Events \cup {None}]
      BY <1>0, <2>1, <2>5, CompleteTypes DEF Ends
    <3>2. UNCHANGED <<schedQ, schedLock, orderQ, stateVars, hdrQ, free, out, bulk, running, app>>
      BY <2>5 DEF Complete
    <3>3. QED
      BY <1>0, <2>3, <2>4, <3>1, <3>2 DEF TypeOK
  <2>6. CASE /\ SendSwitch(e, Free) /\ free' = free \cup {e}
             /\ UNCHANGED <<schedLock, orderVars, stateVars, ordered, done, op, app, bulk, running, emitVars>>
    <3>1. hdrQ' \in [Events -> Queues \cup {None}] /\ schedQ' \in Seq(Events) /\ out' \in Seq(Events)
      BY <1>0, <2>1, <2>6, SwitchTypes DEF Ends
    <3>2. QED
      BY <1>0, <2>1, <2>3, <2>4, <2>6, <3>1 DEF TypeOK, orderVars, emitVars
  <2>7. QED
    BY <1>10, <2>5, <2>6 DEF DropEvent
<1>11. ASSUME NEW q \in Queues, ToggleStatus(q) \/ ChangeMasks(q)
       PROVE  TypeOK'
  BY <1>0, <1>11 DEF TypeOK, ToggleStatus, ChangeMasks, orderVars, hdrVars, ownVars, coreVars, emitVars
<1>12. ASSUME Consume
       PROVE  TypeOK'
  <2>1. Head(out) \in Events /\ Tail(out) \in Seq(Events)
    BY <1>0, <1>12, TailFacts DEF TypeOK, Consume
  <2>2. QED
    BY <1>0, <1>12, <2>1 DEF TypeOK, Consume, orderVars, hdrVars, coreVars, emitVars
<1>13. CASE UNCHANGED vars
  BY <1>0, <1>13 DEF TypeOK, vars, orderVars, hdrVars, ownVars, coreVars, emitVars
<1>14. QED
  BY <1>1, <1>2, <1>3, <1>4, <1>5, <1>6, <1>7, <1>8, <1>9, <1>10, <1>11, <1>12, <1>13, EmitTypes
  DEF Next, AppStep, EMStep


-----------------------------------------------------------------------------
(* A core's local state *)

(* Every step keeps each core's local state in line with its control point.    *)
LEMMA ShapeStep ==
  ASSUME IInv, [Next]_vars
  PROVE  \A c \in Cores : Shape(c)'
<1>0. /\ TypeOK /\ TypeOK' /\ \A c \in Cores : Shape(c)
      /\ None \notin Cores /\ None \notin Events
  BY TypeStep, ConstantsAssumption DEF IInv
<1>t. /\ pc \in [Cores -> ControlPoints] /\ emit \in [Cores -> Events \cup {None}]
      /\ input \in [Cores -> Events \cup {None}]
      /\ bulk \in [Cores -> Seq(Events)] /\ batch \in [Cores -> Seq(Events)]
  BY <1>0 DEF TypeOK
<1>1. ASSUME NEW c \in Cores, NEW e \in Events,
             \/ Alloc(c, e) \/ \E d \in Ends : SendPlain(c, e, d)
             \/ \E q \in Queues : Receive(c, e, q)
      PROVE  \A d \in Cores : Shape(d)'
  <2>1. UNCHANGED <<schedLock, pc, bulk, batch, emit, input>>
    BY <1>1 DEF Alloc, SendPlain, Receive, coreVars, emitVars
  <2>2. QED
    BY <1>0, <2>1 DEF Shape
<1>2. ASSUME NEW c \in Cores, NEW e \in Events, NEW d \in Ends, SendOrdered(c, e, d)
      PROVE  \A b \in Cores : Shape(b)'
  <2>1. UNCHANGED <<schedLock, bulk, batch>> /\ pc[c] \in {"idle", "recv"} /\ Complete(c, e, d)
    BY <1>2 DEF SendOrdered, AppRuns, Complete
  <2>2. CASE orderFirst[hdrQ[e]] = e
    <3>1. /\ emit' = [emit EXCEPT ![c] = e] /\ input' = [input EXCEPT ![c] = e]
          /\ pc' = [pc EXCEPT ![c] = "emit"]
      BY <1>2, <2>1, <2>2 DEF SendOrdered, Complete, Goto
    <3>2. QED
      BY <1>0, <1>t, <2>1, <3>1 DEF Shape
  <2>3. CASE orderFirst[hdrQ[e]] # e
    <3>1. UNCHANGED <<emit, input, pc>>
      BY <1>2, <2>1, <2>3 DEF SendOrdered, Complete, emitVars
    <3>2. QED
      BY <1>0, <2>1, <3>1 DEF Shape
  <2>4. QED
    BY <2>2, <2>3
<1>3. ASSUME NEW c \in Cores, NEW e \in Events, NEW q \in Queues, ReceiveDirect(c, e, q)
      PROVE  \A d \in Cores : Shape(d)'
  <2>1. UNCHANGED <<schedLock, bulk, emit, input>> /\ pc[c] = "idle"
    BY <1>3 DEF ReceiveDirect, emitVars
  <2>2. CASE e \in ordered'
    <3>1. batch' = [batch EXCEPT ![c] = <<e>>] /\ pc' = [pc EXCEPT ![c] = "loop"]
      BY <1>3, <2>2 DEF ReceiveDirect, Goto
    <3>2. <<e>> # <<>>
      OBVIOUS
    <3>3. QED
      BY <1>0, <1>t, <2>1, <3>1, <3>2 DEF Shape
  <2>3. CASE e \notin ordered'
    <3>1. UNCHANGED <<batch, pc>>
      BY <1>3, <2>3 DEF ReceiveDirect
    <3>2. QED
      BY <1>0, <2>1, <3>1 DEF Shape
  <2>4. QED
    BY <2>2, <2>3
<1>4. ASSUME NEW c \in Cores, Schedule(c)
      PROVE  \A d \in Cores : Shape(d)'
  <2>1. PICK n \in 0..Len(schedQ) : n # 0 /\ bulk' = [bulk EXCEPT ![c] = SubSeq(schedQ, 1, n)]
    BY <1>0, <1>4, BurstSize DEF Schedule
  <2>2. PICK s : s = SubSeq(schedQ, 1, n)
    OBVIOUS
  <2>3. s # <<>>
    <3>1. Len(s) = n /\ s \in Seq(Events)
      BY <1>0, <2>1, <2>2, CutFacts DEF TypeOK
    <3>2. QED
      BY <2>1, <3>1
  <2>4. /\ pc[c] = "idle" /\ schedLock = None /\ schedLock' = c
        /\ pc' = [pc EXCEPT ![c] = "order"] /\ bulk' = [bulk EXCEPT ![c] = s]
        /\ UNCHANGED <<batch, emit, input>>
    BY <1>4, <2>1, <2>2 DEF Schedule, Goto, emitVars
  <2>5. QED
    BY <1>0, <1>t, <2>3, <2>4 DEF Shape
<1>5. ASSUME NEW c \in Cores, Order(c)
      PROVE  \A d \in Cores : Shape(d)'
  <2>1. PICK r, b : r = Tail(bulk[c]) /\ b = Append(batch[c], Head(bulk[c]))
    OBVIOUS
  <2>2. /\ pc[c] = "order" /\ bulk' = [bulk EXCEPT ![c] = r] /\ batch' = [batch EXCEPT ![c] = b]
        /\ UNCHANGED <<emit, input>>
        /\ r = <<>> => schedLock' = None /\ pc' = [pc EXCEPT ![c] = "loop"]
        /\ r # <<>> => UNCHANGED <<schedLock, pc>>
    BY <1>5, <2>1 DEF Order, Goto, emitVars
  <2>3. b # <<>>
    <3>1. batch[c] \in Seq(Events) /\ Head(bulk[c]) \in Events
      BY <1>t, <2>2, BulkFacts
    <3>2. Len(b) = Len(batch[c]) + 1 /\ Len(batch[c]) \in Nat /\ b \in Seq(Events)
      BY <2>1, <3>1, AppendFacts
    <3>3. QED
      BY <3>2
  <2>4. schedLock = c
    BY <1>0, <2>2 DEF Shape
  <2>5. QED
    BY <1>0, <1>t, <2>2, <2>3, <2>4 DEF Shape
<1>6. ASSUME NEW c \in Cores, Dispatch(c)
      PROVE  \A d \in Cores : Shape(d)'
  <2>1. PICK b : b = Tail(batch[c])
    OBVIOUS
  <2>2. /\ pc[c] = "loop" /\ batch' = [batch EXCEPT ![c] = b] /\ pc' = [pc EXCEPT ![c] = "recv"]
        /\ UNCHANGED <<schedLock, bulk, emit, input>>
    BY <1>6, <2>1 DEF Dispatch, Goto, emitVars
  <2>3. QED
    BY <1>0, <1>t, <2>2 DEF Shape
<1>7. ASSUME NEW c \in Cores, ReceiveReturns(c)
      PROVE  \A d \in Cores : Shape(d)'
  <2>1. /\ pc[c] = "recv" /\ UNCHANGED <<schedLock, bulk, batch, emit, input>>
        /\ pc' = [pc EXCEPT ![c] = IF batch[c] # <<>> THEN "loop" ELSE "idle"]
    BY <1>7 DEF ReceiveReturns, Goto, emitVars
  <2>2. QED
    BY <1>0, <1>t, <2>1 DEF Shape
<1>8. ASSUME NEW c \in Cores, DropEvent(c)
      PROVE  \A d \in Cores : Shape(d)'
  <2>1. PICK e, q, b : e = Head(batch[c]) /\ q = hdrQ[e] /\ b = Tail(batch[c])
    OBVIOUS
  <2>2. batch[c] \in Seq(Events) /\ batch[c] # <<>> /\ e \in Events
    BY <1>8, <2>1, BatchFacts DEF DropEvent
  <2>3. Len(batch[c]) > 1 <=> b # <<>>
    BY <2>1, <2>2, TailFacts
  <2>4. pc[c] = "loop" /\ batch' = [batch EXCEPT ![c] = b] /\ UNCHANGED <<schedLock, bulk>>
    BY <1>8, <2>1 DEF DropEvent, Complete
  <2>5. CASE /\ e \in ordered /\ orderFirst[q] = e /\ Complete(c, e, Free) /\ Goto(c, "emit")
    <3>1. /\ emit' = [emit EXCEPT ![c] = e] /\ input' = [input EXCEPT ![c] = e]
          /\ pc' = [pc EXCEPT ![c] = "emit"]
      BY <2>1, <2>5 DEF Complete, Goto
    <3>2. QED
      BY <1>0, <1>t, <2>2, <2>4, <3>1 DEF Shape
  <2>6. CASE /\ UNCHANGED <<emit, input>>
             /\ Goto(c, IF Len(batch[c]) > 1 THEN "loop" ELSE "idle")
    BY <1>0, <1>t, <2>3, <2>4, <2>6 DEF Shape, Goto
  <2>7. QED
    <3>1. CASE e \in ordered
      <4>1. Complete(c, e, Free)
            /\ Goto(c, IF orderFirst[q] = e THEN "emit" ELSE IF Len(batch[c]) > 1 THEN "loop" ELSE "idle")
        BY <1>8, <2>1, <3>1 DEF DropEvent
      <4>2. orderFirst[q] # e => UNCHANGED <<emit, input>>
        BY <2>1, <4>1 DEF Complete, emitVars
      <4>3. QED
        BY <2>5, <2>6, <3>1, <4>1, <4>2
    <3>2. CASE e \notin ordered
      <4>1. UNCHANGED <<emit, input>> /\ Goto(c, IF Len(batch[c]) > 1 THEN "loop" ELSE "idle")
        BY <1>8, <2>1, <3>2 DEF DropEvent, emitVars
      <4>2. QED
        BY <2>6, <4>1
    <3>3. QED
      BY <3>1, <3>2
<1>9. ASSUME NEW c \in Cores, Emit(c)
      PROVE  \A d \in Cores : Shape(d)'
  <2>1. PICK q : q = hdrQ[emit[c]]
    OBVIOUS
  <2>2. q \in Queues /\ pc[c] = "emit" /\ UNCHANGED <<schedLock, bulk, batch, running>>
    BY <1>9, <2>1, EmitFacts DEF Emit, coreVars
  <2>3. CASE orderQ[q] # <<>> /\ Head(orderQ[q]) \in done
    <3>1. /\ emit' = [emit EXCEPT ![c] = Head(orderQ[q])] /\ pc' = pc
          /\ input' = [input EXCEPT ![c] = IF emit[c] = input[c] /\ ~(~HasRoom(op[emit[c]])) THEN None ELSE @]
      BY <1>9, <2>1, <2>3 DEF Emit
    <3>2. Head(orderQ[q]) # None
      BY <1>0, <2>3 DEF TypeOK
    <3>3. \A d \in Cores : d # c => input'[d] = input[d] /\ emit'[d] = emit[d]
      BY <1>t, <3>1
    <3>4. emit'[c] = Head(orderQ[q])
      BY <1>t, <3>1
    <3>5. QED
      BY <1>0, <1>t, <2>2, <3>1, <3>2, <3>3, <3>4 DEF Shape
  <2>4. CASE ~(orderQ[q] # <<>> /\ Head(orderQ[q]) \in done)
    <3>1. /\ emit' = [emit EXCEPT ![c] = None] /\ input' = [input EXCEPT ![c] = None]
          /\ pc' = [pc EXCEPT ![c] = IF running[c] THEN "recv" ELSE IF batch[c] # <<>> THEN "loop" ELSE "idle"]
      BY <1>9, <2>1, <2>4 DEF Emit, Resume, Goto
    <3>2. QED
      BY <1>0, <1>t, <2>2, <3>1 DEF Shape
  <2>5. QED
    BY <2>3, <2>4
<1>10. CASE (\E q \in Queues : ToggleStatus(q) \/ ChangeMasks(q)) \/ Consume \/ UNCHANGED vars
  <2>1. UNCHANGED <<schedLock, pc, bulk, batch, emit, input>>
    BY <1>10 DEF ToggleStatus, ChangeMasks, Consume, vars, coreVars, emitVars
  <2>2. QED
    BY <1>0, <2>1 DEF Shape
<1>11. QED
  BY <1>1, <1>2, <1>3, <1>4, <1>5, <1>6, <1>7, <1>8, <1>9, <1>10 DEF Next, AppStep, EMStep

-----------------------------------------------------------------------------
(* One place for an event *)

(* A sequence of nothing and of one event.                                     *)
LEMMA ShortSequences ==
  /\ IsInjective(<<>>) /\ \A y : ~Contains(<<>>, y)
  /\ \A x : IsInjective(<<x>>) /\ \A y : Contains(<<x>>, y) <=> y = x
<1>1. IsInjective(<<>>) /\ \A y : ~Contains(<<>>, y)
  BY DEF IsInjective, Contains
<1>2. ASSUME NEW x
      PROVE  IsInjective(<<x>>) /\ \A y : Contains(<<x>>, y) <=> y = x
  <2>1. Len(<<x>>) = 1 /\ <<x>>[1] = x /\ DOMAIN <<x>> = 1..1
    OBVIOUS
  <2>2. QED
    BY <2>1 DEF IsInjective, Contains
<1>3. QED
  BY <1>1, <1>2

(* Event e is where it was.                                                    *)
Stays(e) ==
  /\ e \in free' <=> e \in free
  /\ e \in app' <=> e \in app
  /\ e \in done' <=> e \in done
  /\ Contains(schedQ', e) <=> Contains(schedQ, e)
  /\ Contains(out', e) <=> Contains(out, e)
  /\ \A d \in Cores : /\ (input'[d] = e /\ emit'[d] # e) <=> (input[d] = e /\ emit[d] # e)
                      /\ Contains(bulk'[d], e) <=> Contains(bulk[d], e)
                      /\ Contains(batch'[d], e) <=> Contains(batch[d], e)

Injective ==
  /\ IsInjective(schedQ) /\ IsInjective(out)
  /\ \A c \in Cores : IsInjective(bulk[c]) /\ IsInjective(batch[c])

(* Event e is in one place.                                                    *)
Somewhere(e) == \E k \in CommonPlaces \cup CorePlaces, c \in Cores \cup {None} : Only(e, k, c)

(* An event that has one place and is where it was still has one.              *)
LEMMA StaysSomewhere ==
  ASSUME NEW e, Somewhere(e), Stays(e)
  PROVE  Somewhere(e)'
<1>1. PICK k \in CommonPlaces \cup CorePlaces, c \in Cores \cup {None} : Only(e, k, c)
  BY DEF Somewhere
<1>2. Only(e, k, c)'
  BY <1>1 DEF Only, Stays
<1>3. QED
  BY <1>2 DEF Somewhere

(* Each event is where it was or in another place.                             *)
LEMMA Moves ==
  ASSUME Placed, Injective',
         \A e \in Events : Stays(e) \/ Somewhere(e)'
  PROVE  Placed'
<1>1. \A e \in Events : Somewhere(e)
  BY DEF Placed, Somewhere
<1>2. \A e \in Events : Somewhere(e)'
  BY <1>1, StaysSomewhere
<1>3. QED
  BY <1>2 DEF Placed, Injective, Somewhere

(* Nothing moves.                                                              *)
LEMMA NothingMoves ==
  ASSUME Placed, UNCHANGED <<free, app, done, schedQ, out, input, emit, bulk, batch>>
  PROVE  Placed'
<1>1. Injective' /\ \A e \in Events : Stays(e)
  BY DEF Placed, Injective, Stays
<1>2. QED
  BY <1>1, Moves

(* What is in one of the places that are there once is in no other.            *)
LEMMA CommonAlone ==
  ASSUME Placed, NEW e \in Events
  PROVE  /\ e \in free => Only(e, "pool", None)
         /\ e \in app => Only(e, "app", None)
         /\ e \in done => Only(e, "waiting", None)
         /\ Contains(schedQ, e) => Only(e, "sched", None)
         /\ Contains(out, e) => Only(e, "out", None)
<1>1. PICK k \in CommonPlaces \cup CorePlaces, c \in Cores \cup {None} : Only(e, k, c)
  BY DEF Placed
<1>2. ASSUME NEW l \in CommonPlaces, k = l
      PROVE  Only(e, l, None)
  BY <1>1, <1>2 DEF Only, CommonPlaces, CorePlaces
<1>3. QED
  BY <1>1, <1>2 DEF Only, CommonPlaces

(* What is with a core is nowhere else.                                        *)
LEMMA CoreAlone ==
  ASSUME Placed, NEW e \in Events, NEW c \in Cores
  PROVE  /\ input[c] = e /\ emit[c] # e => Only(e, "refused", c)
         /\ Contains(bulk[c], e) => Only(e, "bulk", c)
         /\ Contains(batch[c], e) => Only(e, "batch", c)
<1>1. PICK k \in CommonPlaces \cup CorePlaces, b \in Cores \cup {None} : Only(e, k, b)
  BY DEF Placed
<1>2. QED
  BY <1>1 DEF Only

(* What an event that has an order to keep is not.                             *)
LEMMA OrderedAlone ==
  ASSUME IInv, NEW e \in Events, e \in ordered
  PROVE  e \notin free /\ e \notin done /\ ~Contains(schedQ, e) /\ \A c \in Cores : ~Contains(bulk[c], e)
<1>1. Placed /\ (e \in app \/ \E c \in Cores : Contains(batch[c], e))
  BY DEF IInv, Headers, Handed
<1>2. QED
  BY <1>1, CommonAlone, CoreAlone DEF Only

(* Where an operation puts its event if there is room.                         *)
EndPlace(d) == IF d \in Queues THEN "sched" ELSE IF d = Out THEN "out" ELSE "pool"

(* What a send does to the sched-queue and the destination.                    *)
LEMMA SwitchMoves ==
  ASSUME TypeOK, Injective, NEW e \in Events, NEW d \in Ends, SendSwitch(e, d)
  PROVE  /\ \A y : Contains(schedQ', y) <=> Contains(schedQ, y) \/ (y = e /\ EndPlace(d) = "sched" /\ HasRoom(d))
         /\ \A y : Contains(out', y) <=> Contains(out, y) \/ (y = e /\ EndPlace(d) = "out" /\ HasRoom(d))
         /\ ~Contains(schedQ, e) => IsInjective(schedQ')
         /\ ~Contains(out, e) => IsInjective(out')
         /\ d = Free <=> EndPlace(d) = "pool"
         /\ d = Free => HasRoom(d)
         /\ EndPlace(d) \in {"sched", "out", "pool"}
<1>1. Free # Out /\ Free \notin Queues /\ Out \notin Queues /\ (d \in Queues \/ d = Free \/ d = Out)
  BY ConstantsAssumption DEF Ends
<1>2. /\ d = Free <=> EndPlace(d) = "pool"
      /\ d \in Queues <=> EndPlace(d) = "sched"
      /\ d = Out <=> EndPlace(d) = "out"
      /\ d = Free => HasRoom(d)
      /\ EndPlace(d) \in {"sched", "out", "pool"}
  BY <1>1 DEF EndPlace, HasRoom
<1>3. /\ schedQ' = IF d \in Queues /\ HasRoom(d) THEN Append(schedQ, e) ELSE schedQ
      /\ out' = IF d = Out /\ HasRoom(d) THEN Append(out, e) ELSE out
  BY DEF SendSwitch, SendParallelOrdered
<1>4. schedQ \in Seq(Events) /\ out \in Seq(Events) /\ IsInjective(schedQ) /\ IsInjective(out)
  BY DEF TypeOK, Injective
<1>5. PICK s, t : s = Append(schedQ, e) /\ t = Append(out, e)
  OBVIOUS
<1>6. /\ \A y : Contains(s, y) <=> Contains(schedQ, y) \/ y = e
      /\ ~Contains(schedQ, e) => IsInjective(s)
  BY <1>4, <1>5, AppendMembers
<1>7. /\ \A y : Contains(t, y) <=> Contains(out, y) \/ y = e
      /\ ~Contains(out, e) => IsInjective(t)
  BY <1>4, <1>5, AppendMembers
<1>8. /\ \A y : Contains(schedQ', y) <=> Contains(schedQ, y) \/ (y = e /\ EndPlace(d) = "sched" /\ HasRoom(d))
      /\ ~Contains(schedQ, e) => IsInjective(schedQ')
  BY <1>2, <1>3, <1>4, <1>5, <1>6
<1>9. /\ \A y : Contains(out', y) <=> Contains(out, y) \/ (y = e /\ EndPlace(d) = "out" /\ HasRoom(d))
      /\ ~Contains(out, e) => IsInjective(out')
  BY <1>2, <1>3, <1>4, <1>5, <1>7
<1>10. QED
  BY <1>2, <1>8, <1>9

(* An event of the pool or of the application is sent or freed at once, or     *)
(* stays.                                                                      *)
LEMMA PlainMoves ==
  ASSUME IInv, NEW e \in Events, NEW d \in Ends, SendSwitch(e, d),
         UNCHANGED <<done, input, emit, bulk, batch>>,
         \/ /\ e \in app
            /\ app' = IF HasRoom(d) THEN app \ {e} ELSE app
            /\ free' = IF d = Free THEN free \cup {e} ELSE free
         \/ /\ e \in free /\ d # Free /\ app' = app
            /\ free' = IF HasRoom(d) THEN free \ {e} ELSE free
  PROVE  Placed'
<1>1. TypeOK /\ Placed /\ Injective
  BY DEF IInv, Placed, Injective
<1>2. /\ \A y : Contains(schedQ', y) <=> Contains(schedQ, y) \/ (y = e /\ EndPlace(d) = "sched" /\ HasRoom(d))
      /\ \A y : Contains(out', y) <=> Contains(out, y) \/ (y = e /\ EndPlace(d) = "out" /\ HasRoom(d))
      /\ ~Contains(schedQ, e) => IsInjective(schedQ')
      /\ ~Contains(out, e) => IsInjective(out')
      /\ d = Free <=> EndPlace(d) = "pool"
      /\ d = Free => HasRoom(d)
      /\ EndPlace(d) \in {"sched", "out", "pool"}
  BY <1>1, SwitchMoves
<1>3. (e \in app /\ Only(e, "app", None)) \/ (e \in free /\ Only(e, "pool", None))
  BY <1>1, CommonAlone
<1>4. Injective'
  BY <1>1, <1>2, <1>3 DEF Injective, Only
<1>5. \A y \in Events : y # e => Stays(y)
  BY <1>2 DEF Stays
<1>6. CASE ~HasRoom(d)
  <2>1. Stays(e)
    BY <1>2, <1>3, <1>6 DEF Stays
  <2>2. QED
    BY <1>1, <1>4, <1>5, <2>1, Moves
<1>7. CASE HasRoom(d)
  <2>1. PICK k : k = EndPlace(d)
    OBVIOUS
  <2>2. /\ Contains(schedQ', e) <=> k = "sched"
        /\ Contains(out', e) <=> k = "out"
        /\ k \in {"sched", "out", "pool"}
    BY <1>2, <1>3, <1>7, <2>1 DEF Only
  <2>3. /\ e \in free' <=> k = "pool"
        /\ e \notin app' /\ e \notin done'
    BY <1>2, <1>3, <1>7, <2>1 DEF Only
  <2>4. \A b \in Cores : ~(input'[b] = e /\ emit'[b] # e) /\ ~Contains(bulk'[b], e) /\ ~Contains(batch'[b], e)
    BY <1>3 DEF Only
  <2>5. Only(e, k, None)'
    BY <2>2, <2>3, <2>4 DEF Only, CommonPlaces
  <2>6. Somewhere(e)'
    BY <2>2, <2>5 DEF Somewhere, CommonPlaces
  <2>7. QED
    BY <1>1, <1>4, <1>5, <2>6, Moves
<1>8. QED
  BY <1>6, <1>7

(* The first event of a core's burst leaves it.                                *)
LEMMA BatchTail ==
  ASSUME TypeOK, Placed, NEW c \in Cores, NEW e, batch[c] # <<>>, e = Head(batch[c]),
         batch' = [batch EXCEPT ![c] = Tail(@)]
  PROVE  /\ e \in Events /\ Only(e, "batch", c)
         /\ \A b \in Cores : IsInjective(batch'[b]) /\ ~Contains(batch'[b], e)
         /\ \A b \in Cores : \A y : y # e => (Contains(batch'[b], y) <=> Contains(batch[b], y))
<1>1. batch \in [Cores -> Seq(Events)]
  BY DEF TypeOK
<1>2. PICK s, t : s = batch[c] /\ t = Tail(s)
  OBVIOUS
<1>3. s \in Seq(Events) /\ s # <<>> /\ t = Tail(s) /\ IsInjective(s)
  BY <1>1, <1>2 DEF Placed
<1>4. /\ \A y : Contains(s, y) <=> y = e \/ Contains(t, y)
      /\ IsInjective(t) /\ ~Contains(t, e) /\ e \in Events
  BY <1>2, <1>3, TailMembers, TailFacts
<1>5. Only(e, "batch", c)
  BY <1>2, <1>4, CoreAlone
<1>6. batch'[c] = t /\ \A b \in Cores : b # c => batch'[b] = batch[b]
  BY <1>1, <1>2
<1>7. \A b \in Cores : b # c => ~Contains(batch[b], e)
  BY <1>5 DEF Only
<1>8. \A b \in Cores : IsInjective(batch'[b]) /\ ~Contains(batch'[b], e)
  BY <1>4, <1>6, <1>7 DEF Placed
<1>9. ASSUME NEW b \in Cores, NEW y, y # e
      PROVE  Contains(batch'[b], y) <=> Contains(batch[b], y)
  BY <1>2, <1>4, <1>6, <1>9
<1>10. QED
  BY <1>4, <1>5, <1>8, <1>9

(* The application gives event e away, or core c takes it from its burst.      *)
Leaves(e, c) ==
  \/ e \in app /\ app' = app \ {e} /\ UNCHANGED batch
  \/ /\ batch[c] # <<>> /\ e = Head(batch[c])
     /\ batch' = [batch EXCEPT ![c] = Tail(@)] /\ UNCHANGED app

(* An event that is done, of the application or the first of a core's burst,   *)
(* waits for its turn.                                                         *)
LEMMA CompleteMoves ==
  ASSUME IInv, NEW c \in Cores, NEW e \in Events, NEW d \in Ends, Complete(c, e, d),
         pc[c] # "emit", Leaves(e, c)
  PROVE  Placed'
<1>1. TypeOK /\ Placed /\ Injective /\ None \notin Events
  BY ConstantsAssumption DEF IInv, Placed, Injective
<1>2. emit[c] = None /\ input[c] = None
  BY DEF IInv, Shape
<1>3. /\ done' = done \cup {e} /\ UNCHANGED <<schedQ, free, out, bulk>>
      /\ \/ emit' = [emit EXCEPT ![c] = e] /\ input' = [input EXCEPT ![c] = e]
         \/ UNCHANGED <<emit, input>>
  BY DEF Complete, emitVars
<1>4. \A b \in Cores : /\ b # c => input'[b] = input[b] /\ emit'[b] = emit[b]
                       /\ \/ input'[c] = None /\ emit'[c] = None
                          \/ input'[c] = e /\ emit'[c] = e
  BY <1>1, <1>2, <1>3 DEF TypeOK
<1>5. ASSUME NEW y \in Events, NEW b \in Cores
      PROVE  (input'[b] = y /\ emit'[b] # y) <=> (input[b] = y /\ emit[b] # y)
  BY <1>1, <1>2, <1>4
<1>6. /\ Only(e, "app", None) \/ Only(e, "batch", c)
      /\ e \notin app'
      /\ \A b \in Cores : IsInjective(batch'[b]) /\ ~Contains(batch'[b], e)
      /\ \A b \in Cores : \A y : y # e => (Contains(batch'[b], y) <=> Contains(batch[b], y))
      /\ \A y \in Events : y # e => (y \in app' <=> y \in app)
  <2>0. Leaves(e, c)
    OBVIOUS
  <2>1. CASE e \in app /\ app' = app \ {e} /\ UNCHANGED batch
    <3>1. Only(e, "app", None)
      BY <1>1, <2>1, CommonAlone
    <3>2. QED
      BY <1>1, <2>1, <3>1 DEF Only, Injective
  <2>2. CASE /\ batch[c] # <<>> /\ e = Head(batch[c])
             /\ batch' = [batch EXCEPT ![c] = Tail(@)] /\ UNCHANGED app
    <3>1. /\ Only(e, "batch", c)
          /\ \A b \in Cores : IsInjective(batch'[b]) /\ ~Contains(batch'[b], e)
          /\ \A b \in Cores : \A y : y # e => (Contains(batch'[b], y) <=> Contains(batch[b], y))
      <4>1. TypeOK /\ Placed
        BY <1>1
      <4>2. batch[c] # <<>> /\ e = Head(batch[c]) /\ batch' = [batch EXCEPT ![c] = Tail(@)]
        BY <2>2
      <4>3. QED
        BY <4>1, <4>2, BatchTail
    <3>2. QED
      BY <2>2, <3>1 DEF Only
  <2>3. QED
    BY <2>0, <2>1, <2>2 DEF Leaves
<1>7. Injective'
  BY <1>1, <1>3, <1>6 DEF Injective
<1>8. \A y \in Events : y # e => Stays(y)
  BY <1>3, <1>5, <1>6 DEF Stays
<1>9. Only(e, "waiting", None)'
  BY <1>3, <1>5, <1>6 DEF Only, CommonPlaces
<1>10. Somewhere(e)'
  BY <1>9 DEF Somewhere, CommonPlaces
<1>11. QED
  BY <1>1, <1>7, <1>8, <1>10, Moves

(* The first event of a core's burst goes to the application or to the pool.   *)
LEMMA HeadMoves ==
  ASSUME TypeOK, Placed, NEW c \in Cores, NEW e, batch[c] # <<>>, e = Head(batch[c]),
         batch' = [batch EXCEPT ![c] = Tail(@)],
         UNCHANGED <<done, schedQ, out, input, emit, bulk>>,
         \/ app' = app \cup {e} /\ free' = free
         \/ free' = free \cup {e} /\ app' = app
  PROVE  Placed'
<1>1. /\ e \in Events /\ Only(e, "batch", c)
      /\ \A b \in Cores : IsInjective(batch'[b]) /\ ~Contains(batch'[b], e)
      /\ \A b \in Cores : \A y : y # e => (Contains(batch'[b], y) <=> Contains(batch[b], y))
  BY BatchTail
<1>2. Injective' /\ \A y \in Events : y # e => Stays(y)
  BY <1>1 DEF Placed, Injective, Stays
<1>3. CASE app' = app \cup {e} /\ free' = free
  <2>1. Only(e, "app", None)'
    BY <1>1, <1>3 DEF Only, CommonPlaces
  <2>2. Somewhere(e)'
    BY <2>1 DEF Somewhere, CommonPlaces
  <2>3. QED
    BY <1>2, <2>2, Moves
<1>4. CASE free' = free \cup {e} /\ app' = app
  <2>1. Only(e, "pool", None)'
    BY <1>1, <1>4 DEF Only, CommonPlaces
  <2>2. Somewhere(e)'
    BY <2>1 DEF Somewhere, CommonPlaces
  <2>3. QED
    BY <1>2, <2>2, Moves
<1>5. QED
  BY <1>3, <1>4

(* A packet goes from the pool into the burst of a core that has nothing.      *)
LEMMA DirectMoves ==
  ASSUME TypeOK, Placed, NEW c \in Cores, NEW e \in Events, e \in free, batch[c] = <<>>,
         free' = free \ {e}, batch' = [batch EXCEPT ![c] = <<e>>],
         UNCHANGED <<app, done, schedQ, out, input, emit, bulk>>
  PROVE  Placed'
<1>1. batch \in [Cores -> Seq(Events)] /\ Only(e, "pool", None)
  BY CommonAlone DEF TypeOK
<1>2. batch'[c] = <<e>> /\ \A b \in Cores : b # c => batch'[b] = batch[b]
  BY <1>1
<1>3. /\ IsInjective(<<e>>) /\ \A y : Contains(<<e>>, y) <=> y = e
      /\ \A y : ~Contains(batch[c], y)
  BY ShortSequences
<1>4. /\ \A b \in Cores : IsInjective(batch'[b])
      /\ \A b \in Cores : \A y : Contains(batch'[b], y) <=> Contains(batch[b], y) \/ (b = c /\ y = e)
  BY <1>2, <1>3 DEF Placed
<1>5. Injective' /\ \A y \in Events : y # e => Stays(y)
  BY <1>4 DEF Placed, Injective, Stays
<1>6. Only(e, "batch", c)'
  BY <1>1, <1>4 DEF Only, CorePlaces
<1>7. Somewhere(e)'
  BY <1>6 DEF Somewhere, CorePlaces
<1>8. QED
  BY <1>5, <1>7, Moves

(* The oldest events of the sched-queue go to a core that has none to order.   *)
LEMMA BurstMoves ==
  ASSUME TypeOK, Placed, NEW c \in Cores, NEW n \in 0..Len(schedQ), bulk[c] = <<>>,
         bulk' = [bulk EXCEPT ![c] = SubSeq(schedQ, 1, n)],
         schedQ' = SubSeq(schedQ, n + 1, Len(schedQ)),
         UNCHANGED <<free, app, done, out, input, emit, batch>>
  PROVE  Placed'
<1>1. bulk \in [Cores -> Seq(Events)] /\ schedQ \in Seq(Events) /\ IsInjective(schedQ)
  BY DEF TypeOK, Placed
<1>2. PICK h, t : h = SubSeq(schedQ, 1, n) /\ t = SubSeq(schedQ, n + 1, Len(schedQ))
  OBVIOUS
<1>3. Parts(schedQ, h, t)
  BY <1>1, <1>2, CutMembers
<1>4. /\ \A y : Contains(schedQ, y) <=> Contains(h, y) \/ Contains(t, y)
      /\ IsInjective(h) /\ IsInjective(t) /\ \A y : ~(Contains(h, y) /\ Contains(t, y))
  BY <1>1, <1>3 DEF Parts
<1>5. /\ schedQ' = t /\ bulk'[c] = h /\ \A b \in Cores : b # c => bulk'[b] = bulk[b]
      /\ \A y : ~Contains(bulk[c], y)
  BY <1>1, <1>2, ShortSequences
<1>6. Injective'
  BY <1>4, <1>5 DEF Placed, Injective
<1>7. ASSUME NEW y \in Events
      PROVE  Stays(y) \/ Somewhere(y)'
  <2>1. CASE Contains(h, y)
    <3>1. Only(y, "sched", None)
      BY <1>4, <2>1, CommonAlone
    <3>2. /\ ~Contains(schedQ', y)
          /\ \A b \in Cores : Contains(bulk'[b], y) <=> b = c
      BY <1>4, <1>5, <2>1, <3>1 DEF Only
    <3>3. Only(y, "bulk", c)'
      BY <3>1, <3>2 DEF Only, CorePlaces
    <3>4. QED
      BY <3>3 DEF Somewhere, CorePlaces
  <2>2. CASE ~Contains(h, y)
    <3>1. Contains(schedQ', y) <=> Contains(schedQ, y)
      BY <1>4, <1>5, <2>2
    <3>2. \A b \in Cores : Contains(bulk'[b], y) <=> Contains(bulk[b], y)
      BY <1>5, <2>2
    <3>3. QED
      BY <3>1, <3>2 DEF Stays
  <2>3. QED
    BY <2>1, <2>2
<1>8. QED
  BY <1>6, <1>7, Moves

(* The next event to order joins the burst the core dispatches.                *)
LEMMA OrderMoves ==
  ASSUME IInv, NEW c \in Cores, Order(c)
  PROVE  Placed'
<1>0. PICK e : e = Head(bulk[c])
  OBVIOUS
<1>a. /\ TypeOK /\ Placed
      /\ bulk \in [Cores -> Seq(Events)] /\ batch \in [Cores -> Seq(Events)] /\ bulk[c] # <<>>
      /\ \A y \in Events : Contains(bulk[c], y) => Only(y, "bulk", c)
  BY BulkFacts, CoreAlone DEF Order, IInv, TypeOK
<1>1. /\ bulk' = [bulk EXCEPT ![c] = Tail(@)] /\ batch' = [batch EXCEPT ![c] = Append(@, e)]
      /\ UNCHANGED <<free, app, done, schedQ, out, input, emit>>
  BY <1>0 DEF Order, ownVars, emitVars
<1>2. PICK s, t : s = bulk[c] /\ t = Tail(s)
  OBVIOUS
<1>3. s \in Seq(Events) /\ s # <<>> /\ t = Tail(s) /\ IsInjective(s)
  BY <1>a, <1>2 DEF Placed
<1>4. /\ \A y : Contains(s, y) <=> y = e \/ Contains(t, y)
      /\ IsInjective(t) /\ ~Contains(t, e) /\ e \in Events
  BY <1>0, <1>2, <1>3, TailMembers, TailFacts
<1>5. Only(e, "bulk", c)
  BY <1>a, <1>2, <1>4
<1>6. PICK u, v : u = batch[c] /\ v = Append(u, e)
  OBVIOUS
<1>7. u \in Seq(Events) /\ v = Append(u, e) /\ IsInjective(u) /\ ~Contains(u, e)
  BY <1>a, <1>5, <1>6 DEF Placed, Only
<1>8. IsInjective(v) /\ \A y : Contains(v, y) <=> Contains(u, y) \/ y = e
  <2>1. e \in Events /\ u \in Seq(Events) /\ v = Append(u, e)
    BY <1>4, <1>7
  <2>2. /\ \A y : Contains(v, y) <=> Contains(u, y) \/ y = e
        /\ IsInjective(u) /\ ~Contains(u, e) => IsInjective(v)
    BY <2>1, AppendMembers
  <2>3. QED
    BY <1>7, <2>2
<1>9. /\ bulk'[c] = t /\ \A b \in Cores : b # c => bulk'[b] = bulk[b]
      /\ batch'[c] = v /\ \A b \in Cores : b # c => batch'[b] = batch[b]
  BY <1>a, <1>1, <1>2, <1>6
<1>10. Injective'
  BY <1>a, <1>1, <1>4, <1>8, <1>9 DEF Placed, Injective
<1>11. ASSUME NEW y \in Events, y # e
       PROVE  Stays(y)
  <2>1. \A b \in Cores : Contains(bulk'[b], y) <=> Contains(bulk[b], y)
    BY <1>2, <1>4, <1>9, <1>11
  <2>2. \A b \in Cores : Contains(batch'[b], y) <=> Contains(batch[b], y)
    BY <1>6, <1>8, <1>9, <1>11
  <2>3. QED
    BY <1>1, <2>1, <2>2 DEF Stays
<1>12. \A b \in Cores : ~Contains(bulk'[b], e) /\ (Contains(batch'[b], e) <=> b = c)
  BY <1>4, <1>5, <1>8, <1>9 DEF Only
<1>13. Only(e, "batch", c)'
  BY <1>1, <1>5, <1>12 DEF Only, CorePlaces
<1>14. Somewhere(e)'
  BY <1>13 DEF Somewhere, CorePlaces
<1>15. QED
  BY <1>a, <1>10, <1>11, <1>14, Moves

(* What the destination Out has served returns to the pool.                    *)
LEMMA ConsumeMoves ==
  ASSUME TypeOK, Placed, Consume
  PROVE  Placed'
<1>1. out \in Seq(Events) /\ out # <<>> /\ IsInjective(out)
  BY DEF TypeOK, Placed, Consume
<1>2. PICK e, t : e = Head(out) /\ t = Tail(out)
  OBVIOUS
<1>3. /\ \A y : Contains(out, y) <=> y = e \/ Contains(t, y)
      /\ IsInjective(t) /\ ~Contains(t, e) /\ e \in Events
  BY <1>1, <1>2, TailMembers, TailFacts
<1>4. /\ out' = t /\ free' = free \cup {e}
      /\ UNCHANGED <<app, done, schedQ, input, emit, bulk, batch>>
  BY <1>2 DEF Consume, hdrVars, coreVars, emitVars
<1>5. Only(e, "out", None)
  BY <1>3, CommonAlone
<1>6. Injective' /\ \A y \in Events : y # e => Stays(y)
  BY <1>3, <1>4 DEF Placed, Injective, Stays
<1>7. Only(e, "pool", None)'
  BY <1>3, <1>4, <1>5 DEF Only, CommonPlaces
<1>8. Somewhere(e)'
  BY <1>7 DEF Somewhere, CommonPlaces
<1>9. QED
  BY <1>6, <1>8, Moves

(* A core emits an event: it goes where it is sent or freed, or, when there is *)
(* no room, stays with whoever gave it to this core, or is freed.  What that   *)
(* one was refused waits until the core has emitted all it can.                *)
LEMMA EmitMoves ==
  ASSUME IInv, NEW c \in Cores, Emit(c)
  PROVE  Placed'
<1>1. PICK e, q, d, x : e = emit[c] /\ q = hdrQ[e] /\ d = op[e] /\ x = input[c]
  OBVIOUS
<1>2. /\ e \in Events /\ q \in Queues /\ d \in Ends /\ e \in done
      /\ TypeOK /\ Placed /\ Injective /\ None \notin Events
      /\ emit \in [Cores -> Events \cup {None}] /\ input \in [Cores -> Events \cup {None}]
      /\ \A b \in Cores : emit[b] = e => b = c
  <2>1. e \in Events /\ q \in Queues /\ d \in Ends /\ e \in done
    BY <1>1, EmitFacts DEF Emit
  <2>2. \A b \in Cores : emit[b] = e => b = c
    <3>1. \A b \in Cores : emit[b] = e => lock[q] = b
      BY <1>1, <2>1, ConstantsAssumption DEF IInv, Orders, OrderOf, Emitting
    <3>2. QED
      BY <1>1, <3>1
  <2>3. QED
    BY <2>1, <2>2, ConstantsAssumption DEF IInv, TypeOK, Placed, Injective
<1>3. /\ \A y : Contains(schedQ', y) <=> Contains(schedQ, y) \/ (y = e /\ EndPlace(d) = "sched" /\ HasRoom(d))
      /\ \A y : Contains(out', y) <=> Contains(out, y) \/ (y = e /\ EndPlace(d) = "out" /\ HasRoom(d))
      /\ ~Contains(schedQ, e) => IsInjective(schedQ')
      /\ ~Contains(out, e) => IsInjective(out')
      /\ d = Free <=> EndPlace(d) = "pool"
      /\ d = Free => HasRoom(d)
      /\ EndPlace(d) \in {"sched", "out", "pool"}
  <2>1. TypeOK /\ Injective /\ e \in Events /\ d \in Ends /\ SendSwitch(e, d)
    BY <1>1, <1>2 DEF Emit
  <2>2. QED
    BY <2>1, SwitchMoves
<1>4. Only(e, "waiting", None)
  BY <1>2, CommonAlone
<1>5. /\ done' = done \ {e} /\ UNCHANGED <<bulk, batch>>
      /\ free' = IF d = Free \/ (~HasRoom(d) /\ e # x) THEN free \cup {e} ELSE free
  BY <1>1 DEF Emit, coreVars
<1>6. Injective'
  BY <1>2, <1>3, <1>4, <1>5 DEF Injective, Only
<1>7. \A b \in Cores : input[b] = e => b = c
  BY <1>2, <1>4 DEF Only
<1>8. x # e /\ x # None => x \in Events /\ Only(x, "refused", c)
  BY <1>1, <1>2, CoreAlone
(* The core goes on with event h, or stops.                                    *)
<1>9. CASE orderQ[q] # <<>> /\ Head(orderQ[q]) \in done
  <2>1. PICK h : h = Head(orderQ[q])
    OBVIOUS
  <2>2. /\ emit' = [emit EXCEPT ![c] = h] /\ app' = app
        /\ input' = [input EXCEPT ![c] = IF e = x /\ ~(~HasRoom(d)) THEN None ELSE @]
    BY <1>1, <1>9, <2>1 DEF Emit
  <2>3. h \in Events /\ Only(h, "waiting", None) /\ h # e
    <3>1. h \in done
      BY <1>9, <2>1
    <3>2. h \in Events /\ Only(h, "waiting", None)
      BY <1>2, <3>1, CommonAlone DEF TypeOK
    <3>3. orderQ[q] \in Seq(Events) /\ ~Contains(orderQ[q], e)
      BY <1>1, <1>2 DEF IInv, TypeOK, Orders, OrderOf, Emitting
    <3>4. Contains(orderQ[q], h)
      BY <1>9, <2>1, <3>3, TailMembers
    <3>5. QED
      BY <3>2, <3>3, <3>4
  <2>4. /\ emit'[c] = h /\ \A b \in Cores : b # c => emit'[b] = emit[b]
        /\ input'[c] = (IF e = x /\ HasRoom(d) THEN None ELSE x)
        /\ \A b \in Cores : b # c => input'[b] = input[b]
    BY <1>1, <1>2, <2>2
  <2>5. ASSUME NEW y \in Events, y # e
        PROVE  Stays(y)
    <3>1. \A b \in Cores : b # c => ((input'[b] = y /\ emit'[b] # y) <=> (input[b] = y /\ emit[b] # y))
      BY <2>4
    <3>2. (input'[c] = y /\ emit'[c] # y) <=> (input[c] = y /\ emit[c] # y)
      <4>1. CASE x = e
        BY <1>1, <1>2, <2>4, <2>5, <4>1
      <4>2. CASE x # e /\ x # None
        BY <1>1, <1>2, <1>8, <2>3, <2>4, <2>5, <4>2 DEF Only
      <4>3. CASE x = None
        BY <1>1, <1>2, <2>4, <2>5, <4>3
      <4>4. QED
        BY <4>1, <4>2, <4>3
    <3>3. (y \in free' <=> y \in free) /\ (y \in done' <=> y \in done) /\ app' = app
      BY <1>5, <2>2, <2>5
    <3>4. (Contains(schedQ', y) <=> Contains(schedQ, y)) /\ (Contains(out', y) <=> Contains(out, y))
      BY <1>3, <2>5
    <3>5. QED
      BY <1>5, <3>1, <3>2, <3>3, <3>4 DEF Stays
  <2>6. \A b \in Cores : (input'[b] = e /\ emit'[b] # e) <=> b = c /\ x = e /\ ~HasRoom(d)
    BY <1>2, <1>7, <2>3, <2>4
  <2>7. Somewhere(e)'
    <3>1. CASE HasRoom(d)
      <4>1. PICK k : k = EndPlace(d)
        OBVIOUS
      <4>2. k \in {"sched", "out", "pool"} /\ (e \in free' <=> k = "pool") /\ e \notin app' /\ e \notin done'
        BY <1>3, <1>4, <1>5, <2>2, <3>1, <4>1 DEF Only
      <4>3. (Contains(schedQ', e) <=> k = "sched") /\ (Contains(out', e) <=> k = "out")
        BY <1>3, <1>4, <3>1, <4>1 DEF Only
      <4>4. \A b \in Cores : ~(input'[b] = e /\ emit'[b] # e) /\ ~Contains(bulk'[b], e) /\ ~Contains(batch'[b], e)
        BY <1>4, <1>5, <2>6, <3>1 DEF Only
      <4>5. Only(e, k, None)'
        BY <4>2, <4>3, <4>4 DEF Only, CommonPlaces
      <4>6. QED
        BY <4>2, <4>5 DEF Somewhere, CommonPlaces
    <3>2. CASE ~HasRoom(d) /\ x = e
      <4>1. /\ e \notin free' /\ e \notin app' /\ e \notin done' /\ ~Contains(schedQ', e) /\ ~Contains(out', e)
            /\ \A b \in Cores : ~Contains(bulk'[b], e) /\ ~Contains(batch'[b], e)
        BY <1>3, <1>4, <1>5, <2>2, <3>2 DEF Only
      <4>2. \A b \in Cores : (input'[b] = e /\ emit'[b] # e) <=> b = c
        BY <2>6, <3>2
      <4>3. Only(e, "refused", c)'
        BY <4>1, <4>2 DEF Only, CorePlaces
      <4>4. QED
        BY <4>3 DEF Somewhere, CorePlaces
    <3>3. CASE ~HasRoom(d) /\ x # e
      <4>1. /\ e \in free' /\ e \notin app' /\ e \notin done' /\ ~Contains(schedQ', e) /\ ~Contains(out', e)
            /\ \A b \in Cores : ~Contains(bulk'[b], e) /\ ~Contains(batch'[b], e)
        BY <1>3, <1>4, <1>5, <2>2, <3>3 DEF Only
      <4>2. Only(e, "pool", None)'
        BY <2>6, <3>3, <4>1 DEF Only, CommonPlaces
      <4>3. QED
        BY <4>2 DEF Somewhere, CommonPlaces
    <3>4. QED
      BY <3>1, <3>2, <3>3
  <2>8. QED
    BY <1>2, <1>6, <2>5, <2>7, Moves
<1>10. CASE ~(orderQ[q] # <<>> /\ Head(orderQ[q]) \in done)
  <2>1. /\ emit' = [emit EXCEPT ![c] = None] /\ input' = [input EXCEPT ![c] = None]
        /\ app' = app \cup IF e = x THEN (IF ~HasRoom(d) THEN {e} ELSE {}) ELSE {x} \ {None}
    BY <1>1, <1>10 DEF Emit
  <2>2. /\ emit'[c] = None /\ input'[c] = None
        /\ \A b \in Cores : b # c => emit'[b] = emit[b] /\ input'[b] = input[b]
    BY <1>2, <2>1
  <2>3. \A y \in Events : \A b \in Cores :
          (input'[b] = y /\ emit'[b] # y) <=> (b # c /\ input[b] = y /\ emit[b] # y)
    BY <1>2, <2>2
  <2>4. ASSUME NEW y \in Events, y # e
        PROVE  /\ (y \in free' <=> y \in free) /\ (y \in done' <=> y \in done)
               /\ (Contains(schedQ', y) <=> Contains(schedQ, y)) /\ (Contains(out', y) <=> Contains(out, y))
               /\ y \in app' <=> y \in app \/ y = x
    BY <1>2, <1>3, <1>5, <2>1, <2>4
  <2>5. ASSUME NEW y \in Events, y # e, y # x
        PROVE  Stays(y)
    <3>1. \A b \in Cores : (input'[b] = y /\ emit'[b] # y) <=> (input[b] = y /\ emit[b] # y)
      BY <1>1, <2>3, <2>5
    <3>2. QED
      BY <1>5, <2>4, <2>5, <3>1 DEF Stays
  <2>6. ASSUME NEW y \in Events, y # e, y = x
        PROVE  Somewhere(y)'
    <3>1. Only(y, "refused", c)
      BY <1>2, <1>8, <2>6
    <3>2. /\ y \in app' /\ y \notin free' /\ y \notin done' /\ ~Contains(schedQ', y) /\ ~Contains(out', y)
          /\ \A b \in Cores : ~Contains(bulk'[b], y) /\ ~Contains(batch'[b], y)
      BY <1>5, <2>4, <2>6, <3>1 DEF Only
    <3>3. \A b \in Cores : ~(input'[b] = y /\ emit'[b] # y)
      BY <2>3, <3>1 DEF Only
    <3>4. Only(y, "app", None)'
      BY <3>2, <3>3 DEF Only, CommonPlaces
    <3>5. QED
      BY <3>4 DEF Somewhere, CommonPlaces
  <2>7. Somewhere(e)'
    <3>1. \A b \in Cores : ~(input'[b] = e /\ emit'[b] # e) /\ ~Contains(bulk'[b], e) /\ ~Contains(batch'[b], e)
      BY <1>2, <1>4, <1>5, <2>3 DEF Only
    <3>2. CASE HasRoom(d)
      <4>1. PICK k : k = EndPlace(d)
        OBVIOUS
      <4>2. k \in {"sched", "out", "pool"} /\ (e \in free' <=> k = "pool") /\ e \notin app' /\ e \notin done'
        BY <1>3, <1>4, <1>5, <2>1, <3>2, <4>1 DEF Only
      <4>3. (Contains(schedQ', e) <=> k = "sched") /\ (Contains(out', e) <=> k = "out")
        BY <1>3, <1>4, <3>2, <4>1 DEF Only
      <4>4. Only(e, k, None)'
        BY <3>1, <4>2, <4>3 DEF Only, CommonPlaces
      <4>5. QED
        BY <4>2, <4>4 DEF Somewhere, CommonPlaces
    <3>3. CASE ~HasRoom(d) /\ e = x
      <4>1. e \in app' /\ e \notin free' /\ e \notin done' /\ ~Contains(schedQ', e) /\ ~Contains(out', e)
        BY <1>3, <1>4, <1>5, <2>1, <3>3 DEF Only
      <4>2. Only(e, "app", None)'
        BY <3>1, <4>1 DEF Only, CommonPlaces
      <4>3. QED
        BY <4>2 DEF Somewhere, CommonPlaces
    <3>4. CASE ~HasRoom(d) /\ e # x
      <4>1. e \in free' /\ e \notin app' /\ e \notin done' /\ ~Contains(schedQ', e) /\ ~Contains(out', e)
        BY <1>3, <1>4, <1>5, <2>1, <3>4 DEF Only
      <4>2. Only(e, "pool", None)'
        BY <3>1, <4>1 DEF Only, CommonPlaces
      <4>3. QED
        BY <4>2 DEF Somewhere, CommonPlaces
    <3>5. QED
      BY <3>2, <3>3, <3>4
  <2>8. \A y \in Events : Stays(y) \/ Somewhere(y)'
    BY <2>5, <2>6, <2>7
  <2>9. QED
    BY <1>2, <1>6, <2>8, Moves
<1>11. QED
  BY <1>9, <1>10

(* Every step leaves each event in its one place.                              *)
LEMMA PlacedStep ==
  ASSUME IInv, [Next]_vars
  PROVE  Placed'
<1>0. TypeOK /\ Placed /\ Free # Out /\ Free \notin Queues /\ \A c \in Cores : Shape(c)
  BY ConstantsAssumption DEF IInv
<1>1. ASSUME NEW c \in Cores, NEW e \in Events, Alloc(c, e)
      PROVE  Placed'
  <2>1. /\ e \in free /\ free' = free \ {e} /\ app' = app \cup {e}
        /\ UNCHANGED <<done, schedQ, out, input, emit, bulk, batch>>
    BY <1>1 DEF Alloc, hdrVars, coreVars, emitVars
  <2>2. Only(e, "pool", None)
    BY <1>0, <2>1, CommonAlone
  <2>3. Only(e, "app", None)'
    BY <2>1, <2>2 DEF Only, CommonPlaces
  <2>4. Somewhere(e)'
    BY <2>3 DEF Somewhere, CommonPlaces
  <2>5. Injective' /\ \A y \in Events : y # e => Stays(y)
    BY <1>0, <2>1 DEF Placed, Injective, Stays
  <2>6. QED
    BY <1>0, <2>4, <2>5, Moves
<1>2. ASSUME NEW c \in Cores, NEW e \in Events, NEW d \in Ends, SendPlain(c, e, d)
      PROVE  Placed'
  BY <1>2, PlainMoves DEF SendPlain, coreVars, emitVars
<1>3. ASSUME NEW c \in Cores, NEW e \in Events, NEW d \in Ends, SendOrdered(c, e, d)
      PROVE  Placed'
  <2>1. Complete(c, e, d) /\ Leaves(e, c) /\ pc[c] # "emit"
    BY <1>3 DEF SendOrdered, AppRuns, Leaves
  <2>2. QED
    BY <2>1, CompleteMoves
<1>4. ASSUME NEW c \in Cores, NEW e \in Events, NEW q \in Queues, Receive(c, e, q)
      PROVE  Placed'
  <2>1. /\ e \in free /\ HasRoom(q) /\ SendSwitch(e, q) /\ free' = free \ {e} /\ app' = app
        /\ UNCHANGED <<done, input, emit, bulk, batch>> /\ q \in Ends /\ q # Free
    BY <1>0, <1>4 DEF Receive, coreVars, emitVars, Ends
  <2>2. QED
    BY <2>1, PlainMoves
<1>5. ASSUME NEW c \in Cores, NEW e \in Events, NEW q \in Queues, ReceiveDirect(c, e, q)
      PROVE  Placed'
  <2>1. /\ e \in free /\ batch[c] = <<>> /\ UNCHANGED <<app, done, input, emit, bulk>>
        /\ q \in Ends /\ q # Free
    BY <1>0, <1>5 DEF ReceiveDirect, Shape, emitVars, Ends
  <2>2. CASE e \in ordered'
    <3>1. /\ batch' = [batch EXCEPT ![c] = <<e>>] /\ free' = free \ {e}
          /\ UNCHANGED <<schedQ, out>>
      BY <1>5, <2>2 DEF ReceiveDirect
    <3>2. QED
      BY <1>0, <2>1, <3>1, DirectMoves
  <2>3. CASE e \notin ordered'
    <3>1. SendSwitch(e, q) /\ free' = (IF HasRoom(q) THEN free \ {e} ELSE free) /\ UNCHANGED batch
      BY <1>5, <2>3 DEF ReceiveDirect
    <3>2. QED
      BY <2>1, <3>1, PlainMoves
  <2>4. QED
    BY <2>2, <2>3
<1>6. ASSUME NEW c \in Cores, Schedule(c)
      PROVE  Placed'
  <2>1. PICK n \in 0..Len(schedQ) :
          /\ bulk' = [bulk EXCEPT ![c] = SubSeq(schedQ, 1, n)]
          /\ schedQ' = SubSeq(schedQ, n + 1, Len(schedQ))
    BY <1>0, <1>6, BurstSize DEF Schedule
  <2>2. bulk[c] = <<>> /\ UNCHANGED <<free, app, done, out, input, emit, batch>>
    BY <1>0, <1>6 DEF Schedule, Shape, hdrVars, ownVars, emitVars
  <2>3. QED
    BY <1>0, <2>1, <2>2, BurstMoves
<1>7. ASSUME NEW c \in Cores, Order(c)
      PROVE  Placed'
  BY <1>7, OrderMoves
<1>8. ASSUME NEW c \in Cores, Dispatch(c)
      PROVE  Placed'
  <2>1. batch[c] # <<>>
    BY <1>8, BatchFacts DEF Dispatch
  <2>2. /\ batch' = [batch EXCEPT ![c] = Tail(@)] /\ app' = app \cup {Head(batch[c])} /\ free' = free
        /\ UNCHANGED <<done, schedQ, out, input, emit, bulk>>
    BY <1>8 DEF Dispatch, hdrVars, emitVars
  <2>3. QED
    BY <1>0, <2>1, <2>2, HeadMoves
<1>9. ASSUME NEW c \in Cores, DropEvent(c)
      PROVE  Placed'
  <2>1. PICK e : e = Head(batch[c])
    OBVIOUS
  <2>2. batch[c] # <<>> /\ e \in Events
    BY <1>9, <2>1, BatchFacts DEF DropEvent
  <2>3. pc[c] = "loop" /\ batch' = [batch EXCEPT ![c] = Tail(@)]
    BY <1>9 DEF DropEvent
  <2>4. CASE Complete(c, e, Free) /\ UNCHANGED app
    <3>1. Leaves(e, c) /\ pc[c] # "emit" /\ Free \in Ends
      BY <2>1, <2>2, <2>3, <2>4 DEF Leaves, Ends
    <3>2. QED
      BY <2>2, <2>4, <3>1, CompleteMoves
  <2>5. CASE /\ SendSwitch(e, Free) /\ free' = free \cup {e}
             /\ UNCHANGED <<done, app, bulk, input, emit>>
    <3>1. UNCHANGED <<schedQ, out>>
      BY <1>0, <2>5 DEF SendSwitch
    <3>2. QED
      BY <1>0, <2>1, <2>2, <2>3, <2>5, <3>1, HeadMoves
  <2>6. QED
    BY <1>9, <2>1, <2>4, <2>5 DEF DropEvent, emitVars
<1>10. ASSUME NEW c \in Cores, Emit(c)
       PROVE  Placed'
  BY <1>10, EmitMoves
<1>11. ASSUME Consume
       PROVE  Placed'
  BY <1>0, <1>11, ConsumeMoves
<1>12. CASE \/ \E c \in Cores : ReceiveReturns(c)
            \/ \E q \in Queues : ToggleStatus(q) \/ ChangeMasks(q)
            \/ UNCHANGED vars
  <2>1. UNCHANGED <<free, app, done, schedQ, out, input, emit, bulk, batch>>
    BY <1>12 DEF ReceiveReturns, ToggleStatus, ChangeMasks, vars, hdrVars, ownVars, coreVars, emitVars
  <2>2. QED
    BY <1>0, <2>1, NothingMoves
<1>13. QED
  BY <1>1, <1>2, <1>3, <1>4, <1>5, <1>6, <1>7, <1>8, <1>9, <1>10, <1>11, <1>12
  DEF Next, AppStep, EMStep

-----------------------------------------------------------------------------
(* The queues that event headers name *)

(* An event that waits somewhere is not in the pool or out.                    *)
LEMMA NotWaiting ==
  ASSUME Placed, NEW e \in Events,
         e \in free \/ e \in app \/ e \in done \/ Contains(out, e)
  PROVE  ~Waits(e) /\ (e \notin app => ~Handed(e))
BY CommonAlone DEF Only, Waits, Handed

(* A send leaves events with the queue they wait in.                           *)
LEMMA SwitchHeaders ==
  ASSUME IInv, Placed', NEW e \in Events, NEW d \in Ends, SendSwitch(e, d), ~Waits(e), Waits(e)',
         UNCHANGED <<bulk, batch>>
  PROVE  hdrQ'[e] \in Queues
<1>1. Contains(schedQ', e) /\ ~Contains(schedQ, e)
  BY DEF Waits
<1>2. d \in Queues /\ hdrQ' = [hdrQ EXCEPT ![e] = d]
  BY <1>1 DEF SendSwitch, SendParallelOrdered
<1>3. QED
  BY <1>2 DEF IInv, TypeOK

(* What a send or a recorded order does to the headers of other events.        *)
LEMMA OtherHeaders ==
  ASSUME TypeOK, NEW e \in Events, NEW d,
         \/ SendSwitch(e, d)
         \/ hdrQ' = [hdrQ EXCEPT ![e] = d]
  PROVE  \A y \in Events : y # e => hdrQ'[y] = hdrQ[y]
<1>1. \E z : hdrQ' = [hdrQ EXCEPT ![e] = z]
  BY DEF SendSwitch, SendParallelOrdered
<1>2. QED
  BY <1>1 DEF TypeOK

(* Every step leaves waiting events with their queue, and events with an order *)
(* with the application or in a burst.                                         *)
LEMMA HeadersStep ==
  ASSUME IInv, [Next]_vars
  PROVE  Headers'
<1>0. TypeOK /\ TypeOK' /\ Placed /\ Placed' /\ Headers /\ \A c \in Cores : Shape(c)
  BY TypeStep, PlacedStep DEF IInv
<1>t. /\ batch \in [Cores -> Seq(Events)] /\ bulk \in [Cores -> Seq(Events)] /\ schedQ \in Seq(Events)
      /\ hdrQ \in [Events -> Queues \cup {None}] /\ ordered \subseteq Events
  BY <1>0 DEF TypeOK
<1>1. ASSUME NEW c \in Cores, NEW e \in Events, Alloc(c, e)
      PROVE  Headers'
  BY <1>0, <1>1 DEF Alloc, Headers, Waits, Handed, hdrVars, coreVars
<1>2. ASSUME NEW e \in Events, NEW d \in Ends, SendSwitch(e, d), ~Waits(e), e \notin ordered,
             app \ {e} \subseteq app', UNCHANGED <<bulk, batch, ordered>>
      PROVE  Headers'
  <2>1. \A y \in Events : y # e => hdrQ'[y] = hdrQ[y]
    BY <1>0, <1>2, OtherHeaders
  <2>2. Waits(e)' => hdrQ'[e] \in Queues
    BY <1>0, <1>2, SwitchHeaders
  <2>3. \A y \in Events : y # e => (Contains(schedQ', y) <=> Contains(schedQ, y))
    <3>1. Injective
      BY <1>0 DEF Placed, Injective
    <3>2. QED
      BY <1>0, <1>2, <3>1, SwitchMoves
  <2>4. \A y \in Events : y # e => (Waits(y)' <=> Waits(y))
    BY <1>2, <2>3 DEF Waits
  <2>5. \A y \in Events : Waits(y)' => hdrQ'[y] \in Queues
    BY <1>0, <2>1, <2>2, <2>4 DEF Headers
  <2>6. \A y \in ordered' : Handed(y)'
    BY <1>0, <1>2 DEF Headers, Handed
  <2>7. QED
    BY <2>5, <2>6 DEF Headers
<1>3. ASSUME NEW c \in Cores, NEW e \in Events, NEW d \in Ends, SendPlain(c, e, d)
      PROVE  Headers'
  <2>1. /\ e \in app /\ e \notin ordered /\ SendSwitch(e, d) /\ app \ {e} \subseteq app'
        /\ UNCHANGED <<bulk, batch, ordered>>
    BY <1>3 DEF SendPlain, coreVars
  <2>2. ~Waits(e)
    BY <1>0, <2>1, NotWaiting
  <2>3. QED
    BY <1>2, <2>1, <2>2
<1>4. ASSUME NEW c \in Cores, NEW e \in Events, NEW d \in Ends, SendOrdered(c, e, d)
      PROVE  Headers'
  <2>1. /\ e \in app /\ app' = app \ {e} /\ ordered' = ordered \ {e}
        /\ UNCHANGED <<schedQ, hdrQ, bulk, batch>>
    BY <1>4 DEF SendOrdered, Complete
  <2>2. \A y \in Events : Waits(y)' => hdrQ'[y] \in Queues
    BY <1>0, <2>1 DEF Headers, Waits
  <2>3. \A y \in ordered' : Handed(y)'
    BY <1>0, <2>1 DEF Headers, Handed
  <2>4. QED
    BY <2>2, <2>3 DEF Headers
<1>5. ASSUME NEW e \in Events, e \in free
      PROVE  ~Waits(e) /\ e \notin ordered
  <2>1. ~Waits(e) /\ e \notin app /\ ~Handed(e)
    BY <1>0, <1>5, NotWaiting, CommonAlone DEF Only
  <2>2. QED
    BY <1>0, <2>1 DEF Headers
<1>6. ASSUME NEW c \in Cores, NEW e \in Events, NEW q \in Queues, Receive(c, e, q)
      PROVE  Headers'
  <2>1. /\ e \in free /\ SendSwitch(e, q) /\ UNCHANGED <<bulk, batch, ordered, app>> /\ q \in Ends
    BY <1>6 DEF Receive, coreVars, Ends
  <2>2. QED
    BY <1>2, <1>5, <2>1
<1>7. ASSUME NEW c \in Cores, NEW e \in Events, NEW q \in Queues, ReceiveDirect(c, e, q)
      PROVE  Headers'
  <2>1. e \in free /\ batch[c] = <<>> /\ UNCHANGED <<bulk, app>> /\ q \in Ends
    BY <1>0, <1>7 DEF ReceiveDirect, Shape, Ends
  <2>2. CASE e \in ordered'
    <3>1. /\ hdrQ' = [hdrQ EXCEPT ![e] = q] /\ batch' = [batch EXCEPT ![c] = <<e>>]
          /\ ordered' \subseteq ordered \cup {e} /\ UNCHANGED schedQ
      BY <1>7, <2>2 DEF ReceiveDirect, MaintainOrder
    <3>2. /\ hdrQ'[e] = q /\ \A y \in Events : y # e => hdrQ'[y] = hdrQ[y]
      BY <1>t, <3>1
    <3>3. batch'[c] = <<e>> /\ \A b \in Cores : b # c => batch'[b] = batch[b]
      BY <1>t, <3>1
    <3>4. /\ \A y : Contains(<<e>>, y) <=> y = e
          /\ \A y : ~Contains(batch[c], y)
      BY <2>1, ShortSequences
    <3>5. \A b \in Cores : \A y : Contains(batch'[b], y) <=> Contains(batch[b], y) \/ (b = c /\ y = e)
      BY <3>3, <3>4
    <3>6. \A y \in Events : y # e => (Waits(y)' => Waits(y))
      BY <2>1, <3>1, <3>5 DEF Waits
    <3>7. \A y \in Events : Waits(y)' => hdrQ'[y] \in Queues
      BY <1>0, <3>2, <3>6 DEF Headers
    <3>8. \A y \in ordered' : Handed(y)'
      BY <1>0, <2>1, <3>1, <3>5 DEF Headers, Handed
    <3>9. QED
      BY <3>7, <3>8 DEF Headers
  <2>3. CASE e \notin ordered'
    <3>1. SendSwitch(e, q) /\ UNCHANGED <<batch, ordered>>
      BY <1>7, <2>3 DEF ReceiveDirect, MaintainOrder
    <3>2. QED
      BY <1>2, <1>5, <2>1, <3>1
  <2>4. QED
    BY <2>2, <2>3
<1>8. ASSUME NEW c \in Cores, Schedule(c)
      PROVE  Headers'
  <2>1. PICK n \in 0..Len(schedQ) :
          /\ bulk' = [bulk EXCEPT ![c] = SubSeq(schedQ, 1, n)]
          /\ schedQ' = SubSeq(schedQ, n + 1, Len(schedQ))
    BY <1>0, <1>8, BurstSize DEF Schedule
  <2>2. PICK h, t : h = SubSeq(schedQ, 1, n) /\ t = SubSeq(schedQ, n + 1, Len(schedQ))
    OBVIOUS
  <2>3. Parts(schedQ, h, t)
    BY <1>t, <2>2, CutMembers
  <2>4. /\ \A y : Contains(schedQ, y) <=> Contains(h, y) \/ Contains(t, y)
        /\ schedQ' = t /\ bulk'[c] = h /\ \A b \in Cores : b # c => bulk'[b] = bulk[b]
    BY <1>t, <2>1, <2>2, <2>3 DEF Parts
  <2>5. UNCHANGED <<hdrQ, ordered, app, batch>>
    BY <1>8 DEF Schedule, hdrVars, ownVars
  <2>6. \A y \in Events : Waits(y)' => Waits(y)
    BY <2>4, <2>5 DEF Waits
  <2>7. QED
    BY <1>0, <2>5, <2>6 DEF Headers, Handed
<1>9. ASSUME NEW c \in Cores, Order(c)
      PROVE  Headers'
  <2>1. PICK e, s, t, u, v : /\ e = Head(bulk[c]) /\ s = bulk[c] /\ t = Tail(s)
                             /\ u = batch[c] /\ v = Append(u, e)
    OBVIOUS
  <2>2. e \in Events /\ s \in Seq(Events) /\ s # <<>> /\ u \in Seq(Events)
    BY <1>9, <1>t, <2>1, BulkFacts DEF Order
  <2>3. \A y : Contains(s, y) <=> y = e \/ Contains(t, y)
    BY <2>1, <2>2, TailMembers
  <2>4. \A y : Contains(v, y) <=> Contains(u, y) \/ y = e
    <3>1. e \in Events /\ u \in Seq(Events) /\ v = Append(u, e)
      BY <2>1, <2>2
    <3>2. QED
      BY <3>1, AppendMembers
  <2>5. /\ bulk' = [bulk EXCEPT ![c] = t] /\ batch' = [batch EXCEPT ![c] = v]
        /\ UNCHANGED <<schedQ, hdrQ, app>> /\ ordered' \subseteq ordered \cup {e}
    BY <1>9, <2>1 DEF Order, MaintainOrder, ownVars
  <2>6. /\ bulk'[c] = t /\ \A b \in Cores : b # c => bulk'[b] = bulk[b]
        /\ batch'[c] = v /\ \A b \in Cores : b # c => batch'[b] = batch[b]
    BY <1>t, <2>5
  <2>7. /\ \A b \in Cores : \A y : Contains(bulk'[b], y) => Contains(bulk[b], y)
        /\ \A b \in Cores : \A y : Contains(batch'[b], y) <=> Contains(batch[b], y) \/ (b = c /\ y = e)
        /\ Contains(bulk[c], e)
    BY <2>1, <2>3, <2>4, <2>6
  <2>8. \A y \in Events : Waits(y)' => Waits(y)
    BY <2>5, <2>7 DEF Waits
  <2>9. \A y \in ordered' : Handed(y)'
    BY <1>0, <2>5, <2>7 DEF Headers, Handed
  <2>10. QED
    BY <1>0, <2>5, <2>8, <2>9 DEF Headers
<1>10. ASSUME NEW c \in Cores, NEW e, batch[c] # <<>>, e = Head(batch[c]),
              batch' = [batch EXCEPT ![c] = Tail(@)]
       PROVE  /\ e \in Events /\ Contains(batch[c], e)
              /\ \A b \in Cores : \A y : Contains(batch'[b], y) <=> Contains(batch[b], y) /\ y # e
  <2>1. /\ e \in Events /\ Only(e, "batch", c)
        /\ \A b \in Cores : IsInjective(batch'[b]) /\ ~Contains(batch'[b], e)
        /\ \A b \in Cores : \A y : y # e => (Contains(batch'[b], y) <=> Contains(batch[b], y))
    BY <1>0, <1>10, BatchTail
  <2>2. QED
    BY <2>1 DEF Only
<1>11. ASSUME NEW c \in Cores, Dispatch(c)
       PROVE  Headers'
  <2>1. PICK e : e = Head(batch[c])
    OBVIOUS
  <2>2. /\ batch' = [batch EXCEPT ![c] = Tail(@)] /\ app' = app \cup {e} /\ batch[c] # <<>>
        /\ UNCHANGED <<schedQ, hdrQ, ordered, bulk>>
    BY <1>11, <2>1, BatchFacts DEF Dispatch, hdrVars
  <2>3. \A b \in Cores : \A y : Contains(batch'[b], y) <=> Contains(batch[b], y) /\ y # e
    BY <1>10, <2>1, <2>2
  <2>4. QED
    BY <1>0, <2>2, <2>3 DEF Headers, Waits, Handed
<1>12. ASSUME NEW c \in Cores, DropEvent(c)
       PROVE  Headers'
  <2>1. PICK e : e = Head(batch[c])
    OBVIOUS
  <2>2. batch' = [batch EXCEPT ![c] = Tail(@)] /\ batch[c] # <<>>
    BY <1>12, BatchFacts DEF DropEvent
  <2>3. /\ e \in Events /\ Contains(batch[c], e)
        /\ \A b \in Cores : \A y : Contains(batch'[b], y) <=> Contains(batch[b], y) /\ y # e
    BY <1>10, <2>1, <2>2
  <2>4. CASE e \in ordered /\ Complete(c, e, Free) /\ UNCHANGED app
    <3>1. ordered' = ordered \ {e} /\ UNCHANGED <<schedQ, hdrQ, app, bulk>>
      BY <2>4 DEF Complete
    <3>2. \A y \in Events : Waits(y)' => hdrQ'[y] \in Queues
      BY <1>0, <2>3, <3>1 DEF Headers, Waits
    <3>3. \A y \in ordered' : Handed(y)'
      BY <1>0, <2>3, <3>1 DEF Headers, Handed
    <3>4. QED
      BY <3>2, <3>3 DEF Headers
  <2>5. CASE /\ e \notin ordered /\ SendSwitch(e, Free) /\ free' = free \cup {e}
             /\ UNCHANGED <<ordered, app, bulk>>
    <3>1. UNCHANGED schedQ
      BY <2>5, ConstantsAssumption DEF SendSwitch
    <3>2. \A y \in Events : y # e => hdrQ'[y] = hdrQ[y]
      BY <1>0, <2>3, <2>5, OtherHeaders
    <3>3. ~Waits(e)'
      <4>1. e \in free'
        BY <2>5
      <4>2. Only(e, "pool", None)'
        <5>1. PICK k \in CommonPlaces \cup CorePlaces, b \in Cores \cup {None} : Only(e, k, b)'
          BY <1>0, <2>3 DEF Placed
        <5>2. k = "pool"
          BY <4>1, <5>1 DEF Only
        <5>3. QED
          BY <5>1, <5>2 DEF Only, CommonPlaces, CorePlaces
      <4>3. QED
        BY <4>2 DEF Only, Waits
    <3>4. \A y \in Events : Waits(y)' => hdrQ'[y] \in Queues
      BY <1>0, <2>3, <2>5, <3>1, <3>2, <3>3 DEF Headers, Waits
    <3>5. \A y \in ordered' : Handed(y)'
      BY <1>0, <2>3, <2>5 DEF Headers, Handed
    <3>6. QED
      BY <3>4, <3>5 DEF Headers
  <2>6. QED
    BY <1>12, <2>1, <2>4, <2>5 DEF DropEvent
<1>13. ASSUME NEW c \in Cores, Emit(c)
       PROVE  Headers'
  <2>1. PICK e, d : e = emit[c] /\ d = op[e]
    OBVIOUS
  <2>2. e \in Events /\ d \in Ends /\ e \in done
    BY <1>13, <2>1, EmitFacts DEF Emit
  <2>3. /\ SendSwitch(e, d) /\ UNCHANGED <<ordered, bulk, batch>> /\ app \subseteq app'
    BY <1>13, <2>1 DEF Emit, coreVars
  <2>4. ~Waits(e) /\ ~Handed(e)
    BY <1>0, <2>2, NotWaiting, CommonAlone DEF Only
  <2>5. e \notin ordered
    BY <1>0, <2>4 DEF Headers
  <2>6. QED
    BY <1>2, <2>2, <2>3, <2>4, <2>5
<1>14. CASE \/ \E c \in Cores : ReceiveReturns(c)
            \/ \E q \in Queues : ToggleStatus(q) \/ ChangeMasks(q)
            \/ Consume \/ UNCHANGED vars
  <2>1. UNCHANGED <<schedQ, hdrQ, ordered, app, bulk, batch>>
    BY <1>14 DEF ReceiveReturns, ToggleStatus, ChangeMasks, Consume, vars, hdrVars, ownVars, coreVars
  <2>2. QED
    BY <1>0, <2>1 DEF Headers, Waits, Handed
<1>15. QED
  BY <1>1, <1>3, <1>4, <1>6, <1>7, <1>8, <1>9, <1>11, <1>12, <1>13, <1>14
  DEF Next, AppStep, EMStep

-----------------------------------------------------------------------------
(* Order *)

(* Nothing that has to do with order changes.                                  *)
LEMMA OrderSame ==
  ASSUME IInv, UNCHANGED <<orderFirst, orderQ, ordered, done, emit, lock>>,
         \A e \in ordered \cup done : hdrQ'[e] = hdrQ[e]
  PROVE  Orders'
<1>1. \A c \in Cores : emit[c] # None => emit[c] \in done
  <2>1. ASSUME NEW c \in Cores, emit[c] # None
        PROVE  emit[c] \in done
    <3>1. hdrQ[emit[c]] \in Queues
      BY <2>1 DEF IInv, Orders
    <3>2. QED
      BY <2>1, <3>1 DEF IInv, Orders, OrderOf, Emitting
  <2>2. QED
    BY <2>1
<1>2. \A c \in Cores : emit'[c] # None => hdrQ'[emit'[c]] = hdrQ[emit[c]]
  BY <1>1
<1>3. \A c \in Cores, q \in Queues : Emitting(c, q)' <=> Emitting(c, q)
  BY <1>2 DEF Emitting
<1>4. ASSUME NEW q \in Queues
      PROVE  OrderOf(q)'
  <2>1. OrderOf(q)
    BY DEF IInv, Orders
  <2>2. \A e \in Events : Contains(orderQ'[q], e) \/ orderFirst'[q] = e =>
                            e \in ordered' \cup done' /\ hdrQ'[e] = q
    BY <2>1 DEF OrderOf
  <2>3. QED
    BY <1>3, <2>1, <2>2 DEF OrderOf
<1>5. \A e \in ordered' \cup done' : HasTurn(e)'
  BY DEF IInv, Orders, HasTurn
<1>6. QED
  BY <1>2, <1>4, <1>5 DEF IInv, Orders

(* An event is put behind those of an order-queue.                             *)
Longer(s, e, t) ==
  /\ \A y : Contains(t, y) <=> Contains(s, y) \/ y = e
  /\ IsInjective(s) /\ ~Contains(s, e) => IsInjective(t)
  /\ Len(t) = Len(s) + 1

(* What an append does to it.                                                  *)
LEMMA Lengthen ==
  ASSUME NEW s \in Seq(Events), NEW e \in Events
  PROVE  Longer(s, e, Append(s, e))
BY AppendMembers, AppendFacts DEF Longer

(* Recording the order of an event that has none, while no core emits for its  *)
(* queue.                                                                      *)
LEMMA MaintainOrders ==
  ASSUME IInv, NEW e \in Events, e \notin ordered, e \notin done, NEW q \in Queues,
         MaintainOrder(e, q), \A c \in Cores : ~Emitting(c, q),
         UNCHANGED <<done, emit>>, \A p \in Queues : p # q => lock'[p] = lock[p],
         hdrQ'[e] = q, \A y \in Events : y # e => hdrQ'[y] = hdrQ[y]
  PROVE  Orders'
<1>0. /\ TypeOK /\ None \notin Events /\ OrderCap \in Nat
      /\ orderFirst \in [Queues -> Events \cup {None}] /\ orderQ \in [Queues -> Seq(Events)]
      /\ ordered \subseteq Events /\ done \subseteq Events /\ orderQ[q] \in Seq(Events)
      /\ emit \in [Cores -> Events \cup {None}]
  BY ConstantsAssumption DEF IInv, TypeOK
<1>1. \A p \in Queues : OrderOf(p)
  BY DEF IInv, Orders
<1>2. \A c \in Cores : emit[c] # None => hdrQ[emit[c]] \in Queues /\ emit[c] \in done /\ emit[c] # e
  <2>1. ASSUME NEW c \in Cores, emit[c] # None
        PROVE  hdrQ[emit[c]] \in Queues /\ emit[c] \in done
    <3>1. hdrQ[emit[c]] \in Queues
      BY <2>1 DEF IInv, Orders
    <3>2. QED
      BY <2>1, <3>1 DEF IInv, Orders, OrderOf, Emitting
  <2>2. QED
    BY <2>1
<1>3. \A c \in Cores, p \in Queues : Emitting(c, p)' <=> Emitting(c, p)
  BY <1>0, <1>2 DEF Emitting
<1>4. \A p \in Queues : ~Contains(orderQ[p], e) /\ orderFirst[p] # e
  BY <1>1 DEF OrderOf
<1>5. PICK f, s : f = orderFirst[q] /\ s = orderQ[q]
  OBVIOUS
<1>6. s \in Seq(Events) /\ Len(s) <= OrderCap /\ Len(s) \in Nat /\ (f = None => s = <<>>)
  BY <1>0, <1>1, <1>5 DEF OrderOf
<1>7. /\ orderFirst'[q] = (IF f = None THEN e ELSE f)
      /\ \A p \in Queues : p # q => orderFirst'[p] = orderFirst[p]
      /\ orderQ'[q] = (IF f # None /\ Len(s) < OrderCap THEN Append(s, e) ELSE s)
      /\ \A p \in Queues : p # q => orderQ'[p] = orderQ[p]
      /\ ordered' = IF f # None /\ Len(s) = OrderCap THEN ordered ELSE ordered \cup {e}
  BY <1>0, <1>5 DEF MaintainOrder
<1>8. ASSUME NEW p \in Queues, p # q
      PROVE  OrderOf(p)'
  <2>1. OrderOf(p) /\ orderFirst'[p] = orderFirst[p] /\ orderQ'[p] = orderQ[p] /\ lock'[p] = lock[p]
    BY <1>1, <1>7, <1>8
  <2>2. \A y \in Events : Contains(orderQ'[p], y) \/ orderFirst'[p] = y =>
                            y \in ordered' \cup done' /\ hdrQ'[y] = p
    BY <1>4, <1>7, <2>1 DEF OrderOf
  <2>3. QED
    BY <1>3, <2>1, <2>2 DEF OrderOf
<1>9. PICK t : t = Append(s, e)
  OBVIOUS
<1>10. /\ \A y : Contains(t, y) <=> Contains(s, y) \/ y = e
       /\ IsInjective(s) /\ ~Contains(s, e) => IsInjective(t)
       /\ Len(t) = Len(s) + 1
  BY <1>6, <1>9, Lengthen DEF Longer
<1>11. /\ IsInjective(s) /\ ~Contains(s, e)
       /\ \A y \in Events : Contains(s, y) => y # f
       /\ \A y \in Events : Contains(s, y) \/ f = y => y \in ordered \cup done /\ hdrQ[y] = q
       /\ f \notin done
  BY <1>1, <1>4, <1>5 DEF OrderOf
(* It is the first, the last, or has no place.                                 *)
<1>12. \/ f = None /\ orderFirst'[q] = e /\ orderQ'[q] = s /\ s = <<>> /\ ordered' = ordered \cup {e}
       \/ /\ f # None /\ orderFirst'[q] = f /\ orderQ'[q] = t /\ Len(t) <= OrderCap
          /\ ordered' = ordered \cup {e}
       \/ f # None /\ orderFirst'[q] = f /\ orderQ'[q] = s /\ ordered' = ordered
  <2>1. CASE f = None
    BY <1>6, <1>7, <2>1
  <2>2. CASE f # None /\ Len(s) < OrderCap
    <3>1. Len(t) <= OrderCap /\ Len(s) # OrderCap
      BY <1>0, <1>6, <1>10, <2>2
    <3>2. QED
      BY <1>7, <1>9, <2>2, <3>1
  <2>3. CASE f # None /\ ~(Len(s) < OrderCap)
    <3>1. Len(s) = OrderCap
      BY <1>0, <1>6, <2>3
    <3>2. QED
      BY <1>7, <2>3, <3>1
  <2>4. QED
    BY <2>1, <2>2, <2>3
<1>13. OrderOf(q)'
  <2>1. \A c \in Cores : ~Emitting(c, q)'
    BY <1>3
  <2>2. IsInjective(orderQ'[q]) /\ Len(orderQ'[q]) <= OrderCap
    BY <1>6, <1>10, <1>11, <1>12
  <2>3. \A y \in Events : Contains(orderQ'[q], y) => y # orderFirst'[q]
    <3>1. s = <<>> => \A y : ~Contains(s, y)
      BY ShortSequences
    <3>2. QED
      BY <1>10, <1>11, <1>12, <3>1, <1>4, <1>5
  <2>4. \A y \in Events : Contains(orderQ'[q], y) \/ orderFirst'[q] = y =>
                            y \in ordered' \cup done' /\ hdrQ'[y] = q
    BY <1>10, <1>11, <1>12
  <2>5. orderFirst'[q] # None /\ orderFirst'[q] \notin done'
    BY <1>0, <1>11, <1>12
  <2>6. QED
    BY <2>1, <2>2, <2>3, <2>4, <2>5 DEF OrderOf
<1>14. ASSUME NEW y \in ordered' \cup done'
       PROVE  HasTurn(y)'
  <2>1. CASE y = e
    <3>1. orderFirst'[q] = e \/ Contains(orderQ'[q], e)
      BY <1>10, <1>12, <1>14, <2>1
    <3>2. QED
      BY <2>1, <3>1 DEF HasTurn
  <2>2. CASE y # e
    <3>1. y \in ordered \cup done /\ y \in Events
      BY <1>0, <1>12, <1>14, <2>2
    <3>2. HasTurn(y) /\ hdrQ'[y] = hdrQ[y]
      BY <2>2, <3>1 DEF IInv, Orders
    <3>3. CASE hdrQ[y] = q
      <4>1. f = y \/ Contains(s, y) \/ \E c \in Cores : emit[c] = y
        BY <1>5, <3>2, <3>3 DEF HasTurn
      <4>2. orderFirst'[q] = y \/ Contains(orderQ'[q], y) \/ \E c \in Cores : emit'[c] = y
        BY <1>0, <1>10, <1>12, <3>1, <4>1
      <4>3. QED
        BY <3>2, <3>3, <4>2 DEF HasTurn
    <3>4. CASE hdrQ[y] # q
      BY <1>7, <3>2, <3>4 DEF HasTurn
    <3>5. QED
      BY <3>3, <3>4
  <2>3. QED
    BY <2>1, <2>2
<1>15. \A c \in Cores : emit'[c] # None => hdrQ'[emit'[c]] \in Queues
  BY <1>0, <1>2
<1>16. QED
  BY <1>8, <1>13, <1>14, <1>15 DEF Orders

(* An event is done: nobody emits for its queue yet, and if it is the first in *)
(* order this core begins.                                                     *)
LEMMA CompleteOrders ==
  ASSUME IInv, NEW c \in Cores, NEW e \in Events, e \in ordered, NEW d \in Ends, Complete(c, e, d),
         pc[c] # "emit"
  PROVE  Orders'
<1>0. /\ TypeOK /\ None \notin Events /\ None \notin Cores
      /\ orderFirst \in [Queues -> Events \cup {None}] /\ lock \in [Queues -> Cores \cup {None}]
      /\ emit \in [Cores -> Events \cup {None}] /\ ordered \subseteq Events /\ done \subseteq Events
      /\ emit[c] = None
  BY ConstantsAssumption DEF IInv, TypeOK, Shape
<1>1. PICK q : q = hdrQ[e]
  OBVIOUS
<1>2. q \in Queues /\ HasTurn(e) /\ \A p \in Queues : OrderOf(p)
  BY <1>1 DEF IInv, Orders, HasTurn
<1>3. /\ lock[q] = None /\ ordered' = ordered \ {e} /\ done' = done \cup {e}
      /\ UNCHANGED <<orderQ, hdrQ>>
  BY <1>1 DEF Complete
<1>4. \A b \in Cores : ~Emitting(b, q)
  BY <1>0, <1>2, <1>3 DEF OrderOf
<1>5. CASE orderFirst[q] = e
  <2>1. /\ orderFirst' = [orderFirst EXCEPT ![q] = None] /\ lock' = [lock EXCEPT ![q] = c]
        /\ emit' = [emit EXCEPT ![c] = e]
    BY <1>1, <1>5 DEF Complete
  <2>2. /\ orderFirst'[q] = None /\ lock'[q] = c /\ emit'[c] = e
        /\ \A p \in Queues : p # q => orderFirst'[p] = orderFirst[p] /\ lock'[p] = lock[p]
        /\ \A b \in Cores : b # c => emit'[b] = emit[b]
    BY <1>0, <1>2, <2>1
  <2>3. \A b \in Cores, p \in Queues : Emitting(b, p)' <=> IF b = c THEN p = q ELSE Emitting(b, p)
    BY <1>0, <1>1, <1>3, <2>2 DEF Emitting
  <2>4. OrderOf(q)'
    <3>1. OrderOf(q) /\ ~Contains(orderQ[q], e)
      BY <1>2, <1>5 DEF OrderOf
    <3>2. \A y \in Events : Contains(orderQ'[q], y) => y # orderFirst'[q]
      BY <1>0, <2>2
    <3>3. \A y \in Events : Contains(orderQ'[q], y) \/ orderFirst'[q] = y =>
                              y \in ordered' \cup done' /\ hdrQ'[y] = q
      BY <1>0, <1>3, <2>2, <3>1 DEF OrderOf
    <3>4. \A b \in Cores : Emitting(b, q)' => b = c
      BY <1>2, <1>4, <2>3
    <3>5. emit'[c] \in done' /\ ~Contains(orderQ'[q], emit'[c])
      BY <1>3, <2>2, <3>1
    <3>6. Emitting(c, q)'
      BY <1>2, <2>3
    <3>7. IsInjective(orderQ'[q]) /\ Len(orderQ'[q]) <= OrderCap
      BY <1>3, <3>1 DEF OrderOf
    <3>8. QED
      BY <2>2, <3>2, <3>3, <3>4, <3>5, <3>6, <3>7 DEF OrderOf
  <2>5. ASSUME NEW p \in Queues, p # q
        PROVE  OrderOf(p)'
    <3>1. /\ OrderOf(p) /\ orderFirst'[p] = orderFirst[p] /\ lock'[p] = lock[p] /\ orderQ'[p] = orderQ[p]
          /\ orderFirst[p] # e
      BY <1>1, <1>2, <1>3, <2>2, <2>5 DEF OrderOf
    <3>2. /\ ~Emitting(c, p) /\ \A b \in Cores : Emitting(b, p)' <=> Emitting(b, p)
          /\ \A b \in Cores : Emitting(b, p) => emit'[b] = emit[b]
      BY <1>0, <2>2, <2>3, <2>5 DEF Emitting
    <3>3. \A y \in Events : Contains(orderQ'[p], y) \/ orderFirst'[p] = y =>
                              y \in ordered' \cup done' /\ hdrQ'[y] = p
      BY <1>3, <3>1 DEF OrderOf
    <3>4. QED
      BY <1>3, <3>1, <3>2, <3>3 DEF OrderOf
  <2>6. ASSUME NEW y \in ordered' \cup done'
        PROVE  HasTurn(y)'
    <3>1. CASE y = e
      BY <1>1, <1>2, <1>3, <2>2, <3>1 DEF HasTurn
    <3>2. CASE y # e
      <4>1. HasTurn(y) /\ y \in Events
        BY <1>0, <1>3, <2>6, <3>2 DEF IInv, Orders
      <4>2. \A b \in Cores : emit[b] = y => emit'[b] = y
        BY <1>0, <2>2, <4>1
      <4>3. orderFirst[hdrQ[y]] = y => orderFirst'[hdrQ[y]] = y
        BY <1>5, <2>2, <3>2, <4>1 DEF HasTurn
      <4>4. QED
        BY <1>3, <4>1, <4>2, <4>3 DEF HasTurn
    <3>3. QED
      BY <3>1, <3>2
  <2>7. \A b \in Cores : emit'[b] # None => hdrQ'[emit'[b]] \in Queues
    BY <1>1, <1>2, <1>3, <2>2 DEF IInv, Orders
  <2>8. QED
    BY <2>4, <2>5, <2>6, <2>7 DEF Orders
<1>6. CASE orderFirst[q] # e
  <2>1. UNCHANGED <<orderFirst, lock, emit>>
    BY <1>1, <1>6 DEF Complete, emitVars
  <2>2. \A b \in Cores, p \in Queues : Emitting(b, p)' <=> Emitting(b, p)
    BY <1>3, <2>1 DEF Emitting
  <2>3. ASSUME NEW p \in Queues
        PROVE  OrderOf(p)'
    <3>1. OrderOf(p)
      BY <1>2
    <3>2. orderFirst[p] # e
      BY <1>1, <1>6, <3>1 DEF OrderOf
    <3>3. QED
      BY <1>3, <2>1, <2>2, <3>1, <3>2 DEF OrderOf
  <2>4. \A y \in ordered' \cup done' : HasTurn(y)'
    BY <1>3, <2>1 DEF IInv, Orders, HasTurn
  <2>5. \A b \in Cores : emit'[b] # None => hdrQ'[emit'[b]] \in Queues
    BY <1>3, <2>1 DEF IInv, Orders
  <2>6. QED
    BY <2>3, <2>4, <2>5 DEF Orders
<1>7. QED
  BY <1>5, <1>6

(* A core emits an event and takes the next one that is finished, or leaves    *)
(* the one that is next to the application.                                    *)
LEMMA EmitOrders ==
  ASSUME IInv, NEW c \in Cores, Emit(c)
  PROVE  Orders'
<1>0. /\ TypeOK /\ None \notin Events /\ None \notin Cores
      /\ orderFirst \in [Queues -> Events \cup {None}] /\ lock \in [Queues -> Cores \cup {None}]
      /\ orderQ \in [Queues -> Seq(Events)] /\ emit \in [Cores -> Events \cup {None}]
      /\ ordered \subseteq Events /\ done \subseteq Events
      /\ \A p \in Queues : OrderOf(p)
  BY ConstantsAssumption DEF IInv, TypeOK, Orders
<1>1. PICK e, q, s : e = emit[c] /\ q = hdrQ[e] /\ s = orderQ[q]
  OBVIOUS
<1>2. e \in Events /\ q \in Queues /\ e \in done /\ op[e] \in Ends /\ Emitting(c, q)
  BY <1>1, EmitFacts DEF Emit, Emitting
<1>3. /\ lock[q] = c /\ orderFirst[q] = None /\ ~Contains(s, e)
      /\ IsInjective(s) /\ Len(s) <= OrderCap /\ s \in Seq(Events)
      /\ \A y \in Events : Contains(s, y) => y \in ordered \cup done /\ hdrQ[y] = q
  BY <1>0, <1>1, <1>2 DEF OrderOf
<1>4. \A b \in Cores : Emitting(b, q) => b = c
  BY <1>0, <1>2, <1>3 DEF OrderOf
<1>5. e \notin ordered
  BY <1>2, OrderedAlone
<1>6. done' = done \ {e} /\ ordered' = ordered
  BY <1>1 DEF Emit
<1>7. \A y \in Events : y # e => hdrQ'[y] = hdrQ[y]
  <2>1. SendSwitch(e, op[e])
    BY <1>1 DEF Emit
  <2>2. QED
    BY <1>0, <1>2, <2>1, OtherHeaders
<1>8. \A b \in Cores : b # c => emit[b] # e
  BY <1>1, <1>2, <1>4 DEF Emitting
<1>9. \A b \in Cores : emit[b] # None => hdrQ[emit[b]] \in Queues /\ emit[b] \in Events
  BY <1>0 DEF IInv, Orders
<1>10. ASSUME NEW y \in ordered' \cup done'
       PROVE  y \in ordered \cup done /\ y \in Events /\ y # e /\ HasTurn(y) /\ hdrQ'[y] = hdrQ[y]
  <2>1. y \in ordered \cup done /\ y \in Events /\ y # e
    BY <1>0, <1>5, <1>6, <1>10
  <2>2. HasTurn(y)
    BY <2>1 DEF IInv, Orders
  <2>3. QED
    BY <1>7, <2>1, <2>2
(* The next in order.                                                          *)
<1>11. PICK h, t : h = Head(s) /\ t = Tail(s)
  OBVIOUS
<1>12. ASSUME s # <<>>
       PROVE  /\ h \in Events /\ h # e /\ Contains(s, h) /\ t \in Seq(Events)
              /\ \A y : Contains(s, y) <=> y = h \/ Contains(t, y)
              /\ IsInjective(t) /\ ~Contains(t, h) /\ Len(t) <= OrderCap
  <2>1. /\ \A y : Contains(s, y) <=> y = h \/ Contains(t, y)
        /\ IsInjective(s) => IsInjective(t) /\ ~Contains(t, h)
    BY <1>3, <1>11, <1>12, TailMembers
  <2>2. h \in Events /\ t \in Seq(Events) /\ Len(s) \in Nat /\ Len(t) = Len(s) - 1
    BY <1>3, <1>11, <1>12, TailFacts
  <2>3. OrderCap \in Nat
    BY ConstantsAssumption
  <2>4. QED
    BY <1>3, <2>1, <2>2, <2>3
<1>13. /\ orderQ'[q] = (IF s = <<>> THEN s ELSE t)
       /\ \A p \in Queues : p # q => orderQ'[p] = orderQ[p]
  <2>1. orderQ' = IF s = <<>> THEN orderQ ELSE [orderQ EXCEPT ![q] = t]
    BY <1>1, <1>11 DEF Emit
  <2>2. QED
    BY <1>0, <1>1, <1>2, <2>1
<1>14. CASE s # <<>> /\ h \in done
  <2>1. emit' = [emit EXCEPT ![c] = h] /\ UNCHANGED <<orderFirst, lock>>
    BY <1>1, <1>11, <1>14 DEF Emit
  <2>2. emit'[c] = h /\ \A b \in Cores : b # c => emit'[b] = emit[b]
    BY <1>0, <2>1
  <2>3. hdrQ'[h] = q /\ h \in done' /\ h # None
    BY <1>0, <1>3, <1>6, <1>7, <1>12, <1>14
  <2>4. \A b \in Cores, p \in Queues : Emitting(b, p)' <=> Emitting(b, p)
    <3>1. ASSUME NEW b \in Cores, NEW p \in Queues, b # c
          PROVE  Emitting(b, p)' <=> Emitting(b, p)
      BY <1>7, <1>8, <1>9, <2>2, <3>1 DEF Emitting
    <3>2. ASSUME NEW p \in Queues
          PROVE  Emitting(c, p)' <=> Emitting(c, p)
      BY <1>1, <1>2, <2>2, <2>3 DEF Emitting
    <3>3. QED
      BY <3>1, <3>2
  <2>5. OrderOf(q)'
    <3>1. IsInjective(orderQ'[q]) /\ Len(orderQ'[q]) <= OrderCap
      BY <1>12, <1>13, <1>14
    <3>2. \A y \in Events : y # orderFirst'[q]
      BY <1>0, <1>3, <2>1
    <3>3. \A y \in Events : Contains(orderQ'[q], y) => y \in ordered' \cup done' /\ hdrQ'[y] = q
      BY <1>3, <1>6, <1>7, <1>12, <1>13, <1>14
    <3>4. \A b \in Cores : Emitting(b, q)' => b = c
      BY <1>2, <1>4, <2>4
    <3>5. Emitting(c, q)'
      BY <1>2, <2>4
    <3>6. lock'[q] = c /\ orderFirst'[q] = None /\ emit'[c] \in done' /\ ~Contains(orderQ'[q], emit'[c])
      BY <1>3, <1>12, <1>13, <1>14, <2>1, <2>2, <2>3
    <3>7. QED
      BY <3>1, <3>2, <3>3, <3>4, <3>5, <3>6 DEF OrderOf
  <2>6. ASSUME NEW p \in Queues, p # q
        PROVE  OrderOf(p)'
    <3>1. OrderOf(p) /\ orderFirst'[p] = orderFirst[p] /\ orderQ'[p] = orderQ[p] /\ lock'[p] = lock[p]
      BY <1>0, <1>13, <2>1, <2>6
    <3>2. \A y \in Events : Contains(orderQ'[p], y) \/ orderFirst'[p] = y =>
                              y \in ordered' \cup done' /\ hdrQ'[y] = p
      <4>1. \A y \in Events : Contains(orderQ[p], y) \/ orderFirst[p] = y =>
                                y \in ordered \cup done /\ hdrQ[y] = p /\ y # e
        BY <1>1, <2>6, <3>1 DEF OrderOf
      <4>2. QED
        BY <1>6, <1>7, <3>1, <4>1
    <3>3. \A b \in Cores : Emitting(b, p)' => Emitting(b, p) /\ b # c
      BY <1>1, <2>4, <2>6 DEF Emitting
    <3>4. \A b \in Cores : Emitting(b, p)' =>
            lock'[p] = b /\ orderFirst'[p] = None /\ emit'[b] \in done' /\ ~Contains(orderQ'[p], emit'[b])
      <4>1. ASSUME NEW b \in Cores, Emitting(b, p)'
            PROVE  lock'[p] = b /\ orderFirst'[p] = None /\ emit'[b] \in done' /\ ~Contains(orderQ'[p], emit'[b])
        <5>1. Emitting(b, p) /\ b # c
          BY <3>3, <4>1
        <5>2. emit'[b] = emit[b] /\ emit[b] # e
          BY <1>8, <2>2, <5>1
        <5>3. lock[p] = b /\ orderFirst[p] = None /\ emit[b] \in done /\ ~Contains(orderQ[p], emit[b])
          BY <3>1, <5>1 DEF OrderOf
        <5>4. QED
          BY <1>6, <3>1, <5>2, <5>3
      <4>2. QED
        BY <4>1
    <3>5. (\A b \in Cores : ~Emitting(b, p)') =>
             /\ orderFirst'[p] = None => orderQ'[p] = <<>>
             /\ orderFirst'[p] \notin done'
      BY <1>6, <2>4, <3>1 DEF OrderOf
    <3>6. QED
      BY <3>1, <3>2, <3>4, <3>5 DEF OrderOf
  <2>7. ASSUME NEW y \in ordered' \cup done'
        PROVE  HasTurn(y)'
    <3>1. y # e /\ y \in Events /\ HasTurn(y) /\ hdrQ'[y] = hdrQ[y]
      BY <1>10, <2>7
    <3>2. \A b \in Cores : emit[b] = y => emit'[b] = y
      BY <1>1, <2>2, <3>1
    <3>3. CASE hdrQ[y] = q
      <4>1. Contains(s, y) \/ \E b \in Cores : emit[b] = y
        BY <1>0, <1>1, <1>3, <3>1, <3>3 DEF HasTurn
      <4>2. Contains(orderQ'[q], y) \/ \E b \in Cores : emit'[b] = y
        BY <1>12, <1>13, <1>14, <2>2, <3>2, <4>1
      <4>3. QED
        BY <1>2, <3>1, <3>3, <4>2 DEF HasTurn
    <3>4. CASE hdrQ[y] # q
      BY <1>13, <2>1, <3>1, <3>2, <3>4 DEF HasTurn
    <3>5. QED
      BY <3>3, <3>4
  <2>8. \A b \in Cores : emit'[b] # None => hdrQ'[emit'[b]] \in Queues
    BY <1>2, <1>7, <1>8, <1>9, <2>2, <2>3
  <2>9. QED
    BY <2>5, <2>6, <2>7, <2>8 DEF Orders
<1>15. CASE ~(s # <<>> /\ h \in done)
  <2>1. /\ orderFirst' = [orderFirst EXCEPT ![q] = IF s = <<>> THEN None ELSE h]
        /\ lock' = [lock EXCEPT ![q] = None] /\ emit' = [emit EXCEPT ![c] = None]
    BY <1>1, <1>11, <1>15 DEF Emit
  <2>2. /\ emit'[c] = None /\ \A b \in Cores : b # c => emit'[b] = emit[b]
        /\ orderFirst'[q] = (IF s = <<>> THEN None ELSE h)
        /\ \A p \in Queues : p # q => orderFirst'[p] = orderFirst[p] /\ lock'[p] = lock[p]
    BY <1>0, <1>2, <2>1
  <2>3. \A b \in Cores, p \in Queues : Emitting(b, p)' <=> b # c /\ Emitting(b, p)
    BY <1>7, <1>8, <1>9, <2>2 DEF Emitting
  <2>4. OrderOf(q)'
    <3>1. IsInjective(orderQ'[q]) /\ Len(orderQ'[q]) <= OrderCap
      BY <1>3, <1>12, <1>13
    <3>2. \A y \in Events : Contains(orderQ'[q], y) => y # orderFirst'[q]
      BY <1>0, <1>12, <1>13, <2>2
    <3>3. \A y \in Events : Contains(orderQ'[q], y) \/ orderFirst'[q] = y =>
                              y \in ordered' \cup done' /\ hdrQ'[y] = q
      <4>1. \A y \in Events : Contains(orderQ'[q], y) \/ orderFirst'[q] = y => Contains(s, y)
        BY <1>0, <1>12, <1>13, <2>2
      <4>2. QED
        BY <1>3, <1>6, <1>7, <4>1
    <3>4. \A b \in Cores : ~Emitting(b, q)'
      BY <1>2, <1>4, <2>3
    <3>5. orderFirst'[q] = None => orderQ'[q] = <<>>
      BY <1>0, <1>12, <1>13, <2>2
    <3>6. orderFirst'[q] \notin done'
      BY <1>0, <1>6, <1>15, <2>2
    <3>7. QED
      BY <3>1, <3>2, <3>3, <3>4, <3>5, <3>6 DEF OrderOf
  <2>5. ASSUME NEW p \in Queues, p # q
        PROVE  OrderOf(p)'
    <3>1. OrderOf(p) /\ orderFirst'[p] = orderFirst[p] /\ orderQ'[p] = orderQ[p] /\ lock'[p] = lock[p]
      BY <1>0, <1>13, <2>2, <2>5
    <3>2. \A y \in Events : Contains(orderQ'[p], y) \/ orderFirst'[p] = y =>
                              y \in ordered' \cup done' /\ hdrQ'[y] = p
      <4>1. \A y \in Events : Contains(orderQ[p], y) \/ orderFirst[p] = y =>
                                y \in ordered \cup done /\ hdrQ[y] = p /\ y # e
        BY <1>1, <2>5, <3>1 DEF OrderOf
      <4>2. QED
        BY <1>6, <1>7, <3>1, <4>1
    <3>3. ~Emitting(c, p)
      BY <1>1, <2>5 DEF Emitting
    <3>4. \A b \in Cores : Emitting(b, p)' =>
            lock'[p] = b /\ orderFirst'[p] = None /\ emit'[b] \in done' /\ ~Contains(orderQ'[p], emit'[b])
      <4>1. ASSUME NEW b \in Cores, Emitting(b, p)'
            PROVE  lock'[p] = b /\ orderFirst'[p] = None /\ emit'[b] \in done' /\ ~Contains(orderQ'[p], emit'[b])
        <5>1. Emitting(b, p) /\ b # c
          BY <2>3, <4>1
        <5>2. emit'[b] = emit[b] /\ emit[b] # e
          BY <1>8, <2>2, <5>1
        <5>3. lock[p] = b /\ orderFirst[p] = None /\ emit[b] \in done /\ ~Contains(orderQ[p], emit[b])
          BY <3>1, <5>1 DEF OrderOf
        <5>4. QED
          BY <1>6, <3>1, <5>2, <5>3
      <4>2. QED
        BY <4>1
    <3>5. (\A b \in Cores : ~Emitting(b, p)') =>
             /\ orderFirst'[p] = None => orderQ'[p] = <<>>
             /\ orderFirst'[p] \notin done'
      <4>1. (\A b \in Cores : ~Emitting(b, p)') => \A b \in Cores : ~Emitting(b, p)
        BY <2>3, <3>3
      <4>2. QED
        BY <1>6, <3>1, <4>1 DEF OrderOf
    <3>6. QED
      BY <3>1, <3>2, <3>4, <3>5 DEF OrderOf
  <2>6. ASSUME NEW y \in ordered' \cup done'
        PROVE  HasTurn(y)'
    <3>1. y # e /\ y \in Events /\ HasTurn(y) /\ hdrQ'[y] = hdrQ[y]
      BY <1>10, <2>6
    <3>2. \A b \in Cores : emit[b] = y => emit'[b] = y
      BY <1>1, <2>2, <3>1
    <3>3. CASE hdrQ[y] = q
      <4>1. Contains(s, y) \/ \E b \in Cores : emit[b] = y
        BY <1>0, <1>1, <1>3, <3>1, <3>3 DEF HasTurn
      <4>2. s = <<>> => ~Contains(s, y)
        BY ShortSequences
      <4>3. Contains(orderQ'[q], y) \/ orderFirst'[q] = y \/ \E b \in Cores : emit'[b] = y
        BY <1>12, <1>13, <2>2, <3>2, <4>1, <4>2
      <4>4. QED
        BY <1>2, <3>1, <3>3, <4>3 DEF HasTurn
    <3>4. CASE hdrQ[y] # q
      BY <1>13, <2>2, <3>1, <3>2, <3>4 DEF HasTurn
    <3>5. QED
      BY <3>3, <3>4
  <2>7. \A b \in Cores : emit'[b] # None => hdrQ'[emit'[b]] \in Queues
    BY <1>7, <1>8, <1>9, <2>2
  <2>8. QED
    BY <2>4, <2>5, <2>6, <2>7 DEF Orders
<1>16. QED
  BY <1>14, <1>15

(* Every step keeps the order of every queue.                                  *)
LEMMA OrdersStep ==
  ASSUME IInv, [Next]_vars
  PROVE  Orders'
<1>0. /\ TypeOK /\ Placed /\ Headers /\ \A c \in Cores : Shape(c)
      /\ None \notin Cores /\ hdrQ \in [Events -> Queues \cup {None}]
      /\ ordered \subseteq Events /\ done \subseteq Events
      /\ \A q \in Queues : OrderOf(q)
  BY ConstantsAssumption DEF IInv, TypeOK, Orders
<1>1. ASSUME UNCHANGED <<orderFirst, orderQ, ordered, done, emit, lock, hdrQ>>
      PROVE  Orders'
  BY <1>1, OrderSame
<1>2. ASSUME NEW e \in Events, NEW d \in Ends, SendSwitch(e, d), e \notin ordered, e \notin done,
             UNCHANGED <<orderFirst, orderQ, ordered, done, emit, lock>>
      PROVE  Orders'
  <2>1. \A y \in Events : y # e => hdrQ'[y] = hdrQ[y]
    BY <1>0, <1>2, OtherHeaders
  <2>2. \A y \in ordered \cup done : hdrQ'[y] = hdrQ[y]
    BY <1>0, <1>2, <2>1
  <2>3. QED
    BY <1>2, <2>2, OrderSame
<1>3. ASSUME NEW c \in Cores, NEW e \in Events, NEW d \in Ends, SendPlain(c, e, d)
      PROVE  Orders'
  <2>1. /\ e \in app /\ e \notin ordered /\ SendSwitch(e, d)
        /\ UNCHANGED <<orderFirst, orderQ, ordered, done, emit, lock>>
    BY <1>3 DEF SendPlain, orderVars, emitVars
  <2>2. e \notin done
    BY <1>0, <2>1, CommonAlone DEF Only
  <2>3. QED
    BY <1>2, <2>1, <2>2
<1>4. ASSUME NEW e \in Events, e \in free
      PROVE  e \notin ordered /\ e \notin done
  <2>1. e \notin ordered
    BY <1>4, OrderedAlone
  <2>2. QED
    BY <1>0, <1>4, <2>1, CommonAlone DEF Only
<1>5. ASSUME NEW c \in Cores, NEW e \in Events, NEW q \in Queues, Receive(c, e, q)
      PROVE  Orders'
  <2>1. /\ e \in free /\ SendSwitch(e, q) /\ q \in Ends
        /\ UNCHANGED <<orderFirst, orderQ, ordered, done, emit, lock>>
    BY <1>5 DEF Receive, orderVars, emitVars, Ends
  <2>2. QED
    BY <1>2, <1>4, <2>1
<1>6. ASSUME NEW c \in Cores, NEW e \in Events, NEW d \in Ends, SendOrdered(c, e, d)
      PROVE  Orders'
  BY <1>6, CompleteOrders DEF SendOrdered, AppRuns
<1>7. ASSUME NEW c \in Cores, NEW e \in Events, NEW q \in Queues, ReceiveDirect(c, e, q)
      PROVE  Orders'
  <2>1. /\ e \in free /\ lock[q] = None /\ MaintainOrder(e, q)
        /\ UNCHANGED <<done, emit, lock>>
    BY <1>7 DEF ReceiveDirect, emitVars
  <2>2. \A b \in Cores : ~Emitting(b, q)
    BY <1>0, <2>1 DEF OrderOf
  <2>3. hdrQ' = [hdrQ EXCEPT ![e] = q]
    BY <1>7 DEF ReceiveDirect, SendSwitch, SendParallelOrdered
  <2>4. hdrQ'[e] = q /\ \A y \in Events : y # e => hdrQ'[y] = hdrQ[y]
    BY <1>0, <2>3
  <2>5. e \notin ordered /\ e \notin done
    BY <1>4, <2>1
  <2>6. \A p \in Queues : p # q => lock'[p] = lock[p]
    BY <2>1
  <2>7. QED
    BY <2>1, <2>2, <2>4, <2>5, <2>6, MaintainOrders
<1>8. ASSUME NEW c \in Cores, Order(c)
      PROVE  Orders'
  <2>1. PICK e, q : e = Head(bulk[c]) /\ q = hdrQ[e]
    OBVIOUS
  <2>2. e \in Events /\ q \in Queues /\ Contains(bulk[c], e)
    BY <1>8, <2>1, BulkFacts DEF Order
  <2>3. /\ lock[q] \in {None, c} /\ MaintainOrder(e, q) /\ UNCHANGED <<done, emit, hdrQ>>
        /\ pc[c] = "order"
    BY <1>8, <2>1 DEF Order, emitVars
  <2>4. \E x : lock' = [lock EXCEPT ![q] = x]
    BY <1>8, <2>1 DEF Order
  <2>5. \A p \in Queues : p # q => lock'[p] = lock[p]
    BY <1>0, <2>4 DEF TypeOK
  <2>6. ~Emitting(c, q)
    BY <1>0, <2>3 DEF Shape, Emitting
  <2>7. \A b \in Cores : ~Emitting(b, q)
    BY <1>0, <2>2, <2>3, <2>6 DEF OrderOf
  <2>8. e \notin ordered /\ e \notin done
    <3>1. e \notin ordered
      BY <2>2, OrderedAlone
    <3>2. QED
      BY <1>0, <2>2, <3>1, CoreAlone DEF Only
  <2>9. hdrQ'[e] = q /\ \A y \in Events : y # e => hdrQ'[y] = hdrQ[y]
    BY <2>1, <2>3
  <2>10. MaintainOrder(e, q) /\ UNCHANGED <<done, emit>>
    BY <2>3
  <2>11. QED
    BY <2>2, <2>5, <2>7, <2>8, <2>9, <2>10, MaintainOrders
<1>9. ASSUME NEW c \in Cores, DropEvent(c)
      PROVE  Orders'
  <2>1. PICK e : e = Head(batch[c])
    OBVIOUS
  <2>2. e \in Events /\ Contains(batch[c], e) /\ pc[c] = "loop"
    BY <1>9, <2>1, BatchFacts DEF DropEvent
  <2>3. CASE e \in ordered /\ Complete(c, e, Free)
    <3>1. Free \in Ends /\ pc[c] # "emit"
      BY <2>2 DEF Ends
    <3>2. QED
      BY <2>2, <2>3, <3>1, CompleteOrders
  <2>4. CASE /\ e \notin ordered /\ SendSwitch(e, Free)
             /\ UNCHANGED <<orderFirst, orderQ, ordered, done, emit, lock>>
    <3>1. e \notin done
      BY <1>0, <2>2, CoreAlone DEF Only
    <3>2. Free \in Ends
      BY DEF Ends
    <3>3. QED
      BY <1>2, <2>2, <2>4, <3>1, <3>2
  <2>5. QED
    BY <1>9, <2>1, <2>3, <2>4 DEF DropEvent, orderVars, emitVars
<1>10. CASE \/ \E c \in Cores : Schedule(c) \/ Dispatch(c) \/ ReceiveReturns(c) \/ \E e \in Events : Alloc(c, e)
            \/ \E q \in Queues : ToggleStatus(q) \/ ChangeMasks(q)
            \/ Consume \/ UNCHANGED vars
  <2>1. UNCHANGED <<orderFirst, orderQ, ordered, done, emit, lock, hdrQ>>
    BY <1>10 DEF Schedule, Dispatch, ReceiveReturns, Alloc, ToggleStatus, ChangeMasks, Consume, vars,
       orderVars, hdrVars, emitVars
  <2>2. QED
    BY <1>1, <2>1
<1>11. QED
  BY <1>3, <1>5, <1>6, <1>7, <1>8, <1>9, <1>10, EmitOrders DEF Next, AppStep, EMStep

(* The invariant holds at the start and every step keeps it.                   *)
LEMMA Invariance == Spec => []IInv
<1>1. Init => IInv
  <2> SUFFICES ASSUME Init PROVE IInv
    OBVIOUS
  <2>1. TypeOK
    BY DEF Init, TypeOK, ControlPoints, Ends
  <2>2. \A c \in Cores : Shape(c)
    BY ConstantsAssumption DEF Init, Shape
  <2>3. /\ IsInjective(<<>>) /\ \A y : ~Contains(<<>>, y)
    BY ShortSequences
  <2>4. /\ schedQ = <<>> /\ out = <<>> /\ free = Events /\ app = {} /\ done = {} /\ ordered = {}
        /\ \A c \in Cores : bulk[c] = <<>> /\ batch[c] = <<>> /\ emit[c] = None /\ input[c] = None
        /\ \A q \in Queues : orderFirst[q] = None /\ orderQ[q] = <<>>
        /\ None \notin Events /\ OrderCap \in Nat
    BY ConstantsAssumption DEF Init
  <2>5. \A e \in Events : Only(e, "pool", None)
    BY <2>3, <2>4 DEF Only, CommonPlaces
  <2>6. Placed
    BY <2>3, <2>4, <2>5 DEF Placed, CommonPlaces
  <2>7. Headers
    BY <2>3, <2>4 DEF Headers, Waits
  <2>8. Orders
    <3>1. Len(<<>>) <= OrderCap
      BY <2>4
    <3>2. QED
      BY <2>3, <2>4, <3>1 DEF Orders, OrderOf, Emitting
  <2>9. QED
    BY <2>1, <2>2, <2>6, <2>7, <2>8 DEF IInv
<1>2. IInv /\ [Next]_vars => IInv'
  BY TypeStep, ShapeStep, PlacedStep, HeadersStep, OrdersStep DEF IInv
<1>3. QED
  BY <1>1, <1>2, PTL DEF Spec

(* The types of the state, for any number of cores, queues and events.         *)
THEOREM TypeCorrect == Spec => []TypeOK
<1>1. IInv => TypeOK
  BY DEF IInv
<1>2. QED
  BY <1>1, Invariance, PTL

(* Whoever emits for a queue is the only one, and the event it emits comes     *)
(* before those of the order-queue.                                            *)
LEMMA OrderInvariant == IInv => TurnsCome
<1>1. SUFFICES ASSUME IInv PROVE TurnsCome
  OBVIOUS
<1>2. /\ \A q \in Queues : OrderOf(q)
      /\ None \notin Events /\ ordered \subseteq Events /\ done \subseteq Events
      /\ orderFirst \in [Queues -> Events \cup {None}] /\ orderQ \in [Queues -> Seq(Events)]
      /\ emit \in [Cores -> Events \cup {None}]
  BY <1>1, ConstantsAssumption DEF IInv, Orders, TypeOK
<1>3. ASSUME NEW e \in ordered \cup done
      PROVE  \E i \in 1..Len(InOrder(hdrQ[e])) : InOrder(hdrQ[e])[i] = e
  <2>1. PICK q : q = hdrQ[e]
    OBVIOUS
  <2>2. q \in Queues /\ e \in Events /\ HasTurn(e) /\ OrderOf(q)
    BY <1>1, <1>2, <1>3, <2>1 DEF IInv, Orders, HasTurn
  <2>3. ASSUME NEW f \in Seq(Events), InOrder(q) = f \o orderQ[q],
               \/ Len(f) = 1 /\ f[1] = e
               \/ Contains(orderQ[q], e)
        PROVE  \E i \in 1..Len(InOrder(q)) : InOrder(q)[i] = e
    <3>1. PICK s : s = orderQ[q]
      OBVIOUS
    <3>2. s \in Seq(Events) /\ InOrder(q) = f \o s
      BY <1>2, <2>2, <2>3, <3>1
    <3>3. PICK r : r = f \o s
      OBVIOUS
    <3>4. /\ Len(f) \in Nat /\ Len(s) \in Nat /\ Len(r) = Len(f) + Len(s)
          /\ \A i \in 1..Len(f) : r[i] = f[i]
          /\ \A i \in 1..Len(s) : r[Len(f) + i] = s[i]
      BY <3>2, <3>3, ConcatFacts
    <3>5. CASE Len(f) = 1 /\ f[1] = e
      <4>1. 1 \in 1..Len(f) /\ 1 \in 1..Len(r)
        BY <3>4, <3>5
      <4>2. QED
        BY <3>2, <3>3, <3>4, <3>5, <4>1
    <3>6. CASE Contains(s, e)
      <4>1. PICK j \in 1..Len(s) : s[j] = e
        BY <3>6 DEF Contains
      <4>2. Len(f) + j \in 1..Len(r)
        BY <3>4, <4>1
      <4>3. r[Len(f) + j] = e
        BY <3>4, <4>1
      <4>4. QED
        BY <3>2, <3>3, <4>2, <4>3
    <3>7. QED
      BY <2>3, <3>1, <3>5, <3>6
  <2>4. CASE orderFirst[q] # None
    <3>1. orderFirst[q] \in Events
      BY <1>2, <2>2, <2>4
    <3>2. InOrder(q) = <<orderFirst[q]>> \o orderQ[q]
      BY <2>4 DEF InOrder
    <3>3. PICK f : f = <<orderFirst[q]>>
      OBVIOUS
    <3>4. f \in Seq(Events) /\ Len(f) = 1 /\ f[1] = orderFirst[q]
      BY <3>1, <3>3
    <3>5. \A b \in Cores : emit[b] # e
      <4>1. ASSUME NEW b \in Cores, emit[b] = e
            PROVE  FALSE
        <5>1. Emitting(b, q)
          BY <1>2, <2>1, <2>2, <4>1 DEF Emitting
        <5>2. QED
          BY <2>2, <2>4, <5>1 DEF OrderOf
      <4>2. QED
        BY <4>1
    <3>6. orderFirst[q] = e \/ Contains(orderQ[q], e)
      BY <2>1, <2>2, <3>5 DEF HasTurn
    <3>7. QED
      BY <2>1, <2>3, <3>2, <3>3, <3>4, <3>6
  <2>5. CASE orderFirst[q] = None /\ \E c \in Cores : Emitting(c, q)
    <3>1. PICK c : c = CHOOSE b \in Cores : emit[b] # None /\ hdrQ[emit[b]] = q
      OBVIOUS
    <3>2. c \in Cores /\ Emitting(c, q)
      BY <2>5, <3>1 DEF Emitting
    <3>3. InOrder(q) = <<emit[c]>> \o orderQ[q]
      BY <2>5, <3>1 DEF InOrder, Emitting
    <3>4. emit[c] \in Events
      BY <1>2, <3>2 DEF Emitting
    <3>5. PICK f : f = <<emit[c]>>
      OBVIOUS
    <3>6. f \in Seq(Events) /\ Len(f) = 1 /\ f[1] = emit[c]
      BY <3>4, <3>5
    <3>7. \A b \in Cores : emit[b] = e => b = c
      <4>1. ASSUME NEW b \in Cores, emit[b] = e
            PROVE  b = c
        <5>1. Emitting(b, q)
          BY <1>2, <2>1, <2>2, <4>1 DEF Emitting
        <5>2. lock[q] = b /\ lock[q] = c
          BY <2>2, <3>2, <5>1 DEF OrderOf
        <5>3. QED
          BY <5>2
      <4>2. QED
        BY <4>1
    <3>8. emit[c] = e \/ Contains(orderQ[q], e)
      BY <1>2, <2>1, <2>2, <2>5, <3>7 DEF HasTurn
    <3>9. QED
      BY <2>1, <2>3, <3>3, <3>5, <3>6, <3>8
  <2>6. CASE orderFirst[q] = None /\ ~\E c \in Cores : Emitting(c, q)
    <3>1. orderQ[q] = <<>>
      BY <2>2, <2>6 DEF OrderOf
    <3>2. ~Contains(orderQ[q], e)
      BY <3>1, ShortSequences
    <3>3. \A b \in Cores : emit[b] # e
      BY <1>2, <2>1, <2>2, <2>6 DEF Emitting
    <3>4. QED
      BY <1>2, <2>1, <2>2, <2>6, <3>2, <3>3 DEF HasTurn
  <2>7. QED
    BY <2>4, <2>5, <2>6
<1>4. ASSUME NEW q \in Queues, \A c \in Cores : pc[c] = "emit" => hdrQ[emit[c]] # q
      PROVE  /\ orderFirst[q] = None => orderQ[q] = <<>>
             /\ orderFirst[q] \notin done
  <2>1. \A c \in Cores : ~Emitting(c, q)
    BY <1>1, <1>4 DEF IInv, Shape, Emitting
  <2>2. QED
    BY <1>2, <2>1 DEF OrderOf
<1>5. QED
  BY <1>3, <1>4 DEF TurnsCome

(* No event with an order to keep waits for a turn that does not come.  While  *)
(* nobody emits for a queue the first event in order is one the application    *)
(* still has to finish: em_send_from_parallel_ord_q never stops before the     *)
(* last one that can go.                                                       *)
THEOREM TurnsAlwaysCome == Spec => []TurnsCome
<1>1. QED
  BY OrderInvariant, Invariance, PTL

(* An event that is in one place once is in no second one.                     *)
LEMMA PlacedCounts == Placed => OnePlace
<1>1. SUFFICES ASSUME Placed, NEW e \in Events
               PROVE  Cardinality(Places(e)) = 1
  BY DEF OnePlace
<1> DEFINE P == {<<"pool", 0, 0>> : x \in free \cap {e}}
           A == {<<"app", 0, 0>> : x \in app \cap {e}}
           W == {<<"waiting", 0, 0>> : x \in done \cap {e}}
           R == {<<"refused", c, 0>> : c \in {x \in Cores : input[x] = e /\ emit[x] # e}}
           S == {<<"sched", i, 0>> : i \in {j \in 1..Len(schedQ) : schedQ[j] = e}}
           O == {<<"out", i, 0>> : i \in {j \in 1..Len(out) : out[j] = e}}
           U(c) == {<<"bulk", c, i>> : i \in {j \in 1..Len(bulk[c]) : bulk[c][j] = e}}
           V(c) == {<<"batch", c, i>> : i \in {j \in 1..Len(batch[c]) : batch[c][j] = e}}
           B == UNION {U(c) : c \in Cores}
           D == UNION {V(c) : c \in Cores}
<1>2. PICK k \in CommonPlaces \cup CorePlaces, b \in Cores \cup {None} : Only(e, k, b)
  BY <1>1 DEF Placed
<1>3. /\ IsInjective(schedQ) /\ IsInjective(out)
      /\ \A c \in Cores : IsInjective(bulk[c]) /\ IsInjective(batch[c])
  BY <1>1 DEF Placed
<1>4. /\ \A x \in P : k = "pool"
      /\ \A x \in A : k = "app"
      /\ \A x \in W : k = "waiting"
      /\ k = "pool" => \E x : x \in P
      /\ k = "app" => \E x : x \in A
      /\ k = "waiting" => \E x : x \in W
      /\ \A x, y \in P : x = y
      /\ \A x, y \in A : x = y
      /\ \A x, y \in W : x = y
  BY <1>2 DEF Only
<1>5. /\ \A x \in R : k = "refused"
      /\ k = "refused" => \E x : x \in R
      /\ \A x, y \in R : x = y
  <2>1. \A x \in R : k = "refused" /\ x = <<"refused", b, 0>>
    BY <1>2 DEF Only
  <2>2. k = "refused" => \E x : x \in R
    <3>1. ASSUME k = "refused"
          PROVE  \E x : x \in R
      <4>1. b \in Cores /\ input[b] = e /\ emit[b] # e
        BY <1>2, <3>1 DEF Only, CommonPlaces
      <4>2. <<"refused", b, 0>> \in R
        BY <4>1
      <4>3. QED
        BY <4>2
    <3>2. QED
      BY <3>1
  <2>3. QED
    BY <2>1, <2>2
<1>6. /\ \A x \in S : k = "sched"
      /\ k = "sched" => \E x : x \in S
      /\ \A x, y \in S : x = y
  <2>1. (\E x : x \in S) <=> Contains(schedQ, e)
    BY DEF Contains
  <2>2. ASSUME NEW x \in S, NEW y \in S
        PROVE  x = y
    <3>1. \A i, j \in DOMAIN schedQ : schedQ[i] = schedQ[j] => i = j
      BY <1>3 DEF IsInjective
    <3>2. PICK i, j \in 1..Len(schedQ) :
            schedQ[i] = e /\ schedQ[j] = e /\ x = <<"sched", i, 0>> /\ y = <<"sched", j, 0>>
      BY <2>2
    <3>3. QED
      BY <3>1, <3>2
  <2>3. QED
    BY <1>2, <2>1, <2>2 DEF Only
<1>7. /\ \A x \in O : k = "out"
      /\ k = "out" => \E x : x \in O
      /\ \A x, y \in O : x = y
  <2>1. (\E x : x \in O) <=> Contains(out, e)
    BY DEF Contains
  <2>2. ASSUME NEW x \in O, NEW y \in O
        PROVE  x = y
    <3>1. \A i, j \in DOMAIN out : out[i] = out[j] => i = j
      BY <1>3 DEF IsInjective
    <3>2. PICK i, j \in 1..Len(out) :
            out[i] = e /\ out[j] = e /\ x = <<"out", i, 0>> /\ y = <<"out", j, 0>>
      BY <2>2
    <3>3. QED
      BY <3>1, <3>2
  <2>3. QED
    BY <1>2, <2>1, <2>2 DEF Only
<1>8. /\ \A x \in B : k = "bulk"
      /\ k = "bulk" => \E x : x \in B
      /\ \A x, y \in B : x = y
  <2>1. \A c \in Cores : (\E x : x \in U(c)) <=> Contains(bulk[c], e)
    BY DEF Contains
  <2>2. ASSUME NEW c \in Cores, NEW x \in U(c), NEW y \in U(c)
        PROVE  x = y
    <3>1. \A i, j \in DOMAIN bulk[c] : bulk[c][i] = bulk[c][j] => i = j
      BY <1>3 DEF IsInjective
    <3>2. PICK i, j \in 1..Len(bulk[c]) :
            bulk[c][i] = e /\ bulk[c][j] = e /\ x = <<"bulk", c, i>> /\ y = <<"bulk", c, j>>
      BY <2>2
    <3>3. QED
      BY <3>1, <3>2
  <2> HIDE DEF U
  <2>3. \A c \in Cores : Contains(bulk[c], e) <=> k = "bulk" /\ b = c
    BY <1>2 DEF Only
  <2>4. k = "bulk" => b \in Cores
    BY <1>2 DEF Only, CommonPlaces
  <2>5. \A x, y \in B : x = y
    BY <2>1, <2>2, <2>3
  <2>6. QED
    BY <2>1, <2>3, <2>4, <2>5
<1>9. /\ \A x \in D : k = "batch"
      /\ k = "batch" => \E x : x \in D
      /\ \A x, y \in D : x = y
  <2>1. \A c \in Cores : (\E x : x \in V(c)) <=> Contains(batch[c], e)
    BY DEF Contains
  <2>2. ASSUME NEW c \in Cores, NEW x \in V(c), NEW y \in V(c)
        PROVE  x = y
    <3>1. \A i, j \in DOMAIN batch[c] : batch[c][i] = batch[c][j] => i = j
      BY <1>3 DEF IsInjective
    <3>2. PICK i, j \in 1..Len(batch[c]) :
            batch[c][i] = e /\ batch[c][j] = e /\ x = <<"batch", c, i>> /\ y = <<"batch", c, j>>
      BY <2>2
    <3>3. QED
      BY <3>1, <3>2
  <2> HIDE DEF V
  <2>3. \A c \in Cores : Contains(batch[c], e) <=> k = "batch" /\ b = c
    BY <1>2 DEF Only
  <2>4. k = "batch" => b \in Cores
    BY <1>2 DEF Only, CommonPlaces
  <2>5. \A x, y \in D : x = y
    BY <2>1, <2>2, <2>3
  <2>6. QED
    BY <2>1, <2>3, <2>4, <2>5
<1>10. Cardinality(P \cup A \cup W \cup R \cup S \cup O \cup B \cup D) = 1
  <2> HIDE DEF P, A, W, R, S, O, B, D
  <2>1. k \in CommonPlaces \cup CorePlaces
    BY <1>2
  <2>2. \E x : x \in P \cup A \cup W \cup R \cup S \cup O \cup B \cup D
    BY <1>4, <1>5, <1>6, <1>7, <1>8, <1>9, <2>1 DEF CommonPlaces, CorePlaces
  <2>3. \A x \in P \cup A \cup W \cup R \cup S \cup O \cup B \cup D :
          /\ k = "pool" => x \in P
          /\ k = "app" => x \in A
          /\ k = "waiting" => x \in W
          /\ k = "refused" => x \in R
          /\ k = "sched" => x \in S
          /\ k = "out" => x \in O
          /\ k = "bulk" => x \in B
          /\ k = "batch" => x \in D
    BY <1>4, <1>5, <1>6, <1>7, <1>8, <1>9
  <2>4. \A x, y \in P \cup A \cup W \cup R \cup S \cup O \cup B \cup D : x = y
    BY <1>4, <1>5, <1>6, <1>7, <1>8, <1>9, <2>1, <2>3 DEF CommonPlaces, CorePlaces
  <2>5. PICK x : x \in P \cup A \cup W \cup R \cup S \cup O \cup B \cup D
    BY <2>2
  <2>6. P \cup A \cup W \cup R \cup S \cup O \cup B \cup D = {x}
    BY <2>4, <2>5
  <2>7. QED
    BY <2>6, FS_Singleton
<1>11. Places(e) = P \cup A \cup W \cup R \cup S \cup O \cup B \cup D
  BY DEF Places
<1>12. QED
  BY <1>10, <1>11

(* No event is lost, sent twice or freed twice: it is in the pool, with the    *)
(* application, finished and waiting for its turn, refused and not yet         *)
(* reported, or in one slot of the sched-queue, of the destination or of one   *)
(* core's burst.                                                               *)
THEOREM EventsStayInOnePlace == Spec => []OnePlace
<1>1. IInv => OnePlace
  BY PlacedCounts DEF IInv
<1>2. QED
  BY <1>1, Invariance, PTL

-----------------------------------------------------------------------------
(* Refinement of the abstract queues *)

(* The events that are accepted and not handed out, without their queues.      *)
Pending == (IF schedLock = None THEN <<>> ELSE bulk[schedLock]) \o schedQ

(* An event is among them.                                                     *)
Queued(e) == Contains(schedQ, e) \/ \E c \in Cores : Contains(bulk[c], e)

(* They wait in the sched-queue or in a burst.                                 *)
LEMMA PendingFacts ==
  ASSUME IInv
  PROVE  /\ Pending \in Seq(Events)
         /\ \A y : Contains(Pending, y) => y \in Events /\ Queued(y)
<1>1. /\ schedLock \in Cores \cup {None} /\ bulk \in [Cores -> Seq(Events)] /\ schedQ \in Seq(Events)
  BY DEF IInv, TypeOK
<1>2. PICK b, p : b = (IF schedLock = None THEN <<>> ELSE bulk[schedLock]) /\ p = b \o schedQ
  OBVIOUS
<1>3. b \in Seq(Events) /\ \A y : Contains(b, y) => Queued(y)
  <2>1. CASE schedLock = None
    <3>1. b = <<>>
      BY <1>2, <2>1
    <3>2. QED
      BY <3>1, ShortSequences
  <2>2. CASE schedLock # None
    <3>1. schedLock \in Cores /\ b = bulk[schedLock]
      BY <1>1, <1>2, <2>2
    <3>2. QED
      BY <1>1, <3>1 DEF Queued
  <2>3. QED
    BY <2>1, <2>2
<1>4. /\ p \in Seq(Events) /\ Len(p) = Len(b) + Len(schedQ) /\ Len(b) \in Nat /\ Len(schedQ) \in Nat
      /\ \A i \in 1..Len(b) : p[i] = b[i]
      /\ \A i \in 1..Len(schedQ) : p[Len(b) + i] = schedQ[i]
  BY <1>1, <1>2, <1>3, ConcatFacts
<1>5. ASSUME NEW i \in 1..Len(p)
      PROVE  p[i] \in Events /\ (Contains(b, p[i]) \/ Contains(schedQ, p[i]))
  <2>1. CASE i \in 1..Len(b)
    BY <1>4, <1>5, <2>1 DEF Contains
  <2>2. CASE i \notin 1..Len(b)
    <3>1. PICK j : j = i - Len(b)
      OBVIOUS
    <3>2. j \in 1..Len(schedQ) /\ i = Len(b) + j
      BY <1>4, <1>5, <2>2, <3>1
    <3>3. p[i] = schedQ[j]
      BY <1>4, <3>2
    <3>4. p[i] \in Events
      BY <1>4, <1>5
    <3>5. Contains(schedQ, p[i])
      BY <3>2, <3>3 DEF Contains
    <3>6. QED
      BY <3>4, <3>5
  <2>3. QED
    BY <2>1, <2>2
<1>6. ASSUME NEW y, Contains(p, y)
      PROVE  y \in Events /\ Queued(y)
  <2>1. PICK i \in 1..Len(p) : p[i] = y
    BY <1>6 DEF Contains
  <2>2. QED
    BY <1>3, <1>5, <2>1 DEF Queued
<1>7. QED
  BY <1>2, <1>4, <1>6 DEF Pending

(* The accepted events are those, with the queues that their headers name.     *)
LEMMA AcceptedNamed == Accepted = Named(Pending, hdrQ)
BY DEF Accepted, Named, Pending

(* Nothing is accepted or handed out.                                          *)
LEMMA AcceptedSame ==
  ASSUME IInv, Pending' = Pending, \A y \in Events : Queued(y) => hdrQ'[y] = hdrQ[y]
  PROVE  Accepted' = Accepted
<1>1. PICK s, h, g : s = Pending /\ h = hdrQ /\ g = hdrQ'
  OBVIOUS
<1>2. s \in Seq(Events) /\ Agree(s, h, g)
  BY <1>1, PendingFacts DEF Agree
<1>3. Named(s, g) = Named(s, h)
  BY <1>2, NamedSame
<1>4. Accepted = Named(s, h)
  BY <1>1, AcceptedNamed
<1>5. Accepted' = Named(s, g)
  <2>1. Accepted' = Named(Pending', hdrQ')
    BY DEF Accepted, Named, Pending
  <2>2. QED
    BY <1>1, <2>1
<1>6. QED
  BY <1>3, <1>4, <1>5

(* The sched-queue and the bursts are left alone.                              *)
LEMMA PendingSame ==
  ASSUME UNCHANGED <<schedLock, bulk, schedQ>>
  PROVE  Pending' = Pending
BY DEF Pending

(* The sched-queue grows.                                                      *)
LEMMA PendingLonger ==
  ASSUME IInv, NEW e \in Events, UNCHANGED <<schedLock, bulk>>, schedQ' = Append(schedQ, e)
  PROVE  Pending' = Append(Pending, e)
<1>1. PICK b : b = (IF schedLock = None THEN <<>> ELSE bulk[schedLock])
  OBVIOUS
<1>2. b \in Seq(Events) /\ schedQ \in Seq(Events)
  BY <1>1 DEF IInv, TypeOK
<1>3. b \o Append(schedQ, e) = Append(b \o schedQ, e)
  BY <1>2, ConcatAppend
<1>4. Pending = b \o schedQ /\ Pending' = b \o schedQ'
  BY <1>1 DEF Pending
<1>5. QED
  BY <1>3, <1>4

(* One more event is accepted, ...                                             *)
LEMMA AcceptedLonger ==
  ASSUME IInv, NEW e \in Events, Pending' = Append(Pending, e),
         \A y \in Events : Queued(y) => hdrQ'[y] = hdrQ[y]
  PROVE  Accepted' = Append(Accepted, <<e, hdrQ'[e]>>)
<1>1. PICK s, h, g : s = Pending /\ h = hdrQ /\ g = hdrQ'
  OBVIOUS
<1>2. s \in Seq(Events) /\ Agree(s, h, g)
  BY <1>1, PendingFacts DEF Agree
<1>3. Named(Append(s, e), g) = Append(Named(s, h), <<e, g[e]>>)
  BY <1>2, NamedAppend
<1>4. Accepted = Named(s, h)
  BY <1>1, AcceptedNamed
<1>5. Accepted' = Named(Append(s, e), g)
  <2>1. Accepted' = Named(Pending', hdrQ')
    BY DEF Accepted, Named, Pending
  <2>2. QED
    BY <1>1, <2>1
<1>6. QED
  BY <1>1, <1>3, <1>4, <1>5

(* ... and the oldest is taken.                                                *)
LEMMA AcceptedShorter ==
  ASSUME IInv, Pending # <<>>, Pending' = Tail(Pending), UNCHANGED hdrQ
  PROVE  /\ Accepted # <<>> /\ Head(Accepted) = <<Head(Pending), hdrQ[Head(Pending)]>>
         /\ Accepted' = Tail(Accepted)
<1>1. PICK s, h : s = Pending /\ h = hdrQ
  OBVIOUS
<1>2. s \in Seq(Events) /\ s # <<>>
  BY <1>1, PendingFacts
<1>3. /\ Named(s, h) # <<>> /\ Head(Named(s, h)) = <<Head(s), h[Head(s)]>>
      /\ Named(Tail(s), h) = Tail(Named(s, h))
  BY <1>2, NamedTail
<1>4. Accepted = Named(s, h)
  BY <1>1, AcceptedNamed
<1>5. Accepted' = Named(Tail(s), h)
  <2>1. Accepted' = Named(Pending', hdrQ')
    BY DEF Accepted, Named, Pending
  <2>2. QED
    BY <1>1, <2>1
<1>6. QED
  BY <1>1, <1>3, <1>4, <1>5

(* What is in the order of a queue.                                            *)
Leads(q) ==
  /\ InOrder(q) \in Seq(Events)
  /\ orderFirst[q] # None => InOrder(q) = <<orderFirst[q]>> \o orderQ[q]
  /\ \A c \in Cores : Emitting(c, q) => orderFirst[q] = None /\ InOrder(q) = <<emit[c]>> \o orderQ[q]
  /\ orderFirst[q] = None /\ (\A c \in Cores : ~Emitting(c, q)) =>
       orderQ[q] = <<>> /\ InOrder(q) = <<>>

(* It is so for every queue.                                                   *)
AllLed == \A q \in Queues : Leads(q)

(* The first in order is order_first or, while a core emits, what it emits.    *)
LEMMA Leaders == IInv => AllLed
<1> SUFFICES ASSUME IInv, NEW q \in Queues PROVE Leads(q)
  BY DEF AllLed
<1>1. /\ OrderOf(q) /\ None \notin Events
      /\ orderFirst[q] \in Events \cup {None} /\ orderQ[q] \in Seq(Events)
      /\ \A c \in Cores : emit[c] \in Events \cup {None}
  BY ConstantsAssumption DEF IInv, Orders, TypeOK
<1>2. CASE orderFirst[q] # None
  <2>1. InOrder(q) = <<orderFirst[q]>> \o orderQ[q] /\ orderFirst[q] \in Events
    BY <1>1, <1>2 DEF InOrder
  <2>2. InOrder(q) \in Seq(Events)
    BY <1>1, <2>1, FirstOf
  <2>3. \A c \in Cores : ~Emitting(c, q)
    BY <1>1, <1>2 DEF OrderOf
  <2>4. QED
    BY <1>2, <2>1, <2>2, <2>3 DEF Leads
<1>3. CASE orderFirst[q] = None /\ \E c \in Cores : Emitting(c, q)
  <2>1. PICK c : c = CHOOSE b \in Cores : emit[b] # None /\ hdrQ[emit[b]] = q
    OBVIOUS
  <2>2. c \in Cores /\ Emitting(c, q)
    BY <1>3, <2>1 DEF Emitting
  <2>3. InOrder(q) = <<emit[c]>> \o orderQ[q]
    BY <1>3, <2>1 DEF InOrder, Emitting
  <2>4. emit[c] \in Events
    BY <1>1, <2>2 DEF Emitting
  <2>5. InOrder(q) \in Seq(Events)
    BY <1>1, <2>3, <2>4, FirstOf
  <2>6. \A b \in Cores : Emitting(b, q) => b = c
    <3>1. lock[q] = c
      BY <1>1, <2>2 DEF OrderOf
    <3>2. QED
      BY <1>1, <3>1 DEF OrderOf
  <2>7. QED
    BY <1>3, <2>2, <2>3, <2>5, <2>6 DEF Leads
<1>4. CASE orderFirst[q] = None /\ \A c \in Cores : ~Emitting(c, q)
  <2>1. orderQ[q] = <<>>
    BY <1>1, <1>4 DEF OrderOf
  <2>2. InOrder(q) = <<>> \o <<>>
    BY <1>4, <2>1 DEF InOrder, Emitting
  <2>3. InOrder(q) = <<>>
    BY <2>2
  <2>4. QED
    BY <1>4, <2>1, <2>3 DEF Leads
<1>5. QED
  BY <1>2, <1>3, <1>4

(* Nothing happens to the order of a queue.                                    *)
LEMMA InOrderSame ==
  ASSUME IInv, IInv', NEW q \in Queues, orderFirst'[q] = orderFirst[q], orderQ'[q] = orderQ[q],
         \A c \in Cores : Emitting(c, q)' <=> Emitting(c, q),
         \A c \in Cores : Emitting(c, q) => emit'[c] = emit[c]
  PROVE  InOrder(q)' = InOrder(q)
<1>1. Leads(q)
  BY Leaders DEF AllLed
<1>2. Leads(q)'
  <2>1. IInv' => AllLed'
    BY Leaders, PTL
  <2>2. QED
    BY <2>1 DEF AllLed
<1>3. CASE orderFirst[q] # None
  <2>1. InOrder(q) = <<orderFirst[q]>> \o orderQ[q]
    BY <1>1, <1>3 DEF Leads
  <2>2. InOrder(q)' = <<orderFirst'[q]>> \o orderQ'[q]
    BY <1>2, <1>3 DEF Leads
  <2>3. QED
    BY <2>1, <2>2
<1>4. ASSUME NEW c \in Cores, Emitting(c, q)
      PROVE  InOrder(q)' = InOrder(q)
  <2>1. InOrder(q) = <<emit[c]>> \o orderQ[q]
    BY <1>1, <1>4 DEF Leads
  <2>2. Emitting(c, q)'
    BY <1>4
  <2>3. InOrder(q)' = <<emit'[c]>> \o orderQ'[q]
    BY <1>2, <2>2 DEF Leads
  <2>4. emit'[c] = emit[c]
    BY <1>4
  <2>5. QED
    BY <2>1, <2>3, <2>4
<1>5. CASE orderFirst[q] = None /\ \A c \in Cores : ~Emitting(c, q)
  <2>1. InOrder(q) = <<>>
    BY <1>1, <1>5 DEF Leads
  <2>2. InOrder(q)' = <<>>
    BY <1>2, <1>5 DEF Leads
  <2>3. QED
    BY <2>1, <2>2
<1>6. QED
  BY <1>3, <1>4, <1>5

(* The order of every queue, and the finished events with their ends.          *)
AllInOrder == [q \in Queues |-> InOrder(q)]
Finished == {<<e, op[e]>> : e \in done}

(* An event that a core emits is finished.                                     *)
LEMMA EmitDone ==
  ASSUME IInv, NEW c \in Cores, emit[c] # None
  PROVE  emit[c] \in Events /\ emit[c] \in done /\ hdrQ[emit[c]] \in Queues
<1>1. hdrQ[emit[c]] \in Queues /\ emit[c] \in Events
  BY DEF IInv, Orders, TypeOK
<1>2. QED
  BY <1>1 DEF IInv, Orders, OrderOf, Emitting

(* Nothing happens to the order of any queue.                                  *)
LEMMA AllInOrderSame ==
  ASSUME IInv, IInv', UNCHANGED <<orderFirst, orderQ, emit>>, \A y \in done : hdrQ'[y] = hdrQ[y]
  PROVE  AllInOrder' = AllInOrder
<1>1. \A c \in Cores : emit[c] # None => hdrQ'[emit[c]] = hdrQ[emit[c]]
  BY EmitDone
<1>2. \A c \in Cores, q \in Queues : Emitting(c, q)' <=> Emitting(c, q)
  BY <1>1 DEF Emitting
<1>3. ASSUME NEW q \in Queues
      PROVE  InOrder(q)' = InOrder(q)
  <2>1. /\ orderFirst'[q] = orderFirst[q] /\ orderQ'[q] = orderQ[q]
        /\ \A c \in Cores : Emitting(c, q)' <=> Emitting(c, q)
        /\ \A c \in Cores : Emitting(c, q) => emit'[c] = emit[c]
    BY <1>2
  <2>2. QED
    BY <2>1, InOrderSame
<1>4. QED
  BY <1>3 DEF AllInOrder

(* No event is finished, and none leaves.                                      *)
LEMMA FinishedSame ==
  ASSUME UNCHANGED <<done, op>>
  PROVE  Finished' = Finished
BY DEF Finished

(* What changes for one queue only.                                            *)
LEMMA OneOrder ==
  ASSUME NEW q \in Queues, NEW s, InOrder(q)' = s,
         \A p \in Queues : p # q => InOrder(p)' = InOrder(p)
  PROVE  AllInOrder' = [AllInOrder EXCEPT ![q] = s]
BY DEF AllInOrder

(* A send delivers its event, or drops it.                                     *)
LEMMA Delivers ==
  ASSUME IInv, NEW e \in Events, NEW d \in Ends, SendSwitch(e, d), ~Queued(e),
         UNCHANGED <<schedLock, bulk>>
  PROVE  Promise!Deliver(e, d) \/ Promise!Deliver(e, Free)
<1>1. TypeOK /\ hdrQ \in [Events -> Queues \cup {None}]
  BY DEF IInv, TypeOK
<1>2. \A y \in Events : y # e => hdrQ'[y] = hdrQ[y]
  BY <1>1, OtherHeaders
<1>3. \A y \in Events : Queued(y) => hdrQ'[y] = hdrQ[y]
  BY <1>2
<1>4. Free # Out /\ Free \notin Queues /\ Out \notin Queues /\ (d \in Queues \/ d = Free \/ d = Out)
  BY ConstantsAssumption DEF Ends
<1>5. CASE d \in Queues /\ HasRoom(d)
  <2>1. schedQ' = Append(schedQ, e) /\ hdrQ' = [hdrQ EXCEPT ![e] = d] /\ out' = out
    BY <1>4, <1>5 DEF SendSwitch, SendParallelOrdered
  <2>2. Pending' = Append(Pending, e)
    BY <2>1, PendingLonger
  <2>3. Accepted' = Append(Accepted, <<e, hdrQ'[e]>>)
    BY <1>3, <2>2, AcceptedLonger
  <2>4. hdrQ'[e] = d
    BY <1>1, <2>1
  <2>5. Accepted' = Append(Accepted, <<e, d>>)
    BY <2>3, <2>4
  <2>6. QED
    BY <1>5, <2>1, <2>5 DEF Promise!Deliver
<1>6. ASSUME schedQ' = schedQ
      PROVE  Accepted' = Accepted
  <2>1. Pending' = Pending
    BY <1>6, PendingSame
  <2>2. QED
    BY <1>3, <2>1, AcceptedSame
<1>7. CASE d = Out /\ HasRoom(d)
  <2>1. schedQ' = schedQ /\ out' = Append(out, e)
    BY <1>4, <1>7 DEF SendSwitch
  <2>2. Accepted' = Accepted
    BY <1>6, <2>1
  <2>3. QED
    BY <1>7, <2>1, <2>2 DEF Promise!Deliver
<1>8. CASE d = Free \/ ~HasRoom(d)
  <2>1. schedQ' = schedQ /\ out' = out
    BY <1>4, <1>8 DEF SendSwitch, SendParallelOrdered
  <2>2. Accepted' = Accepted
    BY <1>6, <2>1
  <2>3. QED
    BY <2>1, <2>2 DEF Promise!Deliver
<1>9. QED
  BY <1>4, <1>5, <1>7, <1>8

(* A send of an event that has no order.                                       *)
LEMMA SendStep ==
  ASSUME IInv, IInv', NEW e \in Events, NEW d \in Ends, SendSwitch(e, d), ~Queued(e), e \notin done,
         UNCHANGED <<schedLock, bulk, orderFirst, orderQ, emit, done, op>>
  PROVE  Promise!Next
<1>1. Promise!Deliver(e, d) \/ Promise!Deliver(e, Free)
  BY Delivers
<1>2. \A y \in done : hdrQ'[y] = hdrQ[y]
  <2>1. TypeOK /\ done \subseteq Events
    BY DEF IInv, TypeOK
  <2>2. \A y \in Events : y # e => hdrQ'[y] = hdrQ[y]
    BY <2>1, OtherHeaders
  <2>3. QED
    BY <2>1, <2>2
<1>3. AllInOrder' = AllInOrder /\ Finished' = Finished
  BY <1>2, AllInOrderSame, FinishedSame
<1>4. Free \in Ends
  BY DEF Ends
<1>5. PICK x \in Ends : Promise!Deliver(e, x)
  BY <1>1, <1>4
<1>6. Promise!Send(e, x)
  BY <1>3, <1>5 DEF Promise!Send, AllInOrder, Finished
<1>7. x \in Promise!Ends
  BY <1>5 DEF Promise!Ends, Ends
<1>8. QED
  BY <1>6, <1>7 DEF Promise!Next

(* An event with an order is finished.                                         *)
LEMMA FinishStep ==
  ASSUME IInv, IInv', NEW c \in Cores, NEW e \in Events, e \in ordered, NEW d \in Ends,
         Complete(c, e, d), pc[c] # "emit"
  PROVE  Promise!Next
<1>0. /\ TypeOK /\ None \notin Events /\ None \notin Cores
      /\ orderFirst \in [Queues -> Events \cup {None}] /\ op \in [Events -> Ends]
      /\ emit \in [Cores -> Events \cup {None}] /\ ordered \subseteq Events /\ done \subseteq Events
      /\ emit[c] = None
  BY ConstantsAssumption DEF IInv, TypeOK, Shape
<1>1. PICK q : q = hdrQ[e]
  OBVIOUS
<1>2. q \in Queues /\ HasTurn(e) /\ \A p \in Queues : OrderOf(p)
  BY <1>1 DEF IInv, Orders, HasTurn
<1>3. /\ lock[q] = None /\ ordered' = ordered \ {e} /\ done' = done \cup {e}
      /\ op' = [op EXCEPT ![e] = d]
      /\ UNCHANGED <<orderQ, hdrQ, schedQ, schedLock, bulk, out>>
  BY <1>1 DEF Complete
<1>4. \A b \in Cores : ~Emitting(b, q)
  BY <1>0, <1>2, <1>3 DEF OrderOf
<1>5. e \notin done
  BY OrderedAlone
<1>6. \A o \in Ends : <<e, o>> \notin Finished
  BY <1>5 DEF Finished
<1>7. Finished' = Finished \cup {<<e, d>>}
  <2>1. op'[e] = d /\ \A y \in done : op'[y] = op[y]
    BY <1>0, <1>3, <1>5
  <2>2. Finished' = {<<y, op'[y]>> : y \in done \cup {e}}
    BY <1>3 DEF Finished
  <2>3. QED
    BY <2>1, <2>2 DEF Finished
<1>8. Accepted' = Accepted
  <2>1. Pending' = Pending
    BY <1>3, PendingSame
  <2>2. QED
    BY <1>3, <2>1, AcceptedSame
<1>9. AllInOrder' = AllInOrder
  <2>1. CASE orderFirst[q] = e
    <3>1. /\ orderFirst' = [orderFirst EXCEPT ![q] = None] /\ emit' = [emit EXCEPT ![c] = e]
      BY <1>1, <2>1 DEF Complete
    <3>2. /\ orderFirst'[q] = None /\ emit'[c] = e
          /\ \A p \in Queues : p # q => orderFirst'[p] = orderFirst[p]
          /\ \A b \in Cores : b # c => emit'[b] = emit[b]
      BY <1>0, <1>2, <3>1
    <3>3. \A b \in Cores, p \in Queues : Emitting(b, p)' <=> IF b = c THEN p = q ELSE Emitting(b, p)
      BY <1>0, <1>1, <1>3, <3>2 DEF Emitting
    <3>4. InOrder(q)' = InOrder(q)
      <4>1. Leads(q)
        BY <1>2, Leaders DEF AllLed
      <4>2. Leads(q)'
        <5>1. IInv' => AllLed'
          BY Leaders, PTL
        <5>2. QED
          BY <1>2, <5>1 DEF AllLed
      <4>3. InOrder(q) = <<e>> \o orderQ[q]
        BY <1>0, <2>1, <4>1 DEF Leads
      <4>4. Emitting(c, q)'
        BY <1>2, <3>3
      <4>5. InOrder(q)' = <<e>> \o orderQ[q]
        BY <1>3, <3>2, <4>2, <4>4 DEF Leads
      <4>6. QED
        BY <4>3, <4>5
    <3>5. ASSUME NEW p \in Queues, p # q
          PROVE  InOrder(p)' = InOrder(p)
      <4>1. ~Emitting(c, p)
        BY <1>0 DEF Emitting
      <4>2. /\ orderFirst'[p] = orderFirst[p] /\ orderQ'[p] = orderQ[p]
            /\ \A b \in Cores : Emitting(b, p)' <=> Emitting(b, p)
            /\ \A b \in Cores : Emitting(b, p) => emit'[b] = emit[b]
        BY <1>3, <3>2, <3>3, <3>5, <4>1
      <4>3. QED
        BY <4>2, InOrderSame
    <3>6. QED
      BY <3>4, <3>5 DEF AllInOrder
  <2>2. CASE orderFirst[q] # e
    <3>1. UNCHANGED <<orderFirst, orderQ, emit>> /\ \A y \in done : hdrQ'[y] = hdrQ[y]
      BY <1>1, <1>3, <2>2 DEF Complete, emitVars
    <3>2. QED
      BY <3>1, AllInOrderSame
  <2>3. QED
    BY <2>1, <2>2
<1>10. \E p \in Queues : \E i \in 1..Len(AllInOrder[p]) : AllInOrder[p][i] = e
  <2>1. \E i \in 1..Len(InOrder(q)) : InOrder(q)[i] = e
    BY <1>1, OrderInvariant DEF TurnsCome
  <2>2. AllInOrder[q] = InOrder(q)
    BY <1>2 DEF AllInOrder
  <2>3. QED
    BY <1>2, <2>1, <2>2
<1>11. Promise!Ends = Ends
  BY DEF Promise!Ends, Ends
<1>12. Promise!Finish(e, d)
  BY <1>3, <1>6, <1>7, <1>8, <1>9, <1>10, <1>11 DEF Promise!Finish, AllInOrder, Finished
<1>13. QED
  BY <1>11, <1>12 DEF Promise!Next

(* The order of an event is recorded while no core emits for its queue: it is  *)
(* the last in order, or so many are in order that it is left out.             *)
LEMMA MaintainInOrder ==
  ASSUME IInv, IInv', NEW e \in Events, e \notin ordered, e \notin done, NEW q \in Queues,
         MaintainOrder(e, q), \A c \in Cores : ~Emitting(c, q), UNCHANGED emit,
         \A y \in Events : y # e => hdrQ'[y] = hdrQ[y]
  PROVE  \/ e \in ordered' /\ AllInOrder' = [AllInOrder EXCEPT ![q] = Append(@, e)]
         \/ /\ UNCHANGED <<orderFirst, orderQ, ordered>> /\ AllInOrder' = AllInOrder
            /\ Len(AllInOrder[q]) >= OrderCap + 1
<1>0. /\ TypeOK /\ None \notin Events /\ OrderCap \in Nat
      /\ orderFirst \in [Queues -> Events \cup {None}] /\ orderQ \in [Queues -> Seq(Events)]
      /\ done \subseteq Events
  BY ConstantsAssumption DEF IInv, TypeOK
<1>1. /\ OrderOf(q) /\ Leads(q) /\ Leads(q)'
  <2>1. IInv' => AllLed'
    BY Leaders, PTL
  <2>2. QED
    BY <2>1, Leaders DEF AllLed, IInv, Orders
<1>2. \A c \in Cores : emit[c] # None => emit[c] # e /\ emit[c] \in Events
  BY EmitDone
<1>3. \A c \in Cores, p \in Queues : Emitting(c, p)' <=> Emitting(c, p)
  BY <1>2 DEF Emitting
<1>4. PICK f, s : f = orderFirst[q] /\ s = orderQ[q]
  OBVIOUS
<1>5. s \in Seq(Events) /\ Len(s) <= OrderCap /\ Len(s) \in Nat /\ f \in Events \cup {None}
  BY <1>0, <1>1, <1>4 DEF OrderOf
<1>6. /\ orderFirst'[q] = (IF f = None THEN e ELSE f)
      /\ \A p \in Queues : p # q => orderFirst'[p] = orderFirst[p]
      /\ orderQ'[q] = (IF f # None /\ Len(s) < OrderCap THEN Append(s, e) ELSE s)
      /\ \A p \in Queues : p # q => orderQ'[p] = orderQ[p]
      /\ ordered' = IF f # None /\ Len(s) = OrderCap THEN ordered ELSE ordered \cup {e}
  BY <1>0, <1>4 DEF MaintainOrder
<1>7. ASSUME NEW p \in Queues, p # q
      PROVE  InOrder(p)' = InOrder(p)
  <2>1. /\ orderFirst'[p] = orderFirst[p] /\ orderQ'[p] = orderQ[p]
        /\ \A b \in Cores : Emitting(b, p)' <=> Emitting(b, p)
        /\ \A b \in Cores : Emitting(b, p) => emit'[b] = emit[b]
    BY <1>3, <1>6, <1>7
  <2>2. QED
    BY <2>1, InOrderSame
<1>8. ASSUME InOrder(q)' = Append(InOrder(q), e)
      PROVE  AllInOrder' = [AllInOrder EXCEPT ![q] = Append(@, e)]
  BY <1>7, <1>8 DEF AllInOrder
<1>9. CASE f = None
  <2>1. InOrder(q) = <<>> /\ s = <<>>
    BY <1>1, <1>4, <1>9 DEF Leads
  <2>2. orderFirst'[q] = e /\ orderQ'[q] = <<>> /\ e # None /\ e \in ordered'
    BY <1>0, <1>6, <1>9, <2>1
  <2>3. InOrder(q)' = <<e>> \o <<>>
    BY <1>1, <2>2 DEF Leads
  <2>4. InOrder(q)' = Append(InOrder(q), e)
    BY <2>1, <2>3
  <2>5. QED
    BY <1>8, <2>2, <2>4
<1>10. CASE f # None /\ Len(s) < OrderCap
  <2>1. InOrder(q) = <<f>> \o s /\ f \in Events
    BY <1>1, <1>4, <1>5, <1>10 DEF Leads
  <2>2. orderFirst'[q] = f /\ orderQ'[q] = Append(s, e) /\ e \in ordered'
    <3>1. Len(s) # OrderCap
      BY <1>0, <1>5, <1>10
    <3>2. QED
      BY <1>6, <1>10, <3>1
  <2>3. InOrder(q)' = <<f>> \o Append(s, e)
    BY <1>1, <1>10, <2>2 DEF Leads
  <2>4. PICK g : g = <<f>>
    OBVIOUS
  <2>5. g \in Seq(Events)
    BY <2>1, <2>4
  <2>6. g \o Append(s, e) = Append(g \o s, e)
    BY <1>5, <2>5, ConcatAppend
  <2>7. InOrder(q)' = Append(InOrder(q), e)
    BY <2>1, <2>3, <2>4, <2>6
  <2>8. QED
    BY <1>8, <2>2, <2>7
<1>11. CASE f # None /\ ~(Len(s) < OrderCap)
  <2>1. Len(s) = OrderCap
    BY <1>0, <1>5, <1>11
  <2>2. UNCHANGED <<orderFirst, orderQ, ordered>>
    <3>1. /\ orderFirst' = [orderFirst EXCEPT ![q] = @]
          /\ orderQ' = orderQ /\ ordered' = ordered
      BY <1>4, <1>11, <2>1 DEF MaintainOrder
    <3>2. QED
      BY <1>0, <3>1
  <2>3. InOrder(q) = <<f>> \o s /\ f \in Events
    BY <1>1, <1>4, <1>5, <1>11 DEF Leads
  <2>4. Len(InOrder(q)) = Len(s) + 1
    BY <1>5, <2>3, FirstOf
  <2>5. AllInOrder' = AllInOrder
    <3>1. \A y \in done : hdrQ'[y] = hdrQ[y]
      BY <1>0
    <3>2. QED
      BY <2>2, <3>1, AllInOrderSame
  <2>6. AllInOrder[q] = InOrder(q)
    BY DEF AllInOrder
  <2>7. QED
    BY <1>0, <2>1, <2>2, <2>4, <2>5, <2>6
<1>12. QED
  BY <1>9, <1>10, <1>11

(* An event is handed out when its order is recorded.                          *)
LEMMA OrderStep ==
  ASSUME IInv, IInv', NEW c \in Cores, Order(c)
  PROVE  Promise!Next
<1>0. /\ TypeOK /\ None \notin Cores /\ \A b \in Cores : Shape(b)
      /\ bulk \in [Cores -> Seq(Events)] /\ schedQ \in Seq(Events)
      /\ \A q \in Queues : OrderOf(q)
  BY ConstantsAssumption DEF IInv, TypeOK, Orders
<1>1. PICK e, q, s, r : e = Head(bulk[c]) /\ q = hdrQ[e] /\ s = bulk[c] /\ r = Tail(s)
  OBVIOUS
<1>2. /\ e \in Events /\ q \in Queues /\ Contains(bulk[c], e) /\ s \in Seq(Events) /\ s # <<>>
      /\ pc[c] = "order" /\ r \in Seq(Events)
  <2>1. /\ e \in Events /\ q \in Queues /\ Contains(bulk[c], e) /\ s \in Seq(Events) /\ s # <<>>
        /\ pc[c] = "order"
    BY <1>1, BulkFacts DEF Order
  <2>2. QED
    BY <1>1, <2>1, TailFacts
<1>3. /\ lock[q] \in {None, c} /\ MaintainOrder(e, q) /\ bulk' = [bulk EXCEPT ![c] = r]
      /\ UNCHANGED <<schedQ, hdrQ, done, op, out, emit>>
      /\ schedLock' = IF r = <<>> THEN None ELSE schedLock
  BY <1>1 DEF Order, ownVars, emitVars
<1>4. \A b \in Cores : ~Emitting(b, q)
  <2>1. ~Emitting(c, q)
    BY <1>0, <1>2 DEF Shape, Emitting
  <2>2. QED
    BY <1>0, <1>2, <1>3, <2>1 DEF OrderOf
<1>5. e \notin ordered /\ e \notin done
  <2>1. e \notin ordered
    BY <1>2, OrderedAlone
  <2>2. QED
    BY <1>2, CoreAlone, <2>1 DEF Only, IInv
<1>6. schedLock = c
  BY <1>0, <1>2 DEF Shape
<1>7. Pending = s \o schedQ /\ Pending' = r \o schedQ
  <2>1. Pending = s \o schedQ
    BY <1>0, <1>1, <1>6 DEF Pending
  <2>2. bulk'[c] = r
    BY <1>0, <1>3
  <2>3. (IF schedLock' = None THEN <<>> ELSE bulk'[schedLock']) = r
    BY <1>0, <1>3, <1>6, <2>2
  <2>4. QED
    BY <1>3, <2>1, <2>3 DEF Pending
<1>8. Pending # <<>> /\ Head(Pending) = e /\ Pending' = Tail(Pending)
  BY <1>0, <1>1, <1>2, <1>7, ConcatTail
<1>9. /\ Accepted # <<>> /\ Head(Accepted) = <<e, q>> /\ Accepted' = Tail(Accepted)
  <2>1. Pending # <<>> /\ Pending' = Tail(Pending) /\ UNCHANGED hdrQ
    BY <1>3, <1>8
  <2>2. /\ Accepted # <<>> /\ Head(Accepted) = <<Head(Pending), hdrQ[Head(Pending)]>>
        /\ Accepted' = Tail(Accepted)
    BY <2>1, AcceptedShorter
  <2>3. QED
    BY <1>1, <1>8, <2>2
<1>10. Finished' = Finished
  BY <1>3, FinishedSame
<1>11. \/ e \in ordered' /\ AllInOrder' = [AllInOrder EXCEPT ![q] = Append(@, e)]
       \/ /\ UNCHANGED <<orderFirst, orderQ, ordered>> /\ AllInOrder' = AllInOrder
          /\ Len(AllInOrder[q]) >= OrderCap + 1
  <2>1. /\ MaintainOrder(e, q) /\ UNCHANGED emit
        /\ \A y \in Events : y # e => hdrQ'[y] = hdrQ[y]
    BY <1>3
  <2>2. QED
    BY <1>2, <1>4, <1>5, <2>1, MaintainInOrder
<1>12. <<e, q>>[1] = e /\ <<e, q>>[2] = q
  OBVIOUS
<1>13. CASE AllInOrder' = [AllInOrder EXCEPT ![q] = Append(@, e)]
  <2>1. Promise!HandOut(q)
    BY <1>3, <1>9, <1>10, <1>12, <1>13 DEF Promise!HandOut, AllInOrder, Finished
  <2>2. QED
    BY <1>2, <2>1 DEF Promise!Next
<1>14. CASE AllInOrder' = AllInOrder /\ Len(AllInOrder[q]) >= OrderCap + 1
  <2>1. Promise!HandOutUnordered(q)
    BY <1>3, <1>9, <1>10, <1>12, <1>14 DEF Promise!HandOutUnordered, AllInOrder, Finished
  <2>2. QED
    BY <1>2, <2>1 DEF Promise!Next
<1>15. QED
  BY <1>11, <1>13, <1>14

(* A packet received on the core itself.                                       *)
LEMMA DirectStep ==
  ASSUME IInv, IInv', NEW c \in Cores, NEW e \in Events, NEW q \in Queues, ReceiveDirect(c, e, q)
  PROVE  Promise!Next
<1>0. TypeOK /\ None \notin Cores /\ hdrQ \in [Events -> Queues \cup {None}] /\ OrderOf(q) /\ Placed
  BY ConstantsAssumption DEF IInv, TypeOK, Orders
<1>1. /\ DirectDispatch /\ e \in free /\ lock[q] = None /\ MaintainOrder(e, q)
      /\ UNCHANGED <<schedLock, done, op, bulk, emit>>
  BY DEF ReceiveDirect, emitVars
<1>2. \A b \in Cores : ~Emitting(b, q)
  BY <1>0, <1>1 DEF OrderOf
<1>3. hdrQ' = [hdrQ EXCEPT ![e] = q]
  BY DEF ReceiveDirect, SendSwitch, SendParallelOrdered
<1>4. \A y \in Events : y # e => hdrQ'[y] = hdrQ[y]
  BY <1>0, <1>3
<1>5. e \notin ordered /\ e \notin done /\ ~Queued(e)
  <2>1. e \notin ordered
    BY <1>1, OrderedAlone
  <2>2. QED
    BY <1>0, <1>1, <2>1, CommonAlone DEF Only, Queued
<1>6. \/ e \in ordered' /\ AllInOrder' = [AllInOrder EXCEPT ![q] = Append(@, e)]
      \/ /\ UNCHANGED <<orderFirst, orderQ, ordered>> /\ AllInOrder' = AllInOrder
         /\ Len(AllInOrder[q]) >= OrderCap + 1
  <2>1. MaintainOrder(e, q) /\ UNCHANGED emit
    BY <1>1
  <2>2. QED
    BY <1>2, <1>4, <1>5, <2>1, MaintainInOrder
<1>7. CASE e \in ordered'
  <2>1. AllInOrder' = [AllInOrder EXCEPT ![q] = Append(@, e)]
    BY <1>5, <1>6, <1>7
  <2>2. UNCHANGED <<schedQ, out>>
    BY <1>7 DEF ReceiveDirect
  <2>3. Pending' = Pending
    BY <1>1, <2>2, PendingSame
  <2>4. \A y \in Events : Queued(y) => hdrQ'[y] = hdrQ[y]
    BY <1>4, <1>5
  <2>5. Accepted' = Accepted
    BY <2>3, <2>4, AcceptedSame
  <2>6. Finished' = Finished
    BY <1>1, FinishedSame
  <2>7. Promise!HandOutPacket(q, e)
    BY <1>1, <2>1, <2>2, <2>5, <2>6 DEF Promise!HandOutPacket, AllInOrder, Finished
  <2>8. QED
    BY <2>7 DEF Promise!Next
<1>8. CASE e \notin ordered'
  <2>1. UNCHANGED <<orderFirst, orderQ>>
    BY <1>6, <1>8
  <2>2. SendSwitch(e, q) /\ q \in Ends
    BY <1>8 DEF ReceiveDirect, Ends
  <2>3. UNCHANGED <<schedLock, bulk, orderFirst, orderQ, emit, done, op>>
    BY <1>1, <2>1
  <2>4. QED
    BY <1>5, <2>2, <2>3, SendStep
<1>9. QED
  BY <1>7, <1>8

(* The event whose turn it is leaves: the rest of the order is behind it.      *)
LEMMA EmitInOrder ==
  ASSUME IInv, IInv', NEW c \in Cores, NEW e, NEW q, e = emit[c], q = hdrQ[e], Emit(c)
  PROVE  /\ AllInOrder[q] # <<>> /\ Head(AllInOrder[q]) = e
         /\ AllInOrder' = [AllInOrder EXCEPT ![q] = Tail(@)]
<1>0. /\ TypeOK /\ None \notin Events /\ None \notin Cores
      /\ orderFirst \in [Queues -> Events \cup {None}]
      /\ orderQ \in [Queues -> Seq(Events)] /\ emit \in [Cores -> Events \cup {None}]
      /\ \A p \in Queues : OrderOf(p)
  BY ConstantsAssumption DEF IInv, TypeOK, Orders
<1>1. PICK s : s = orderQ[q]
  OBVIOUS
<1>2. e \in Events /\ q \in Queues /\ op[e] \in Ends /\ Emitting(c, q)
  BY EmitFacts DEF Emit, Emitting
<1>3. /\ lock[q] = c /\ orderFirst[q] = None /\ s \in Seq(Events)
      /\ \A y \in Events : Contains(s, y) => hdrQ[y] = q /\ y # e
  BY <1>0, <1>1, <1>2 DEF OrderOf
<1>4. \A b \in Cores : Emitting(b, q) => b = c
  BY <1>0, <1>2, <1>3 DEF OrderOf
<1>5. Leads(q) /\ Leads(q)'
  <2>1. IInv' => AllLed'
    BY Leaders, PTL
  <2>2. QED
    BY <1>2, <2>1, Leaders DEF AllLed
<1>6. InOrder(q) = <<e>> \o s
  BY <1>1, <1>2, <1>5 DEF Leads
<1>7. InOrder(q) # <<>> /\ Head(InOrder(q)) = e /\ Tail(InOrder(q)) = s
  BY <1>2, <1>3, <1>6, FirstOf
<1>8. \A y \in Events : y # e => hdrQ'[y] = hdrQ[y]
  <2>1. SendSwitch(e, op[e])
    BY DEF Emit
  <2>2. QED
    BY <1>0, <1>2, <2>1, OtherHeaders
<1>9. \A b \in Cores : b # c => emit[b] # e
  BY <1>2, <1>4 DEF Emitting
<1>10. PICK h, t : h = Head(s) /\ t = Tail(s)
  OBVIOUS
<1>11. ASSUME s # <<>>
       PROVE  h \in Events /\ hdrQ'[h] = q /\ <<h>> \o t = s
  <2>1. h \in Events /\ Contains(s, h)
    BY <1>3, <1>10, <1>11, TailFacts, TailMembers
  <2>2. <<h>> \o t = s
    BY <1>3, <1>10, <1>11, SplitFirst
  <2>3. QED
    BY <1>3, <1>8, <2>1, <2>2
<1>12. /\ orderQ'[q] = (IF s = <<>> THEN s ELSE t)
       /\ \A p \in Queues : p # q => orderQ'[p] = orderQ[p]
  <2>1. orderQ' = IF s = <<>> THEN orderQ ELSE [orderQ EXCEPT ![q] = t]
    BY <1>1, <1>10 DEF Emit
  <2>2. QED
    BY <1>0, <1>1, <1>2, <2>1
<1>13. /\ \A b \in Cores : b # c => emit'[b] = emit[b]
       /\ \A p \in Queues : p # q => orderFirst'[p] = orderFirst[p]
       /\ \/ s # <<>> /\ emit'[c] = h /\ orderFirst'[q] = None
          \/ s # <<>> /\ emit'[c] = None /\ orderFirst'[q] = h
          \/ s = <<>> /\ emit'[c] = None /\ orderFirst'[q] = None
  <2>1. CASE s # <<>> /\ h \in done
    <3>1. emit' = [emit EXCEPT ![c] = h] /\ UNCHANGED orderFirst
      BY <1>1, <1>10, <2>1 DEF Emit
    <3>2. QED
      BY <1>0, <1>3, <2>1, <3>1
  <2>2. CASE ~(s # <<>> /\ h \in done)
    <3>1. /\ emit' = [emit EXCEPT ![c] = None]
          /\ orderFirst' = [orderFirst EXCEPT ![q] = IF s = <<>> THEN None ELSE h]
      BY <1>1, <1>10, <2>2 DEF Emit
    <3>2. QED
      BY <1>0, <1>2, <2>2, <3>1
  <2>3. QED
    BY <2>1, <2>2
<1>14. ASSUME NEW b \in Cores, NEW p \in Queues, b # c
       PROVE  Emitting(b, p)' <=> Emitting(b, p)
  <2>1. emit[b] # None => emit[b] \in Events /\ emit[b] # e
    BY <1>0, <1>9, <1>14
  <2>2. QED
    BY <1>8, <1>13, <1>14, <2>1 DEF Emitting
<1>15. InOrder(q)' = s
  <2>1. CASE s # <<>> /\ emit'[c] = h /\ orderFirst'[q] = None
    <3>1. Emitting(c, q)'
      BY <1>0, <1>11, <2>1 DEF Emitting
    <3>2. InOrder(q)' = <<h>> \o t
      BY <1>5, <1>12, <2>1, <3>1 DEF Leads
    <3>3. QED
      BY <1>11, <2>1, <3>2
  <2>2. CASE s # <<>> /\ emit'[c] = None /\ orderFirst'[q] = h
    <3>1. orderFirst'[q] # None
      BY <1>0, <1>11, <2>2
    <3>2. InOrder(q)' = <<h>> \o t
      BY <1>5, <1>12, <2>2, <3>1 DEF Leads
    <3>3. QED
      BY <1>11, <2>2, <3>2
  <2>3. CASE s = <<>> /\ emit'[c] = None /\ orderFirst'[q] = None
    <3>1. ~Emitting(c, q)'
      BY <2>3 DEF Emitting
    <3>2. \A b \in Cores : ~Emitting(b, q)'
      BY <1>2, <1>4, <1>14, <3>1
    <3>3. InOrder(q)' = <<>>
      BY <1>5, <2>3, <3>2 DEF Leads
    <3>4. QED
      BY <2>3, <3>3
  <2>4. QED
    BY <1>13, <2>1, <2>2, <2>3
<1>16. ASSUME NEW p \in Queues, p # q
       PROVE  InOrder(p)' = InOrder(p)
  <2>1. ~Emitting(c, p)
    BY <1>16 DEF Emitting
  <2>2. ~Emitting(c, p)'
    BY <1>0, <1>11, <1>13, <1>16 DEF Emitting
  <2>3. \A b \in Cores : Emitting(b, p)' <=> Emitting(b, p)
    BY <1>14, <2>1, <2>2
  <2>4. \A b \in Cores : Emitting(b, p) => emit'[b] = emit[b]
    BY <1>13, <2>1
  <2>5. orderFirst'[p] = orderFirst[p] /\ orderQ'[p] = orderQ[p]
    BY <1>12, <1>13, <1>16
  <2>6. QED
    BY <2>3, <2>4, <2>5, InOrderSame
<1>17. AllInOrder' = [AllInOrder EXCEPT ![q] = s]
  BY <1>2, <1>15, <1>16, OneOrder
<1>18. AllInOrder[q] = InOrder(q)
  BY <1>2 DEF AllInOrder
<1>19. QED
  BY <1>7, <1>17, <1>18

(* A core emits an event: it leaves.                                           *)
LEMMA EmitStep ==
  ASSUME IInv, IInv', NEW c \in Cores, Emit(c)
  PROVE  Promise!Next
<1>1. PICK e, q, d : e = emit[c] /\ q = hdrQ[e] /\ d = op[e]
  OBVIOUS
<1>2. e \in Events /\ q \in Queues /\ d \in Ends /\ e \in done
  BY <1>1, EmitFacts DEF Emit
<1>3. /\ AllInOrder[q] # <<>> /\ Head(AllInOrder[q]) = e
      /\ AllInOrder' = [AllInOrder EXCEPT ![q] = Tail(@)]
  BY <1>1, EmitInOrder
<1>4. /\ done' = done \ {e} /\ op' = [op EXCEPT ![e] = Free] /\ SendSwitch(e, d)
      /\ UNCHANGED <<schedLock, bulk>>
  BY <1>1 DEF Emit, coreVars
<1>5. <<e, d>> \in Finished
  BY <1>1, <1>2 DEF Finished
<1>6. Finished' = Finished \ {<<e, d>>}
  <2>1. \A y \in done \ {e} : op'[y] = op[y]
    BY <1>4 DEF IInv, TypeOK
  <2>2. Finished' = {<<y, op'[y]>> : y \in done \ {e}}
    BY <1>4 DEF Finished
  <2>3. Finished' = {<<y, op[y]>> : y \in done \ {e}}
    BY <2>1, <2>2
  <2>4. QED
    BY <1>1, <2>3 DEF Finished
<1>7. ~Queued(e)
  BY <1>2, CommonAlone DEF IInv, Only, Queued
<1>8. Promise!Deliver(e, d) \/ Promise!Deliver(e, Free)
  BY <1>2, <1>4, <1>7, Delivers
<1>9. Promise!Leave(q, d)
  BY <1>3, <1>5, <1>6, <1>8 DEF Promise!Leave, AllInOrder, Finished
<1>10. d \in Promise!Ends
  BY <1>2 DEF Promise!Ends, Ends
<1>11. QED
  BY <1>2, <1>9, <1>10 DEF Promise!Next

(* A burst that is taken stays accepted.                                       *)
LEMMA SchedulePending ==
  ASSUME IInv, NEW c \in Cores, Schedule(c)
  PROVE  Pending' = Pending
<1>1. TypeOK /\ None \notin Cores /\ schedQ \in Seq(Events) /\ bulk \in [Cores -> Seq(Events)]
  BY ConstantsAssumption DEF IInv, TypeOK
<1>2. PICK n \in 0..Len(schedQ) :
        /\ bulk' = [bulk EXCEPT ![c] = SubSeq(schedQ, 1, n)]
        /\ schedQ' = SubSeq(schedQ, n + 1, Len(schedQ))
  BY <1>1, BurstSize DEF Schedule
<1>3. schedLock = None /\ schedLock' = c
  BY DEF Schedule
<1>4. bulk'[c] = SubSeq(schedQ, 1, n)
  BY <1>1, <1>2
<1>5. Pending' = SubSeq(schedQ, 1, n) \o SubSeq(schedQ, n + 1, Len(schedQ))
  BY <1>1, <1>2, <1>3, <1>4 DEF Pending
<1>6. Pending' = schedQ
  BY <1>1, <1>5, Rejoin
<1>7. <<>> \o schedQ = schedQ
  BY <1>1
<1>8. QED
  BY <1>3, <1>6, <1>7 DEF Pending

(* Every step is one of the abstract queues, or changes none of them.          *)
LEMMA PromiseStep ==
  ASSUME IInv, IInv', [Next]_vars
  PROVE  [Promise!Next]_(Promise!vars)
<1>0. TypeOK /\ Placed /\ done \subseteq Events /\ \A c \in Cores : Shape(c)
  BY DEF IInv, TypeOK
<1>1. ASSUME Pending' = Pending, UNCHANGED <<hdrQ, orderFirst, orderQ, emit, done, op>>
      PROVE  Accepted' = Accepted /\ AllInOrder' = AllInOrder /\ Finished' = Finished
  BY <1>1, AcceptedSame, AllInOrderSame, FinishedSame
<1>2. ASSUME Accepted' = Accepted, AllInOrder' = AllInOrder, Finished' = Finished, out' = out
      PROVE  UNCHANGED Promise!vars
  BY <1>2 DEF Promise!vars, AllInOrder, Finished
<1>3. CASE \/ \E c \in Cores : Dispatch(c) \/ ReceiveReturns(c) \/ \E e \in Events : Alloc(c, e)
           \/ \E q \in Queues : ToggleStatus(q) \/ ChangeMasks(q)
           \/ UNCHANGED vars
  <2>1. UNCHANGED <<schedLock, bulk, schedQ, hdrQ, orderFirst, orderQ, emit, done, op, out>>
    BY <1>3 DEF Dispatch, ReceiveReturns, Alloc, ToggleStatus, ChangeMasks, vars, orderVars, hdrVars, ownVars,
       coreVars, emitVars
  <2>2. Pending' = Pending
    BY <2>1, PendingSame
  <2>3. QED
    BY <1>1, <1>2, <2>1, <2>2
<1>4. ASSUME NEW c \in Cores, Schedule(c)
      PROVE  UNCHANGED Promise!vars
  <2>1. UNCHANGED <<hdrQ, orderFirst, orderQ, emit, done, op, out>>
    BY <1>4 DEF Schedule, orderVars, hdrVars, ownVars, emitVars
  <2>2. Pending' = Pending
    BY <1>4, SchedulePending
  <2>3. QED
    BY <1>1, <1>2, <2>1, <2>2
<1>5. CASE Consume
  <2>1. /\ out # <<>> /\ out' = Tail(out)
        /\ UNCHANGED <<schedLock, bulk, schedQ, hdrQ, orderFirst, orderQ, emit, done, op>>
    BY <1>5 DEF Consume, orderVars, hdrVars, coreVars, emitVars
  <2>2. Pending' = Pending
    BY <2>1, PendingSame
  <2>3. Accepted' = Accepted /\ AllInOrder' = AllInOrder /\ Finished' = Finished
    BY <1>1, <2>1, <2>2
  <2>4. Promise!Consume
    BY <2>1, <2>3 DEF Promise!Consume, AllInOrder, Finished
  <2>5. QED
    BY <2>4 DEF Promise!Next
<1>6. ASSUME NEW c \in Cores, NEW e \in Events, NEW d \in Ends, SendPlain(c, e, d)
      PROVE  Promise!Next
  <2>1. /\ e \in app /\ SendSwitch(e, d)
        /\ UNCHANGED <<schedLock, bulk, orderFirst, orderQ, emit, done, op>>
    BY <1>6 DEF SendPlain, orderVars, coreVars, emitVars
  <2>2. e \notin done /\ ~Queued(e)
    BY <1>0, <2>1, CommonAlone DEF Only, Queued
  <2>3. QED
    BY <2>1, <2>2, SendStep
<1>7. ASSUME NEW c \in Cores, NEW e \in Events, NEW q \in Queues, Receive(c, e, q)
      PROVE  Promise!Next
  <2>1. /\ e \in free /\ SendSwitch(e, q) /\ q \in Ends
        /\ UNCHANGED <<schedLock, bulk, orderFirst, orderQ, emit, done, op>>
    BY <1>7 DEF Receive, orderVars, coreVars, emitVars, Ends
  <2>2. e \notin done /\ ~Queued(e)
    BY <1>0, <2>1, CommonAlone DEF Only, Queued
  <2>3. QED
    BY <2>1, <2>2, SendStep
<1>8. ASSUME NEW c \in Cores, NEW e \in Events, NEW d \in Ends, SendOrdered(c, e, d)
      PROVE  Promise!Next
  <2>1. e \in ordered /\ Complete(c, e, d) /\ pc[c] # "emit"
    BY <1>8 DEF SendOrdered, AppRuns
  <2>2. QED
    BY <2>1, FinishStep
<1>9. ASSUME NEW c \in Cores, DropEvent(c)
      PROVE  Promise!Next
  <2>1. PICK e : e = Head(batch[c])
    OBVIOUS
  <2>2. e \in Events /\ Contains(batch[c], e) /\ pc[c] = "loop" /\ Free \in Ends
    BY <1>9, <2>1, BatchFacts DEF DropEvent, Ends
  <2>3. CASE e \in ordered /\ Complete(c, e, Free)
    <3>1. pc[c] # "emit"
      BY <2>2
    <3>2. QED
      BY <2>2, <2>3, <3>1, FinishStep
  <2>4. CASE /\ SendSwitch(e, Free)
             /\ UNCHANGED <<schedLock, bulk, orderFirst, orderQ, emit, done, op>>
    <3>1. e \notin done /\ ~Queued(e)
      BY <1>0, <2>2, CoreAlone DEF Only, Queued
    <3>2. QED
      BY <2>2, <2>4, <3>1, SendStep
  <2>5. QED
    BY <1>9, <2>1, <2>3, <2>4 DEF DropEvent, orderVars, emitVars
<1>10. QED
  BY <1>3, <1>4, <1>5, <1>6, <1>7, <1>8, <1>9, OrderStep, DirectStep, EmitStep
  DEF Next, AppStep, EMStep

(* The start.                                                                  *)
LEMMA PromiseInit == Init => Promise!Init
<1> SUFFICES ASSUME Init PROVE Promise!Init
  OBVIOUS
<1>1. /\ schedLock = None /\ schedQ = <<>> /\ out = <<>> /\ done = {}
      /\ orderFirst = [q \in Queues |-> None] /\ orderQ = [q \in Queues |-> <<>>]
      /\ emit = [c \in Cores |-> None]
  BY DEF Init
<1>2. Pending = <<>>
  BY <1>1 DEF Pending
<1>3. Accepted = <<>>
  <2>1. Named(<<>>, hdrQ) = <<>>
    BY DEF Named
  <2>2. QED
    BY <1>2, <2>1, AcceptedNamed
<1>4. ASSUME NEW q \in Queues
      PROVE  InOrder(q) = <<>>
  <2>1. InOrder(q) = <<>> \o <<>>
    BY <1>1 DEF InOrder
  <2>2. QED
    BY <2>1
<1>5. AllInOrder = [q \in Queues |-> <<>>]
  BY <1>4 DEF AllInOrder
<1>6. Finished = {}
  BY <1>1 DEF Finished
<1>7. QED
  BY <1>1, <1>3, <1>5, <1>6 DEF Promise!Init, AllInOrder, Finished

(* The sched-queue, the bursts taken from it, order-queues and locks implement *)
(* ordered queues: events are handed out in the order in which they were       *)
(* accepted, whichever core does it, and those of a queue leave for where they *)
(* were sent in the order in which they were handed out, whatever the order in *)
(* which the application finished with them.                                   *)
THEOREM Refinement == Spec => ImplementsOrderedQueue
<1>1. IInv /\ IInv' /\ [Next]_vars => [Promise!Next]_(Promise!vars)
  BY PromiseStep
<1>2. QED
  BY <1>1, PromiseInit, Invariance, PTL DEF Spec, ImplementsOrderedQueue, Promise!Spec
=============================================================================
