----------------------- MODULE ExecutionObjectProofs -----------------------
(***************************************************************************)
(* The safety of ExecutionObject, for any number of cores, queues and      *)
(* events.                                                                 *)
(*                                                                         *)
(* The first part is about requests to the cores and the phases of a start *)
(* and a stop: while the global stop function runs no core is in the EO,   *)
(* and notifications come in order.  It rests on Owing(o), the cores that  *)
(* have not done yet what operation o asks of them, which left[o] counts.  *)
(*                                                                         *)
(* The second part is about elements, rings and events: what a deleted     *)
(* queue leaves behind.  It uses the first, for the removal of a queue is  *)
(* such an operation.                                                      *)
(***************************************************************************)
EXTENDS ExecutionObject, SequenceTheorems, FiniteSetTheorems, TLAPS

-----------------------------------------------------------------------------
(* Sequences *)

(* Appending to a sequence.                                                    *)
LEMMA AppendFacts ==
  ASSUME NEW S, NEW s \in Seq(S), NEW x \in S
  PROVE  /\ Append(s, x) \in Seq(S)
         /\ Len(Append(s, x)) = Len(s) + 1
         /\ \A i \in 1..Len(s) : Append(s, x)[i] = s[i]
         /\ Append(s, x)[Len(s) + 1] = x
  OBVIOUS

(* Cutting a sequence in two.                                                  *)
LEMMA CutFacts ==
  ASSUME NEW S, NEW s \in Seq(S), NEW n \in 0..Len(s)
  PROVE  /\ SubSeq(s, 1, n) \in Seq(S)
         /\ Len(SubSeq(s, 1, n)) = n
         /\ \A i \in 1..n : SubSeq(s, 1, n)[i] = s[i]
         /\ SubSeq(s, n + 1, Len(s)) \in Seq(S)
         /\ Len(SubSeq(s, n + 1, Len(s))) = Len(s) - n
         /\ \A i \in 1..(Len(s) - n) : SubSeq(s, n + 1, Len(s))[i] = s[n + i]
<1> Len(s) \in Nat /\ n \in Int /\ n + 1 \in Int /\ Len(s) \in Int
  OBVIOUS
<1>1. \A i \in 1..n : s[i] \in S
  OBVIOUS
<1>2. \A i \in (n + 1)..Len(s) : s[i] \in S
  OBVIOUS
<1>3. /\ SubSeq(s, 1, n) \in Seq(S)
      /\ Len(SubSeq(s, 1, n)) = IF 1 <= n THEN n - 1 + 1 ELSE 0
      /\ \A i \in 1..(n - 1 + 1) : SubSeq(s, 1, n)[i] = s[1 + i - 1]
  BY <1>1, SubSeqProperties
<1>4. /\ SubSeq(s, n + 1, Len(s)) \in Seq(S)
      /\ Len(SubSeq(s, n + 1, Len(s))) = IF n + 1 <= Len(s) THEN Len(s) - (n + 1) + 1 ELSE 0
      /\ \A i \in 1..(Len(s) - (n + 1) + 1) : SubSeq(s, n + 1, Len(s))[i] = s[n + 1 + i - 1]
  BY <1>2, SubSeqProperties
<1>5. QED
  BY <1>3, <1>4

(* One sequence behind another.                                                *)
LEMMA ConcatFacts ==
  ASSUME NEW S, NEW s \in Seq(S), NEW t \in Seq(S)
  PROVE  /\ s \o t \in Seq(S)
         /\ Len(s) \in Nat /\ Len(t) \in Nat
         /\ Len(s \o t) = Len(s) + Len(t)
         /\ \A i \in 1..Len(s) : (s \o t)[i] = s[i]
         /\ \A i \in 1..Len(t) : (s \o t)[Len(s) + i] = t[i]
<1>1. /\ s \o t \in Seq(S) /\ Len(s \o t) = Len(s) + Len(t)
      /\ \A i \in 1..(Len(s) + Len(t)) :
           (s \o t)[i] = IF i <= Len(s) THEN s[i] ELSE t[i - Len(s)]
  BY ConcatProperties
<1>2. Len(s) \in Nat /\ Len(t) \in Nat
  OBVIOUS
<1>3. \A i \in 1..Len(t) : (s \o t)[Len(s) + i] = t[i]
  <2>1. TAKE i \in 1..Len(t)
  <2>2. /\ Len(s) + i \in 1..(Len(s) + Len(t)) /\ ~(Len(s) + i <= Len(s))
        /\ (Len(s) + i) - Len(s) = i
    BY <1>2
  <2>3. QED
    BY <1>1, <2>2
<1>4. QED
  BY <1>1, <1>2, <1>3

(* Leaving out the first element of a sequence.                                *)
LEMMA TailFacts ==
  ASSUME NEW S, NEW s \in Seq(S), s # <<>>
  PROVE  /\ Head(s) = s[1] /\ Head(s) \in S
         /\ Len(s) \in Nat \ {0} /\ 1 \in 1..Len(s)
         /\ Tail(s) \in Seq(S)
         /\ Len(Tail(s)) = Len(s) - 1
         /\ \A i \in 1..Len(Tail(s)) : Tail(s)[i] = s[i + 1]
         /\ Len(s) > 1 => Tail(s) # <<>>
         /\ ~(Len(s) > 1) => Tail(s) = <<>>
<1>1. Len(s) \in Nat \ {0}
  OBVIOUS
<1>2. Tail(s) \in Seq(S) /\ Len(Tail(s)) = Len(s) - 1
  OBVIOUS
<1>3. \A i \in 1..Len(Tail(s)) : Tail(s)[i] = s[i + 1]
  OBVIOUS
<1>4. ASSUME Len(s) > 1 PROVE Tail(s) # <<>>
  <2>1. Len(Tail(s)) # 0
    BY <1>1, <1>2, <1>4
  <2>2. QED
    BY <1>2, <2>1, EmptySeq
<1>5. ASSUME ~(Len(s) > 1) PROVE Tail(s) = <<>>
  BY <1>1, <1>2, <1>5
<1>6. QED
  BY <1>1, <1>2, <1>3, <1>4, <1>5

(* A sequence without repetitions.                                             *)
LEMMA InjectiveFacts ==
  ASSUME NEW S, NEW s \in Seq(S)
  PROVE  IsInjective(s) <=> \A i, j \in 1..Len(s) : s[i] = s[j] => i = j
<1>1. DOMAIN s = 1..Len(s)
  OBVIOUS
<1>2. QED
  BY <1>1 DEF IsInjective

(* What a sequence holds when an element is put behind it.                     *)
LEMMA AppendMembers ==
  ASSUME NEW S, NEW s \in Seq(S), NEW x \in S, NEW t, t = Append(s, x)
  PROVE  /\ \A y : Contains(t, y) <=> Contains(s, y) \/ y = x
         /\ IsInjective(s) /\ ~Contains(s, x) => IsInjective(t)
<1>1. t \in Seq(S) /\ Len(s) \in Nat
  BY AppendFacts
<1>2. Len(t) = Len(s) + 1 /\ t[Len(s) + 1] = x /\ \A i \in 1..Len(s) : t[i] = s[i]
  BY AppendFacts
<1>3. /\ \A i \in 1..Len(t) : i \in 1..Len(s) \/ i = Len(s) + 1
      /\ \A i \in 1..Len(s) : i \in 1..Len(t) /\ i # Len(s) + 1
      /\ Len(s) + 1 \in 1..Len(t)
  BY <1>1, <1>2
<1>4. \A y : Contains(t, y) <=> Contains(s, y) \/ y = x
  BY <1>2, <1>3 DEF Contains
<1>5. ASSUME IsInjective(s), ~Contains(s, x)
      PROVE  IsInjective(t)
  <2>1. \A i, j \in 1..Len(s) : s[i] = s[j] => i = j
    BY <1>5, InjectiveFacts
  <2>2. \A i \in 1..Len(s) : s[i] # x
    BY <1>5 DEF Contains
  <2>3. \A i, j \in 1..Len(t) : t[i] = t[j] => i = j
    BY <1>2, <1>3, <2>1, <2>2
  <2>4. QED
    BY <1>1, <2>3, InjectiveFacts
<1>6. QED
  BY <1>4, <1>5

(* What it holds when its first element is left out.                           *)
LEMMA TailMembers ==
  ASSUME NEW S, NEW s \in Seq(S), s # <<>>, NEW t, t = Tail(s)
  PROVE  /\ \A y : Contains(s, y) <=> y = Head(s) \/ Contains(t, y)
         /\ IsInjective(s) => IsInjective(t) /\ ~Contains(t, Head(s))
<1>1. /\ Head(s) = s[1] /\ Len(s) \in Nat \ {0} /\ Len(t) = Len(s) - 1 /\ t \in Seq(S)
      /\ \A i \in 1..Len(t) : t[i] = s[i + 1]
  BY TailFacts
<1>2. /\ \A i \in 1..Len(t) : i + 1 \in 1..Len(s) /\ i + 1 # 1
      /\ \A i \in 1..Len(s) : i = 1 \/ \E j \in 1..Len(t) : i = j + 1
      /\ 1 \in 1..Len(s)
  <2>1. \A i \in 1..Len(s) : i # 1 => i - 1 \in 1..Len(t) /\ i = (i - 1) + 1
    BY <1>1
  <2>2. QED
    BY <1>1, <2>1
<1>3. \A y : Contains(s, y) <=> y = Head(s) \/ Contains(t, y)
  <2>1. \A i \in 1..Len(s) : s[i] = Head(s) \/ \E j \in 1..Len(t) : t[j] = s[i]
    BY <1>1, <1>2
  <2>2. \A j \in 1..Len(t) : \E i \in 1..Len(s) : s[i] = t[j]
    BY <1>1, <1>2
  <2>3. \E i \in 1..Len(s) : s[i] = Head(s)
    BY <1>1, <1>2
  <2>4. QED
    BY <2>1, <2>2, <2>3 DEF Contains
<1>4. ASSUME IsInjective(s)
      PROVE  IsInjective(t) /\ ~Contains(t, Head(s))
  <2>1. \A i, j \in 1..Len(s) : s[i] = s[j] => i = j
    BY <1>4, InjectiveFacts
  <2>2. ASSUME NEW i \in 1..Len(t), NEW j \in 1..Len(t), t[i] = t[j]
        PROVE  i = j
    <3>1. i + 1 = j + 1
      BY <1>1, <1>2, <2>1, <2>2
    <3>2. QED
      BY <3>1
  <2>3. \A i \in 1..Len(t) : t[i] # Head(s)
    BY <1>1, <1>2, <2>1
  <2>4. IsInjective(t)
    <3>1. t \in Seq(S) /\ \A i, j \in 1..Len(t) : t[i] = t[j] => i = j
      BY <1>1, <2>2
    <3>2. QED
      BY <3>1, InjectiveFacts
  <2>5. QED
    BY <2>3, <2>4 DEF Contains
<1>5. QED
  BY <1>3, <1>4

(* What s holds is in a or in b; in one of them, if nothing is in s twice.     *)
Parts(s, a, b) ==
  /\ \A y : Contains(s, y) <=> Contains(a, y) \/ Contains(b, y)
  /\ IsInjective(s) => /\ IsInjective(a) /\ IsInjective(b)
                       /\ \A y : ~(Contains(a, y) /\ Contains(b, y))

(* What the parts hold when it is cut in two.                                  *)
LEMMA CutMembers ==
  ASSUME NEW S, NEW s \in Seq(S), NEW n \in 0..Len(s)
  PROVE  Parts(s, SubSeq(s, 1, n), SubSeq(s, n + 1, Len(s)))
<1>0. PICK a, b : a = SubSeq(s, 1, n) /\ b = SubSeq(s, n + 1, Len(s))
  OBVIOUS
<1>1. /\ Len(s) \in Nat /\ n \in Nat /\ n <= Len(s)
      /\ Len(a) = n /\ \A i \in 1..n : a[i] = s[i]
      /\ Len(b) = Len(s) - n /\ \A i \in 1..(Len(s) - n) : b[i] = s[n + i]
      /\ a \in Seq(S) /\ b \in Seq(S)
  BY <1>0, CutFacts
<1>2. /\ \A i \in 1..Len(a) : i \in 1..Len(s) /\ a[i] = s[i] /\ i <= n
      /\ \A i \in 1..Len(b) : n + i \in 1..Len(s) /\ b[i] = s[n + i] /\ ~(n + i <= n)
  <2>1. \A i \in 1..Len(a) : i \in 1..n
    BY <1>1
  <2>2. \A i \in 1..Len(b) : i \in 1..(Len(s) - n)
    BY <1>1
  <2>3. \A i \in 1..(Len(s) - n) : n + i \in 1..Len(s) /\ ~(n + i <= n)
    <3>1. Len(s) \in Nat /\ n \in Nat /\ n <= Len(s)
      BY <1>1
    <3>2. QED
      BY <3>1
  <2>4. \A i \in 1..n : i \in 1..Len(s) /\ i <= n
    <3>1. Len(s) \in Nat /\ n \in Nat /\ n <= Len(s)
      BY <1>1
    <3>2. QED
      BY <3>1
  <2>5. QED
    BY <1>1, <2>1, <2>2, <2>3, <2>4
<1>3. \A i \in 1..Len(s) : i \in 1..Len(a) \/ \E j \in 1..Len(b) : i = n + j
  <2>1. \A i \in 1..Len(s) : i \in 1..Len(a) \/ (i - n \in 1..Len(b) /\ i = n + (i - n))
    <3>1. Len(s) \in Nat /\ n \in Nat /\ Len(a) = n /\ Len(b) = Len(s) - n
      BY <1>1
    <3>2. QED
      BY <3>1
  <2>2. QED
    BY <2>1
<1>4. \A y : Contains(s, y) <=> Contains(a, y) \/ Contains(b, y)
  <2>1. \A i \in 1..Len(s) : Contains(a, s[i]) \/ Contains(b, s[i])
    <3> SUFFICES ASSUME NEW i \in 1..Len(s)
                 PROVE  Contains(a, s[i]) \/ Contains(b, s[i])
      OBVIOUS
    <3>1. CASE i \in 1..Len(a)
      BY <1>2, <3>1 DEF Contains
    <3>2. CASE \E j \in 1..Len(b) : i = n + j
      BY <1>2, <3>2 DEF Contains
    <3>3. QED
      BY <1>3, <3>1, <3>2
  <2>2. \A j \in 1..Len(a) : Contains(s, a[j])
    BY <1>2 DEF Contains
  <2>3. \A j \in 1..Len(b) : Contains(s, b[j])
    BY <1>2 DEF Contains
  <2>4. ASSUME NEW y
        PROVE  Contains(s, y) <=> Contains(a, y) \/ Contains(b, y)
    <3>1. Contains(s, y) => Contains(a, y) \/ Contains(b, y)
      BY <2>1, Zenon DEF Contains
    <3>2. Contains(a, y) => Contains(s, y)
      BY <2>2, Zenon DEF Contains
    <3>3. Contains(b, y) => Contains(s, y)
      BY <2>3, Zenon DEF Contains
    <3>4. QED
      BY <3>1, <3>2, <3>3
  <2>5. QED
    BY <2>4
<1>5. ASSUME IsInjective(s)
      PROVE  /\ IsInjective(a) /\ IsInjective(b)
             /\ \A y : ~(Contains(a, y) /\ Contains(b, y))
  <2>1. \A i, j \in 1..Len(s) : s[i] = s[j] => i = j
    BY <1>5, InjectiveFacts
  <2>2. ASSUME NEW i \in 1..Len(b), NEW j \in 1..Len(b), b[i] = b[j]
        PROVE  i = j
    <3>1. n + i = n + j
      BY <1>2, <2>1, <2>2
    <3>2. QED
      BY <1>1, <3>1
  <2>3. \A i, j \in 1..Len(a) : a[i] = a[j] => i = j
    BY <1>2, <2>1
  <2>4. \A i \in 1..Len(a), j \in 1..Len(b) : a[i] # b[j]
    BY <1>2, <2>1
  <2>5. IsInjective(a) /\ IsInjective(b)
    BY <1>1, <2>2, <2>3, InjectiveFacts
  <2>6. QED
    BY <2>4, <2>5 DEF Contains
<1>6. QED
  BY <1>0, <1>4, <1>5 DEF Parts

-----------------------------------------------------------------------------
(* The invariant of the operations *)

Lives == {"free", "created", "starting", "started", "stopping", "stopped"}

TypeOK ==
  /\ queuePool \in Seq(Queues \ Static)
  /\ status \in [Queues -> Statuses]
  /\ queueList \in Seq(Queues)
  /\ inbox \in [Cores -> Seq(Operations)]
  /\ left \in [Operations -> Int]
  /\ done \in Seq(Operations)
  /\ elem \in [Cores -> Queues \cup {None}]
  /\ running \in [Cores -> Queues \cup {None}]
  /\ function \in [Cores -> Functions]
  /\ caller \in Cores \cup {None}
  /\ call \in [goal : Statuses, rest : Seq(Queues), op : Operations]
  /\ life \in Lives
  /\ removing \in SUBSET Queues /\ removed \in SUBSET Queues
  /\ started \in SUBSET Cores
  /\ schedQueue \in Seq(Queues)

\* A core in a local function of the EO has taken no queue element, and one without an
\* element is in no receive function.
CoresApart ==
  \A c \in Cores :
    /\ elem[c] = None => running[c] = None
    /\ function[c] \in {"start_local", "stop_local"} => StopLocal /\ elem[c] = None

\* The internal event of operation o is in core c's queue; or its local function runs.
Held(c, o) == \E i \in 1..Len(inbox[c]) : inbox[c][i] = o

Local(f) == IF f = "start_local" THEN {"START"}
            ELSE IF f = "stop_local" THEN {"STOP"} ELSE {}

\* The cores that have not done yet what operation o asks of them.
Owing(o) == {c \in Cores : Held(c, o) \/ o \in Local(function[c])}

\* An operation has one event for a core, ...
OneEvent ==
  \A c \in Cores :
    /\ \A i, j \in 1..Len(inbox[c]) : inbox[c][i] = inbox[c][j] => i = j
    /\ \A o \in Local(function[c]) : ~Held(c, o)

\* its event group counts them, ...
LeftCounts == \A o \in Operations : left[o] = Cardinality(Owing(o))

\* and its 'done' event is the only one, after all of them.
Over(o) == \E i \in 1..Len(done) : done[i] = o

DoneOnce == \A i, j \in 1..Len(done) : done[i] = done[j] => i = j
DoneIsLast == \A o \in Operations : Over(o) => Owing(o) = {}

Internal == OneEvent /\ LeftCounts /\ DoneOnce /\ DoneIsLast

UnderWay(o) == Owing(o) # {} \/ Over(o)

\* A core handles the start before the stop, and the done event of the start is the first.
StartBeforeStop ==
  /\ \A c \in Cores :
       /\ \A i, j \in 1..Len(inbox[c]) : inbox[c][i] = "START" /\ inbox[c][j] = "STOP" => i < j
       /\ function[c] = "stop_local" => ~Held(c, "START")
  /\ \A i, j \in 1..Len(done) : done[i] = "START" /\ done[j] = "STOP" => i < j
  /\ UnderWay("STOP") => Owing("START") \subseteq Owing("STOP")

\* Where a queue is that has been created, and the ids in the pool.
QueuesPlaced ==
  /\ \A q \in Queues :
       /\ ListHas(q) => status[q] \in {"BIND", "READY"} /\ q \notin removing \cup removed
       /\ status[q] = "READY" => ListHas(q)
       /\ q \in removing \cup removed => status[q] = "BIND"
       /\ q \notin removing => ~UnderWay(q)
  /\ \A i, j \in 1..Len(queueList) : queueList[i] = queueList[j] => i = j
  /\ removing \cap removed = {}
  /\ life = "free" => queueList = <<>>
  /\ \A i \in 1..Len(queuePool) : status[queuePool[i]] = "INVALID"
  /\ \A i, j \in 1..Len(queuePool) : queuePool[i] = queuePool[j] => i = j

\* What an API call under way does, and when it may.
CallTrue ==
  caller # None =>
    /\ function[caller] = "none"
    /\ \A i \in 1..Len(call.rest) : ListHas(call.rest[i])
    /\ \/ call.goal = "READY" /\ call.op = "START" /\ life = "started"
       \/ call.goal = "BIND" /\ call.op = "DISABLE" /\ life = "started" /\ ~UnderWay("DISABLE")
       \/ call.goal = "BIND" /\ call.op = "STOP" /\ life = "stopping"

\* A start: the global function runs, on one core; then the operation is under way.
StartPhases ==
  /\ \A c \in Cores : function[c] = "start" => life = "starting" /\ ~UnderWay("START")
  /\ \A c, d \in Cores : function[c] = "start" /\ function[d] = "start" => c = d
  /\ UnderWay("START") => life \in {"starting", "stopping"}

\* A stop: the call that disables the queues, the operation and the global function;
\* never two of them at once.
StopPhases ==
  /\ \A c \in Cores : function[c] = "stop" =>
       /\ life = "stopping" /\ caller = None /\ ~UnderWay("STOP")
       /\ StopLocal => ~UnderWay("START")
  /\ \A c, d \in Cores : function[c] = "stop" /\ function[d] = "stop" => c = d
  /\ UnderWay("STOP") => life = "stopping" /\ caller = None

\* A stop leaves no queue enabled when the call is over, and a core that has done its part
\* receives nothing any more.
QuietFollows ==
  /\ life = "stopping" =>
       \A q \in Queues : status[q] = "READY" =>
         caller # None /\ \E i \in 1..Len(call.rest) : call.rest[i] = q
  /\ UnderWay("STOP") => \A c \in Cores \ Owing("STOP") : running[c] = None
  /\ StopLocal /\ (\E c \in Cores : function[c] = "stop") =>
       \A c \in Cores : running[c] = None

\* The cores that have started are those that owe nothing to the start, until they stop.
StartedFollows ==
  StopLocal =>
    /\ started \cap Owing("START") = {}
    /\ (\E c \in Cores : function[c] = "start") => started = {}
    /\ life \in {"starting", "started"} /\ (\A c \in Cores : function[c] # "start") =>
         started = Cores \ Owing("START")
    /\ UnderWay("STOP") => started \subseteq Owing("STOP")
    /\ (\E c \in Cores : function[c] = "stop") \/ life = "stopped" => started = {}

Phases == StartPhases /\ StopPhases

\* The invariant but for the types.
Course ==
  /\ CoresApart
  /\ Internal /\ StartBeforeStop
  /\ QueuesPlaced /\ CallTrue
  /\ Phases
  /\ QuietFollows /\ StartedFollows

IInv == TypeOK /\ Course

-----------------------------------------------------------------------------
(* The invariant of elements, rings and events *)

EventTypes ==
  /\ ring \in [Queues -> Nat]
  /\ freeRings \in Seq(Nat)
  /\ content \in Seq(Seq(Events))
  /\ eventCount \in [Queues -> Nat]
  /\ schedCount \in [Queues -> {0, 1}]
  /\ free \in SUBSET Events
  /\ burst \in [Cores -> Seq(Events)]
  /\ taken \in [Cores -> Nat]

Exists(q) == status[q] # "INVALID"

\* A ring serves one queue, or none and is in the pool once.
RingsApart ==
  /\ \A q \in Queues : Exists(q) =>
       /\ ring[q] \in 1..Len(content)
       /\ \A p \in Queues : Exists(p) /\ ring[p] = ring[q] => p = q
       /\ ~Contains(freeRings, ring[q])
  /\ \A r : Contains(freeRings, r) => r \in 1..Len(content)
  /\ IsInjective(freeRings)

InSchedQueue(q) == Contains(schedQueue, q)

\* A queue's element is in the sched-queue once, or with one core, or nowhere.
OneElement ==
  /\ IsInjective(schedQueue)
  /\ \A c, d \in Cores : elem[c] = elem[d] /\ elem[c] # None => c = d
  /\ \A c \in Cores : ~InSchedQueue(elem[c])
  /\ \A q \in Queues :
       Exists(q) /\ schedCount[q] = 1 <=> InSchedQueue(q) \/ \E c \in Cores : elem[c] = q

\* The count of a queue is that of the events in its ring and of those taken with its
\* element, and an element that is to be scheduled has events.
CountsTrue ==
  \A q \in Queues : Exists(q) =>
    /\ InSchedQueue(q) => eventCount[q] > 0
    /\ (\A c \in Cores : elem[c] # q) => eventCount[q] = Len(content[ring[q]])
    /\ \A c \in Cores : elem[c] = q => eventCount[q] = Len(content[ring[q]]) + taken[c]

\* A core has a burst only with an element, and receives the first event of it.
BurstsHeld ==
  \A c \in Cores : /\ elem[c] = None => burst[c] = <<>>
                   /\ running[c] # None => burst[c] # <<>>

\* A queue that is being removed has nothing left but the burst of a core that has not
\* been at its internal queue since.
RemovedIsIdle ==
  \A q \in removing \cup removed :
    /\ content[ring[q]] = <<>>
    /\ ~InSchedQueue(q)
    /\ \A c \in Cores : elem[c] = q => c \in Owing(q)

\* An event is in one place, and once.
InRing(r, e) == Contains(content[r], e)
InBurst(c, e) == Contains(burst[c], e)

EventsApart ==
  /\ \A r \in 1..Len(content) : IsInjective(content[r])
  /\ \A c \in Cores : IsInjective(burst[c])
  /\ \A e \in Events :
       /\ \A r, s \in 1..Len(content) : InRing(r, e) /\ InRing(s, e) => r = s
       /\ \A c, d \in Cores : InBurst(c, e) /\ InBurst(d, e) => c = d
       /\ \A r \in 1..Len(content), c \in Cores : ~(InRing(r, e) /\ InBurst(c, e))
       /\ e \in free <=> /\ \A r \in 1..Len(content) : ~InRing(r, e)
                         /\ \A c \in Cores : ~InBurst(c, e)

EInv ==
  /\ EventTypes /\ RingsApart /\ OneElement /\ CountsTrue /\ BurstsHeld
  /\ RemovedIsIdle /\ EventsApart

-----------------------------------------------------------------------------
(* Facts about the operators *)

\* Taking the element at index i off a list.
LEMMA RemoveAtFacts ==
  ASSUME NEW S, NEW s \in Seq(S), NEW i \in 1..Len(s)
  PROVE  /\ RemoveAt(s, i) \in Seq(S)
         /\ Len(RemoveAt(s, i)) = Len(s) - 1
         /\ \A j \in 1..(Len(s) - 1) : RemoveAt(s, i)[j] = s[IF j < i THEN j ELSE j + 1]
<1>1. Len(s) \in Nat /\ i \in Nat /\ i - 1 \in 0..Len(s) /\ i \in 0..Len(s) /\ (i - 1) + 1 = i
  OBVIOUS
<1>2. /\ SubSeq(s, 1, i - 1) \in Seq(S) /\ Len(SubSeq(s, 1, i - 1)) = i - 1
      /\ \A j \in 1..(i - 1) : SubSeq(s, 1, i - 1)[j] = s[j]
  BY <1>1, CutFacts
<1>3. /\ SubSeq(s, i + 1, Len(s)) \in Seq(S) /\ Len(SubSeq(s, i + 1, Len(s))) = Len(s) - i
      /\ \A j \in 1..(Len(s) - i) : SubSeq(s, i + 1, Len(s))[j] = s[i + j]
  BY <1>1, CutFacts
<1>4. PICK a \in Seq(S) : a = SubSeq(s, 1, i - 1)
  BY <1>2
<1>5. PICK b \in Seq(S) : b = SubSeq(s, i + 1, Len(s))
  BY <1>3
<1>6. /\ a \o b \in Seq(S) /\ Len(a \o b) = Len(a) + Len(b)
      /\ \A j \in 1..Len(a) : (a \o b)[j] = a[j]
      /\ \A j \in 1..Len(b) : (a \o b)[Len(a) + j] = b[j]
  BY ConcatFacts
<1>7. Len(a) = i - 1 /\ Len(b) = Len(s) - i
  BY <1>2, <1>3, <1>4, <1>5
<1>8. ASSUME NEW j \in 1..(Len(s) - 1)
      PROVE  (a \o b)[j] = s[IF j < i THEN j ELSE j + 1]
  <2>1. CASE j < i
    <3>1. j \in 1..Len(a) /\ j \in 1..(i - 1)
      BY <1>1, <1>7, <2>1
    <3>2. QED
      BY <1>2, <1>4, <1>6, <2>1, <3>1
  <2>2. CASE ~(j < i)
    <3>1. PICK k \in 1..Len(b) : j = Len(a) + k /\ k \in 1..(Len(s) - i) /\ i + k = j + 1
      <4>1. j - (i - 1) \in 1..Len(b) /\ j = Len(a) + (j - (i - 1))
            /\ j - (i - 1) \in 1..(Len(s) - i) /\ i + (j - (i - 1)) = j + 1
        BY <1>1, <1>7, <2>2
      <4>2. QED
        BY <4>1
    <3>2. b[k] = s[i + k]
      BY <1>3, <1>5, <3>1
    <3>3. QED
      BY <1>6, <2>2, <3>1, <3>2
  <2>3. QED
    BY <2>1, <2>2
<1>9. RemoveAt(s, i) = a \o b
  BY <1>4, <1>5 DEF RemoveAt
<1>10. RemoveAt(s, i) \in Seq(S) /\ Len(RemoveAt(s, i)) = Len(s) - 1
  <2>1. RemoveAt(s, i) \in Seq(S) /\ Len(RemoveAt(s, i)) = Len(a) + Len(b)
    BY <1>6, <1>9
  <2>2. Len(a) + Len(b) = Len(s) - 1
    BY <1>1, <1>7
  <2>3. QED
    BY <2>1, <2>2
<1>11. \A j \in 1..(Len(s) - 1) : RemoveAt(s, i)[j] = s[IF j < i THEN j ELSE j + 1]
  BY <1>8, <1>9
<1>12. QED
  BY <1>10, <1>11

\* Sets of cores are finite.
LEMMA CoresCounted ==
  ASSUME NEW S \in SUBSET Cores
  PROVE  IsFiniteSet(S) /\ Cardinality(S) \in Nat /\ (Cardinality(S) = 0 <=> S = {})
BY ConstantsAssumption, FS_Subset, FS_CardinalityType, FS_EmptySet

\* One core less.
LEMMA CoreLess ==
  ASSUME NEW S \in SUBSET Cores, NEW c \in S
  PROVE  Cardinality(S \ {c}) = Cardinality(S) - 1
BY CoresCounted, FS_RemoveElement

\* A set of cores with one member.
LEMMA CoreAlone ==
  ASSUME NEW S \in SUBSET Cores, NEW c \in S
  PROVE  Cardinality(S) = 1 <=> S = {c}
<1>1. S \ {c} \in SUBSET Cores
  OBVIOUS
<1>2. Cardinality(S \ {c}) = Cardinality(S) - 1 /\ Cardinality(S) \in Nat
      /\ (Cardinality(S \ {c}) = 0 <=> S \ {c} = {})
  BY <1>1, CoreLess, CoresCounted
<1>3. QED
  BY <1>2

\* The operations.
LEMMA OperationFacts ==
  /\ \A q \in Queues : q \in Operations /\ q # "START" /\ q # "STOP" /\ q # "DISABLE"
  /\ "START" \in Operations /\ "STOP" \in Operations /\ "DISABLE" \in Operations
  /\ \A o \in Operations : o \in Queues \/ o \in {"START", "STOP", "DISABLE"}
  /\ None \notin Queues /\ None \notin Cores /\ Cores # {}
  /\ \A f : Local(f) \subseteq {"START", "STOP"}
BY ConstantsAssumption DEF Operations, Local

\* The pool begins with all ids, each once.
LEMMA PoolFacts ==
  ASSUME NEW S, IsFiniteSet(S)
  PROVE  /\ SetToSeq(S) \in Seq(S)
         /\ \A i, j \in 1..Len(SetToSeq(S)) : SetToSeq(S)[i] = SetToSeq(S)[j] => i = j
<1>1. Cardinality(S) \in Nat
  BY FS_CardinalityType
<1>2. ExistsBijection(1..Cardinality(S), S)
  BY FS_CardinalityType
<1>3. PICK f \in [1..Cardinality(S) -> S] : \A i, j \in 1..Cardinality(S) : f[i] = f[j] => i = j
  BY <1>2 DEF ExistsBijection, Bijection, Injection, IsInjective
<1>4. IsInjective(f)
  BY <1>3 DEF IsInjective
<1>5. /\ SetToSeq(S) \in [1..Cardinality(S) -> S]
      /\ IsInjective(SetToSeq(S))
  BY <1>4 DEF SetToSeq
<1>6. SetToSeq(S) \in Seq(S) /\ Len(SetToSeq(S)) = Cardinality(S)
  BY <1>1, <1>5
<1>7. QED
  BY <1>5, <1>6 DEF IsInjective

-----------------------------------------------------------------------------
(* Types *)

\* A request reaches every core's queue.
LEMMA RequestTypes ==
  ASSUME TypeOK, NEW o \in Operations, Request(o)
  PROVE  /\ inbox' \in [Cores -> Seq(Operations)]
         /\ left' \in [Operations -> Int]
         /\ done' \in Seq(Operations)
<1>1. Cardinality(Cores) \in Int
  BY CoresCounted
<1>2. \A c \in Cores : Append(inbox[c], o) \in Seq(Operations)
  BY DEF TypeOK
<1>3. QED
  BY <1>1, <1>2 DEF Request, TypeOK

\* One event less is owed, and perhaps a 'done' event is sent.
LEMMA CountDownTypes ==
  ASSUME TypeOK, NEW o \in Operations, CountDown(o)
  PROVE  /\ left' \in [Operations -> Int]
         /\ done' \in Seq(Operations)
BY DEF CountDown, TypeOK

\* What the application learns from a notification.
LEMMA NotifiedTypes ==
  ASSUME TypeOK, NEW o \in Operations, Notified(o)
  PROVE  life' \in Lives /\ removing' \in SUBSET Queues /\ removed' \in SUBSET Queues
BY DEF Notified, TypeOK, Lives

\* The calls that configure queues.
LEMMA QueueTypes ==
  ASSUME TypeOK, NEW c \in Cores, NEW q \in Queues,
         \/ CreateQueue(c) \/ CreateStaticQueue(c, q) \/ DeleteQueue(c, q)
         \/ AddQueue(c, q) \/ EnableQueue(c, q) \/ RemoveQueue(c, q)
  PROVE  TypeOK'
<1> USE DEF poolVars, queueVars, eventVars, internalVars, coreVars, callVars, ruleVars, Statuses
<1>1. CASE CreateQueue(c)
  <2>1. PICK p \in Queues : AllocQueue(p) /\ InitQueue(p)
    BY <1>1 DEF CreateQueue
  <2>2. Tail(queuePool) \in Seq(Queues \ Static)
    BY <2>1, TailFacts DEF AllocQueue, TypeOK
  <2>3. QED
    BY <1>1, <2>1, <2>2 DEF CreateQueue, AllocQueue, InitQueue, TypeOK
<1>2. CASE CreateStaticQueue(c, q)
  BY <1>2 DEF CreateStaticQueue, InitQueue, TypeOK
<1>3. CASE DeleteQueue(c, q)
  BY <1>3 DEF DeleteQueue, TypeOK
<1>4. CASE AddQueue(c, q)
  BY <1>4 DEF AddQueue, ListAdd, TypeOK
<1>5. CASE EnableQueue(c, q)
  BY <1>5 DEF EnableQueue, ChangeState, TypeOK
<1>6. CASE RemoveQueue(c, q)
  <2>1. PICK i \in 1..Len(queueList) : queueList' = RemoveAt(queueList, i)
    BY <1>6 DEF RemoveQueue, ListRemove
  <2>2. queueList' \in Seq(Queues)
    BY <2>1, RemoveAtFacts DEF TypeOK
  <2>3. /\ inbox' \in [Cores -> Seq(Operations)] /\ left' \in [Operations -> Int]
        /\ done' \in Seq(Operations)
    BY <1>6, RequestTypes, OperationFacts DEF RemoveQueue
  <2>4. status' \in [Queues -> Statuses]
    BY <1>6 DEF RemoveQueue, ChangeState, TypeOK
  <2>5. QED
    BY <1>6, <2>2, <2>3, <2>4 DEF RemoveQueue, TypeOK
<1>7. QED
  BY <1>1, <1>2, <1>3, <1>4, <1>5, <1>6

\* The calls on the EO.
LEMMA EoTypes ==
  ASSUME TypeOK, NEW c \in Cores,
         \/ EoCreate(c) \/ EoDelete(c) \/ EoStart(c) \/ EoStop(c)
         \/ EnableAll(c) \/ DisableAll(c) \/ CallStep(c)
  PROVE  TypeOK'
<1> USE DEF poolVars, queueVars, eventVars, internalVars, coreVars, callVars, ruleVars, Statuses,
            Functions, Lives
<1>1. CASE EoCreate(c) \/ EoDelete(c) \/ EoStart(c)
  <2>1. <<>> \in Seq(Queues) /\ [function EXCEPT ![c] = "start"] \in [Cores -> Functions]
    BY DEF TypeOK
  <2>2. QED
    BY <1>1, <2>1 DEF EoCreate, EoDelete, EoStart, TypeOK
<1>2. ASSUME NEW new \in {"READY", "BIND"}, NEW o \in {"START", "STOP", "DISABLE"},
             ChangeAll(c, new, o), life' \in Lives
      PROVE  TypeOK'
  BY <1>2, OperationFacts DEF ChangeAll, TypeOK
<1>3. CASE EnableAll(c) \/ DisableAll(c) \/ EoStop(c)
  BY <1>2, <1>3 DEF EnableAll, DisableAll, EoStop, TypeOK
<1>4. CASE ChangeNext(c)
  <2>1. /\ call.rest \in Seq(Queues) /\ call.rest # <<>> /\ call.goal \in Statuses
        /\ call.op \in Operations
    BY <1>4 DEF ChangeNext, TypeOK
  <2>2. Head(call.rest) \in Queues /\ Tail(call.rest) \in Seq(Queues)
    BY <2>1, TailFacts
  <2>3. call' = [goal |-> call.goal, rest |-> Tail(call.rest), op |-> call.op]
    BY <1>4 DEF ChangeNext, TypeOK
  <2>4. status' \in [Queues -> Statuses]
    BY <1>4, <2>1, <2>2 DEF ChangeNext, ChangeState, TypeOK
  <2>5. QED
    BY <1>4, <2>1, <2>2, <2>3, <2>4 DEF ChangeNext, TypeOK
<1>5. CASE ChangeEnds(c)
  <2>1. call.op \in Operations /\ NoCall \in [goal : Statuses, rest : Seq(Queues), op : Operations]
    BY OperationFacts DEF TypeOK, NoCall
  <2>2. ASSUME NEW o \in Operations, Request(o), UNCHANGED function
        PROVE  TypeOK'
    BY <1>5, <2>1, <2>2, RequestTypes DEF ChangeEnds, TypeOK
  <2>3. CASE UNCHANGED internalVars /\ function' \in [Cores -> Functions]
    BY <1>5, <2>1, <2>3 DEF ChangeEnds, TypeOK
  <2>4. function \in [Cores -> Functions] /\ [function EXCEPT ![c] = "stop"] \in [Cores -> Functions]
    BY DEF TypeOK
  <2>5. QED
    BY <1>5, <2>1, <2>2, <2>3, <2>4, OperationFacts DEF ChangeEnds, EoLocalFuncCall
<1>6. QED
  BY <1>1, <1>3, <1>4, <1>5 DEF CallStep

\* Functions of the application that return, and internal events.
LEMMA InternalTypes ==
  ASSUME TypeOK, NEW c \in Cores, Returns(c) \/ Handle(c) \/ Done(c)
  PROVE  TypeOK'
<1> USE DEF poolVars, queueVars, eventVars, internalVars, coreVars, callVars, ruleVars
<1>1. \A f \in Functions : [function EXCEPT ![c] = f] \in [Cores -> Functions]
  BY DEF TypeOK
<1>2. {"none", "start", "start_local", "stop_local", "stop"} = Functions
  BY DEF Functions
<1>3. CASE StartReturns(c)
  BY <1>1, <1>2, <1>3, RequestTypes, OperationFacts DEF StartReturns, EoLocalFuncCall, TypeOK
<1>4. CASE StartFails(c)
  BY <1>1, <1>2, <1>4 DEF StartFails, TypeOK, Lives
<1>5. CASE LocalReturns(c)
  <2>1. PICK o \in Operations : CountDown(o)
    BY <1>5, OperationFacts DEF LocalReturns
  <2>2. started' \in SUBSET Cores
    BY <1>5 DEF LocalReturns, TypeOK
  <2>3. QED
    BY <1>1, <1>2, <1>5, <2>1, <2>2, CountDownTypes DEF LocalReturns, TypeOK
<1>6. CASE StopReturns(c)
  BY <1>1, <1>2, <1>6, RequestTypes, NotifiedTypes, OperationFacts DEF StopReturns, TypeOK
<1>7. CASE ReceiveReturns(c)
  BY <1>7 DEF ReceiveReturns, TypeOK
<1>8. CASE Handle(c)
  <2>1. inbox[c] \in Seq(Operations) /\ inbox[c] # <<>>
    BY <1>8 DEF Handle, TypeOK
  <2>2. Head(inbox[c]) \in Operations /\ Tail(inbox[c]) \in Seq(Operations)
    BY <2>1, TailFacts
  <2>3. inbox' \in [Cores -> Seq(Operations)]
    BY <1>8, <2>2 DEF Handle, TypeOK
  <2>4. /\ left' \in [Operations -> Int] /\ done' \in Seq(Operations)
        /\ function' \in [Cores -> Functions]
    BY <1>1, <1>2, <1>8, <2>2, CountDownTypes DEF Handle, TypeOK
  <2>5. QED
    BY <1>8, <2>3, <2>4 DEF Handle, TypeOK
<1>9. CASE Done(c)
  <2>1. Head(done) \in Operations /\ Tail(done) \in Seq(Operations)
    BY <1>9, TailFacts DEF Done, TypeOK
  <2>2. /\ life' \in Lives /\ removing' \in SUBSET Queues /\ removed' \in SUBSET Queues
        /\ function' \in [Cores -> Functions]
    BY <1>1, <1>2, <1>9, <2>1, NotifiedTypes DEF Done, TypeOK
  <2>3. QED
    BY <1>9, <2>1, <2>2 DEF Done, TypeOK
<1>10. QED
  BY <1>3, <1>4, <1>5, <1>6, <1>7, <1>8, <1>9 DEF Returns

\* What the scheduler does with queue elements and events.
LEMMA EventsTypes ==
  ASSUME TypeOK, NEW c \in Cores,
         \/ \E q \in Queues, e \in Events : Send(c, q, e)
         \/ Take(c)
         \/ DispatchStep(c)
  PROVE  TypeOK'
<1> USE DEF poolVars, queueVars, eventVars, internalVars, coreVars, callVars, ruleVars
<1>1. CASE \E q \in Queues, e \in Events : Send(c, q, e)
  <2>1. PICK q \in Queues, e \in Events : Send(c, q, e)
    BY <1>1
  <2>2. schedQueue' = schedQueue \/ schedQueue' = Append(schedQueue, q)
    BY <2>1 DEF Send
  <2>3. schedQueue \in Seq(Queues)
    BY DEF TypeOK
  <2>4. schedQueue' \in Seq(Queues)
    BY <2>2, <2>3
  <2>5. QED
    BY <2>1, <2>4 DEF Send, TypeOK
<1>2. CASE Take(c)
  <2>1. Head(schedQueue) \in Queues /\ Tail(schedQueue) \in Seq(Queues)
    BY <1>2, TailFacts DEF Take, TypeOK
  <2>2. elem' = elem \/ elem' = [elem EXCEPT ![c] = Head(schedQueue)]
    BY <1>2 DEF Take
  <2>3. elem' \in [Cores -> Queues \cup {None}]
    BY <2>1, <2>2 DEF TypeOK
  <2>4. QED
    BY <1>2, <2>1, <2>3 DEF Take, TypeOK
<1>3. CASE Dispatch(c)
  BY <1>3 DEF Dispatch, TypeOK
<1>4. CASE DropEvent(c)
  BY <1>4 DEF DropEvent, TypeOK
<1>5. CASE PutBack(c)
  <2>1. schedQueue' = schedQueue \/ schedQueue' = Append(schedQueue, elem[c])
    BY <1>5 DEF PutBack
  <2>2. elem[c] \in Queues /\ schedQueue \in Seq(Queues)
    BY <1>5 DEF PutBack, TypeOK
  <2>3. schedQueue' \in Seq(Queues)
    BY <2>1, <2>2
  <2>4. QED
    BY <1>5, <2>3 DEF PutBack, TypeOK
<1>6. QED
  BY <1>1, <1>2, <1>3, <1>4, <1>5 DEF DispatchStep

-----------------------------------------------------------------------------
(* Requests and internal events *)

\* Who is at work for which operation.
SameLocal == \A c \in Cores : Local(function'[c]) = Local(function[c])

\* Nothing is asked and nothing done: nothing changes for any operation.
LEMMA SameOwing ==
  ASSUME SameLocal, UNCHANGED internalVars
  PROVE  \A o : Owing(o)' = Owing(o) /\ (Over(o)' <=> Over(o)) /\ (UnderWay(o)' <=> UnderWay(o))
BY DEF SameLocal, Owing, Held, Over, UnderWay, internalVars

\* Nothing is asked and nothing done: the internal events stay in order.
LEMMA SameInternal ==
  ASSUME SameLocal, UNCHANGED internalVars, Internal, StartBeforeStop
  PROVE  Internal' /\ StartBeforeStop'
<1>1. OneEvent'
  BY DEF Internal, OneEvent, SameLocal, Held, internalVars
<1>2. LeftCounts' /\ DoneOnce' /\ DoneIsLast'
  BY SameOwing DEF Internal, LeftCounts, DoneOnce, DoneIsLast, Over, internalVars
<1>3. \A c \in Cores : function'[c] = "stop_local" => function[c] = "stop_local"
  BY DEF SameLocal, Local
<1>4. StartBeforeStop'
  BY <1>3, SameOwing DEF StartBeforeStop, Held, internalVars
<1>5. QED
  BY <1>1, <1>2, <1>4 DEF Internal

\* A request is sent to every core.
LEMMA RequestOwing ==
  ASSUME TypeOK, SameLocal, NEW o \in Operations, Request(o)
  PROVE  /\ Owing(o)' = Cores
         /\ \A p : p # o => Owing(p)' = Owing(p)
         /\ \A p : Over(p)' <=> Over(p)
         /\ UnderWay(o)'
         /\ \A p : p # o => (UnderWay(p)' <=> UnderWay(p))
         /\ \A c \in Cores : /\ Len(inbox'[c]) = Len(inbox[c]) + 1 /\ Len(inbox[c]) \in Nat
                             /\ inbox'[c][Len(inbox[c]) + 1] = o
                             /\ \A i \in 1..Len(inbox[c]) : inbox'[c][i] = inbox[c][i]
<1>1. \A c \in Cores : /\ Len(inbox'[c]) = Len(inbox[c]) + 1 /\ Len(inbox[c]) \in Nat
                       /\ inbox'[c][Len(inbox[c]) + 1] = o
                       /\ \A i \in 1..Len(inbox[c]) : inbox'[c][i] = inbox[c][i]
  <2> SUFFICES ASSUME NEW c \in Cores
               PROVE  /\ Len(inbox'[c]) = Len(inbox[c]) + 1 /\ Len(inbox[c]) \in Nat
                      /\ inbox'[c][Len(inbox[c]) + 1] = o
                      /\ \A i \in 1..Len(inbox[c]) : inbox'[c][i] = inbox[c][i]
    OBVIOUS
  <2>1. inbox[c] \in Seq(Operations) /\ inbox'[c] = Append(inbox[c], o)
    BY DEF TypeOK, Request
  <2>2. QED
    BY <2>1, AppendFacts
<1>2. \A c \in Cores : Held(c, o)' /\ \A p : p # o => (Held(c, p)' <=> Held(c, p))
  <2> SUFFICES ASSUME NEW c \in Cores
               PROVE  Held(c, o)' /\ \A p : p # o => (Held(c, p)' <=> Held(c, p))
    OBVIOUS
  <2>1. Held(c, o)'
    BY <1>1 DEF Held
  <2>2. \A i \in 1..Len(inbox'[c]) : i \in 1..Len(inbox[c]) \/ inbox'[c][i] = o
    BY <1>1
  <2>3. \A i \in 1..Len(inbox[c]) : i \in 1..Len(inbox'[c])
    BY <1>1
  <2>4. QED
    BY <1>1, <2>1, <2>2, <2>3 DEF Held
<1>3. \A p : Over(p)' <=> Over(p)
  BY DEF Over, Request
<1>4. Owing(o)' = Cores /\ \A p : p # o => Owing(p)' = Owing(p)
  BY <1>2 DEF Owing, SameLocal
<1>5. QED
  BY <1>1, <1>3, <1>4, OperationFacts DEF UnderWay

\* An operation that is not under way may be asked of every core; the start not while a
\* stop is under way.
LEMMA RequestInternal ==
  ASSUME TypeOK, SameLocal, NEW o \in Operations, Request(o), ~UnderWay(o),
         o = "START" => ~UnderWay("STOP"),
         Internal, StartBeforeStop
  PROVE  Internal' /\ StartBeforeStop'
<1>1. \A c \in Cores : ~Held(c, o) /\ o \notin Local(function[c])
  BY DEF UnderWay, Owing
<1>2. OneEvent'
  <2>1. ASSUME NEW c \in Cores, NEW i \in 1..Len(inbox'[c]), NEW j \in 1..Len(inbox'[c]),
               inbox'[c][i] = inbox'[c][j]
        PROVE  i = j
    <3>1. \A k \in 1..Len(inbox'[c]) : k \in 1..Len(inbox[c]) \/ k = Len(inbox[c]) + 1
      BY RequestOwing
    <3>2. \A k \in 1..Len(inbox[c]) : inbox'[c][k] # o
      BY <1>1, RequestOwing DEF Held
    <3>3. inbox'[c][Len(inbox[c]) + 1] = o
      BY RequestOwing
    <3>4. CASE i \in 1..Len(inbox[c]) /\ j \in 1..Len(inbox[c])
      BY <2>1, <3>4, RequestOwing DEF Internal, OneEvent
    <3>5. QED
      BY <2>1, <3>1, <3>2, <3>3, <3>4
  <2>2. ASSUME NEW c \in Cores, NEW p \in Local(function'[c])
        PROVE  ~Held(c, p)'
    <3>1. p \in Local(function[c]) /\ p # o /\ ~Held(c, p)
      BY <1>1, <2>2 DEF SameLocal, Internal, OneEvent
    <3>2. \A k \in 1..Len(inbox'[c]) : k \in 1..Len(inbox[c]) \/ inbox'[c][k] = o
      BY RequestOwing
    <3>3. \A k \in 1..Len(inbox[c]) : inbox'[c][k] # p
      BY <3>1, RequestOwing DEF Held
    <3>4. QED
      BY <3>1, <3>2, <3>3 DEF Held
  <2>3. QED
    BY <2>1, <2>2 DEF OneEvent
<1>3. LeftCounts'
  <2>1. left' = [left EXCEPT ![o] = Cardinality(Cores)] /\ left \in [Operations -> Int]
    BY DEF Request, TypeOK
  <2>2. QED
    BY <2>1, RequestOwing DEF Internal, LeftCounts
<1>4. DoneOnce' /\ DoneIsLast'
  BY RequestOwing DEF Internal, DoneOnce, DoneIsLast, Request, UnderWay
<1>5. StartBeforeStop'
  <2>1. ASSUME NEW c \in Cores, NEW i \in 1..Len(inbox'[c]), NEW j \in 1..Len(inbox'[c]),
               inbox'[c][i] = "START", inbox'[c][j] = "STOP"
        PROVE  i < j
    <3>1. \A k \in 1..Len(inbox'[c]) : k \in 1..Len(inbox[c]) \/ (k = Len(inbox[c]) + 1 /\ inbox'[c][k] = o)
      BY RequestOwing
    <3>2. CASE j \in 1..Len(inbox[c])
      <4>1. Held(c, "STOP")
        BY <2>1, <3>2, RequestOwing DEF Held
      <4>2. UnderWay("STOP")
        BY <4>1 DEF UnderWay, Owing
      <4>3. i \in 1..Len(inbox[c])
        BY <2>1, <3>1, <4>2
      <4>4. inbox[c][i] = "START" /\ inbox[c][j] = "STOP"
        BY <2>1, <3>2, <4>3, RequestOwing
      <4>5. QED
        BY <3>2, <4>3, <4>4 DEF StartBeforeStop
    <3>3. CASE j = Len(inbox[c]) + 1 /\ inbox'[c][j] = o
      <4>1. i # j
        BY <2>1
      <4>2. Len(inbox[c]) \in Nat /\ Len(inbox'[c]) = Len(inbox[c]) + 1
        BY RequestOwing
      <4>3. QED
        BY <3>3, <4>1, <4>2
    <3>4. QED
      BY <3>1, <3>2, <3>3
  <2>2. ASSUME NEW c \in Cores, function'[c] = "stop_local"
        PROVE  ~Held(c, "START")'
    <3>1. function[c] = "stop_local"
      BY <2>2 DEF SameLocal, Local
    <3>2. c \in Owing("STOP") /\ ~Held(c, "START")
      BY <3>1 DEF Owing, Local, StartBeforeStop
    <3>3. o # "START" /\ o # "STOP"
      BY <3>2 DEF UnderWay
    <3>4. "START" \notin Local(function'[c])
      BY <2>2 DEF Local
    <3>5. c \notin Owing("START")
      BY <3>1, <3>2 DEF Owing, Local
    <3>6. c \notin Owing("START")'
      BY <3>3, <3>5, RequestOwing
    <3>7. QED
      BY <3>6 DEF Owing
  <2>3. \A i, j \in 1..Len(done') : done'[i] = "START" /\ done'[j] = "STOP" => i < j
    BY DEF Request, StartBeforeStop
  <2>4. UnderWay("STOP")' => Owing("START")' \subseteq Owing("STOP")'
    <3>1. CASE o = "STOP"
      BY <3>1, RequestOwing DEF Owing
    <3>2. CASE o # "STOP"
      BY <3>2, RequestOwing DEF StartBeforeStop
    <3>3. QED
      BY <3>1, <3>2
  <2>5. QED
    BY <2>1, <2>2, <2>3, <2>4 DEF StartBeforeStop
<1>6. QED
  BY <1>2, <1>3, <1>4, <1>5 DEF Internal

\* A core does what an operation asks: its internal event leaves the queue, or the local
\* function returns.
Leaves(c, o) ==
  \/ /\ inbox[c] # <<>> /\ o = Head(inbox[c])
     /\ inbox' = [inbox EXCEPT ![c] = Tail(@)]
     /\ UNCHANGED function
     /\ Local(function[c]) = {}
  \/ /\ Local(function[c]) = {o}
     /\ function' = [function EXCEPT ![c] = "none"]
     /\ UNCHANGED inbox

\* The core owes nothing to the operation any more, and nothing else changes.
LEMMA LeavesOwing ==
  ASSUME TypeOK, OneEvent, NEW c \in Cores, NEW o \in Operations, Leaves(c, o)
  PROVE  /\ c \in Owing(o) /\ Owing(o)' = Owing(o) \ {c}
         /\ \A p : p # o => Owing(p)' = Owing(p)
         /\ OneEvent'
         /\ \A d \in Cores : \A p : Held(d, p)' => Held(d, p)
         /\ \A d \in Cores : function'[d] = "stop_local" => function[d] = "stop_local"
         /\ \A d \in Cores : \E k \in {0, 1} :
              \A i \in 1..Len(inbox'[d]) : i + k \in 1..Len(inbox[d]) /\ inbox'[d][i] = inbox[d][i + k]
<1>1. CASE /\ inbox[c] # <<>> /\ o = Head(inbox[c])
           /\ inbox' = [inbox EXCEPT ![c] = Tail(@)]
           /\ UNCHANGED function
           /\ Local(function[c]) = {}
  <2>1. /\ inbox[c] \in Seq(Operations) /\ inbox'[c] = Tail(inbox[c])
        /\ \A d \in Cores : d # c => inbox'[d] = inbox[d]
    BY <1>1 DEF TypeOK
  <2>2. /\ o = inbox[c][1] /\ 1 \in 1..Len(inbox[c])
        /\ Len(inbox'[c]) = Len(inbox[c]) - 1 /\ Len(inbox[c]) \in Nat \ {0}
        /\ \A i \in 1..Len(inbox'[c]) : inbox'[c][i] = inbox[c][i + 1]
    <3>1. inbox[c] # <<>> /\ o = Head(inbox[c])
      BY <1>1
    <3>2. QED
      BY <2>1, <3>1, TailFacts
  <2>3. \A i \in 1..Len(inbox'[c]) : i + 1 \in 1..Len(inbox[c]) /\ i + 1 # 1
    BY <2>2
  <2>4. Held(c, o) /\ ~Held(c, o)'
    BY <2>2, <2>3 DEF Held, OneEvent
  <2>5. ASSUME NEW p, p # o
        PROVE  Held(c, p)' <=> Held(c, p)
    <3>1. ASSUME NEW i \in 1..Len(inbox[c]), inbox[c][i] = p
          PROVE  Held(c, p)'
      <4>1. i # 1
        BY <2>2, <2>5, <3>1
      <4>2. i - 1 \in 1..Len(inbox'[c]) /\ (i - 1) + 1 = i
        BY <2>2, <4>1
      <4>3. inbox'[c][i - 1] = p
        BY <2>2, <3>1, <4>2
      <4>4. QED
        BY <4>2, <4>3 DEF Held
    <3>2. QED
      BY <2>2, <2>3, <3>1 DEF Held
  <2>6. \A d \in Cores \ {c} : \A p : Held(d, p)' <=> Held(d, p)
    BY <2>1 DEF Held
  <2>7. Owing(o)' = Owing(o) \ {c} /\ c \in Owing(o)
    BY <1>1, <2>4, <2>6 DEF Owing
  <2>8. \A p : p # o => Owing(p)' = Owing(p)
    BY <1>1, <2>5, <2>6 DEF Owing
  <2>9. ASSUME NEW d \in Cores, NEW i \in 1..Len(inbox'[d]), NEW j \in 1..Len(inbox'[d]),
               inbox'[d][i] = inbox'[d][j]
        PROVE  i = j
    <3>1. CASE d = c
      <4>1. /\ i + 1 \in 1..Len(inbox[c]) /\ j + 1 \in 1..Len(inbox[c])
            /\ inbox[c][i + 1] = inbox[c][j + 1]
        BY <2>2, <2>3, <2>9, <3>1
      <4>2. i + 1 = j + 1
        BY <4>1 DEF OneEvent
      <4>3. QED
        BY <4>2
    <3>2. CASE d # c
      BY <2>1, <2>9, <3>2 DEF OneEvent
    <3>3. QED
      BY <3>1, <3>2
  <2>10. OneEvent'
    BY <1>1, <2>4, <2>5, <2>6, <2>9 DEF OneEvent
  <2>11. \A d \in Cores : \E k \in {0, 1} :
           \A i \in 1..Len(inbox'[d]) : i + k \in 1..Len(inbox[d]) /\ inbox'[d][i] = inbox[d][i + k]
    <3>1. \A d \in Cores \ {c} :
            \A i \in 1..Len(inbox'[d]) : i + 0 \in 1..Len(inbox[d]) /\ inbox'[d][i] = inbox[d][i + 0]
      BY <2>1
    <3>2. \A i \in 1..Len(inbox'[c]) : i + 1 \in 1..Len(inbox[c]) /\ inbox'[c][i] = inbox[c][i + 1]
      BY <2>2, <2>3
    <3>3. QED
      BY <3>1, <3>2
  <2>12. QED
    BY <1>1, <2>4, <2>5, <2>6, <2>7, <2>8, <2>10, <2>11
<1>2. CASE /\ Local(function[c]) = {o}
           /\ function' = [function EXCEPT ![c] = "none"]
           /\ UNCHANGED inbox
  <2>1. /\ Local(function'[c]) = {}
        /\ function'[c] = "none"
        /\ \A d \in Cores : d # c => function'[d] = function[d]
    BY <1>2 DEF TypeOK, Local
  <2>2. \A d \in Cores : \A p : Held(d, p)' <=> Held(d, p)
    BY <1>2 DEF Held
  <2>3. ~Held(c, o)
    BY <1>2 DEF OneEvent
  <2>4. Owing(o)' = Owing(o) \ {c} /\ c \in Owing(o)
    BY <1>2, <2>1, <2>2, <2>3 DEF Owing
  <2>5. \A p : p # o => Owing(p)' = Owing(p)
    BY <1>2, <2>1, <2>2 DEF Owing
  <2>6. OneEvent'
    BY <1>2, <2>1, <2>2 DEF OneEvent
  <2>7. \A d \in Cores :
          \A i \in 1..Len(inbox'[d]) : i + 0 \in 1..Len(inbox[d]) /\ inbox'[d][i] = inbox[d][i + 0]
    BY <1>2
  <2>8. QED
    BY <2>1, <2>2, <2>4, <2>5, <2>6, <2>7
<1>3. QED
  BY <1>1, <1>2 DEF Leaves

\* When the last core has done its part the 'done' event is sent, once.
LEMMA CountDownInternal ==
  ASSUME TypeOK, Internal, StartBeforeStop,
         NEW c \in Cores, NEW o \in Operations, Leaves(c, o), CountDown(o)
  PROVE  /\ Internal' /\ StartBeforeStop'
         /\ c \in Owing(o) /\ Owing(o)' = Owing(o) \ {c}
         /\ \A p : p # o => Owing(p)' = Owing(p) /\ (Over(p)' <=> Over(p))
         /\ ~Over(o)
         /\ Over(o)' <=> Owing(o) = {c}
         /\ \A p : UnderWay(p)' <=> UnderWay(p)
<1>1. /\ c \in Owing(o) /\ Owing(o)' = Owing(o) \ {c}
      /\ \A p : p # o => Owing(p)' = Owing(p)
      /\ OneEvent'
  BY LeavesOwing DEF Internal
<1>2. ~Over(o)
  BY <1>1 DEF Internal, DoneIsLast
<1>3. /\ left[o] = Cardinality(Owing(o)) /\ Owing(o) \in SUBSET Cores
      /\ Cardinality(Owing(o) \ {c}) = Cardinality(Owing(o)) - 1
      /\ Cardinality(Owing(o)) \in Nat
      /\ left[o] = 1 <=> Owing(o) = {c}
  <2>1. left[o] = Cardinality(Owing(o)) /\ Owing(o) \in SUBSET Cores
    BY DEF Internal, LeftCounts, Owing
  <2>2. QED
    BY <1>1, <2>1, CoreLess, CoreAlone, CoresCounted
<1>4. LeftCounts'
  <2>1. left' = [left EXCEPT ![o] = left[o] - 1] /\ left \in [Operations -> Int]
    BY DEF CountDown, TypeOK
  <2>2. QED
    BY <1>1, <1>3, <2>1 DEF Internal, LeftCounts
<1>5. done' = IF Owing(o) = {c} THEN Append(done, o) ELSE done
  BY <1>3 DEF CountDown
<1>6. PICK s \in Seq(Operations) : s = Append(done, o)
  <2>1. done \in Seq(Operations)
    BY DEF TypeOK
  <2>2. Append(done, o) \in Seq(Operations)
    BY <2>1, AppendFacts
  <2>3. QED
    BY <2>2
<1>7. /\ Len(done) \in Nat /\ Len(s) = Len(done) + 1 /\ s[Len(done) + 1] = o
      /\ \A i \in 1..Len(done) : s[i] = done[i]
      /\ \A i \in 1..Len(s) : i \in 1..Len(done) \/ i = Len(done) + 1
      /\ \A i \in 1..Len(done) : i \in 1..Len(s)
      /\ Len(done) + 1 \in 1..Len(s)
  BY <1>6, AppendFacts DEF TypeOK
<1>8. /\ Over(o)' <=> Owing(o) = {c}
      /\ \A p : p # o => (Over(p)' <=> Over(p))
  <2>1. CASE Owing(o) = {c}
    BY <1>5, <1>6, <1>7, <2>1 DEF Over
  <2>2. CASE Owing(o) # {c}
    BY <1>2, <1>5, <2>2 DEF Over
  <2>3. QED
    BY <2>1, <2>2
<1>9. DoneOnce'
  <2>1. \A i \in 1..Len(done) : done[i] # o
    BY <1>2 DEF Over
  <2>2. CASE done' = s
    BY <1>7, <2>1, <2>2 DEF Internal, DoneOnce
  <2>3. CASE done' = done
    BY <2>3 DEF Internal, DoneOnce
  <2>4. QED
    BY <1>5, <1>6, <2>2, <2>3
<1>10. DoneIsLast'
  BY <1>1, <1>8 DEF Internal, DoneIsLast
<1>11. \A p : UnderWay(p)' <=> UnderWay(p)
  <2>1. UnderWay(o) /\ UnderWay(o)'
    BY <1>1, <1>8 DEF UnderWay
  <2>2. \A p : p # o => (UnderWay(p)' <=> UnderWay(p))
    BY <1>1, <1>8 DEF UnderWay
  <2>3. QED
    BY <2>1, <2>2
<1>12. StartBeforeStop'
  <2>1. ASSUME NEW d \in Cores
        PROVE  /\ \A i, j \in 1..Len(inbox'[d]) :
                    inbox'[d][i] = "START" /\ inbox'[d][j] = "STOP" => i < j
               /\ function'[d] = "stop_local" => ~Held(d, "START")'
    <3>1. PICK k \in {0, 1} :
            \A i \in 1..Len(inbox'[d]) : i + k \in 1..Len(inbox[d]) /\ inbox'[d][i] = inbox[d][i + k]
      BY LeavesOwing DEF Internal
    <3>2. \A i, j \in 1..Len(inbox'[d]) :
            inbox'[d][i] = "START" /\ inbox'[d][j] = "STOP" => i + k < j + k
      BY <3>1 DEF StartBeforeStop
    <3>3. QED
      BY <3>2, LeavesOwing DEF StartBeforeStop, Internal
  <2>2. \A i, j \in 1..Len(done') : done'[i] = "START" /\ done'[j] = "STOP" => i < j
    <3>1. CASE done' = done
      BY <3>1 DEF StartBeforeStop
    <3>2. CASE done' = s /\ o = "START" /\ Owing(o) = {c}
      <4>1. ~Over("STOP")
        <5>1. ASSUME Over("STOP") PROVE FALSE
          <6>1. Owing("STOP") = {} /\ UnderWay("STOP")
            BY <5>1, OperationFacts DEF Internal, DoneIsLast, UnderWay
          <6>2. QED
            BY <1>1, <3>2, <6>1 DEF StartBeforeStop
        <5>2. QED
          BY <5>1
      <4>2. \A i \in 1..Len(s) : s[i] # "STOP"
        BY <1>7, <3>2, <4>1 DEF Over
      <4>3. QED
        BY <3>2, <4>2
    <3>3. CASE done' = s /\ o # "START"
      <4>1. \A i \in 1..Len(s) : s[i] = "START" => i \in 1..Len(done)
        BY <1>7, <3>3
      <4>2. ASSUME NEW i \in 1..Len(s), NEW j \in 1..Len(s), s[i] = "START", s[j] = "STOP"
            PROVE  i < j
        <5>1. CASE j \in 1..Len(done)
          BY <1>7, <4>1, <4>2, <5>1 DEF StartBeforeStop
        <5>2. CASE j = Len(done) + 1
          BY <1>7, <4>1, <4>2, <5>2
        <5>3. QED
          BY <1>7, <5>1, <5>2
      <4>3. QED
        BY <3>3, <4>2
    <3>4. QED
      BY <1>5, <1>6, <3>1, <3>2, <3>3
  <2>3. UnderWay("STOP")' => Owing("START")' \subseteq Owing("STOP")'
    <3>1. ASSUME UnderWay("STOP"), NEW d \in Owing("START")'
          PROVE  d \in Owing("STOP")'
      <4>1. d \in Owing("START") /\ d \in Owing("STOP")
        BY <1>1, <3>1 DEF StartBeforeStop
      <4>2. CASE o = "STOP" /\ d = c
        <5>1. ~Held(c, "START")
          <6>1. CASE /\ inbox[c] # <<>> /\ o = Head(inbox[c])
            <7>1. inbox[c][1] = "STOP" /\ 1 \in 1..Len(inbox[c])
              BY <4>2, <6>1, TailFacts DEF TypeOK
            <7>2. \A i \in 1..Len(inbox[c]) : ~(i < 1)
              OBVIOUS
            <7>3. QED
              BY <7>1, <7>2 DEF StartBeforeStop, Held
          <6>2. CASE Local(function[c]) = {o}
            <7>1. function[c] = "stop_local"
              BY <4>2, <6>2 DEF Local
            <7>2. QED
              BY <7>1 DEF StartBeforeStop
          <6>3. QED
            BY <6>1, <6>2 DEF Leaves
        <5>2. "START" \notin Local(function[c])
          BY <4>2 DEF Leaves
        <5>3. QED
          BY <4>1, <4>2, <5>1, <5>2 DEF Owing
      <4>3. QED
        BY <1>1, <4>1, <4>2
    <3>2. QED
      BY <1>11, <3>1
  <2>4. QED
    BY <2>1, <2>2, <2>3 DEF StartBeforeStop
<1>13. QED
  BY <1>1, <1>2, <1>4, <1>8, <1>9, <1>10, <1>11, <1>12 DEF Internal

\* A core begins the local function that an internal event asks for.
LEMMA LocalInternal ==
  ASSUME TypeOK, Internal, StartBeforeStop, NEW c \in Cores, function[c] = "none",
         inbox[c] # <<>>, NEW f \in {"start_local", "stop_local"}, Local(f) = {Head(inbox[c])},
         function' = [function EXCEPT ![c] = f],
         inbox' = [inbox EXCEPT ![c] = Tail(@)], UNCHANGED <<left, done>>
  PROVE  /\ Internal' /\ StartBeforeStop'
         /\ \A p : Owing(p)' = Owing(p) /\ (Over(p)' <=> Over(p)) /\ (UnderWay(p)' <=> UnderWay(p))
<1>1. PICK o : o = Head(inbox[c])
  OBVIOUS
<1>2. /\ inbox[c] \in Seq(Operations) /\ inbox'[c] = Tail(inbox[c])
      /\ function'[c] = f /\ Local(function[c]) = {} /\ Local(function'[c]) = {o}
      /\ \A d \in Cores : d # c => inbox'[d] = inbox[d] /\ function'[d] = function[d]
  BY <1>1 DEF TypeOK, Local
<1>3. /\ o = inbox[c][1] /\ 1 \in 1..Len(inbox[c])
      /\ Len(inbox'[c]) = Len(inbox[c]) - 1 /\ Len(inbox[c]) \in Nat \ {0}
      /\ \A i \in 1..Len(inbox'[c]) : inbox'[c][i] = inbox[c][i + 1]
  <2>1. inbox[c] \in Seq(Operations) /\ inbox[c] # <<>>
    BY <1>2
  <2>2. QED
    <3>1. o = Head(inbox[c]) /\ inbox'[c] = Tail(inbox[c])
      BY <1>1, <1>2
    <3>2. QED
      BY <2>1, <3>1, TailFacts
<1>4. \A i \in 1..Len(inbox'[c]) : i + 1 \in 1..Len(inbox[c]) /\ i + 1 # 1
  BY <1>3
<1>5. Held(c, o) /\ ~Held(c, o)'
  BY <1>3, <1>4 DEF Held, Internal, OneEvent
<1>6. ASSUME NEW p, p # o
      PROVE  Held(c, p)' <=> Held(c, p)
  <2>1. ASSUME NEW i \in 1..Len(inbox[c]), inbox[c][i] = p
        PROVE  Held(c, p)'
    <3>1. i # 1
      BY <1>3, <1>6, <2>1
    <3>2. i - 1 \in 1..Len(inbox'[c]) /\ (i - 1) + 1 = i
      BY <1>3, <3>1
    <3>3. inbox'[c][i - 1] = p
      BY <1>3, <2>1, <3>2
    <3>4. QED
      BY <3>2, <3>3 DEF Held
  <2>2. QED
    BY <1>3, <1>4, <2>1 DEF Held
<1>7. \A d \in Cores \ {c} : \A p : Held(d, p)' <=> Held(d, p)
  BY <1>2 DEF Held
<1>8. \A p : Owing(p)' = Owing(p)
  <2>1. Owing(o)' = Owing(o)
    BY <1>2, <1>5, <1>7 DEF Owing
  <2>2. \A p : p # o => Owing(p)' = Owing(p)
    BY <1>2, <1>6, <1>7 DEF Owing
  <2>3. QED
    BY <2>1, <2>2
<1>9. \A p : (Over(p)' <=> Over(p)) /\ (UnderWay(p)' <=> UnderWay(p))
  BY <1>8 DEF Over, UnderWay
<1>10. OneEvent'
  <2>1. ASSUME NEW d \in Cores, NEW i \in 1..Len(inbox'[d]), NEW j \in 1..Len(inbox'[d]),
               inbox'[d][i] = inbox'[d][j]
        PROVE  i = j
    <3>1. CASE d = c
      <4>1. /\ i + 1 \in 1..Len(inbox[c]) /\ j + 1 \in 1..Len(inbox[c])
            /\ inbox[c][i + 1] = inbox[c][j + 1]
        BY <1>3, <1>4, <2>1, <3>1
      <4>2. i + 1 = j + 1
        BY <4>1 DEF Internal, OneEvent
      <4>3. QED
        BY <4>2
    <3>2. CASE d # c
      BY <1>2, <2>1, <3>2 DEF Internal, OneEvent
    <3>3. QED
      BY <3>1, <3>2
  <2>2. QED
    BY <1>2, <1>5, <1>7, <2>1 DEF Internal, OneEvent
<1>11. LeftCounts' /\ DoneOnce' /\ DoneIsLast'
  BY <1>8, <1>9 DEF Internal, LeftCounts, DoneOnce, DoneIsLast
<1>12. StartBeforeStop'
  <2>1. \A i, j \in 1..Len(inbox'[c]) : inbox'[c][i] = "START" /\ inbox'[c][j] = "STOP" => i < j
    <3>1. \A i, j \in 1..Len(inbox'[c]) :
            inbox'[c][i] = "START" /\ inbox'[c][j] = "STOP" => i + 1 < j + 1
      BY <1>3, <1>4 DEF StartBeforeStop
    <3>2. \A i, j \in 1..Len(inbox'[c]) : i + 1 < j + 1 => i < j
      OBVIOUS
    <3>3. QED
      BY <3>1, <3>2
  <2>2. ASSUME f = "stop_local" PROVE ~Held(c, "START")'
    <3>1. o = "STOP"
      BY <1>1, <2>2 DEF Local
    <3>2. \A i \in 1..Len(inbox[c]) : ~(i < 1)
      OBVIOUS
    <3>3. ~Held(c, "START")
      BY <1>3, <3>1, <3>2 DEF StartBeforeStop, Held
    <3>4. QED
      BY <1>6, <3>1, <3>3
  <2>3. \A d \in Cores \ {c} :
          /\ \A i, j \in 1..Len(inbox'[d]) : inbox'[d][i] = "START" /\ inbox'[d][j] = "STOP" => i < j
          /\ function'[d] = "stop_local" => ~Held(d, "START")'
    BY <1>2, <1>7 DEF StartBeforeStop
  <2>4. QED
    BY <1>2, <1>8, <1>9, <2>1, <2>2, <2>3 DEF StartBeforeStop
<1>13. QED
  BY <1>8, <1>9, <1>10, <1>11, <1>12 DEF Internal

\* A 'done' event is taken: its operation is over and none of it is left.
LEMMA DoneInternal ==
  ASSUME TypeOK, Internal, StartBeforeStop, SameLocal,
         NEW o \in Operations, done # <<>>, o = Head(done), done' = Tail(done), UNCHANGED <<inbox, left>>
  PROVE  /\ Internal' /\ StartBeforeStop'
         /\ Over(o) /\ ~UnderWay(o)' /\ Owing(o) = {}
         /\ \A p : Owing(p)' = Owing(p)
         /\ \A p : p # o => (Over(p)' <=> Over(p)) /\ (UnderWay(p)' <=> UnderWay(p))
         /\ o = "STOP" => ~UnderWay("START")
<1>1. /\ o = done[1] /\ 1 \in 1..Len(done)
      /\ Len(done') = Len(done) - 1 /\ Len(done) \in Nat \ {0}
      /\ \A i \in 1..Len(done') : done'[i] = done[i + 1]
  <2>1. done \in Seq(Operations)
    BY DEF TypeOK
  <2>2. QED
    BY <2>1, TailFacts
<1>2. \A i \in 1..Len(done') : i + 1 \in 1..Len(done) /\ i + 1 # 1
  BY <1>1
<1>3. \A p : Owing(p)' = Owing(p)
  BY DEF SameLocal, Owing, Held
<1>4. Over(o) /\ ~Over(o)' /\ Owing(o) = {}
  <2>1. Over(o)
    BY <1>1 DEF Over
  <2>2. ~Over(o)'
    BY <1>1, <1>2 DEF Over, Internal, DoneOnce
  <2>3. QED
    BY <2>1, <2>2 DEF Internal, DoneIsLast
<1>5. ASSUME NEW p, p # o
      PROVE  Over(p)' <=> Over(p)
  <2>1. ASSUME NEW i \in 1..Len(done), done[i] = p
        PROVE  Over(p)'
    <3>1. i # 1
      BY <1>1, <1>5, <2>1
    <3>2. i - 1 \in 1..Len(done') /\ (i - 1) + 1 = i
      BY <1>1, <3>1
    <3>3. done'[i - 1] = p
      BY <1>1, <2>1, <3>2
    <3>4. QED
      BY <3>2, <3>3 DEF Over
  <2>2. QED
    BY <1>1, <1>2, <2>1 DEF Over
<1>6. /\ ~UnderWay(o)'
      /\ \A p : p # o => (UnderWay(p)' <=> UnderWay(p))
  BY <1>3, <1>4, <1>5 DEF UnderWay
<1>7. o = "STOP" => ~UnderWay("START")
  <2>1. ASSUME o = "STOP" PROVE ~UnderWay("START")
    <3>1. Owing("START") = {}
      BY <1>4, <2>1 DEF StartBeforeStop, UnderWay
    <3>2. \A i \in 1..Len(done) : ~(i < 1)
      OBVIOUS
    <3>3. ~Over("START")
      BY <1>1, <2>1, <3>2 DEF StartBeforeStop, Over
    <3>4. QED
      BY <3>1, <3>3 DEF UnderWay
  <2>2. QED
    BY <2>1
<1>8. OneEvent' /\ LeftCounts'
  BY <1>3 DEF Internal, OneEvent, LeftCounts, SameLocal, Held
<1>9. DoneOnce'
  <2>1. \A i, j \in 1..Len(done') : done'[i] = done'[j] => i + 1 = j + 1
    BY <1>1, <1>2 DEF Internal, DoneOnce
  <2>2. \A i, j \in 1..Len(done') : i + 1 = j + 1 => i = j
    OBVIOUS
  <2>3. QED
    BY <2>1, <2>2 DEF DoneOnce
<1>10. DoneIsLast'
  BY <1>3, <1>4, <1>5 DEF Internal, DoneIsLast
<1>11. StartBeforeStop'
  <2>1. \A c \in Cores : function'[c] = "stop_local" => function[c] = "stop_local"
    BY DEF SameLocal, Local
  <2>2. \A i, j \in 1..Len(done') : done'[i] = "START" /\ done'[j] = "STOP" => i + 1 < j + 1
    BY <1>1, <1>2 DEF StartBeforeStop
  <2>3. \A i, j \in 1..Len(done') : i + 1 < j + 1 => i < j
    OBVIOUS
  <2>4. UnderWay("STOP")' => UnderWay("STOP")
    BY <1>6
  <2>5. QED
    BY <1>3, <2>1, <2>2, <2>3, <2>4 DEF StartBeforeStop, Held
<1>12. Internal' /\ StartBeforeStop'
  BY <1>8, <1>9, <1>10, <1>11 DEF Internal
<1>13. QED
  BY <1>3, <1>4, <1>5, <1>6, <1>7, <1>12

-----------------------------------------------------------------------------
(* The steps *)

\* What the scheduler does with elements and events leaves all operations alone; it
\* dispatches to no queue when a stop has disabled them.
LEMMA SchedulerStep ==
  ASSUME IInv, NEW c \in Cores,
         \/ \E q \in Queues, e \in Events : Send(c, q, e)
         \/ Take(c) \/ DispatchStep(c) \/ ReceiveReturns(c)
  PROVE  Course'
<1>1. UNCHANGED <<internalVars, function, callVars, ruleVars, status, queueList, queuePool>>
  BY DEF Send, Take, DispatchStep, Dispatch, DropEvent, PutBack, ReceiveReturns, poolVars, queueVars
<1>2. SameLocal
  BY <1>1 DEF SameLocal
<1>3. Internal' /\ StartBeforeStop'
  BY <1>1, <1>2, SameInternal DEF IInv, Course
<1>4. \A o : Owing(o)' = Owing(o) /\ (Over(o)' <=> Over(o)) /\ (UnderWay(o)' <=> UnderWay(o))
  BY <1>1, <1>2, SameOwing
<1>5. \/ elem' = elem /\ running' = running
      \/ /\ elem[c] = None /\ function[c] = "none" /\ running' = running
         /\ \A d \in Cores \ {c} : elem'[d] = elem[d]
      \/ /\ burst[c] # <<>> /\ running[c] = None /\ status[elem[c]] = "READY"
         /\ running' = [running EXCEPT ![c] = elem[c]] /\ elem' = elem
      \/ /\ running[c] = None /\ running' = running
         /\ \A d \in Cores \ {c} : elem'[d] = elem[d]
      \/ running' = [running EXCEPT ![c] = None] /\ elem' = elem
  BY DEF Send, Take, AtSchedule, DispatchStep, Dispatch, DropEvent, PutBack, ReceiveReturns, coreVars,
         IInv, TypeOK
<1>6. CoresApart'
  <2>1. CASE PutBack(c)
    <3>1. running[c] = None /\ running' = running /\ elem' = [elem EXCEPT ![c] = None]
      BY <2>1 DEF PutBack
    <3>2. QED
      BY <1>1, <3>1 DEF CoresApart, IInv, Course, TypeOK
  <2>2. CASE Take(c)
    <3>1. /\ elem[c] = None /\ function[c] = "none" /\ running' = running
          /\ elem' = elem \/ elem' = [elem EXCEPT ![c] = Head(schedQueue)]
      BY <2>2 DEF Take, AtSchedule
    <3>2. QED
      BY <1>1, <3>1 DEF CoresApart, IInv, Course, TypeOK
  <2>3. CASE elem' = elem /\ (running' = running \/ running' = [running EXCEPT ![c] = elem[c]]
                              \/ running' = [running EXCEPT ![c] = None])
    BY <1>1, <2>3 DEF CoresApart, IInv, Course, TypeOK
  <2>4. QED
    BY <2>1, <2>2, <2>3 DEF Send, DispatchStep, Dispatch, DropEvent, ReceiveReturns, coreVars
<1>7. QueuesPlaced'
  BY <1>1, <1>4 DEF QueuesPlaced, ListHas, IInv, Course, ruleVars
<1>8. CallTrue'
  BY <1>1, <1>4 DEF CallTrue, ListHas, IInv, Course, ruleVars, callVars
<1>9. Phases'
  BY <1>1, <1>4 DEF Phases, StartPhases, StopPhases, IInv, Course, ruleVars, callVars
<1>10. QuietFollows'
  <2>1. \/ \A d \in Cores : running[d] = None => running'[d] = None
        \/ \E q \in Queues : status[q] = "READY"
    <3>1. elem[c] \in Queues \cup {None} /\ running \in [Cores -> Queues \cup {None}]
      BY DEF IInv, TypeOK
    <3>2. QED
      BY <1>5, <3>1
  <2>2. CASE \A d \in Cores : running[d] = None => running'[d] = None
    BY <1>1, <1>4, <2>2 DEF QuietFollows, IInv, Course, ruleVars, callVars
  <2>3. CASE \E q \in Queues : status[q] = "READY"
    <3>1. life = "stopping" => caller # None
      BY <2>3 DEF QuietFollows, IInv, Course
    <3>2. ~UnderWay("STOP") /\ ~\E d \in Cores : function[d] = "stop"
      BY <3>1 DEF Phases, StopPhases, IInv, Course
    <3>3. QED
      BY <1>1, <1>4, <3>2 DEF QuietFollows, IInv, Course, ruleVars, callVars
  <2>4. QED
    BY <2>1, <2>2, <2>3
<1>11. StartedFollows'
  BY <1>1, <1>4 DEF StartedFollows, IInv, Course, ruleVars
<1>12. QED
  BY <1>3, <1>6, <1>7, <1>8, <1>9, <1>10, <1>11 DEF Course

\* Steps that leave operations and their phases alone.
LEMMA SamePhases ==
  ASSUME IInv, UNCHANGED <<internalVars, function, caller, life, started, elem, running>>
  PROVE  /\ CoresApart' /\ Internal' /\ StartBeforeStop' /\ Phases' /\ StartedFollows'
         /\ \A o : Owing(o)' = Owing(o) /\ (Over(o)' <=> Over(o)) /\ (UnderWay(o)' <=> UnderWay(o))
<1>1. SameLocal
  BY DEF SameLocal
<1>2. Internal' /\ StartBeforeStop'
  BY <1>1, SameInternal DEF IInv, Course
<1>3. \A o : Owing(o)' = Owing(o) /\ (Over(o)' <=> Over(o)) /\ (UnderWay(o)' <=> UnderWay(o))
  BY <1>1, SameOwing
<1>4. CoresApart'
  BY DEF CoresApart, IInv, Course
<1>5. Phases' /\ StartedFollows'
  BY <1>3 DEF Phases, StartPhases, StopPhases, StartedFollows, IInv, Course
<1>6. QED
  BY <1>2, <1>3, <1>4, <1>5

\* Queues are created, deleted, added to the EO and enabled.
LEMMA QueueStep ==
  ASSUME IInv, NEW c \in Cores, NEW q \in Queues,
         \/ CreateQueue(c) \/ CreateStaticQueue(c, q) \/ DeleteQueue(c, q)
         \/ AddQueue(c, q) \/ EnableQueue(c, q)
  PROVE  Course'
<1> USE DEF poolVars, queueVars, eventVars, internalVars, coreVars, callVars, ruleVars
<1>1. /\ UNCHANGED <<internalVars, function, caller, life, started, elem, running, removing>>
      /\ caller = None
  BY DEF CreateQueue, CreateStaticQueue, DeleteQueue, AddQueue, EnableQueue, MayConfigure
<1>2. /\ CoresApart' /\ Internal' /\ StartBeforeStop' /\ Phases' /\ StartedFollows'
      /\ \A o : Owing(o)' = Owing(o) /\ (Over(o)' <=> Over(o)) /\ (UnderWay(o)' <=> UnderWay(o))
  BY <1>1, SamePhases
<1>3. CallTrue'
  BY <1>1 DEF CallTrue
<1>4. QuietFollows'
  <2>1. life = "stopping" => \A p \in Queues : status'[p] = "READY" => status[p] = "READY"
    BY DEF CreateQueue, CreateStaticQueue, DeleteQueue, AddQueue, EnableQueue, InitQueue, ChangeState,
           IInv, TypeOK
  <2>2. QED
    BY <1>1, <1>2, <2>1 DEF QuietFollows, IInv, Course
<1>5. QueuesPlaced'
  <2>1. ASSUME NEW p \in Queues, status[p] = "INVALID", status' = [status EXCEPT ![p] = "INIT"],
               UNCHANGED <<queueList, removed>>,
               \/ queuePool' = queuePool /\ p \in Static
               \/ queuePool # <<>> /\ p = Head(queuePool) /\ queuePool' = Tail(queuePool)
        PROVE  QueuesPlaced'
    <3>1. ~ListHas(p) /\ p \notin removing \cup removed
      BY <2>1 DEF QueuesPlaced, IInv, Course
    <3>2. queuePool \in Seq(Queues \ Static)
      BY DEF IInv, TypeOK
    <3>3. /\ \A i \in 1..Len(queuePool') : status'[queuePool'[i]] = "INVALID"
          /\ \A i, j \in 1..Len(queuePool') : queuePool'[i] = queuePool'[j] => i = j
      <4>1. CASE queuePool' = queuePool /\ p \in Static
        <5>1. \A i \in 1..Len(queuePool) : queuePool[i] \in Queues /\ queuePool[i] # p
          BY <3>2, <4>1
        <5>2. QED
          BY <2>1, <4>1, <5>1 DEF QueuesPlaced, IInv, Course, TypeOK
      <4>2. CASE queuePool # <<>> /\ p = Head(queuePool) /\ queuePool' = Tail(queuePool)
        <5>1. /\ p = queuePool[1] /\ 1 \in 1..Len(queuePool)
              /\ Len(queuePool') = Len(queuePool) - 1 /\ Len(queuePool) \in Nat \ {0}
              /\ \A i \in 1..Len(queuePool') : queuePool'[i] = queuePool[i + 1]
          BY <3>2, <4>2, TailFacts
        <5>2. \A i \in 1..Len(queuePool') : i + 1 \in 1..Len(queuePool) /\ i + 1 # 1
          BY <5>1
        <5>3. \A i \in 1..Len(queuePool) : i # 1 => queuePool[i] # p
          BY <5>1 DEF QueuesPlaced, IInv, Course
        <5>4. \A i \in 1..Len(queuePool) : queuePool[i] \in Queues
          BY <3>2
        <5>5. ASSUME NEW i \in 1..Len(queuePool')
              PROVE  status'[queuePool'[i]] = "INVALID"
          <6>1. queuePool'[i] \in Queues \ {p} /\ status[queuePool'[i]] = "INVALID"
            BY <5>1, <5>2, <5>3, <5>4 DEF QueuesPlaced, IInv, Course
          <6>2. QED
            BY <2>1, <6>1 DEF IInv, TypeOK
        <5>6. \A i, j \in 1..Len(queuePool') : queuePool'[i] = queuePool'[j] => i + 1 = j + 1
          BY <5>1, <5>2 DEF QueuesPlaced, IInv, Course
        <5>7. \A i, j \in 1..Len(queuePool') : i + 1 = j + 1 => i = j
          OBVIOUS
        <5>8. QED
          BY <5>5, <5>6, <5>7
      <4>3. QED
        BY <2>1, <4>1, <4>2
    <3>4. \A r \in Queues : r # p => status'[r] = status[r]
      BY <2>1 DEF IInv, TypeOK
    <3>5. status'[p] = "INIT"
      BY <2>1 DEF IInv, TypeOK
    <3>6. QED
      BY <1>1, <1>2, <2>1, <3>1, <3>3, <3>4, <3>5 DEF QueuesPlaced, ListHas, IInv, Course
  <2>2. CASE CreateQueue(c)
    <3>1. PICK p \in Queues : AllocQueue(p) /\ InitQueue(p)
      BY <2>2 DEF CreateQueue
    <3>2. status[p] = "INVALID"
      <4>1. queuePool # <<>> /\ p = Head(queuePool) /\ queuePool \in Seq(Queues \ Static)
        BY <3>1 DEF AllocQueue, IInv, TypeOK
      <4>2. 1 \in 1..Len(queuePool) /\ p = queuePool[1]
        BY <4>1, TailFacts
      <4>3. QED
        BY <4>2 DEF QueuesPlaced, IInv, Course
    <3>3. QED
      BY <2>1, <2>2, <3>1, <3>2 DEF CreateQueue, AllocQueue, InitQueue
  <2>3. CASE CreateStaticQueue(c, q)
    BY <2>1, <2>3 DEF CreateStaticQueue, InitQueue
  <2>4. CASE DeleteQueue(c, q)
    <3>1. /\ q \in removed /\ status' = [status EXCEPT ![q] = "INVALID"]
          /\ queuePool' = Append(queuePool, q) /\ removed' = removed \ {q}
          /\ queueList' = queueList
      BY <2>4 DEF DeleteQueue
    <3>2. status[q] = "BIND" /\ ~ListHas(q) /\ q \notin removing
      BY <3>1 DEF QueuesPlaced, IInv, Course
    <3>3. queuePool \in Seq(Queues) /\ \A i \in 1..Len(queuePool) : queuePool[i] # q
      BY <3>2 DEF QueuesPlaced, IInv, Course, TypeOK
    <3>4. /\ Len(queuePool') = Len(queuePool) + 1 /\ Len(queuePool) \in Nat
          /\ queuePool'[Len(queuePool) + 1] = q
          /\ \A i \in 1..Len(queuePool) : queuePool'[i] = queuePool[i] /\ queuePool[i] \in Queues
      BY <3>1, <3>3, AppendFacts
    <3>5. \A i \in 1..Len(queuePool') : i \in 1..Len(queuePool) \/ i = Len(queuePool) + 1
      BY <3>4
    <3>6. /\ status'[q] = "INVALID" /\ \A r \in Queues : r # q => status'[r] = status[r]
      BY <3>1 DEF IInv, TypeOK
    <3>7. \A i \in 1..Len(queuePool') : status'[queuePool'[i]] = "INVALID"
      BY <3>3, <3>4, <3>5, <3>6 DEF QueuesPlaced, IInv, Course
    <3>8. \A i, j \in 1..Len(queuePool') : queuePool'[i] = queuePool'[j] => i = j
      BY <3>3, <3>4, <3>5 DEF QueuesPlaced, IInv, Course
    <3>9. QED
      BY <1>1, <1>2, <3>1, <3>2, <3>6, <3>7, <3>8 DEF QueuesPlaced, ListHas, IInv, Course
  <2>5. CASE AddQueue(c, q)
    <3>1. /\ status[q] = "INIT" \/ q \in removed
          /\ status' = [status EXCEPT ![q] = "BIND"]
          /\ queueList' = Append(queueList, q) /\ queuePool' = queuePool
          /\ removed' = removed \ {q}
          /\ life # "free"
      BY <2>5 DEF AddQueue, ListAdd
    <3>2. ~ListHas(q) /\ q \notin removing \cup removed' /\ status[q] # "INVALID"
      BY <3>1 DEF QueuesPlaced, IInv, Course
    <3>3. queueList \in Seq(Queues) /\ \A i \in 1..Len(queueList) : queueList[i] # q
      BY <3>2 DEF ListHas, IInv, TypeOK
    <3>4. /\ Len(queueList') = Len(queueList) + 1 /\ Len(queueList) \in Nat
          /\ queueList'[Len(queueList) + 1] = q
          /\ \A i \in 1..Len(queueList) : queueList'[i] = queueList[i]
      BY <3>1, <3>3, AppendFacts
    <3>5. /\ \A i \in 1..Len(queueList') : i \in 1..Len(queueList) \/ i = Len(queueList) + 1
          /\ \A i \in 1..Len(queueList) : i \in 1..Len(queueList')
          /\ Len(queueList) + 1 \in 1..Len(queueList')
      BY <3>4
    <3>6. /\ status'[q] = "BIND" /\ \A r \in Queues : r # q => status'[r] = status[r]
      BY <3>1 DEF IInv, TypeOK
    <3>7. ListHas(q)' /\ \A r \in Queues : r # q => (ListHas(r)' <=> ListHas(r))
      BY <3>4, <3>5 DEF ListHas
    <3>8. \A i, j \in 1..Len(queueList') : queueList'[i] = queueList'[j] => i = j
      BY <3>3, <3>4, <3>5 DEF QueuesPlaced, IInv, Course
    <3>9. \A i \in 1..Len(queuePool) : status'[queuePool[i]] = "INVALID"
      <4>1. \A i \in 1..Len(queuePool) : queuePool[i] \in Queues /\ status[queuePool[i]] = "INVALID"
        BY DEF QueuesPlaced, IInv, Course, TypeOK
      <4>2. QED
        BY <3>2, <3>6, <4>1
    <3>10. \A r \in Queues : r # q => (r \in removed' <=> r \in removed)
      BY <3>1
    <3>11. QED
      BY <1>1, <1>2, <3>1, <3>2, <3>6, <3>7, <3>8, <3>9, <3>10 DEF QueuesPlaced, IInv, Course
  <2>6. CASE EnableQueue(c, q)
    <3>1. /\ status[q] = "BIND" /\ ListHas(q) /\ status' = [status EXCEPT ![q] = "READY"]
          /\ UNCHANGED <<queueList, queuePool, removed>>
      BY <2>6 DEF EnableQueue, ChangeState
    <3>2. /\ status'[q] = "READY" /\ \A r \in Queues : r # q => status'[r] = status[r]
      BY <3>1 DEF IInv, TypeOK
    <3>3. \A i \in 1..Len(queuePool) : status'[queuePool[i]] = "INVALID"
      <4>1. \A i \in 1..Len(queuePool) : queuePool[i] \in Queues /\ status[queuePool[i]] = "INVALID"
        BY DEF QueuesPlaced, IInv, Course, TypeOK
      <4>2. QED
        BY <3>1, <3>2, <4>1
    <3>4. QED
      BY <1>1, <1>2, <3>1, <3>2, <3>3 DEF QueuesPlaced, ListHas, IInv, Course
  <2>7. QED
    BY <2>2, <2>3, <2>4, <2>5, <2>6
<1>6. QED
  BY <1>2, <1>3, <1>4, <1>5 DEF Course

\* The ids in the pool stay free when queues that exist change.
LEMMA PoolKept ==
  ASSUME TypeOK, QueuesPlaced, NEW q \in Queues, status[q] # "INVALID",
         NEW s, status' = [status EXCEPT ![q] = s], queuePool' = queuePool
  PROVE  /\ \A i \in 1..Len(queuePool') : status'[queuePool'[i]] = "INVALID"
         /\ \A i, j \in 1..Len(queuePool') : queuePool'[i] = queuePool'[j] => i = j
         /\ status'[q] = s /\ \A r \in Queues : r # q => status'[r] = status[r]
<1>1. status'[q] = s /\ \A r \in Queues : r # q => status'[r] = status[r]
  BY DEF TypeOK
<1>2. \A i \in 1..Len(queuePool) : queuePool[i] \in Queues /\ status[queuePool[i]] = "INVALID"
  BY DEF QueuesPlaced, TypeOK
<1>3. QED
  BY <1>1, <1>2 DEF QueuesPlaced

\* A queue is removed: the cores are asked, once.
LEMMA RemoveStep ==
  ASSUME IInv, NEW c \in Cores, NEW q \in Queues, RemoveQueue(c, q)
  PROVE  Course'
<1>1. /\ UNCHANGED <<function, caller, life, started, elem, running, removed, queuePool>>
      /\ caller = None /\ ListHas(q) /\ Request(q) /\ removing' = removing \cup {q}
  BY DEF RemoveQueue, MayConfigure, coreVars, callVars, poolVars
<1>2. /\ q \in Operations /\ q # "START" /\ q # "STOP" /\ q # "DISABLE"
      /\ q \notin removing \cup removed /\ status[q] \in {"BIND", "READY"} /\ ~UnderWay(q)
  BY <1>1, OperationFacts DEF QueuesPlaced, IInv, Course
<1>3. SameLocal
  BY <1>1 DEF SameLocal
<1>4. /\ \A p : p # q => Owing(p)' = Owing(p)
      /\ \A p : p # q => (UnderWay(p)' <=> UnderWay(p))
  BY <1>1, <1>2, <1>3, RequestOwing DEF IInv
<1>5. Internal' /\ StartBeforeStop'
  BY <1>1, <1>2, <1>3, RequestInternal DEF IInv, Course
<1>6. CoresApart' /\ CallTrue'
  BY <1>1 DEF CoresApart, CallTrue, IInv, Course
<1>7. Phases' /\ StartedFollows'
  BY <1>1, <1>2, <1>4 DEF Phases, StartPhases, StopPhases, StartedFollows, IInv, Course
<1>8. status' = [status EXCEPT ![q] = "BIND"]
  BY <1>2 DEF RemoveQueue, ChangeState, IInv, TypeOK
<1>9. /\ \A i \in 1..Len(queuePool') : status'[queuePool'[i]] = "INVALID"
      /\ \A i, j \in 1..Len(queuePool') : queuePool'[i] = queuePool'[j] => i = j
      /\ status'[q] = "BIND" /\ \A r \in Queues : r # q => status'[r] = status[r]
  BY <1>1, <1>2, <1>8, PoolKept DEF IInv, Course
<1>10. QuietFollows'
  BY <1>1, <1>2, <1>4, <1>9 DEF QuietFollows, IInv, Course
<1>11. QueuesPlaced'
  <2>1. PICK i \in 1..Len(queueList) : queueList[i] = q /\ queueList' = RemoveAt(queueList, i)
    BY DEF RemoveQueue, ListRemove
  <2>2. queueList \in Seq(Queues) /\ Len(queueList) \in Nat
    BY DEF IInv, TypeOK
  <2>3. /\ Len(queueList') = Len(queueList) - 1
        /\ \A j \in 1..(Len(queueList) - 1) : queueList'[j] = queueList[IF j < i THEN j ELSE j + 1]
    BY <2>1, <2>2, RemoveAtFacts
  <2>4. \A j \in 1..Len(queueList') : \E k \in 1..Len(queueList) :
          /\ queueList'[j] = queueList[k] /\ k # i /\ k = IF j < i THEN j ELSE j + 1
    BY <2>2, <2>3
  <2>5. ~ListHas(q)' /\ \A r \in Queues : ListHas(r)' => ListHas(r)
    BY <2>1, <2>4 DEF ListHas, QueuesPlaced, IInv, Course
  <2>6. ASSUME NEW r \in Queues, r # q, ListHas(r)
        PROVE  ListHas(r)'
    <3>1. PICK k \in 1..Len(queueList) : queueList[k] = r
      BY <2>6 DEF ListHas
    <3>2. k # i
      BY <2>1, <2>6, <3>1
    <3>3. CASE k < i
      <4>1. k \in 1..(Len(queueList) - 1) /\ k \in 1..Len(queueList')
        BY <2>2, <2>3, <3>3
      <4>2. queueList'[k] = r
        BY <2>3, <3>1, <3>3, <4>1
      <4>3. QED
        BY <4>1, <4>2 DEF ListHas
    <3>4. CASE ~(k < i)
      <4>1. k - 1 \in 1..(Len(queueList) - 1) /\ k - 1 \in 1..Len(queueList')
            /\ ~(k - 1 < i) /\ (k - 1) + 1 = k
        BY <2>2, <2>3, <3>2, <3>4
      <4>2. queueList'[k - 1] = r
        BY <2>3, <3>1, <4>1
      <4>3. QED
        BY <4>1, <4>2 DEF ListHas
    <3>5. QED
      BY <3>3, <3>4
  <2>7. ASSUME NEW j \in 1..Len(queueList'), NEW k \in 1..Len(queueList'), queueList'[j] = queueList'[k]
        PROVE  j = k
    <3>1. (IF j < i THEN j ELSE j + 1) = (IF k < i THEN k ELSE k + 1)
      BY <2>4, <2>7 DEF QueuesPlaced, IInv, Course
    <3>2. QED
      BY <3>1
  <2>8. life # "free"
    <3>1. Len(queueList) # 0
      BY <2>1
    <3>2. QED
      BY <3>1 DEF QueuesPlaced, IInv, Course
  <2>9. QED
    BY <1>1, <1>2, <1>4, <1>9, <2>5, <2>6, <2>7, <2>8 DEF QueuesPlaced, IInv, Course
<1>12. QED
  BY <1>5, <1>6, <1>7, <1>10, <1>11 DEF Course

\* The EO is created, deleted and started, and its start function fails.
LEMMA EoStep ==
  ASSUME IInv, NEW c \in Cores, EoCreate(c) \/ EoDelete(c) \/ EoStart(c) \/ StartFails(c)
  PROVE  Course'
<1> USE DEF poolVars, queueVars, eventVars, internalVars, coreVars, callVars, ruleVars
<1>1. /\ UNCHANGED <<internalVars, callVars, elem, running, removing, removed, status, queuePool>>
      /\ queueList' = queueList
  BY DEF EoCreate, EoDelete, EoStart, StartFails, QueuesPlaced, IInv, Course
<1>2. /\ function' \in [Cores -> Functions] /\ function \in [Cores -> Functions]
      /\ \A d \in Cores \ {c} : function'[d] = function[d]
      /\ \/ /\ EoCreate(c) \/ EoDelete(c)
            /\ function' = function
            /\ life \in {"free", "created", "stopped"} /\ life' \in {"free", "created"}
         \/ /\ EoStart(c) /\ function[c] = "none" /\ function'[c] = "start"
            /\ life \in {"created", "stopped"} /\ life' = "starting" /\ started' = {}
            /\ \A d \in Cores \ {c} : function[d] # "start"
         \/ /\ StartFails(c) /\ function[c] = "start" /\ function'[c] = "none"
            /\ life' = "created" /\ started' = started
  <2>1. function \in [Cores -> Functions]
    BY DEF IInv, TypeOK
  <2>2. CASE EoCreate(c) \/ EoDelete(c)
    BY <2>1, <2>2 DEF EoCreate, EoDelete
  <2>3. CASE EoStart(c)
    <3>1. function' = [function EXCEPT ![c] = "start"]
      BY <2>3 DEF EoStart
    <3>2. QED
      BY <2>1, <2>3, <3>1 DEF EoStart, MayConfigure, Functions
  <2>4. CASE StartFails(c)
    <3>1. function' = [function EXCEPT ![c] = "none"]
      BY <2>4 DEF StartFails
    <3>2. QED
      BY <2>1, <2>4, <3>1 DEF StartFails, Functions
  <2>5. QED
    BY <2>2, <2>3, <2>4
<1>3. SameLocal
  BY <1>2 DEF SameLocal, Local
<1>4. Internal' /\ StartBeforeStop'
  BY <1>1, <1>3, SameInternal DEF IInv, Course
<1>5. \A o : Owing(o)' = Owing(o) /\ (Over(o)' <=> Over(o)) /\ (UnderWay(o)' <=> UnderWay(o))
  BY <1>1, <1>3, SameOwing
<1>6. /\ ~UnderWay("STOP") /\ ~UnderWay("START") /\ caller = None
      /\ \A d \in Cores : function[d] # "stop" /\ function'[d] # "stop"
      /\ life # "stopping" /\ life' # "stopping"
  <2>1. life \in {"free", "created", "stopped", "starting"} /\ ~UnderWay("START")
    BY <1>2 DEF Phases, StartPhases, IInv, Course
  <2>2. caller = None
    <3>1. CASE EoCreate(c) \/ EoDelete(c) \/ EoStart(c)
      BY <3>1 DEF EoCreate, EoDelete, EoStart, MayConfigure
    <3>2. QED
      BY <2>1, <3>1 DEF CallTrue, IInv, Course
  <2>3. QED
    BY <1>2, <2>1, <2>2 DEF Phases, StopPhases, IInv, Course
<1>7. CoresApart'
  BY <1>1, <1>2 DEF CoresApart, IInv, Course
<1>8. CallTrue'
  BY <1>1, <1>6 DEF CallTrue
<1>9. QueuesPlaced'
  <2>1. life' = "free" => queueList' = <<>>
    BY <1>1, <1>2 DEF EoDelete, EoCreate
  <2>2. QED
    BY <1>1, <1>5, <2>1 DEF QueuesPlaced, ListHas, IInv, Course
<1>10. Phases'
  <2>1. \A d, e \in Cores : function'[d] = "start" /\ function'[e] = "start" => d = e
    BY <1>2 DEF Phases, StartPhases, IInv, Course
  <2>2. \A d \in Cores : function'[d] = "start" => life' = "starting"
    <3>1. CASE EoCreate(c) \/ EoDelete(c)
      BY <1>2, <3>1 DEF Phases, StartPhases, IInv, Course, EoStart, StartFails
    <3>2. CASE StartFails(c)
      BY <1>2, <3>2 DEF Phases, StartPhases, IInv, Course
    <3>3. QED
      BY <1>2, <3>1, <3>2
  <2>3. QED
    BY <1>5, <1>6, <2>1, <2>2 DEF Phases, StartPhases, StopPhases
<1>11. QuietFollows'
  BY <1>5, <1>6 DEF QuietFollows
<1>12. StartedFollows'
  <2>1. Owing("START") = {} /\ Owing("STOP") = {}
    BY <1>6 DEF UnderWay
  <2>2. (\E d \in Cores : function'[d] = "start") => started' = {}
    <3>1. CASE EoCreate(c) \/ EoDelete(c)
      BY <1>2, <3>1 DEF Phases, StartPhases, IInv, Course, EoStart, StartFails
    <3>2. CASE StartFails(c)
      BY <1>2, <3>2 DEF Phases, StartPhases, IInv, Course
    <3>3. QED
      BY <1>2, <3>1, <3>2
  <2>3. life' \in {"starting", "started"} => \E d \in Cores : function'[d] = "start"
    BY <1>2
  <2>4. QED
    BY <1>2, <1>5, <1>6, <2>1, <2>2, <2>3 DEF StartedFollows
<1>13. QED
  BY <1>4, <1>7, <1>8, <1>9, <1>10, <1>11, <1>12 DEF Course

\* A call that goes through the EO's queues begins.
LEMMA CallStep0 ==
  ASSUME IInv, NEW c \in Cores, EnableAll(c) \/ DisableAll(c) \/ EoStop(c)
  PROVE  Course'
<1> USE DEF poolVars, queueVars, eventVars, internalVars, coreVars, callVars, ruleVars
<1>1. /\ UNCHANGED <<internalVars, function, elem, running, removing, removed, status, queuePool,
                     queueList, started>>
      /\ caller = None /\ caller' = c /\ function[c] = "none"
      /\ \/ EnableAll(c) /\ call' = [goal |-> "READY", rest |-> queueList, op |-> "START"]
            /\ life = "started" /\ life' = life
         \/ DisableAll(c) /\ call' = [goal |-> "BIND", rest |-> queueList, op |-> "DISABLE"]
            /\ life = "started" /\ life' = life
         \/ EoStop(c) /\ call' = [goal |-> "BIND", rest |-> queueList, op |-> "STOP"]
            /\ life \in {"starting", "started"} /\ life' = "stopping"
            /\ \A d \in Cores : function[d] # "start"
  BY DEF EnableAll, DisableAll, EoStop, ChangeAll, MayConfigure
<1>2. SameLocal
  BY <1>1 DEF SameLocal
<1>3. Internal' /\ StartBeforeStop'
  BY <1>1, <1>2, SameInternal DEF IInv, Course
<1>4. \A o : Owing(o)' = Owing(o) /\ (Over(o)' <=> Over(o)) /\ (UnderWay(o)' <=> UnderWay(o))
  BY <1>1, <1>2, SameOwing
<1>5. /\ ~UnderWay("STOP") /\ \A d \in Cores : function[d] # "stop"
  BY <1>1 DEF Phases, StopPhases, IInv, Course
<1>6. CoresApart'
  BY <1>1 DEF CoresApart, IInv, Course
<1>7. CallTrue'
  <2>1. (\A i \in 1..Len(call.rest) : ListHas(call.rest[i]))'
    BY <1>1 DEF ListHas
  <2>2. DisableAll(c) => ~UnderWay("DISABLE")
    <3>1. ASSUME DisableAll(c) PROVE ~UnderWay("DISABLE")
      <4>1. left["DISABLE"] = 0 /\ ~Over("DISABLE")
        BY <3>1 DEF DisableAll, Contains, Over
      <4>2. Owing("DISABLE") \in SUBSET Cores /\ Cardinality(Owing("DISABLE")) = 0
        BY <4>1, OperationFacts DEF Owing, LeftCounts, Internal, IInv, Course
      <4>3. QED
        BY <4>1, <4>2, CoresCounted DEF UnderWay
    <3>2. QED
      BY <3>1
  <2>3. caller' # None /\ function'[caller'] = "none"
    BY <1>1, OperationFacts
  <2>4. \/ call'.goal = "READY" /\ call'.op = "START" /\ life' = "started"
        \/ call'.goal = "BIND" /\ call'.op = "DISABLE" /\ life' = "started" /\ ~UnderWay("DISABLE")'
        \/ call'.goal = "BIND" /\ call'.op = "STOP" /\ life' = "stopping"
    BY <1>1, <1>4, <2>2
  <2>5. QED
    BY <2>1, <2>3, <2>4 DEF CallTrue
<1>8. QueuesPlaced'
  BY <1>1, <1>4 DEF QueuesPlaced, ListHas, IInv, Course
<1>9. Phases'
  BY <1>1, <1>4, <1>5 DEF Phases, StartPhases, StopPhases, IInv, Course
<1>10. QuietFollows'
  <2>1. life' = "stopping" => \A q \in Queues : status'[q] = "READY" =>
          caller' # None /\ \E i \in 1..Len(call'.rest) : call'.rest[i] = q
    BY <1>1, OperationFacts DEF QueuesPlaced, ListHas, IInv, Course
  <2>2. QED
    BY <1>1, <1>4, <1>5, <2>1 DEF QuietFollows
<1>11. StartedFollows'
  BY <1>1, <1>4, <1>5 DEF StartedFollows, IInv, Course
<1>12. QED
  BY <1>3, <1>6, <1>7, <1>8, <1>9, <1>10, <1>11 DEF Course

\* It changes the next queue.
LEMMA NextStep ==
  ASSUME IInv, NEW c \in Cores, ChangeNext(c)
  PROVE  Course'
<1> USE DEF poolVars, queueVars, eventVars, internalVars, coreVars, callVars, ruleVars
<1>1. /\ UNCHANGED <<internalVars, function, caller, life, started, elem, running, removing, removed,
                     queuePool, queueList>>
      /\ caller = c /\ caller # None /\ call.rest # <<>>
  BY OperationFacts DEF ChangeNext
<1>2. /\ CoresApart' /\ Internal' /\ StartBeforeStop' /\ Phases' /\ StartedFollows'
      /\ \A o : Owing(o)' = Owing(o) /\ (Over(o)' <=> Over(o)) /\ (UnderWay(o)' <=> UnderWay(o))
  BY <1>1, SamePhases
<1>3. PICK q : q = Head(call.rest)
  OBVIOUS
<1>4. PICK rest : rest = call.rest
  OBVIOUS
<1>5. /\ rest \in Seq(Queues) /\ rest # <<>>
      /\ call'.goal = call.goal /\ call'.op = call.op /\ call'.rest = Tail(rest)
  BY <1>1, <1>4 DEF ChangeNext, IInv, TypeOK
<1>6. /\ q \in Queues /\ q = rest[1] /\ 1 \in 1..Len(rest)
      /\ Len(call'.rest) = Len(rest) - 1 /\ Len(rest) \in Nat \ {0}
      /\ \A i \in 1..Len(call'.rest) : call'.rest[i] = rest[i + 1]
  BY <1>3, <1>4, <1>5, TailFacts
<1>7. \A i \in 1..Len(call'.rest) : i + 1 \in 1..Len(rest)
  BY <1>6
<1>8. /\ ListHas(q) /\ status[q] \in {"BIND", "READY"} /\ q \notin removing \cup removed
      /\ call.goal \in {"BIND", "READY"}
  BY <1>1, <1>4, <1>6 DEF CallTrue, QueuesPlaced, IInv, Course
<1>9. /\ \A i \in 1..Len(queuePool') : status'[queuePool'[i]] = "INVALID"
      /\ \A i, j \in 1..Len(queuePool') : queuePool'[i] = queuePool'[j] => i = j
      /\ status'[q] = call.goal /\ \A r \in Queues : r # q => status'[r] = status[r]
  <2>1. status' = [status EXCEPT ![q] = call.goal] /\ queuePool' = queuePool
    BY <1>1, <1>3 DEF ChangeNext, ChangeState
  <2>2. QED
    BY <1>6, <1>8, <2>1, PoolKept DEF IInv, Course
<1>10. QueuesPlaced'
  BY <1>1, <1>2, <1>8, <1>9 DEF QueuesPlaced, ListHas, IInv, Course
<1>11. CallTrue'
  <2>1. (\A i \in 1..Len(call.rest) : ListHas(call.rest[i]))'
    BY <1>1, <1>4, <1>6, <1>7 DEF CallTrue, ListHas, IInv, Course
  <2>2. QED
    BY <1>1, <1>2, <1>5, <2>1 DEF CallTrue, IInv, Course
<1>12. QuietFollows'
  <2>1. ASSUME life' = "stopping", NEW r \in Queues, status'[r] = "READY"
        PROVE  caller' # None /\ \E i \in 1..Len(call'.rest) : call'.rest[i] = r
    <3>1. call.goal = "BIND"
      BY <1>1, <2>1 DEF CallTrue, IInv, Course
    <3>2. r # q /\ status[r] = "READY"
      BY <1>9, <2>1, <3>1
    <3>3. PICK i \in 1..Len(rest) : rest[i] = r
      BY <1>1, <1>4, <2>1, <3>2 DEF QuietFollows, IInv, Course
    <3>4. i # 1
      BY <1>6, <3>2, <3>3
    <3>5. i - 1 \in 1..Len(call'.rest) /\ (i - 1) + 1 = i
      BY <1>6, <3>4
    <3>6. call'.rest[i - 1] = r
      BY <1>6, <3>3, <3>5
    <3>7. QED
      BY <1>1, <3>5, <3>6
  <2>2. QED
    BY <1>1, <1>2, <2>1 DEF QuietFollows, IInv, Course
<1>13. QED
  BY <1>2, <1>10, <1>11, <1>12 DEF Course

\* It ends: the cores are asked, or the global stop function is called.
LEMMA EndStep ==
  ASSUME IInv, NEW c \in Cores, ChangeEnds(c)
  PROVE  Course'
<1> USE DEF poolVars, queueVars, eventVars, internalVars, coreVars, callVars, ruleVars
<1>1. /\ UNCHANGED <<life, started, elem, running, removing, removed, status, queuePool, queueList>>
      /\ caller = c /\ caller # None /\ caller' = None /\ call.rest = <<>>
  BY OperationFacts DEF ChangeEnds
<1>2. /\ ~UnderWay("STOP") /\ function[c] = "none"
      /\ \A d \in Cores : function[d] # "stop"
      /\ life = "stopping" => \A q \in Queues : status[q] # "READY"
  <2>1. ~UnderWay("STOP") /\ \A d \in Cores : function[d] # "stop"
    BY <1>1 DEF Phases, StopPhases, IInv, Course
  <2>2. function[c] = "none"
    BY <1>1 DEF CallTrue, IInv, Course
  <2>3. \A i : i \notin 1..Len(call.rest)
    BY <1>1
  <2>4. life = "stopping" => \A q \in Queues : status[q] # "READY"
    BY <2>3 DEF QuietFollows, IInv, Course
  <2>5. QED
    BY <2>1, <2>2, <2>4
<1>3. CallTrue'
  BY <1>1 DEF CallTrue
<1>4. QueuesPlaced' <=> \A q \in Queues : q \notin removing => ~UnderWay(q)'
  BY <1>1 DEF QueuesPlaced, ListHas, IInv, Course
<1>5. ASSUME UNCHANGED <<internalVars, function>>
      PROVE  Course'
  <2>1. SameLocal
    BY <1>5 DEF SameLocal
  <2>2. Internal' /\ StartBeforeStop'
    BY <1>5, <2>1, SameInternal DEF IInv, Course
  <2>3. \A o : Owing(o)' = Owing(o) /\ (Over(o)' <=> Over(o)) /\ (UnderWay(o)' <=> UnderWay(o))
    BY <1>5, <2>1, SameOwing
  <2>4. QueuesPlaced'
    BY <1>4, <2>3 DEF QueuesPlaced, IInv, Course
  <2>5. CoresApart'
    BY <1>1, <1>5 DEF CoresApart, IInv, Course
  <2>6. Phases' /\ StartedFollows'
    BY <1>1, <1>2, <1>5, <2>3 DEF Phases, StartPhases, StopPhases, StartedFollows, IInv, Course
  <2>7. QuietFollows'
    BY <1>1, <1>2, <1>5, <2>3 DEF QuietFollows
  <2>8. QED
    BY <1>3, <2>2, <2>4, <2>5, <2>6, <2>7 DEF Course
<1>6. ASSUME ~StopLocal, life = "stopping", function' = [function EXCEPT ![c] = "stop"],
             UNCHANGED internalVars
      PROVE  Course'
  <2>1. /\ function'[c] = "stop" /\ \A d \in Cores : d # c => function'[d] = function[d]
    BY <1>6 DEF IInv, TypeOK
  <2>2. SameLocal
    BY <1>2, <2>1 DEF SameLocal, Local
  <2>3. Internal' /\ StartBeforeStop'
    BY <1>6, <2>2, SameInternal DEF IInv, Course
  <2>4. \A o : Owing(o)' = Owing(o) /\ (Over(o)' <=> Over(o)) /\ (UnderWay(o)' <=> UnderWay(o))
    BY <1>6, <2>2, SameOwing
  <2>5. QueuesPlaced'
    BY <1>4, <2>4 DEF QueuesPlaced, IInv, Course
  <2>6. CoresApart'
    BY <1>1, <2>1 DEF CoresApart, IInv, Course
  <2>7. StartPhases'
    BY <1>1, <2>1, <2>4 DEF Phases, StartPhases, IInv, Course
  <2>8. StopPhases'
    BY <1>1, <1>2, <1>6, <2>1, <2>4 DEF StopPhases
  <2>9. QuietFollows' /\ StartedFollows'
    BY <1>1, <1>2, <1>6, <2>4 DEF QuietFollows, StartedFollows
  <2>10. QED
    BY <1>3, <2>3, <2>5, <2>6, <2>7, <2>8, <2>9 DEF Course, Phases
<1>7. ASSUME NEW o \in Operations, Request(o), UNCHANGED function, ~UnderWay(o), o \notin Queues,
             o # "START", o = "STOP" => life = "stopping"
      PROVE  Course'
  <2>1. SameLocal
    BY <1>7 DEF SameLocal
  <2>2. /\ Owing(o)' = Cores
        /\ \A p : p # o => Owing(p)' = Owing(p)
        /\ \A p : p # o => (UnderWay(p)' <=> UnderWay(p))
    BY <1>7, <2>1, RequestOwing DEF IInv
  <2>3. Internal' /\ StartBeforeStop'
    BY <1>7, <2>1, RequestInternal DEF IInv, Course
  <2>4. QueuesPlaced'
    BY <1>4, <1>7, <2>2 DEF QueuesPlaced, IInv, Course
  <2>5. CoresApart'
    BY <1>1, <1>7 DEF CoresApart, IInv, Course
  <2>6. StartPhases'
    BY <1>1, <1>7, <2>2 DEF Phases, StartPhases, IInv, Course
  <2>7. StopPhases'
    BY <1>1, <1>2, <1>7, <2>2 DEF StopPhases
  <2>8. QuietFollows'
    BY <1>1, <1>2, <1>7, <2>2 DEF QuietFollows
  <2>9. StartedFollows'
    BY <1>1, <1>2, <1>7, <2>2 DEF StartedFollows, IInv, TypeOK, Course
  <2>10. QED
    BY <1>3, <2>3, <2>4, <2>5, <2>6, <2>7, <2>8, <2>9 DEF Course, Phases
<1>8. \/ call.goal = "READY" /\ call.op = "START" /\ life = "started"
      \/ call.goal = "BIND" /\ call.op = "DISABLE" /\ life = "started" /\ ~UnderWay("DISABLE")
      \/ call.goal = "BIND" /\ call.op = "STOP" /\ life = "stopping"
  BY <1>1 DEF CallTrue, IInv, Course
<1>9. CASE call.goal = "READY" /\ call.op = "START"
  BY <1>5, <1>9 DEF ChangeEnds
<1>10. CASE call.goal = "BIND" /\ call.op = "DISABLE" /\ ~UnderWay("DISABLE")
  BY <1>7, <1>10, OperationFacts DEF ChangeEnds
<1>11. CASE call.goal = "BIND" /\ call.op = "STOP" /\ life = "stopping"
  <2>1. CASE StopLocal
    BY <1>2, <1>7, <1>11, <2>1, OperationFacts DEF ChangeEnds, EoLocalFuncCall
  <2>2. CASE ~StopLocal
    BY <1>6, <1>11, <2>2 DEF ChangeEnds
  <2>3. QED
    BY <2>1, <2>2
<1>12. QED
  BY <1>8, <1>9, <1>10, <1>11

\* A function of one core changes.
LEMMA FunctionChanges ==
  ASSUME TypeOK, NEW c \in Cores, NEW f, function' = [function EXCEPT ![c] = f]
  PROVE  function'[c] = f /\ \A d \in Cores : d # c => function'[d] = function[d]
BY DEF TypeOK

\* The global start function returns: the local ones are asked for, or the notification.
LEMMA StartReturnsStep ==
  ASSUME IInv, NEW c \in Cores, StartReturns(c)
  PROVE  Course'
<1> USE DEF poolVars, queueVars, eventVars, coreVars, callVars, ruleVars
<1>1. /\ UNCHANGED <<caller, call, life, started, elem, running, removing, removed, status, queuePool,
                     queueList>>
      /\ function[c] = "start" /\ Request("START")
      /\ function'[c] = "none" /\ \A d \in Cores : d # c => function'[d] = function[d]
  BY FunctionChanges DEF StartReturns, EoLocalFuncCall, IInv
<1>2. /\ life = "starting" /\ ~UnderWay("START") /\ ~UnderWay("STOP") /\ caller = None
      /\ \A d \in Cores : function[d] # "stop" /\ function'[d] # "start"
  BY <1>1 DEF Phases, StartPhases, StopPhases, CallTrue, IInv, Course
<1>3. SameLocal
  BY <1>1 DEF SameLocal, Local
<1>4. /\ Owing("START")' = Cores
      /\ \A p : p # "START" => Owing(p)' = Owing(p)
      /\ \A p : p # "START" => (UnderWay(p)' <=> UnderWay(p))
  BY <1>1, <1>3, RequestOwing, OperationFacts DEF IInv
<1>5. Internal' /\ StartBeforeStop'
  BY <1>1, <1>2, <1>3, RequestInternal, OperationFacts DEF IInv, Course
<1>6. CoresApart' /\ CallTrue'
  BY <1>1, <1>2 DEF CoresApart, CallTrue, IInv, Course
<1>7. QueuesPlaced'
  BY <1>1, <1>4, OperationFacts DEF QueuesPlaced, ListHas, IInv, Course
<1>8. Phases'
  BY <1>1, <1>2, <1>4 DEF Phases, StartPhases, StopPhases
<1>9. QuietFollows'
  BY <1>1, <1>2, <1>4 DEF QuietFollows
<1>10. StartedFollows'
  BY <1>1, <1>2, <1>4 DEF StartedFollows, IInv, Course
<1>11. QED
  BY <1>5, <1>6, <1>7, <1>8, <1>9, <1>10 DEF Course

\* A core handles the last part of what an operation asks of it.
LEMMA CountDownStep ==
  ASSUME IInv, NEW c \in Cores, NEW o \in Operations, Leaves(c, o), CountDown(o),
         elem[c] = None, caller # c,
         UNCHANGED <<caller, call, life, elem, running, removing, removed, status, queuePool, queueList>>,
         \/ StopLocal => o \notin {"START", "STOP"} /\ started' = started
         \/ StopLocal /\ o = "START" /\ started' = started \cup {c}
         \/ StopLocal /\ o = "STOP" /\ started' = started \ {c}
  PROVE  Course'
<1>1. /\ Internal' /\ StartBeforeStop'
      /\ c \in Owing(o) /\ Owing(o)' = Owing(o) \ {c}
      /\ \A p : p # o => Owing(p)' = Owing(p)
      /\ \A p : UnderWay(p)' <=> UnderWay(p)
  BY CountDownInternal DEF IInv, Course
<1>2. UnderWay(o)
  BY <1>1 DEF UnderWay
<1>3. \/ function'[c] = "none" \/ function'[c] = function[c]
  BY DEF Leaves, IInv, TypeOK
<1>4. \A d \in Cores : d # c => function'[d] = function[d]
  BY DEF Leaves, IInv, TypeOK
<1>5. \A d \in Cores : /\ function'[d] = "start" <=> function[d] = "start"
                       /\ function'[d] = "stop" <=> function[d] = "stop"
  <2>1. function'[c] # function[c] => Local(function[c]) # {}
    BY DEF Leaves
  <2>2. QED
    BY <1>3, <1>4, <2>1 DEF Local
<1>6. CoresApart'
  BY <1>3, <1>4 DEF CoresApart, IInv, Course
<1>7. QueuesPlaced'
  BY <1>1 DEF QueuesPlaced, ListHas, IInv, Course
<1>8. CallTrue'
  <2>1. caller # None => caller \in Cores /\ function'[caller] = function[caller]
    BY <1>4 DEF IInv, TypeOK
  <2>2. QED
    BY <1>1, <2>1 DEF CallTrue, ListHas, IInv, Course
<1>9. Phases'
  BY <1>1, <1>5 DEF Phases, StartPhases, StopPhases, IInv, Course
<1>10. running[c] = None
  BY DEF CoresApart, IInv, Course
<1>11. QuietFollows'
  <2>1. UnderWay("STOP") => \A d \in Cores \ Owing("STOP")' : running[d] = None
    BY <1>1, <1>10 DEF QuietFollows, IInv, Course
  <2>2. QED
    BY <1>1, <1>5, <2>1 DEF QuietFollows, IInv, Course
<1>12. StartedFollows'
  <2>1. CASE StopLocal => o \notin {"START", "STOP"} /\ started' = started
    <3>1. SUFFICES ASSUME StopLocal PROVE StartedFollows'
      BY DEF StartedFollows
    <3>2. Owing("START")' = Owing("START") /\ Owing("STOP")' = Owing("STOP") /\ started' = started
      BY <1>1, <2>1, <3>1
    <3>3. QED
      BY <1>1, <1>5, <3>2 DEF StartedFollows, IInv, Course
  <2>2. CASE StopLocal /\ o = "START" /\ started' = started \cup {c}
    <3>1. /\ Owing("START")' = Owing("START") \ {c} /\ Owing("STOP")' = Owing("STOP")
          /\ c \in Owing("START")
      BY <1>1, <2>2
    <3>2. /\ life \in {"starting", "stopping"} /\ \A d \in Cores : function[d] # "start"
          /\ \A d \in Cores : function[d] # "stop"
      BY <1>2, <2>2 DEF Phases, StartPhases, StopPhases, IInv, Course
    <3>3. UnderWay("STOP") => c \in Owing("STOP")
      BY <3>1 DEF StartBeforeStop, IInv, Course
    <3>4. QED
      BY <1>1, <1>5, <2>2, <3>1, <3>2, <3>3 DEF StartedFollows, IInv, Course
  <2>3. CASE StopLocal /\ o = "STOP" /\ started' = started \ {c}
    <3>1. /\ Owing("STOP")' = Owing("STOP") \ {c} /\ Owing("START")' = Owing("START")
      BY <1>1, <2>3
    <3>2. life = "stopping"
      BY <1>2, <2>3 DEF Phases, StopPhases, IInv, Course
    <3>3. QED
      BY <1>1, <1>5, <2>3, <3>1, <3>2 DEF StartedFollows, IInv, Course
  <2>4. QED
    BY <2>1, <2>2, <2>3
<1>13. QED
  BY <1>1, <1>6, <1>7, <1>8, <1>9, <1>11, <1>12 DEF Course

\* A core takes an internal event; or its local function returns.
LEMMA HandleStep ==
  ASSUME IInv, NEW c \in Cores, Handle(c)
  PROVE  Course'
<1> USE DEF poolVars, queueVars, eventVars, coreVars, callVars, ruleVars
<1>1. /\ UNCHANGED <<caller, call, life, started, elem, running, removing, removed, status, queuePool,
                     queueList>>
      /\ elem[c] = None /\ function[c] = "none" /\ caller # c
      /\ inbox[c] # <<>> /\ inbox' = [inbox EXCEPT ![c] = Tail(@)]
  BY DEF Handle, AtSchedule
<1>2. PICK o \in Operations : o = Head(inbox[c])
  <2>1. inbox[c] \in Seq(Operations)
    BY DEF IInv, TypeOK
  <2>2. Head(inbox[c]) \in Operations
    BY <1>1, <2>1, TailFacts
  <2>3. QED
    BY <2>2
<1>3. CASE StopLocal /\ o \in {"START", "STOP"}
  <2>1. PICK f \in {"start_local", "stop_local"} :
          /\ function' = [function EXCEPT ![c] = f]
          /\ Local(f) = {o} /\ UNCHANGED <<left, done>>
    BY <1>2, <1>3 DEF Handle, Local
  <2>2. /\ Internal' /\ StartBeforeStop'
        /\ \A p : Owing(p)' = Owing(p) /\ (Over(p)' <=> Over(p)) /\ (UnderWay(p)' <=> UnderWay(p))
    BY <1>1, <1>2, <2>1, LocalInternal DEF IInv, Course
  <2>3. function'[c] = f /\ \A d \in Cores : d # c => function'[d] = function[d]
    BY <2>1, FunctionChanges DEF IInv
  <2>4. CoresApart'
    BY <1>1, <1>3, <2>3 DEF CoresApart, IInv, Course
  <2>5. QueuesPlaced'
    BY <1>1, <2>2 DEF QueuesPlaced, ListHas, IInv, Course
  <2>6. CallTrue'
    <3>1. caller # None => caller \in Cores /\ function'[caller] = function[caller]
      BY <1>1, <2>3 DEF IInv, TypeOK
    <3>2. QED
      BY <1>1, <2>2, <3>1 DEF CallTrue, ListHas, IInv, Course
  <2>7. \A d \in Cores : /\ function'[d] = "start" <=> function[d] = "start"
                         /\ function'[d] = "stop" <=> function[d] = "stop"
    BY <1>1, <2>3
  <2>8. Phases' /\ QuietFollows' /\ StartedFollows'
    BY <1>1, <2>2, <2>7 DEF Phases, StartPhases, StopPhases, QuietFollows, StartedFollows, IInv, Course
  <2>9. QED
    BY <2>2, <2>4, <2>5, <2>6, <2>8 DEF Course
<1>4. CASE ~(StopLocal /\ o \in {"START", "STOP"})
  <2>1. CountDown(o) /\ UNCHANGED function
    BY <1>2, <1>4 DEF Handle
  <2>2. Leaves(c, o)
    BY <1>1, <1>2, <2>1 DEF Leaves, Local
  <2>3. QED
    BY <1>1, <1>4, <2>1, <2>2, CountDownStep
<1>5. QED
  BY <1>3, <1>4

\* A local function returns on a core, and its event is counted.
LEMMA LocalReturnsStep ==
  ASSUME IInv, NEW c \in Cores, LocalReturns(c)
  PROVE  Course'
<1> USE DEF poolVars, queueVars, eventVars, coreVars, callVars, ruleVars
<1>1. /\ UNCHANGED <<caller, call, life, elem, running, removing, removed, status, queuePool,
                     queueList, inbox>>
      /\ function' = [function EXCEPT ![c] = "none"]
      /\ function[c] \in {"start_local", "stop_local"}
  BY DEF LocalReturns
<1>2. elem[c] = None /\ StopLocal /\ caller # c
  BY <1>1, OperationFacts DEF CoresApart, CallTrue, IInv, Course
<1>3. CASE function[c] = "start_local"
  <2>1. CountDown("START") /\ started' = started \cup {c}
    BY <1>3 DEF LocalReturns
  <2>2. Leaves(c, "START")
    BY <1>1, <1>3 DEF Leaves, Local
  <2>3. QED
    BY <1>1, <1>2, <2>1, <2>2, CountDownStep, OperationFacts
<1>4. CASE function[c] = "stop_local"
  <2>1. CountDown("STOP") /\ started' = started \ {c}
    BY <1>4 DEF LocalReturns
  <2>2. Leaves(c, "STOP")
    BY <1>1, <1>4 DEF Leaves, Local
  <2>3. QED
    BY <1>1, <1>2, <2>1, <2>2, CountDownStep, OperationFacts
<1>5. QED
  BY <1>1, <1>3, <1>4

\* The last phase of an operation: it is over, and the application is notified.
LEMMA DoneStep ==
  ASSUME IInv, NEW c \in Cores, Done(c)
  PROVE  Course'
<1> USE DEF poolVars, queueVars, eventVars, coreVars, callVars, ruleVars
<1>1. /\ UNCHANGED <<caller, call, started, elem, running, status, queuePool, queueList, inbox, left>>
      /\ elem[c] = None /\ function[c] = "none" /\ caller # c
      /\ done # <<>> /\ done' = Tail(done)
  BY DEF Done, AtSchedule
<1>2. PICK o \in Operations : o = Head(done)
  BY <1>1, TailFacts DEF IInv, TypeOK
<1>3. SameLocal
  BY <1>1, FunctionChanges DEF Done, SameLocal, Local, IInv
<1>4. /\ Internal' /\ StartBeforeStop'
      /\ Over(o) /\ ~UnderWay(o)' /\ Owing(o) = {}
      /\ \A p : Owing(p)' = Owing(p)
      /\ \A p : p # o => (Over(p)' <=> Over(p)) /\ (UnderWay(p)' <=> UnderWay(p))
      /\ o = "STOP" => ~UnderWay("START")
  BY <1>1, <1>2, <1>3, DoneInternal DEF IInv, Course
<1>5. UnderWay(o)
  BY <1>4 DEF UnderWay
<1>6. \A p : UnderWay(p)' => UnderWay(p)
  BY <1>4, <1>5
<1>7. CASE o = "STOP" /\ StopLocal
  <2>1. /\ UNCHANGED <<life, removing, removed>>
        /\ function'[c] = "stop" /\ \A d \in Cores : d # c => function'[d] = function[d]
    BY <1>2, <1>7, FunctionChanges DEF Done, IInv
  <2>2. /\ life = "stopping" /\ caller = None
        /\ \A d \in Cores : function[d] # "stop" /\ function[d] # "start"
    BY <1>5, <1>7 DEF Phases, StartPhases, StopPhases, IInv, Course
  <2>3. ~UnderWay("START")' /\ ~UnderWay("STOP")'
    BY <1>4, <1>7
  <2>4. \A d \in Cores : running[d] = None
    BY <1>4, <1>5, <1>7 DEF QuietFollows, IInv, Course
  <2>5. started = {}
    BY <1>4, <1>5, <1>7 DEF StartedFollows, IInv, Course
  <2>6. CoresApart' /\ CallTrue'
    BY <1>1, <2>1, <2>2 DEF CoresApart, CallTrue, IInv, Course
  <2>7. QueuesPlaced'
    BY <1>1, <1>6, <2>1 DEF QueuesPlaced, ListHas, IInv, Course
  <2>8. Phases'
    BY <1>1, <2>1, <2>2, <2>3 DEF Phases, StartPhases, StopPhases
  <2>9. QuietFollows'
    BY <1>1, <2>1, <2>3, <2>4 DEF QuietFollows, IInv, Course
  <2>10. StartedFollows'
    BY <1>1, <1>4, <2>1, <2>2, <2>3, <2>5 DEF StartedFollows
  <2>11. QED
    BY <1>4, <2>6, <2>7, <2>8, <2>9, <2>10 DEF Course
<1>8. CASE ~(o = "STOP" /\ StopLocal)
  <2>1. Notified(o) /\ UNCHANGED function
    BY <1>2, <1>8 DEF Done
  <2>2. /\ removing' = removing \ {o} /\ removed' = removed \cup ({o} \cap Queues)
        /\ o \in Queues => o \in removing /\ o \notin removed /\ status[o] = "BIND" /\ ~ListHas(o)
    BY <1>5, <2>1 DEF Notified, QueuesPlaced, IInv, Course
  <2>3. \/ o = "START" /\ life = "starting" /\ life' = "started"
        \/ o = "STOP" /\ ~StopLocal /\ life = "stopping" /\ life' = "stopped"
        \/ o # "STOP" /\ life' = life /\ (o = "START" => life = "stopping")
    BY <1>5, <1>8, <2>1 DEF Notified, Phases, StartPhases, StopPhases, IInv, Course
  <2>4. QueuesPlaced'
    <3>1. life' = "free" => queueList' = <<>>
      BY <1>1, <2>3 DEF QueuesPlaced, IInv, Course
    <3>2. \A q \in Queues : q \notin removing' => ~UnderWay(q)'
      BY <1>4, <1>6, <2>2 DEF QueuesPlaced, IInv, Course
    <3>3. removing' \cap removed' = {}
      BY <2>2 DEF QueuesPlaced, IInv, Course
    <3>4. \A q \in Queues : q \in removing' \cup removed' <=> q \in removing \cup removed
      BY <2>2
    <3>5. QED
      BY <1>1, <3>1, <3>2, <3>3, <3>4 DEF QueuesPlaced, ListHas, IInv, Course
  <2>5. CoresApart'
    BY <1>1, <2>1 DEF CoresApart, IInv, Course
  <2>6. CASE o = "START" /\ life = "starting" /\ life' = "started"
    <3>1. /\ caller = None /\ \A d \in Cores : function[d] # "stop" /\ function[d] # "start"
          /\ ~UnderWay("STOP") /\ ~UnderWay("START")' /\ ~UnderWay("STOP")'
      BY <1>4, <1>5, <1>6, <2>6 DEF Phases, StartPhases, StopPhases, CallTrue, IInv, Course
    <3>2. CallTrue' /\ Phases' /\ QuietFollows'
      BY <1>1, <2>1, <2>6, <3>1 DEF CallTrue, Phases, StartPhases, StopPhases, QuietFollows
    <3>3. StartedFollows'
      BY <1>1, <1>4, <2>1, <2>6, <3>1 DEF StartedFollows, IInv, Course
    <3>4. QED
      BY <1>4, <2>4, <2>5, <3>2, <3>3 DEF Course
  <2>7. CASE o = "STOP" /\ ~StopLocal /\ life = "stopping" /\ life' = "stopped"
    <3>1. /\ caller = None /\ \A d \in Cores : function[d] # "stop" /\ function[d] # "start"
          /\ ~UnderWay("START")' /\ ~UnderWay("STOP")'
      BY <1>4, <1>5, <1>6, <2>7 DEF Phases, StartPhases, StopPhases, IInv, Course
    <3>2. CallTrue' /\ Phases' /\ QuietFollows' /\ StartedFollows'
      BY <1>1, <2>1, <2>7, <3>1 DEF CallTrue, Phases, StartPhases, StopPhases, QuietFollows, StartedFollows
    <3>3. QED
      BY <1>4, <2>4, <2>5, <3>2 DEF Course
  <2>8. CASE o # "STOP" /\ life' = life /\ (o = "START" => life = "stopping")
    <3>1. CallTrue'
      BY <1>1, <1>6, <2>1, <2>8 DEF CallTrue, ListHas, IInv, Course
    <3>2. Phases'
      BY <1>1, <1>6, <2>1, <2>8 DEF Phases, StartPhases, StopPhases, IInv, Course
    <3>3. UnderWay("STOP")' <=> UnderWay("STOP")
      BY <1>4, <2>8
    <3>4. QuietFollows' /\ StartedFollows'
      BY <1>1, <1>4, <2>1, <2>8, <3>3 DEF QuietFollows, StartedFollows, IInv, Course
    <3>5. QED
      BY <1>4, <2>4, <2>5, <3>1, <3>2, <3>4 DEF Course
  <2>9. QED
    BY <2>3, <2>6, <2>7, <2>8
<1>9. QED
  BY <1>7, <1>8

\* The global stop function returns: the application is notified, or the notification is
\* asked for.
LEMMA StopReturnsStep ==
  ASSUME IInv, NEW c \in Cores, StopReturns(c)
  PROVE  Course'
<1> USE DEF poolVars, queueVars, eventVars, coreVars, callVars, ruleVars
<1>1. /\ UNCHANGED <<caller, call, started, elem, running, status, queuePool, queueList>>
      /\ function[c] = "stop"
      /\ function'[c] = "none" /\ \A d \in Cores : d # c => function'[d] = function[d]
  BY FunctionChanges DEF StopReturns, IInv
<1>2. /\ life = "stopping" /\ caller = None /\ ~UnderWay("STOP")
      /\ StopLocal => ~UnderWay("START")
      /\ \A d \in Cores : function'[d] # "stop" /\ function'[d] # "start"
  BY <1>1 DEF Phases, StartPhases, StopPhases, IInv, Course
<1>3. SameLocal
  BY <1>1 DEF SameLocal, Local
<1>4. CoresApart' /\ CallTrue'
  BY <1>1, <1>2 DEF CoresApart, CallTrue, IInv, Course
<1>5. CASE StopLocal
  <2>1. /\ UNCHANGED internalVars
        /\ life' = "stopped" /\ removing' = removing /\ removed' = removed
    BY <1>5, OperationFacts DEF StopReturns, Notified, IInv, TypeOK
  <2>2. Internal' /\ StartBeforeStop'
    BY <1>3, <2>1, SameInternal DEF IInv, Course
  <2>3. \A o : Owing(o)' = Owing(o) /\ (Over(o)' <=> Over(o)) /\ (UnderWay(o)' <=> UnderWay(o))
    BY <1>3, <2>1, SameOwing
  <2>4. QueuesPlaced'
    BY <1>1, <2>1, <2>3 DEF QueuesPlaced, ListHas, IInv, Course
  <2>5. Phases' /\ QuietFollows'
    BY <1>1, <1>2, <1>5, <2>1, <2>3 DEF Phases, StartPhases, StopPhases, QuietFollows
  <2>6. StartedFollows'
    BY <1>1, <1>2, <1>5, <2>1, <2>3 DEF StartedFollows, IInv, Course
  <2>7. QED
    BY <1>4, <2>2, <2>4, <2>5, <2>6 DEF Course
<1>6. CASE ~StopLocal
  <2>1. Request("STOP") /\ UNCHANGED <<life, removing, removed>>
    BY <1>6 DEF StopReturns
  <2>2. /\ Owing("STOP")' = Cores
        /\ \A p : p # "STOP" => (UnderWay(p)' <=> UnderWay(p))
    BY <1>3, <2>1, RequestOwing, OperationFacts DEF IInv
  <2>3. Internal' /\ StartBeforeStop'
    BY <1>2, <1>3, <2>1, RequestInternal, OperationFacts DEF IInv, Course
  <2>4. QueuesPlaced'
    BY <1>1, <2>1, <2>2, OperationFacts DEF QueuesPlaced, ListHas, IInv, Course
  <2>5. Phases'
    BY <1>1, <1>2, <1>6, <2>1, <2>2 DEF Phases, StartPhases, StopPhases
  <2>6. QuietFollows' /\ StartedFollows'
    BY <1>1, <1>2, <1>6, <2>1, <2>2 DEF QuietFollows, StartedFollows, IInv, Course
  <2>7. QED
    BY <1>4, <2>3, <2>4, <2>5, <2>6 DEF Course
<1>7. QED
  BY <1>5, <1>6

-----------------------------------------------------------------------------
(* Theorems on starts and stops *)

\* The invariant holds in the initial state.
LEMMA InitIInv == Init => IInv
<1> SUFFICES ASSUME Init PROVE IInv
  OBVIOUS
<1>1. /\ SetToSeq(Queues \ Static) \in Seq(Queues \ Static)
      /\ \A i, j \in 1..Len(SetToSeq(Queues \ Static)) :
           SetToSeq(Queues \ Static)[i] = SetToSeq(Queues \ Static)[j] => i = j
  BY ConstantsAssumption, FS_Subset, PoolFacts
<1>2. TypeOK
  BY <1>1, OperationFacts DEF Init, TypeOK, Statuses, Functions, Lives, NoCall
<1>3. \A o : Owing(o) = {} /\ ~Over(o) /\ ~UnderWay(o)
  BY DEF Init, Owing, Over, UnderWay, Held, Local
<1>4. Internal /\ StartBeforeStop
  <2>1. Cardinality({}) = 0
    BY FS_EmptySet
  <2>2. \A c \in Cores : inbox[c] = <<>> /\ Local(function[c]) = {} /\ function[c] # "stop_local"
    BY DEF Init, Local
  <2>3. LeftCounts
    BY <1>3, <2>1 DEF Init, LeftCounts
  <2>4. OneEvent /\ DoneOnce /\ DoneIsLast
    BY <1>3, <2>2 DEF Init, OneEvent, DoneOnce, DoneIsLast
  <2>5. StartBeforeStop
    BY <1>3, <2>2 DEF Init, StartBeforeStop
  <2>6. QED
    BY <2>3, <2>4, <2>5 DEF Internal
<1>5. QueuesPlaced
  <2>1. \A i \in 1..Len(queuePool) : status[queuePool[i]] = "INVALID"
    BY <1>1 DEF Init
  <2>2. /\ queueList = <<>> /\ removing = {} /\ removed = {}
        /\ \A q \in Queues : ~ListHas(q) /\ status[q] = "INVALID"
    BY DEF Init, ListHas
  <2>3. \A i, j \in 1..Len(queuePool) : queuePool[i] = queuePool[j] => i = j
    BY <1>1 DEF Init
  <2>4. \A i, j \in 1..Len(queueList) : queueList[i] = queueList[j] => i = j
    BY <2>2
  <2>5. QED
    BY <1>3, <2>1, <2>2, <2>3, <2>4 DEF QueuesPlaced
<1>6. QED
  BY <1>2, <1>3, <1>4, <1>5 DEF Init, IInv, Course, CoresApart, CallTrue, Phases, StartPhases, StopPhases,
     QuietFollows, StartedFollows

\* Every step keeps the invariant.
LEMMA StepIInv == IInv /\ [Next]_vars => IInv'
<1> SUFFICES ASSUME IInv, [Next]_vars PROVE IInv'
  OBVIOUS
<1>1. CASE UNCHANGED vars
  <2>1. UNCHANGED <<internalVars, function, caller, life, started, elem, running>>
    BY <1>1 DEF vars, coreVars, callVars, ruleVars
  <2>2. /\ CoresApart' /\ Internal' /\ StartBeforeStop' /\ Phases' /\ StartedFollows'
        /\ \A o : Owing(o)' = Owing(o) /\ (Over(o)' <=> Over(o)) /\ (UnderWay(o)' <=> UnderWay(o))
    BY <2>1, SamePhases
  <2>3. TypeOK'
    BY <1>1 DEF IInv, TypeOK, vars, poolVars, queueVars, eventVars, internalVars, coreVars, callVars, ruleVars
  <2>4. QueuesPlaced' /\ CallTrue' /\ QuietFollows'
    BY <1>1, <2>2 DEF IInv, Course, QueuesPlaced, CallTrue, QuietFollows, ListHas, vars, poolVars, queueVars,
       coreVars, callVars, ruleVars
  <2>5. QED
    BY <2>2, <2>3, <2>4 DEF IInv, Course
<1>2. ASSUME NEW c \in Cores, AppStep(c)
      PROVE  IInv'
  <2>1. CASE CreateQueue(c) /\ \E q \in Queues : TRUE
    BY <2>1, QueueTypes, QueueStep DEF IInv
  <2>2. CASE CreateQueue(c)
    <3>1. \E q \in Queues : TRUE
      BY <2>2 DEF CreateQueue
    <3>2. QED
      BY <2>1, <2>2, <3>1
  <2>3. CASE EoCreate(c) \/ EoDelete(c) \/ EoStart(c)
    BY <2>3, EoTypes, EoStep DEF IInv
  <2>4. CASE EoStop(c) \/ EnableAll(c) \/ DisableAll(c)
    BY <2>4, EoTypes, CallStep0 DEF IInv
  <2>5. ASSUME NEW q \in Queues,
               CreateStaticQueue(c, q) \/ DeleteQueue(c, q) \/ AddQueue(c, q) \/ EnableQueue(c, q)
        PROVE  IInv'
    BY <2>5, QueueTypes, QueueStep DEF IInv
  <2>6. ASSUME NEW q \in Queues, RemoveQueue(c, q)
        PROVE  IInv'
    BY <2>6, QueueTypes, RemoveStep DEF IInv
  <2>7. ASSUME NEW q \in Queues, NEW e \in Events, Send(c, q, e)
        PROVE  IInv'
    BY <2>7, EventsTypes, SchedulerStep DEF IInv
  <2>8. QED
    BY <1>2, <2>2, <2>3, <2>4, <2>5, <2>6, <2>7 DEF AppStep
<1>3. ASSUME NEW c \in Cores, Returns(c)
      PROVE  IInv'
  <2>1. TypeOK'
    BY <1>3, InternalTypes DEF IInv
  <2>2. Course'
    BY <1>3, StartReturnsStep, EoStep, LocalReturnsStep, StopReturnsStep, SchedulerStep DEF Returns
  <2>3. QED
    BY <2>1, <2>2 DEF IInv
<1>4. ASSUME NEW c \in Cores, CallStep(c)
      PROVE  IInv'
  BY <1>4, EoTypes, NextStep, EndStep DEF IInv, CallStep
<1>5. ASSUME NEW c \in Cores, DispatchStep(c) \/ Take(c)
      PROVE  IInv'
  BY <1>5, EventsTypes, SchedulerStep DEF IInv
<1>6. ASSUME NEW c \in Cores, Handle(c) \/ Done(c)
      PROVE  IInv'
  BY <1>6, InternalTypes, HandleStep, DoneStep DEF IInv
<1>7. QED
  BY <1>1, <1>2, <1>3, <1>4, <1>5, <1>6 DEF Next

\* The requests to the cores, their group counts and 'done' events fit together in every
\* state, however starts, stops, disables and removals of queues interleave.
THEOREM InvariantHolds == Spec => []IInv
BY InitIInv, StepIInv, PTL DEF Spec

\* i_event__em_internal_done calls the EO's global stop function when no core is in a
\* receive function or a local function of the EO any more, and none gets there until it
\* has returned; if the EO has local functions.
THEOREM StopStaysQuiet ==
  ASSUME StopLocal
  PROVE  Spec => []StopIsQuiet
<1>1. StopLocal
  OBVIOUS
<1>2. IInv => StopIsQuiet
  <2> SUFFICES ASSUME IInv, NEW d \in Cores, function[d] = "stop", NEW c \in Cores
               PROVE  running[c] = None /\ function[c] \in {"none", "stop"}
    BY DEF StopIsQuiet
  <2>1. running[c] = None
    BY <1>1 DEF QuietFollows, IInv, Course
  <2>2. ~UnderWay("STOP") /\ ~UnderWay("START") /\ life = "stopping"
    BY <1>1 DEF Phases, StopPhases, IInv, Course
  <2>3. function[c] # "start"
    BY <2>2 DEF Phases, StartPhases, IInv, Course
  <2>4. function[c] # "start_local" /\ function[c] # "stop_local"
    BY <2>2 DEF UnderWay, Owing, Local
  <2>5. function[c] \in Functions
    BY DEF IInv, TypeOK
  <2>6. QED
    BY <2>1, <2>3, <2>4, <2>5 DEF Functions
<1>3. QED
  BY <1>2, InvariantHolds, PTL

\* The notification of a start comes after the local start function on every core, that of
\* a stop after the local stop functions and the global one, whichever way they overlap.
THEOREM NotificationsStayInOrder == Spec => []NotifiedInOrder
<1>1. IInv => NotifiedInOrder
  <2> SUFFICES ASSUME IInv, StopLocal
               PROVE  /\ life = "started" => started = Cores
                      /\ life = "stopped" => started = {} /\ \A c \in Cores : function[c] = "none"
    BY DEF NotifiedInOrder
  <2>1. ASSUME life = "started" PROVE started = Cores
    <3>1. ~UnderWay("START") /\ \A c \in Cores : function[c] # "start"
      BY <2>1 DEF Phases, StartPhases, IInv, Course
    <3>2. QED
      BY <2>1, <3>1 DEF UnderWay, StartedFollows, IInv, Course
  <2>2. ASSUME life = "stopped", NEW c \in Cores PROVE started = {} /\ function[c] = "none"
    <3>1. ~UnderWay("START") /\ ~UnderWay("STOP") /\ function[c] # "start" /\ function[c] # "stop"
      BY <2>2 DEF Phases, StartPhases, StopPhases, IInv, Course
    <3>2. function[c] # "start_local" /\ function[c] # "stop_local"
      BY <3>1 DEF UnderWay, Owing, Local
    <3>3. function[c] \in Functions
      BY DEF IInv, TypeOK
    <3>4. QED
      BY <2>2, <3>1, <3>2, <3>3 DEF Functions, StartedFollows, IInv, Course
  <2>3. QED
    BY <2>1, <2>2, OperationFacts
<1>2. QED
  BY <1>1, InvariantHolds, PTL

-----------------------------------------------------------------------------
(* Elements, rings and events: the steps *)

\* What is said of rings, elements and events depends on them alone.
LEMMA SameEvents ==
  ASSUME EInv, UNCHANGED <<ring, freeRings, eventVars, elem, burst, taken>>,
         \A q \in Queues : status'[q] = "INVALID" <=> status[q] = "INVALID",
         \A c \in Cores : running'[c] # None => running[c] # None \/ burst[c] # <<>>
  PROVE  EventTypes' /\ RingsApart' /\ OneElement' /\ CountsTrue' /\ BurstsHeld' /\ EventsApart'
<1> USE DEF eventVars
<1>1. EventTypes' /\ BurstsHeld'
  BY DEF EInv, EventTypes, BurstsHeld
<1>2. \A q \in Queues : Exists(q)' <=> Exists(q)
  BY DEF Exists
<1>3. RingsApart'
  BY <1>2 DEF EInv, RingsApart
<1>4. OneElement' /\ CountsTrue'
  BY <1>2 DEF EInv, OneElement, CountsTrue, InSchedQueue
<1>5. EventsApart'
  BY DEF EInv, EventsApart, InRing, InBurst
<1>6. QED
  BY <1>1, <1>3, <1>4, <1>5

\* A core that handles an internal event holds no element.
LEMMA SameRemoved ==
  ASSUME RemovedIsIdle, UNCHANGED <<ring, content, schedQueue, elem>>,
         removing' \cup removed' \subseteq removing \cup removed,
         \A q \in Queues, c \in Cores : elem[c] = q /\ c \in Owing(q) => c \in Owing(q)',
         removing \cup removed \subseteq Queues
  PROVE  RemovedIsIdle'
BY DEF RemovedIsIdle, InSchedQueue

\* The EO and the calls that go through its queues.
LEMMA EoEvents ==
  ASSUME IInv, EInv, NEW c \in Cores,
         \/ EoCreate(c) \/ EoDelete(c) \/ EoStart(c) \/ EoStop(c) \/ EnableAll(c) \/ DisableAll(c)
         \/ CallStep(c) \/ StartReturns(c) \/ StartFails(c) \/ StopReturns(c)
  PROVE  EInv'
<1> USE DEF poolVars, queueVars, eventVars, coreVars, callVars, ruleVars
<1>1. /\ UNCHANGED <<ring, freeRings, eventVars, elem, burst, taken, running>>
      /\ removing' \cup removed' \subseteq removing \cup removed
  <2>1. CASE \/ EoCreate(c) \/ EoDelete(c) \/ EoStart(c) \/ EoStop(c) \/ EnableAll(c) \/ DisableAll(c)
             \/ CallStep(c) \/ StartReturns(c) \/ StartFails(c)
    BY <2>1 DEF EoCreate, EoDelete, EoStart, EoStop, EnableAll, DisableAll, ChangeAll, CallStep, ChangeNext,
       ChangeEnds, StartReturns, StartFails
  <2>2. CASE StopReturns(c)
    BY <2>2, OperationFacts DEF StopReturns, Notified
  <2>3. QED
    BY <2>1, <2>2
<1>2. \A q \in Queues : status'[q] = "INVALID" <=> status[q] = "INVALID"
  <2>1. CASE ChangeNext(c)
    <3>1. caller = c /\ call.rest # <<>> /\ call.rest \in Seq(Queues) /\ c # None
      BY <2>1, OperationFacts DEF ChangeNext, IInv, TypeOK
    <3>2. /\ Head(call.rest) = call.rest[1] /\ 1 \in 1..Len(call.rest) /\ Head(call.rest) \in Queues
      BY <3>1, TailFacts
    <3>3. call.goal \in {"BIND", "READY"} /\ ListHas(Head(call.rest))
      BY <3>1, <3>2 DEF CallTrue, IInv, Course
    <3>4. status[Head(call.rest)] \in {"BIND", "READY"}
      BY <3>2, <3>3 DEF QueuesPlaced, IInv, Course
    <3>5. QED
      BY <2>1, <3>2, <3>3, <3>4 DEF ChangeNext, ChangeState, IInv, TypeOK
  <2>2. CASE UNCHANGED status
    BY <2>2
  <2>3. QED
    BY <2>1, <2>2 DEF EoCreate, EoDelete, EoStart, EoStop, EnableAll, DisableAll, ChangeAll, CallStep,
       ChangeEnds, StartReturns, StartFails, StopReturns
<1>3. \A q \in Queues : Owing(q)' = Owing(q)
  <2>1. SameLocal
    <3>1. CASE EoStart(c) \/ StartReturns(c) \/ StartFails(c) \/ StopReturns(c)
      <4>1. \E f \in Functions : function' = [function EXCEPT ![c] = f] /\ Local(f) = {}
        BY <3>1 DEF EoStart, StartReturns, StartFails, StopReturns, Local, Functions
      <4>2. Local(function[c]) = {}
        BY <3>1 DEF EoStart, StartReturns, StartFails, StopReturns, Local
      <4>3. QED
        BY <4>1, <4>2, FunctionChanges DEF SameLocal, IInv
    <3>2. CASE ChangeEnds(c)
      <4>1. caller = c /\ caller # None
        BY <3>2, OperationFacts DEF ChangeEnds
      <4>2. Local(function[c]) = {}
        BY <4>1 DEF CallTrue, Local, IInv, Course
      <4>3. function' = function \/ function' = [function EXCEPT ![c] = "stop"]
        BY <3>2 DEF ChangeEnds
      <4>4. Local("stop") = {}
        BY DEF Local
      <4>5. QED
        BY <4>2, <4>3, <4>4, FunctionChanges DEF SameLocal, IInv
    <3>3. CASE UNCHANGED function
      BY <3>3 DEF SameLocal
    <3>4. QED
      BY <3>1, <3>2, <3>3 DEF EoCreate, EoDelete, EoStop, EnableAll, DisableAll, ChangeAll, CallStep, ChangeNext
  <2>2. ASSUME NEW o \in Operations \ Queues, Request(o)
        PROVE  \A q \in Queues : Owing(q)' = Owing(q)
    BY <2>1, <2>2, RequestOwing DEF IInv
  <2>3. CASE UNCHANGED internalVars
    BY <2>1, <2>3, SameOwing
  <2>4. CASE ChangeEnds(c)
    <3>1. caller = c /\ caller # None
      BY <2>4, OperationFacts DEF ChangeEnds
    <3>2. call.op \in {"START", "STOP", "DISABLE"}
      BY <3>1 DEF CallTrue, IInv, Course
    <3>3. call.op \in Operations \ Queues /\ "STOP" \in Operations \ Queues
      BY <3>2, OperationFacts
    <3>4. UNCHANGED internalVars \/ Request(call.op) \/ Request("STOP")
      BY <2>4 DEF ChangeEnds, EoLocalFuncCall
    <3>5. QED
      BY <2>2, <2>3, <3>3, <3>4
  <2>5. "START" \in Operations \ Queues /\ "STOP" \in Operations \ Queues
    BY OperationFacts
  <2>6. CASE StartReturns(c) \/ StopReturns(c)
    <3>1. UNCHANGED internalVars \/ Request("START") \/ Request("STOP")
      BY <2>6 DEF StartReturns, StopReturns, EoLocalFuncCall
    <3>2. QED
      BY <2>2, <2>3, <2>5, <3>1
  <2>7. QED
    BY <2>3, <2>4, <2>6 DEF EoCreate, EoDelete, EoStart, EoStop, EnableAll, DisableAll, ChangeAll, CallStep,
       ChangeNext, StartFails, internalVars
<1>4. EventTypes' /\ RingsApart' /\ OneElement' /\ CountsTrue' /\ BurstsHeld' /\ EventsApart'
  BY <1>1, <1>2, SameEvents
<1>5. RemovedIsIdle'
  BY <1>1, <1>3, SameRemoved DEF EInv, IInv, TypeOK
<1>6. QED
  BY <1>4, <1>5 DEF EInv

\* Internal events.
LEMMA InternalEvents ==
  ASSUME IInv, EInv, NEW c \in Cores, Handle(c) \/ LocalReturns(c) \/ Done(c)
  PROVE  EInv'
<1> USE DEF poolVars, queueVars, eventVars, coreVars, callVars, ruleVars
<1>1. UNCHANGED <<ring, freeRings, eventVars, elem, burst, taken, running, status>>
  BY DEF Handle, LocalReturns, Done
<1>2. EventTypes' /\ RingsApart' /\ OneElement' /\ CountsTrue' /\ BurstsHeld' /\ EventsApart'
  BY <1>1, SameEvents
<1>3. CASE Handle(c)
  <2>1. /\ inbox[c] \in Seq(Operations) /\ inbox[c] # <<>> /\ elem[c] = None /\ function[c] = "none"
        /\ inbox' = [inbox EXCEPT ![c] = Tail(@)]
    BY <1>3 DEF Handle, AtSchedule, IInv, TypeOK
  <2>2. PICK o \in Operations : o = Head(inbox[c])
    BY <2>1, TailFacts
  <2>3. \A q \in Queues, d \in Cores : elem[d] = q /\ d \in Owing(q) => d \in Owing(q)'
    <3>1. CASE StopLocal /\ o \in {"START", "STOP"}
      <4>1. PICK f \in {"start_local", "stop_local"} :
              /\ function' = [function EXCEPT ![c] = f]
              /\ Local(f) = {o} /\ UNCHANGED <<left, done>>
        BY <1>3, <2>2, <3>1 DEF Handle, Local
      <4>2. \A p : Owing(p)' = Owing(p)
        BY <2>1, <2>2, <4>1, LocalInternal DEF IInv, Course
      <4>3. QED
        BY <4>2
    <3>2. CASE ~(StopLocal /\ o \in {"START", "STOP"})
      <4>1. UNCHANGED function
        BY <1>3, <2>2, <3>2 DEF Handle
      <4>2. Leaves(c, o)
        BY <2>1, <2>2, <4>1 DEF Leaves, Local
      <4>3. Owing(o)' = Owing(o) \ {c} /\ \A p : p # o => Owing(p)' = Owing(p)
        BY <4>2, LeavesOwing DEF IInv, Course, Internal
      <4>4. QED
        BY <2>1, <4>3, OperationFacts
    <3>3. QED
      BY <3>1, <3>2
  <2>4. RemovedIsIdle'
    BY <1>1, <1>3, <2>3, SameRemoved DEF Handle, EInv, IInv, TypeOK
  <2>5. QED
    BY <1>2, <2>4 DEF EInv
<1>4. CASE LocalReturns(c)
  <2>1. \E o \in {"START", "STOP"} : Leaves(c, o)
    BY <1>4 DEF LocalReturns, Leaves, Local
  <2>2. \A q \in Queues : Owing(q)' = Owing(q)
    BY <2>1, LeavesOwing, OperationFacts DEF IInv, Course, Internal
  <2>3. RemovedIsIdle'
    BY <1>1, <1>4, <2>2, SameRemoved DEF LocalReturns, EInv, IInv, TypeOK
  <2>4. QED
    BY <1>2, <2>3 DEF EInv
<1>5. CASE Done(c)
  <2>1. SameLocal /\ UNCHANGED inbox
    <3>1. function[c] = "none" /\ (function' = function \/ function' = [function EXCEPT ![c] = "stop"])
      BY <1>5 DEF Done, AtSchedule
    <3>2. Local("stop") = {} /\ Local("none") = {}
      BY DEF Local
    <3>3. QED
      BY <1>5, <3>1, <3>2, FunctionChanges DEF Done, SameLocal, IInv
  <2>2. \A p : Owing(p)' = Owing(p)
    BY <2>1 DEF Owing, Held, SameLocal
  <2>3. PICK o \in Operations : o = Head(done)
    BY <1>5, TailFacts DEF Done, IInv, TypeOK
  <2>4. o \in Queues => o \in removing
    <3>1. done # <<>> /\ done \in Seq(Operations)
      BY <1>5 DEF Done, IInv, TypeOK
    <3>2. Over(o)
      BY <2>3, <3>1, TailFacts DEF Over
    <3>3. QED
      BY <3>2 DEF UnderWay, QueuesPlaced, IInv, Course
  <2>5. removing' \cup removed' \subseteq removing \cup removed
    BY <1>5, <2>3, <2>4 DEF Done, Notified
  <2>6. RemovedIsIdle'
    BY <1>1, <2>2, <2>5, SameRemoved DEF EInv, IInv, TypeOK
  <2>7. QED
    BY <1>2, <2>6 DEF EInv
<1>6. QED
  BY <1>3, <1>4, <1>5

\* A queue that does not exist has no element, and one that exists has one place.
LEMMA NoElement ==
  ASSUME OneElement, NEW q \in Queues, ~Exists(q)
  PROVE  ~InSchedQueue(q) /\ \A c \in Cores : elem[c] # q
BY DEF OneElement

\* An empty sequence.
LEMMA EmptyMembers ==
  IsInjective(<<>>) /\ \A x : ~Contains(<<>>, x)
BY DEF IsInjective, Contains

\* A ring is emptied: its events are free again.
LEMMA RingEmptied ==
  ASSUME EventTypes, EventsApart, NEW r \in 1..Len(content),
         content' = [content EXCEPT ![r] = <<>>], free' = free \cup ToSet(content[r]), burst' = burst
  PROVE  /\ EventsApart' /\ free' \in SUBSET Events
         /\ content' \in Seq(Seq(Events)) /\ Len(content') = Len(content)
         /\ content'[r] = <<>> /\ \A s \in 1..Len(content) : s # r => content'[s] = content[s]
<1>1. content \in Seq(Seq(Events)) /\ <<>> \in Seq(Events)
  BY DEF EventTypes
<1>2. /\ content' \in Seq(Seq(Events)) /\ Len(content') = Len(content)
      /\ content'[r] = <<>> /\ \A s \in 1..Len(content) : s # r => content'[s] = content[s]
  BY <1>1
<1>3. \A e : e \in ToSet(content[r]) <=> InRing(r, e)
  BY <1>1 DEF ToSet, InRing, Contains
<1>4. \A e : InRing(r, e) => e \in Events
  BY <1>1 DEF InRing, Contains
<1>5. \A e : /\ ~InRing(r, e)'
             /\ \A s \in 1..Len(content) : s # r => (InRing(s, e)' <=> InRing(s, e))
             /\ \A c \in Cores : InBurst(c, e)' <=> InBurst(c, e)
  BY <1>2, EmptyMembers DEF InRing, InBurst
<1>6. \A e \in Events : e \in free' <=> /\ \A s \in 1..Len(content') : ~InRing(s, e)'
                                        /\ \A c \in Cores : ~InBurst(c, e)'
  <2> SUFFICES ASSUME NEW e \in Events
               PROVE  e \in free' <=> /\ \A s \in 1..Len(content') : ~InRing(s, e)'
                                      /\ \A c \in Cores : ~InBurst(c, e)'
    OBVIOUS
  <2>1. e \in free <=> /\ \A s \in 1..Len(content) : ~InRing(s, e)
                       /\ \A c \in Cores : ~InBurst(c, e)
    BY DEF EventsApart
  <2>2. \A c \in Cores : ~(InRing(r, e) /\ InBurst(c, e))
    BY DEF EventsApart
  <2>3. \A s \in 1..Len(content) : InRing(r, e) /\ InRing(s, e) => s = r
    BY DEF EventsApart
  <2>4. e \in free' <=> e \in free \/ InRing(r, e)
    BY <1>3
  <2>5. 1..Len(content') = 1..Len(content)
    BY <1>2
  <2>6. CASE InRing(r, e)
    BY <1>5, <2>2, <2>3, <2>4, <2>5, <2>6
  <2>7. CASE ~InRing(r, e)
    BY <1>5, <2>1, <2>4, <2>5, <2>7
  <2>8. QED
    BY <2>6, <2>7
<1>7. \A s \in 1..Len(content') : IsInjective(content'[s])
  BY <1>2, EmptyMembers DEF EventsApart
<1>8. \A e \in Events :
        /\ \A s, t \in 1..Len(content') : InRing(s, e)' /\ InRing(t, e)' => s = t
        /\ \A c, d \in Cores : InBurst(c, e)' /\ InBurst(d, e)' => c = d
        /\ \A s \in 1..Len(content'), c \in Cores : ~(InRing(s, e)' /\ InBurst(c, e)')
  <2>1. \A e \in Events : /\ \A s \in 1..Len(content') : InRing(s, e)' => s \in 1..Len(content) /\ InRing(s, e)
                         /\ \A c \in Cores : InBurst(c, e)' => InBurst(c, e)
    BY <1>2, <1>5
  <2>2. QED
    BY <2>1 DEF EventsApart
<1>9. EventsApart'
  BY <1>6, <1>7, <1>8 DEF EventsApart
<1>10. QED
  BY <1>2, <1>3, <1>4, <1>9 DEF EventTypes

\* A new ring is empty.
LEMMA RingAdded ==
  ASSUME EventTypes, EventsApart, content' = Append(content, <<>>), free' = free, burst' = burst
  PROVE  /\ EventsApart' /\ Len(content) \in Nat
         /\ content' \in Seq(Seq(Events)) /\ Len(content') = Len(content) + 1
         /\ content'[Len(content) + 1] = <<>>
         /\ \A s \in 1..Len(content) : content'[s] = content[s]
<1>1. content \in Seq(Seq(Events)) /\ <<>> \in Seq(Events)
  BY DEF EventTypes
<1>2. /\ content' \in Seq(Seq(Events)) /\ Len(content') = Len(content) + 1 /\ Len(content) \in Nat
      /\ content'[Len(content) + 1] = <<>>
      /\ \A s \in 1..Len(content) : content'[s] = content[s]
  BY <1>1, AppendFacts
<1>3. PICK n : n = Len(content) + 1
  OBVIOUS
<1>4. /\ \A s \in 1..Len(content') : s \in 1..Len(content) \/ s = n
      /\ \A s \in 1..Len(content) : s \in 1..Len(content')
      /\ content'[n] = <<>>
  BY <1>2, <1>3
<1>6. \A e : ~InRing(n, e)'
  BY <1>4, EmptyMembers DEF InRing
<1>7. \A e : \A s \in 1..Len(content) : InRing(s, e)' <=> InRing(s, e)
  BY <1>2 DEF InRing
<1>8. \A e : \A c \in Cores : InBurst(c, e)' <=> InBurst(c, e)
  BY DEF InBurst
<1>9. \A s \in 1..Len(content') : IsInjective(content'[s])
  BY <1>2, <1>4, EmptyMembers DEF EventsApart
<1>10. \A e \in Events : e \in free' <=> /\ \A s \in 1..Len(content') : ~InRing(s, e)'
                                         /\ \A c \in Cores : ~InBurst(c, e)'
  BY <1>4, <1>6, <1>7, <1>8 DEF EventsApart
<1>11. \A e \in Events :
        /\ \A s, t \in 1..Len(content') : InRing(s, e)' /\ InRing(t, e)' => s = t
        /\ \A c, d \in Cores : InBurst(c, e)' /\ InBurst(d, e)' => c = d
        /\ \A s \in 1..Len(content'), c \in Cores : ~(InRing(s, e)' /\ InBurst(c, e)')
  BY <1>4, <1>6, <1>7, <1>8 DEF EventsApart
<1>12. EventsApart'
  BY <1>9, <1>10, <1>11 DEF EventsApart
<1>13. QED
  BY <1>2, <1>12

\* A queue is created: it gets a ring of its own, and has no element and no event.
LEMMA InitQueueEvents ==
  ASSUME IInv, EInv, NEW q \in Queues, status[q] = "INVALID", InitQueue(q),
         UNCHANGED <<schedQueue, elem, burst, taken, running, removing, removed, internalVars, function>>
  PROVE  EInv'
<1>1. ~InSchedQueue(q) /\ \A c \in Cores : elem[c] # q
  BY NoElement DEF EInv, Exists
<1>2. /\ Exists(q)' /\ ~Exists(q) /\ \A p \in Queues : p # q => (Exists(p)' <=> Exists(p))
      /\ eventCount'[q] = 0 /\ schedCount'[q] = 0
      /\ \A p \in Queues : p # q => eventCount'[p] = eventCount[p] /\ schedCount'[p] = schedCount[p]
  BY DEF InitQueue, Exists, IInv, TypeOK, EInv, EventTypes
<1>3. /\ eventCount' \in [Queues -> Nat] /\ schedCount' \in [Queues -> {0, 1}]
      /\ burst' \in [Cores -> Seq(Events)] /\ taken' \in [Cores -> Nat]
  BY DEF InitQueue, EInv, EventTypes
<1>4. PICK r \in Nat :
        /\ r \in 1..Len(content') /\ content'[r] = <<>>
        /\ ring' = [ring EXCEPT ![q] = r]
        /\ content' \in Seq(Seq(Events)) /\ free' \in SUBSET Events
        /\ \A s \in 1..Len(content) : s \in 1..Len(content') /\ (s # r => content'[s] = content[s])
        /\ \A p \in Queues : Exists(p) => ring[p] # r
        /\ freeRings' \in Seq(Nat)
        /\ \A s : Contains(freeRings', s) => s # r /\ s \in 1..Len(content') /\ Contains(freeRings, s)
        /\ IsInjective(freeRings')
        /\ EventsApart'
  <2>0. freeRings \in Seq(Nat) /\ Len(content) \in Nat
    BY DEF EInv, EventTypes
  <2>1. CASE freeRings # <<>>
    <3>1. PICK r : r = Head(freeRings)
      OBVIOUS
    <3>2. /\ r \in Nat /\ freeRings' \in Seq(Nat)
          /\ \A x : Contains(freeRings, x) <=> x = r \/ Contains(freeRings', x)
          /\ IsInjective(freeRings') /\ ~Contains(freeRings', r)
      <4>1. PICK t : t = Tail(freeRings)
        OBVIOUS
      <4>2. /\ r \in Nat /\ t \in Seq(Nat)
            /\ \A x : Contains(freeRings, x) <=> x = r \/ Contains(t, x)
            /\ IsInjective(t) /\ ~Contains(t, r)
        BY <2>0, <2>1, <3>1, <4>1, TailFacts, TailMembers DEF EInv, RingsApart
      <4>3. freeRings' = t
        BY <2>1, <4>1 DEF InitQueue, CreateRing
      <4>4. QED
        BY <4>2, <4>3
    <3>3. /\ ring' = [ring EXCEPT ![q] = r] /\ freeRings' = Tail(freeRings)
          /\ content' = [content EXCEPT ![r] = <<>>] /\ free' = free \cup ToSet(content[r])
      BY <2>1, <3>1 DEF InitQueue, CreateRing
    <3>4. r \in 1..Len(content) /\ \A p \in Queues : Exists(p) => ring[p] # r
      BY <3>2 DEF EInv, RingsApart
    <3>5. /\ EventsApart' /\ free' \in SUBSET Events
          /\ content' \in Seq(Seq(Events)) /\ Len(content') = Len(content)
          /\ content'[r] = <<>> /\ \A s \in 1..Len(content) : s # r => content'[s] = content[s]
      BY <3>3, <3>4, RingEmptied DEF EInv
    <3>6. \A s : Contains(freeRings', s) => s # r /\ s \in 1..Len(content') /\ Contains(freeRings, s)
      BY <3>2, <3>5 DEF EInv, RingsApart
    <3>7. /\ r \in 1..Len(content')
          /\ \A s \in 1..Len(content) : s \in 1..Len(content') /\ (s # r => content'[s] = content[s])
      BY <3>4, <3>5
    <3>8. QED
      BY <3>2, <3>3, <3>4, <3>5, <3>6, <3>7
  <2>2. CASE freeRings = <<>>
    <3>1. PICK r : r = Len(content) + 1
      OBVIOUS
    <3>2. /\ ring' = [ring EXCEPT ![q] = r] /\ freeRings' = <<>> /\ free' = free
          /\ content' = Append(content, <<>>)
      BY <2>2, <3>1 DEF InitQueue, CreateRing
    <3>3. /\ EventsApart'
          /\ content' \in Seq(Seq(Events)) /\ Len(content') = Len(content) + 1
          /\ content'[Len(content) + 1] = <<>>
          /\ \A s \in 1..Len(content) : content'[s] = content[s]
      BY <3>2, RingAdded DEF EInv
    <3>4. \A p \in Queues : Exists(p) => ring[p] # r
      BY <2>0, <3>1 DEF EInv, RingsApart
    <3>5. r \in Nat /\ r \in 1..Len(content') /\ content'[r] = <<>>
      BY <2>0, <3>1, <3>3
    <3>6. \A s \in 1..Len(content) : s \in 1..Len(content')
      BY <2>0, <3>3
    <3>7. free' \in SUBSET Events /\ IsInjective(freeRings') /\ \A s : ~Contains(freeRings', s)
      BY <3>2, EmptyMembers DEF EInv, EventTypes
    <3>8. QED
      BY <2>0, <2>2, <3>2, <3>3, <3>4, <3>5, <3>6, <3>7
  <2>3. QED
    BY <2>1, <2>2
<1>5. ring'[q] = r /\ ring' \in [Queues -> Nat] /\ \A p \in Queues : p # q => ring'[p] = ring[p]
  BY <1>4 DEF EInv, EventTypes
<1>6. EventTypes'
  BY <1>3, <1>4, <1>5 DEF EventTypes
<1>7. \A p \in Queues : Exists(p) =>
        /\ ring[p] \in 1..Len(content) /\ ring[p] # r /\ p # q
        /\ content'[ring'[p]] = content[ring[p]] /\ ring'[p] = ring[p]
  BY <1>2, <1>4, <1>5 DEF EInv, RingsApart
<1>8. RingsApart'
  <2>1. ASSUME NEW p \in Queues, Exists(p)'
        PROVE  /\ ring'[p] \in 1..Len(content')
               /\ \A o \in Queues : Exists(o)' /\ ring'[o] = ring'[p] => o = p
               /\ ~Contains(freeRings', ring'[p])
    <3>1. CASE p = q
      BY <1>2, <1>4, <1>5, <1>7, <3>1
    <3>2. CASE p # q
      <4>1. Exists(p) /\ ring'[p] \in 1..Len(content')
        BY <1>2, <1>4, <1>7, <2>1, <3>2
      <4>2. \A o \in Queues : Exists(o)' /\ ring'[o] = ring'[p] => o = p
        BY <1>2, <1>5, <1>7, <4>1 DEF EInv, RingsApart
      <4>3. ~Contains(freeRings', ring'[p])
        BY <1>4, <1>7, <4>1 DEF EInv, RingsApart
      <4>4. QED
        BY <4>1, <4>2, <4>3
    <3>3. QED
      BY <3>1, <3>2
  <2>2. QED
    BY <1>4, <2>1 DEF RingsApart
<1>9. OneElement'
  BY <1>1, <1>2 DEF EInv, OneElement, InSchedQueue
<1>10. CountsTrue'
  <2>1. ASSUME NEW p \in Queues, Exists(p)', p # q
        PROVE  /\ InSchedQueue(p)' => eventCount'[p] > 0
               /\ (\A c \in Cores : elem'[c] # p) => eventCount'[p] = Len(content'[ring'[p]])
               /\ \A c \in Cores : elem'[c] = p => eventCount'[p] = Len(content'[ring'[p]]) + taken'[c]
    BY <1>2, <1>7, <2>1 DEF EInv, CountsTrue, InSchedQueue
  <2>2. eventCount'[q] = Len(content'[ring'[q]])
    BY <1>2, <1>4, <1>5
  <2>3. ~InSchedQueue(q)' /\ \A c \in Cores : elem'[c] # q
    BY <1>1 DEF InSchedQueue
  <2>4. QED
    BY <2>1, <2>2, <2>3 DEF CountsTrue
<1>11. BurstsHeld'
  BY DEF EInv, BurstsHeld
<1>12. RemovedIsIdle'
  <2>1. \A p \in removing \cup removed : p \in Queues /\ Exists(p)
    BY DEF IInv, TypeOK, Course, QueuesPlaced, Exists
  <2>2. \A p : Owing(p)' = Owing(p)
    BY SameOwing DEF SameLocal
  <2>3. QED
    BY <1>7, <2>1, <2>2 DEF EInv, RemovedIsIdle, InSchedQueue
<1>13. QED
  BY <1>4, <1>6, <1>8, <1>9, <1>10, <1>11, <1>12 DEF EInv

\* A queue element is put into the sched-queue.
LEMMA Enqueued ==
  ASSUME schedQueue \in Seq(Queues), NEW q \in Queues, ~InSchedQueue(q),
         IsInjective(schedQueue),
         schedQueue' = Append(schedQueue, q)
  PROVE  /\ \A p : InSchedQueue(p)' <=> InSchedQueue(p) \/ p = q
         /\ IsInjective(schedQueue')
BY AppendMembers DEF InSchedQueue

\* The first queue element is taken from it.
LEMMA Dequeued ==
  ASSUME schedQueue \in Seq(Queues), schedQueue # <<>>, NEW q, q = Head(schedQueue),
         IsInjective(schedQueue),
         schedQueue' = Tail(schedQueue)
  PROVE  /\ InSchedQueue(q) /\ \A p : InSchedQueue(p)' <=> InSchedQueue(p) /\ p # q
         /\ IsInjective(schedQueue')
<1>0. PICK t : t = Tail(schedQueue)
  OBVIOUS
<1>1. /\ \A p : Contains(schedQueue, p) <=> p = q \/ Contains(t, p)
      /\ IsInjective(t) /\ ~Contains(t, q)
  BY <1>0, TailMembers
<1>2. schedQueue' = t
  BY <1>0
<1>3. QED
  BY <1>1, <1>2 DEF InSchedQueue

\* A free event is put into ring r.
LEMMA EventSent ==
  ASSUME EventTypes, EventsApart, NEW r \in 1..Len(content), NEW e \in free,
         content' = [content EXCEPT ![r] = Append(@, e)], free' = free \ {e}, burst' = burst
  PROVE  /\ EventsApart' /\ free' \in SUBSET Events
         /\ content' \in Seq(Seq(Events)) /\ Len(content') = Len(content)
         /\ Len(content'[r]) = Len(content[r]) + 1
         /\ \A s \in 1..Len(content) : s # r => content'[s] = content[s]
<1>1. /\ content \in Seq(Seq(Events)) /\ content[r] \in Seq(Events) /\ e \in Events
      /\ Append(content[r], e) \in Seq(Events) /\ Len(Append(content[r], e)) = Len(content[r]) + 1
  BY AppendFacts DEF EventTypes
<1>2. /\ content' \in Seq(Seq(Events)) /\ Len(content') = Len(content)
      /\ content'[r] = Append(content[r], e) /\ 1..Len(content') = 1..Len(content)
      /\ \A s \in 1..Len(content) : s # r => content'[s] = content[s]
  BY <1>1
<1>3. (\A s \in 1..Len(content) : ~InRing(s, e)) /\ \A c \in Cores : ~InBurst(c, e)
  BY <1>1 DEF EventsApart
<1>4. (\A x : InRing(r, x)' <=> InRing(r, x) \/ x = e)
      /\ IsInjective(content'[r])
  <2>1. PICK old, new : old = content[r] /\ new = content'[r]
    OBVIOUS
  <2>2. /\ old \in Seq(Events) /\ new = Append(old, e) /\ IsInjective(old) /\ ~Contains(old, e)
    BY <1>1, <1>2, <1>3, <2>1 DEF InRing, EventsApart
  <2>3. (\A x : Contains(new, x) <=> Contains(old, x) \/ x = e) /\ IsInjective(new)
    <3>1. e \in Events
      BY <1>1
    <3>2. QED
      BY <2>2, <3>1, AppendMembers
  <2>4. QED
    BY <2>1, <2>3 DEF InRing
<1>5. \A x : \A s \in 1..Len(content) : s # r => (InRing(s, x)' <=> InRing(s, x))
  BY <1>2 DEF InRing
<1>6. \A x : \A c \in Cores : InBurst(c, x)' <=> InBurst(c, x)
  BY DEF InBurst
<1>7. /\ \A s \in 1..Len(content') : IsInjective(content'[s])
      /\ \A c \in Cores : IsInjective(burst'[c])
  BY <1>2, <1>4 DEF EventsApart
<1>8. ASSUME NEW x \in Events
      PROVE  /\ \A s, t \in 1..Len(content') : InRing(s, x)' /\ InRing(t, x)' => s = t
             /\ \A c, d \in Cores : InBurst(c, x)' /\ InBurst(d, x)' => c = d
             /\ \A s \in 1..Len(content'), c \in Cores : ~(InRing(s, x)' /\ InBurst(c, x)')
             /\ x \in free' <=> /\ \A s \in 1..Len(content') : ~InRing(s, x)'
                                /\ \A c \in Cores : ~InBurst(c, x)'
  <2>1. CASE x = e
    BY <1>2, <1>3, <1>4, <1>5, <1>6, <2>1
  <2>2. CASE x # e
    <3>1. \A s \in 1..Len(content) : InRing(s, x)' <=> InRing(s, x)
      BY <1>4, <1>5, <2>2
    <3>2. x \in free' <=> x \in free
      BY <2>2
    <3>3. QED
      BY <1>2, <1>6, <3>1, <3>2 DEF EventsApart
  <2>3. QED
    BY <2>1, <2>2
<1>9. EventsApart'
  BY <1>7, <1>8 DEF EventsApart
<1>10. QED
  BY <1>1, <1>2, <1>9 DEF EventTypes

\* The first n events of ring r become the burst of core c.
LEMMA EventsTaken ==
  ASSUME EventTypes, EventsApart, NEW r \in 1..Len(content), NEW c \in Cores, burst[c] = <<>>,
         NEW n \in 0..Len(content[r]),
         content' = [content EXCEPT ![r] = SubSeq(@, n + 1, Len(@))], free' = free,
         burst' = [burst EXCEPT ![c] = SubSeq(content[r], 1, n)]
  PROVE  /\ EventsApart' /\ burst' \in [Cores -> Seq(Events)]
         /\ content' \in Seq(Seq(Events)) /\ Len(content') = Len(content)
         /\ Len(content'[r]) = Len(content[r]) - n
         /\ \A s \in 1..Len(content) : s # r => content'[s] = content[s]
<1>1. content \in Seq(Seq(Events)) /\ content[r] \in Seq(Events) /\ burst \in [Cores -> Seq(Events)]
  BY DEF EventTypes
<1>0. PICK old \in Seq(Events) : old = content[r]
  BY <1>1
<1>2. n \in 0..Len(old)
  BY <1>0
<1>3. PICK a, b : a = SubSeq(old, 1, n) /\ b = SubSeq(old, n + 1, Len(old))
  OBVIOUS
<1>13. Parts(old, a, b)
  BY <1>2, <1>3, CutMembers
<1>14. a \in Seq(Events) /\ b \in Seq(Events) /\ Len(b) = Len(old) - n
  BY <1>2, <1>3, CutFacts
<1>15. content' = [content EXCEPT ![r] = b] /\ burst' = [burst EXCEPT ![c] = a]
  BY <1>0, <1>3
<1>4. /\ content' \in Seq(Seq(Events)) /\ Len(content') = Len(content)
      /\ content'[r] = b /\ 1..Len(content') = 1..Len(content)
      /\ \A s \in 1..Len(content) : s # r => content'[s] = content[s]
  <2>1. content' = [content EXCEPT ![r] = b] /\ b \in Seq(Events) /\ content \in Seq(Seq(Events))
    BY <1>1, <1>14, <1>15
  <2>2. QED
    BY <2>1
<1>5. /\ burst' \in [Cores -> Seq(Events)] /\ burst'[c] = a
      /\ \A d \in Cores : d # c => burst'[d] = burst[d]
  BY <1>1, <1>14, <1>15
<1>6. /\ \A x : InRing(r, x) <=> InBurst(c, x)' \/ InRing(r, x)'
      /\ IsInjective(content'[r])
      /\ IsInjective(burst'[c])
      /\ \A x : ~(InBurst(c, x)' /\ InRing(r, x)')
  <2>1. IsInjective(old)
    BY <1>0 DEF EventsApart
  <2>2. /\ \A y : Contains(old, y) <=> Contains(a, y) \/ Contains(b, y)
        /\ IsInjective(a) /\ IsInjective(b) /\ \A y : ~(Contains(a, y) /\ Contains(b, y))
    BY <1>13, <2>1 DEF Parts
  <2>3. \A x : /\ InRing(r, x) <=> Contains(old, x)
               /\ InRing(r, x)' <=> Contains(b, x)
               /\ InBurst(c, x)' <=> Contains(a, x)
    BY <1>0, <1>4, <1>5 DEF InRing, InBurst
  <2>4. \A x : ~(InBurst(c, x)' /\ InRing(r, x)')
    BY <2>2, <2>3
  <2>5. \A x : InRing(r, x) <=> InBurst(c, x)' \/ InRing(r, x)'
    BY <2>2, <2>3
  <2>6. QED
    BY <1>4, <1>5, <2>2, <2>4, <2>5
<1>7. \A x : \A s \in 1..Len(content) : s # r => (InRing(s, x)' <=> InRing(s, x))
  BY <1>4 DEF InRing
<1>8. /\ \A x : \A d \in Cores : d # c => (InBurst(d, x)' <=> InBurst(d, x))
      /\ \A x : ~InBurst(c, x)
  BY <1>5, EmptyMembers DEF InBurst
<1>9. /\ \A s \in 1..Len(content') : IsInjective(content'[s])
      /\ \A d \in Cores : IsInjective(burst'[d])
  BY <1>4, <1>5, <1>6 DEF EventsApart
<1>10. ASSUME NEW x \in Events
       PROVE  /\ \A s, t \in 1..Len(content') : InRing(s, x)' /\ InRing(t, x)' => s = t
              /\ \A d, e \in Cores : InBurst(d, x)' /\ InBurst(e, x)' => d = e
              /\ \A s \in 1..Len(content'), d \in Cores : ~(InRing(s, x)' /\ InBurst(d, x)')
              /\ x \in free' <=> /\ \A s \in 1..Len(content') : ~InRing(s, x)'
                                 /\ \A d \in Cores : ~InBurst(d, x)'
  <2>1. /\ \A s, t \in 1..Len(content) : InRing(s, x) /\ InRing(t, x) => s = t
        /\ \A d, e \in Cores : InBurst(d, x) /\ InBurst(e, x) => d = e
        /\ \A s \in 1..Len(content), d \in Cores : ~(InRing(s, x) /\ InBurst(d, x))
        /\ x \in free <=> /\ \A s \in 1..Len(content) : ~InRing(s, x)
                          /\ \A d \in Cores : ~InBurst(d, x)
    BY DEF EventsApart
  <2>2. CASE InRing(r, x)
    BY <1>4, <1>6, <1>7, <1>8, <2>1, <2>2
  <2>3. CASE ~InRing(r, x)
    <3>1. /\ \A s \in 1..Len(content) : InRing(s, x)' <=> InRing(s, x)
          /\ \A d \in Cores : InBurst(d, x)' <=> InBurst(d, x)
      BY <1>6, <1>7, <1>8, <2>3
    <3>2. QED
      BY <1>4, <2>1, <3>1
  <2>4. QED
    BY <2>2, <2>3
<1>11. EventsApart'
  BY <1>9, <1>10 DEF EventsApart
<1>12. QED
  BY <1>0, <1>4, <1>5, <1>11, <1>14

\* The first event of core c's burst becomes free.
LEMMA EventFreed ==
  ASSUME EventTypes, EventsApart, NEW c \in Cores, burst[c] # <<>>,
         content' = content, free' = free \cup {Head(burst[c])},
         burst' = [burst EXCEPT ![c] = Tail(@)]
  PROVE  EventsApart' /\ burst' \in [Cores -> Seq(Events)] /\ free' \in SUBSET Events
<1>1. burst[c] \in Seq(Events) /\ burst \in [Cores -> Seq(Events)] /\ Tail(burst[c]) \in Seq(Events)
  BY TailFacts DEF EventTypes
<1>2. PICK old \in Seq(Events), h \in Events, new \in Seq(Events) : old = burst[c] /\ h = Head(old) /\ new = Tail(old)
  BY <1>1, TailFacts
<1>3. /\ burst' \in [Cores -> Seq(Events)] /\ burst'[c] = Tail(burst[c])
      /\ \A d \in Cores : d # c => burst'[d] = burst[d]
  BY <1>1
<1>4. /\ \A x : InBurst(c, x) <=> x = h \/ InBurst(c, x)'
      /\ IsInjective(burst'[c])
      /\ ~InBurst(c, h)'
  <2>1. IsInjective(old)
    BY <1>2 DEF EventsApart
  <2>2. old # <<>>
    BY <1>2
  <2>3. /\ \A y : Contains(old, y) <=> y = h \/ Contains(new, y)
        /\ IsInjective(new) /\ ~Contains(new, h)
    BY <1>2, <2>1, <2>2, TailMembers
  <2>4. burst'[c] = new
    BY <1>2, <1>3
  <2>5. \A x : /\ InBurst(c, x) <=> Contains(old, x)
               /\ InBurst(c, x)' <=> Contains(new, x)
    BY <1>2, <2>4 DEF InBurst
  <2>6. QED
    BY <2>3, <2>4, <2>5
<1>5. \A x : \A s \in 1..Len(content) : InRing(s, x)' <=> InRing(s, x)
  BY DEF InRing
<1>6. \A x : \A d \in Cores : d # c => (InBurst(d, x)' <=> InBurst(d, x))
  BY <1>3 DEF InBurst
<1>7. /\ \A s \in 1..Len(content') : IsInjective(content'[s])
      /\ \A d \in Cores : IsInjective(burst'[d])
  BY <1>3, <1>4 DEF EventsApart
<1>8. ASSUME NEW x \in Events
      PROVE  /\ \A s, t \in 1..Len(content') : InRing(s, x)' /\ InRing(t, x)' => s = t
             /\ \A d, e \in Cores : InBurst(d, x)' /\ InBurst(e, x)' => d = e
             /\ \A s \in 1..Len(content'), d \in Cores : ~(InRing(s, x)' /\ InBurst(d, x)')
             /\ x \in free' <=> /\ \A s \in 1..Len(content') : ~InRing(s, x)'
                                /\ \A d \in Cores : ~InBurst(d, x)'
  <2>1. /\ \A s, t \in 1..Len(content) : InRing(s, x) /\ InRing(t, x) => s = t
        /\ \A d, e \in Cores : InBurst(d, x) /\ InBurst(e, x) => d = e
        /\ \A s \in 1..Len(content), d \in Cores : ~(InRing(s, x) /\ InBurst(d, x))
        /\ x \in free <=> /\ \A s \in 1..Len(content) : ~InRing(s, x)
                          /\ \A d \in Cores : ~InBurst(d, x)
    BY DEF EventsApart
  <2>2. x \in free' <=> x \in free \/ x = h
    BY <1>2
  <2>3. CASE x = h
    BY <1>4, <1>5, <1>6, <2>1, <2>2, <2>3
  <2>4. CASE x # h
    <3>1. \A d \in Cores : InBurst(d, x)' <=> InBurst(d, x)
      BY <1>4, <1>6, <2>4
    <3>2. QED
      BY <1>5, <2>1, <2>2, <2>4, <3>1
  <2>5. QED
    BY <2>3, <2>4
<1>9. EventsApart'
  BY <1>7, <1>8 DEF EventsApart
<1>10. QED
  BY <1>2, <1>3, <1>9 DEF EventTypes

\* A queue is created, from the pool.
LEMMA CreateQueueEvents ==
  ASSUME IInv, EInv, NEW c \in Cores, CreateQueue(c)
  PROVE  EInv'
<1> USE DEF poolVars, queueVars, coreVars, ruleVars
<1>1. PICK p \in Queues : AllocQueue(p) /\ InitQueue(p)
  BY DEF CreateQueue
<1>2. queuePool # <<>> /\ p = Head(queuePool) /\ queuePool \in Seq(Queues \ Static)
  BY <1>1 DEF AllocQueue, IInv, TypeOK
<1>3. p = queuePool[1] /\ 1 \in 1..Len(queuePool)
  BY <1>2, TailFacts
<1>4. status[p] = "INVALID"
  BY <1>3 DEF QueuesPlaced, IInv, Course
<1>5. UNCHANGED <<schedQueue, elem, burst, taken, running, removing, removed, internalVars, function>>
  BY DEF CreateQueue
<1>6. QED
  BY <1>1, <1>4, <1>5, InitQueueEvents

\* A static queue is created; a queue is added to the EO or enabled.
LEMMA QueueEvents ==
  ASSUME IInv, EInv, NEW c \in Cores, NEW q \in Queues,
         CreateStaticQueue(c, q) \/ AddQueue(c, q) \/ EnableQueue(c, q)
  PROVE  EInv'
<1> USE DEF poolVars, queueVars, coreVars, ruleVars
<1>2. CASE CreateStaticQueue(c, q)
  <2>1. UNCHANGED <<schedQueue, elem, burst, taken, running, removing, removed, internalVars, function>>
    BY <1>2 DEF CreateStaticQueue
  <2>2. status[q] = "INVALID" /\ InitQueue(q)
    BY <1>2 DEF CreateStaticQueue
  <2>3. QED
    BY <2>1, <2>2, InitQueueEvents
<1>3. CASE AddQueue(c, q) \/ EnableQueue(c, q)
  <2>1. /\ UNCHANGED <<ring, freeRings, eventVars, elem, burst, taken, running, removing,
                      internalVars, function>>
        /\ removed' \subseteq removed
        /\ \E new \in {"BIND", "READY"} : status' = [status EXCEPT ![q] = new]
        /\ status[q] \in {"INIT", "BIND"} \/ q \in removed
    BY <1>3 DEF AddQueue, EnableQueue, ChangeState
  <2>a. status[q] # "INVALID"
    BY <2>1 DEF IInv, Course, QueuesPlaced
  <2>2. \A p \in Queues : status'[p] = "INVALID" <=> status[p] = "INVALID"
    BY <2>1, <2>a DEF IInv, TypeOK
  <2>3. EventTypes' /\ RingsApart' /\ OneElement' /\ CountsTrue' /\ BurstsHeld' /\ EventsApart'
    BY <2>1, <2>2, SameEvents
  <2>4. \A p : Owing(p)' = Owing(p)
    BY <2>1, SameOwing DEF SameLocal
  <2>5. RemovedIsIdle'
    BY <2>1, <2>4, SameRemoved DEF EInv, IInv, TypeOK, eventVars
  <2>6. QED
    BY <2>3, <2>5 DEF EInv
<1>4. QED
  BY <1>2, <1>3

\* A queue whose removal has been notified is deleted: nothing of it is left, and its ring
\* goes back to the pool.
LEMMA DeleteEvents ==
  ASSUME IInv, EInv, NEW c \in Cores, NEW q \in Queues, DeleteQueue(c, q)
  PROVE  EInv'
<1> USE DEF poolVars, queueVars, eventVars, coreVars, ruleVars
<1>1. /\ UNCHANGED <<ring, eventVars, internalVars, coreVars, function, removing>>
      /\ q \in removed /\ removed' = removed \ {q}
      /\ freeRings' = Append(freeRings, ring[q])
      /\ status' = [status EXCEPT ![q] = "INVALID"]
  BY DEF DeleteQueue, FreeRing
<1>2. Exists(q) /\ q \notin removing /\ ~UnderWay(q)
  BY <1>1 DEF Exists, QueuesPlaced, IInv, Course
<1>3. ~InSchedQueue(q) /\ \A d \in Cores : elem[d] # q
  BY <1>1, <1>2 DEF UnderWay, EInv, RemovedIsIdle
<1>4. ~Exists(q)' /\ \A p \in Queues : p # q => (Exists(p)' <=> Exists(p))
  BY <1>1 DEF Exists, IInv, TypeOK
<1>5. /\ freeRings \in Seq(Nat) /\ ring[q] \in Nat /\ ring[q] \in 1..Len(content)
      /\ ~Contains(freeRings, ring[q]) /\ IsInjective(freeRings)
  BY <1>2 DEF EInv, EventTypes, RingsApart
<1>6. /\ freeRings' \in Seq(Nat) /\ IsInjective(freeRings')
      /\ \A r : Contains(freeRings', r) <=> Contains(freeRings, r) \/ r = ring[q]
  <2>1. PICK new : new = Append(freeRings, ring[q])
    OBVIOUS
  <2>2. new \in Seq(Nat) /\ IsInjective(new) /\ \A r : Contains(new, r) <=> Contains(freeRings, r) \/ r = ring[q]
    BY <1>5, <2>1, AppendMembers, AppendFacts
  <2>3. QED
    BY <1>1, <2>1, <2>2
<1>7. EventTypes' /\ BurstsHeld'
  BY <1>1, <1>6 DEF EInv, EventTypes, BurstsHeld
<1>8. RingsApart'
  BY <1>1, <1>2, <1>4, <1>5, <1>6 DEF EInv, RingsApart
<1>9. OneElement' /\ CountsTrue'
  BY <1>1, <1>3, <1>4 DEF EInv, OneElement, CountsTrue, InSchedQueue
<1>10. RemovedIsIdle'
  <2>1. \A p : Owing(p)' = Owing(p)
    BY <1>1, SameOwing DEF SameLocal
  <2>2. removing' \cup removed' \subseteq removing \cup removed
    BY <1>1
  <2>3. QED
    BY <1>1, <2>1, <2>2, SameRemoved DEF EInv, IInv, TypeOK
<1>11. EventsApart'
  BY <1>1 DEF EInv, EventsApart, InRing, InBurst
<1>12. QED
  BY <1>7, <1>8, <1>9, <1>10, <1>11 DEF EInv

\* A queue is taken off the EO when all of its events have come back: its ring is empty
\* and its element not to be scheduled; every core is asked to come by.
LEMMA RemoveEvents ==
  ASSUME IInv, EInv, Drains, NEW c \in Cores, NEW q \in Queues, RemoveQueue(c, q)
  PROVE  EInv'
<1> USE DEF poolVars, queueVars, coreVars, ruleVars
<1>1. /\ UNCHANGED <<ring, freeRings, eventVars, elem, burst, taken, running, removed, function>>
      /\ Request(q) /\ removing' = removing \cup {q} /\ ListHas(q)
      /\ content[ring[q]] = <<>>
      /\ status' = status \/ (status[q] = "READY" /\ status' = [status EXCEPT ![q] = "BIND"])
  BY DEF RemoveQueue, Back, ChangeState
<1>2. q \in Operations /\ Exists(q)
  BY <1>1, OperationFacts DEF Exists, QueuesPlaced, IInv, Course
<1>3. /\ Owing(q)' = Cores
      /\ \A p : p # q => Owing(p)' = Owing(p)
  BY <1>1, <1>2, RequestOwing DEF SameLocal, IInv
<1>4. \A p \in Queues : status'[p] = "INVALID" <=> status[p] = "INVALID"
  BY <1>1 DEF IInv, TypeOK
<1>5. EventTypes' /\ RingsApart' /\ OneElement' /\ CountsTrue' /\ BurstsHeld' /\ EventsApart'
  BY <1>1, <1>4, SameEvents
<1>6. ~InSchedQueue(q)
  <2>1. SUFFICES ASSUME InSchedQueue(q) PROVE FALSE
    OBVIOUS
  <2>2. \A d \in Cores : elem[d] # q
    BY <2>1 DEF EInv, OneElement
  <2>3. eventCount[q] > 0 /\ eventCount[q] = Len(content[ring[q]])
    BY <1>2, <2>1, <2>2 DEF EInv, CountsTrue
  <2>4. Len(content[ring[q]]) = 0
    BY <1>1
  <2>5. QED
    BY <2>3, <2>4
<1>7. RemovedIsIdle'
  BY <1>1, <1>3, <1>6 DEF EInv, RemovedIsIdle, InSchedQueue, eventVars
<1>8. QED
  BY <1>5, <1>7 DEF EInv

\* There is no queue None.
LEMMA NoneNotQueued ==
  ASSUME schedQueue \in Seq(Queues)
  PROVE  ~InSchedQueue(None)
BY OperationFacts DEF InSchedQueue, Contains

\* em_send_atomic: the event goes into the queue's ring and is counted; the element to the
\* sched-queue if it is nowhere.
LEMMA SendEvents ==
  ASSUME IInv, EInv, NEW c \in Cores, NEW q \in Queues, NEW e \in Events, Send(c, q, e)
  PROVE  EInv'
<1> USE DEF poolVars, queueVars, coreVars, ruleVars
<1>1. /\ UNCHANGED <<ring, freeRings, elem, burst, taken, running, removing, removed, status, function,
                    internalVars>>
      /\ e \in free /\ q \notin removing \cup removed /\ free' = free \ {e}
      /\ content' = [content EXCEPT ![ring[q]] = Append(@, e)]
      /\ eventCount' = [eventCount EXCEPT ![q] = @ + 1]
      /\ Exists(q)
  BY DEF Send, Exists
<1>2. PICK r \in 1..Len(content) : r = ring[q]
  BY <1>1 DEF EInv, RingsApart
<1>3. /\ EventsApart' /\ free' \in SUBSET Events
      /\ content' \in Seq(Seq(Events)) /\ Len(content') = Len(content)
      /\ Len(content'[r]) = Len(content[r]) + 1
      /\ \A s \in 1..Len(content) : s # r => content'[s] = content[s]
  BY <1>1, <1>2, EventSent DEF EInv
<1>4. \A p \in Queues : Exists(p)' <=> Exists(p)
  BY <1>1 DEF Exists
<1>5. \A p \in Queues : Exists(p) /\ p # q => ring[p] # r /\ content'[ring[p]] = content[ring[p]]
  BY <1>1, <1>2, <1>3 DEF EInv, RingsApart
<1>6. /\ eventCount' \in [Queues -> Nat] /\ eventCount'[q] = eventCount[q] + 1 /\ eventCount[q] \in Nat
      /\ \A p \in Queues : p # q => eventCount'[p] = eventCount[p]
  BY <1>1 DEF EInv, EventTypes
<1>7. /\ schedCount' \in [Queues -> {0, 1}]
      /\ \A p \in Queues : p # q => schedCount'[p] = schedCount[p] /\ (InSchedQueue(p)' <=> InSchedQueue(p))
      /\ InSchedQueue(None)' <=> InSchedQueue(None)
      /\ IsInjective(schedQueue')
      /\ \/ schedCount'[q] = schedCount[q] /\ (InSchedQueue(q)' <=> InSchedQueue(q))
         \/ schedCount'[q] = 1 /\ InSchedQueue(q)' /\ \A d \in Cores : elem[d] # q
  <2>1. CASE eventCount[q] = 0 /\ schedCount[q] = 0
    <3>1. schedCount' = [schedCount EXCEPT ![q] = 1] /\ schedQueue' = Append(schedQueue, q)
      BY <2>1 DEF Send
    <3>2. ~InSchedQueue(q) /\ \A d \in Cores : elem[d] # q
      BY <1>1, <2>1 DEF EInv, OneElement
    <3>3. schedQueue \in Seq(Queues) /\ IsInjective(schedQueue)
      BY DEF IInv, TypeOK, EInv, OneElement
    <3>4. /\ \A p : InSchedQueue(p)' <=> InSchedQueue(p) \/ p = q
          /\ IsInjective(schedQueue')
      BY <3>1, <3>2, <3>3, Enqueued
    <3>5. None # q
      BY OperationFacts
    <3>6. schedCount' \in [Queues -> {0, 1}] /\ schedCount'[q] = 1
          /\ \A p \in Queues : p # q => schedCount'[p] = schedCount[p]
      BY <3>1 DEF EInv, EventTypes
    <3>7. QED
      BY <3>2, <3>4, <3>5, <3>6
  <2>2. CASE ~(eventCount[q] = 0 /\ schedCount[q] = 0)
    BY <2>2 DEF Send, EInv, EventTypes, OneElement, InSchedQueue
  <2>3. QED
    BY <2>1, <2>2
<1>8. EventTypes' /\ BurstsHeld'
  BY <1>1, <1>3, <1>6, <1>7 DEF EInv, EventTypes, BurstsHeld
<1>9. RingsApart'
  BY <1>1, <1>3, <1>4 DEF EInv, RingsApart
<1>10. OneElement'
  <2>1. \A d \in Cores : ~InSchedQueue(elem[d])'
    <3> SUFFICES ASSUME NEW d \in Cores PROVE ~InSchedQueue(elem[d])'
      OBVIOUS
    <3>1. PICK p \in Queues \cup {None} : p = elem[d] /\ p = elem'[d]
      BY <1>1 DEF IInv, TypeOK
    <3>2. ~InSchedQueue(p)'
      <4>1. ~InSchedQueue(p)
        BY <3>1 DEF EInv, OneElement
      <4>2. CASE p = q
        BY <1>7, <3>1, <4>1, <4>2
      <4>3. CASE p # q
        BY <1>7, <4>1, <4>3
      <4>4. QED
        BY <4>2, <4>3
    <3>3. QED
      BY <3>1, <3>2 DEF InSchedQueue
  <2>2. \A p \in Queues :
          Exists(p)' /\ schedCount'[p] = 1 <=> InSchedQueue(p)' \/ \E d \in Cores : elem'[d] = p
    BY <1>1, <1>4, <1>7 DEF EInv, OneElement
  <2>3. QED
    BY <1>1, <1>7, <2>1, <2>2 DEF EInv, OneElement
<1>11. CountsTrue'
  <2>1. ASSUME NEW p \in Queues, Exists(p)'
        PROVE  /\ InSchedQueue(p)' => eventCount'[p] > 0
               /\ (\A d \in Cores : elem'[d] # p) => eventCount'[p] = Len(content'[ring'[p]])
               /\ \A d \in Cores : elem'[d] = p => eventCount'[p] = Len(content'[ring'[p]]) + taken'[d]
    <3>1. CASE p # q
      <4>1. /\ InSchedQueue(p) => eventCount[p] > 0
            /\ (\A d \in Cores : elem[d] # p) => eventCount[p] = Len(content[ring[p]])
            /\ \A d \in Cores : elem[d] = p => eventCount[p] = Len(content[ring[p]]) + taken[d]
        BY <1>4, <2>1 DEF EInv, CountsTrue
      <4>2. content'[ring'[p]] = content[ring[p]] /\ eventCount'[p] = eventCount[p] /\ elem' = elem /\ taken' = taken
        BY <1>1, <1>4, <1>5, <1>6, <2>1, <3>1
      <4>3. InSchedQueue(p)' => InSchedQueue(p)
        BY <1>7, <3>1
      <4>4. QED
        BY <4>1, <4>2, <4>3
    <3>2. CASE p = q
      <4>1. /\ (\A d \in Cores : elem[d] # q) => eventCount[q] = Len(content[r])
            /\ \A d \in Cores : elem[d] = q => eventCount[q] = Len(content[r]) + taken[d]
        BY <1>1, <1>2 DEF EInv, CountsTrue
      <4>2. Len(content[r]) \in Nat /\ \A d \in Cores : taken[d] \in Nat
        BY DEF EInv, EventTypes
      <4>3. Len(content'[ring'[q]]) = Len(content[r]) + 1 /\ eventCount'[q] > 0
        BY <1>1, <1>2, <1>3, <1>6
      <4>4. eventCount'[q] = eventCount[q] + 1 /\ elem' = elem /\ taken' = taken
        BY <1>1, <1>6
      <4>5. (\A d \in Cores : elem'[d] # q) => eventCount'[q] = Len(content'[ring'[q]])
        BY <4>1, <4>3, <4>4
      <4>6. \A d \in Cores : elem'[d] = q => eventCount'[q] = Len(content'[ring'[q]]) + taken'[d]
        BY <4>1, <4>2, <4>3, <4>4
      <4>7. QED
        BY <3>2, <4>3, <4>5, <4>6
    <3>3. QED
      BY <3>1, <3>2
  <2>2. QED
    BY <2>1 DEF CountsTrue
<1>12. RemovedIsIdle'
  <2>1. \A p \in removing \cup removed : p \in Queues /\ Exists(p) /\ p # q
    BY <1>1 DEF IInv, TypeOK, Course, QueuesPlaced, Exists
  <2>2. \A p : Owing(p)' = Owing(p)
    BY <1>1, SameOwing DEF SameLocal
  <2>3. QED
    BY <1>1, <1>5, <1>7, <2>1, <2>2 DEF EInv, RemovedIsIdle
<1>13. QED
  BY <1>3, <1>8, <1>9, <1>10, <1>11, <1>12 DEF EInv

\* em_schedule_atomic: as many events are taken as the size of a burst allows, of those
\* that are counted; all of these are in the ring.
LEMMA TakeEvents ==
  ASSUME IInv, EInv, NEW c \in Cores, Take(c)
  PROVE  EInv'
<1> USE DEF poolVars, queueVars, coreVars, ruleVars
<1>1. PICK q \in Queues : q = Head(schedQueue)
  BY TailFacts DEF Take, IInv, TypeOK
<1>2. /\ schedQueue # <<>> /\ schedQueue' = Tail(schedQueue) /\ elem[c] = None
      /\ UNCHANGED <<ring, freeRings, eventCount, schedCount, free, running, removing, removed, status,
                     function, internalVars>>
  BY DEF Take, AtSchedule
<1>3. schedQueue \in Seq(Queues) /\ IsInjective(schedQueue)
  BY DEF IInv, TypeOK, EInv, OneElement
<1>4. /\ InSchedQueue(q) /\ \A p : InSchedQueue(p)' <=> InSchedQueue(p) /\ p # q
      /\ IsInjective(schedQueue')
  BY <1>1, <1>2, <1>3, Dequeued
<1>5. Exists(q) /\ \A d \in Cores : elem[d] # q
  BY <1>4 DEF EInv, OneElement
<1>6. PICK r \in 1..Len(content) : r = ring[q]
  BY <1>5 DEF EInv, RingsApart
<1>7. eventCount[q] = Len(content[r]) /\ eventCount[q] \in Nat
  BY <1>5, <1>6 DEF EInv, CountsTrue, EventTypes
<1>8. PICK n \in 0..Len(content[r]) : n = IF eventCount[q] < Burst THEN eventCount[q] ELSE Burst
  BY <1>7, ConstantsAssumption
<1>9. /\ elem' = [elem EXCEPT ![c] = q]
      /\ taken' = [taken EXCEPT ![c] = n]
      /\ burst' = [burst EXCEPT ![c] = SubSeq(content[r], 1, n)]
      /\ content' = [content EXCEPT ![r] = SubSeq(@, n + 1, Len(@))]
  <2>1. n <= Len(content[r])
    BY <1>7
  <2>2. QED
    BY <1>1, <1>6, <1>8, <2>1 DEF Take
<1>10. burst[c] = <<>> /\ running[c] = None
  BY <1>2 DEF EInv, BurstsHeld, IInv, Course, CoresApart
<1>11. /\ EventsApart' /\ burst' \in [Cores -> Seq(Events)]
       /\ content' \in Seq(Seq(Events)) /\ Len(content') = Len(content)
       /\ Len(content'[r]) = Len(content[r]) - n
       /\ \A s \in 1..Len(content) : s # r => content'[s] = content[s]
  BY <1>2, <1>9, <1>10, EventsTaken DEF EInv
<1>12. /\ elem'[c] = q /\ taken'[c] = n /\ taken' \in [Cores -> Nat]
       /\ \A d \in Cores : d # c => elem'[d] = elem[d] /\ taken'[d] = taken[d] /\ burst'[d] = burst[d]
  BY <1>9 DEF IInv, TypeOK, EInv, EventTypes
<1>13. \A p \in Queues : Exists(p)' <=> Exists(p)
  BY <1>2 DEF Exists
<1>14. \A p \in Queues : Exists(p) /\ p # q => ring[p] # r /\ content'[ring[p]] = content[ring[p]]
  BY <1>5, <1>6, <1>11 DEF EInv, RingsApart
<1>15. EventTypes' /\ BurstsHeld'
  <2>1. EventTypes'
    BY <1>2, <1>11, <1>12 DEF EInv, EventTypes
  <2>2. BurstsHeld'
    BY <1>2, <1>10, <1>12, OperationFacts DEF EInv, BurstsHeld
  <2>3. QED
    BY <2>1, <2>2
<1>16. RingsApart'
  BY <1>2, <1>11, <1>13 DEF EInv, RingsApart
<1>17. OneElement'
  <2>1. \A d \in Cores : ~InSchedQueue(elem[d])'
    <3> SUFFICES ASSUME NEW d \in Cores PROVE ~InSchedQueue(elem[d])'
      OBVIOUS
    <3>1. PICK p : p = elem'[d]
      OBVIOUS
    <3>2. ~InSchedQueue(p)'
      BY <1>4, <1>12, <3>1 DEF EInv, OneElement
    <3>3. QED
      BY <3>1, <3>2 DEF InSchedQueue
  <2>2. \A d, e \in Cores : elem'[d] = elem'[e] /\ elem'[d] # None => d = e
    BY <1>5, <1>12 DEF EInv, OneElement
  <2>3. \A p \in Queues : (\E d \in Cores : elem'[d] = p) <=> p = q \/ \E d \in Cores : elem[d] = p
    BY <1>2, <1>12, OperationFacts
  <2>4. \A p \in Queues :
          Exists(p)' /\ schedCount'[p] = 1 <=> InSchedQueue(p)' \/ \E d \in Cores : elem'[d] = p
    BY <1>2, <1>4, <1>13, <2>3 DEF EInv, OneElement
  <2>5. QED
    BY <1>4, <2>1, <2>2, <2>4 DEF OneElement
<1>18. CountsTrue'
  <2>1. ASSUME NEW p \in Queues, Exists(p)'
        PROVE  /\ InSchedQueue(p)' => eventCount'[p] > 0
               /\ (\A d \in Cores : elem'[d] # p) => eventCount'[p] = Len(content'[ring'[p]])
               /\ \A d \in Cores : elem'[d] = p => eventCount'[p] = Len(content'[ring'[p]]) + taken'[d]
    <3>1. CASE p # q
      <4>1. /\ InSchedQueue(p) => eventCount[p] > 0
            /\ (\A d \in Cores : elem[d] # p) => eventCount[p] = Len(content[ring[p]])
            /\ \A d \in Cores : elem[d] = p => eventCount[p] = Len(content[ring[p]]) + taken[d]
        BY <1>13, <2>1 DEF EInv, CountsTrue
      <4>2. content'[ring'[p]] = content[ring[p]] /\ eventCount'[p] = eventCount[p]
        BY <1>2, <1>13, <1>14, <2>1, <3>1
      <4>3. \A d \in Cores : (elem'[d] = p <=> elem[d] = p) /\ (elem[d] = p => taken'[d] = taken[d])
        BY <1>2, <1>12, <3>1, OperationFacts
      <4>4. InSchedQueue(p)' => InSchedQueue(p)
        BY <1>4
      <4>5. QED
        BY <4>1, <4>2, <4>3, <4>4
    <3>2. CASE p = q
      <4>1. eventCount[q] = Len(content'[ring'[q]]) + n
        BY <1>2, <1>6, <1>7, <1>11
      <4>2. QED
        BY <1>2, <1>4, <1>5, <1>12, <3>2, <4>1
    <3>3. QED
      BY <3>1, <3>2
  <2>2. QED
    BY <2>1 DEF CountsTrue
<1>19. RemovedIsIdle'
  <2>1. \A p \in removing \cup removed : p \in Queues /\ Exists(p) /\ p # q
    BY <1>4 DEF IInv, TypeOK, Course, QueuesPlaced, Exists, EInv, RemovedIsIdle
  <2>2. \A p : Owing(p)' = Owing(p)
    BY <1>2, SameOwing DEF SameLocal
  <2>3. QED
    BY <1>2, <1>4, <1>12, <1>14, <2>1, <2>2 DEF EInv, RemovedIsIdle
<1>20. QED
  BY <1>11, <1>15, <1>16, <1>17, <1>18, <1>19 DEF EInv

\* A receive function is called, or has returned and its event is free; or the event of a
\* queue that is not ready is freed.
LEMMA DispatchEvents ==
  ASSUME IInv, EInv, NEW c \in Cores, Dispatch(c) \/ DropEvent(c) \/ ReceiveReturns(c)
  PROVE  EInv'
<1> USE DEF poolVars, queueVars, coreVars, ruleVars
<1>1. /\ UNCHANGED <<ring, freeRings, content, eventCount, schedCount, schedQueue, elem, taken, removing,
                    removed, status, function, internalVars>>
      /\ running[c] # None => burst[c] # <<>>
      /\ burst[c] # <<>> /\ elem[c] # None
  BY DEF Dispatch, DropEvent, ReceiveReturns, eventVars, EInv, BurstsHeld
<1>2. RemovedIsIdle'
  <2>1. \A p : Owing(p)' = Owing(p)
    BY <1>1, SameOwing DEF SameLocal
  <2>2. QED
    BY <1>1, <2>1, SameRemoved DEF EInv, IInv, TypeOK
<1>3. CASE Dispatch(c)
  <2>1. EventTypes' /\ RingsApart' /\ OneElement' /\ CountsTrue' /\ BurstsHeld' /\ EventsApart'
    <3>1. UNCHANGED <<eventVars, burst>> /\ \A d \in Cores : running'[d] # None => running[d] # None \/ burst[d] # <<>>
      BY <1>1, <1>3 DEF Dispatch, IInv, TypeOK
    <3>2. QED
      BY <1>1, <3>1, SameEvents
  <2>2. QED
    BY <1>2, <2>1 DEF EInv
<1>4. CASE DropEvent(c) \/ ReceiveReturns(c)
  <2>1. /\ burst' = [burst EXCEPT ![c] = Tail(@)]
        /\ free' = free \cup {Head(burst[c])}
        /\ running'[c] = None /\ \A d \in Cores : d # c => running'[d] = running[d]
    BY <1>4 DEF DropEvent, ReceiveReturns, IInv, TypeOK
  <2>2. EventsApart' /\ burst' \in [Cores -> Seq(Events)] /\ free' \in SUBSET Events
    BY <1>1, <2>1, EventFreed DEF EInv
  <2>3. EventTypes'
    BY <1>1, <2>2 DEF EInv, EventTypes
  <2>4. \A d \in Cores : d # c => burst'[d] = burst[d]
    BY <2>1 DEF EInv, EventTypes
  <2>5. BurstsHeld'
    BY <1>1, <2>1, <2>4 DEF EInv, BurstsHeld
  <2>6. \A p \in Queues : Exists(p)' <=> Exists(p)
    BY <1>1 DEF Exists
  <2>7. RingsApart' /\ OneElement' /\ CountsTrue'
    BY <1>1, <2>6 DEF EInv, RingsApart, OneElement, CountsTrue, InSchedQueue
  <2>8. QED
    BY <1>2, <2>2, <2>3, <2>5, <2>7 DEF EInv
<1>5. QED
  BY <1>3, <1>4

\* A burst is finished: the element goes back to the sched-queue, or nowhere when no event
\* is left.
LEMMA PutBackEvents ==
  ASSUME IInv, EInv, NEW c \in Cores, PutBack(c)
  PROVE  EInv'
<1> USE DEF poolVars, queueVars, coreVars, ruleVars
<1>1. PICK q \in Queues : q = elem[c] /\ elem[c] # None
  BY DEF PutBack, IInv, TypeOK
<1>2. /\ UNCHANGED <<ring, freeRings, content, free, burst, running, removing, removed, status, function,
                    internalVars>>
      /\ burst[c] = <<>> /\ running[c] = None
      /\ elem' = [elem EXCEPT ![c] = None]
      /\ taken' = [taken EXCEPT ![c] = 0]
  BY DEF PutBack
<1>3. /\ Exists(q) /\ schedCount[q] = 1 /\ ~InSchedQueue(q)
      /\ \A d \in Cores : elem[d] = q => d = c
  BY <1>1 DEF EInv, OneElement
<1>4. PICK n \in Nat : /\ n = Len(content[ring[q]]) /\ n = eventCount[q] - taken[c]
                       /\ eventCount' = [eventCount EXCEPT ![q] = n]
  <2>1. ring[q] \in 1..Len(content) /\ eventCount[q] = Len(content[ring[q]]) + taken[c]
    BY <1>1, <1>3 DEF EInv, CountsTrue, RingsApart
  <2>2. Len(content[ring[q]]) \in Nat /\ taken[c] \in Nat
    BY <2>1 DEF EInv, EventTypes
  <2>3. eventCount' = [eventCount EXCEPT ![q] = eventCount[q] - taken[c]]
    BY <1>1 DEF PutBack
  <2>4. eventCount[q] - taken[c] = Len(content[ring[q]])
    BY <2>1, <2>2
  <2>5. QED
    BY <2>2, <2>3, <2>4
<1>5. /\ n = 0 => schedCount' = [schedCount EXCEPT ![q] = 0] /\ schedQueue' = schedQueue
      /\ n # 0 => schedCount' = schedCount /\ schedQueue' = Append(schedQueue, q)
  BY <1>1, <1>3, <1>4 DEF PutBack
<1>6. /\ \A p : InSchedQueue(p)' <=> InSchedQueue(p) \/ (p = q /\ n # 0)
      /\ IsInjective(schedQueue')
  <2>1. schedQueue \in Seq(Queues) /\ IsInjective(schedQueue)
    BY DEF IInv, TypeOK, EInv, OneElement
  <2>2. CASE n = 0
    BY <1>5, <2>1, <2>2 DEF InSchedQueue
  <2>3. CASE n # 0
    BY <1>3, <1>5, <2>1, <2>3, Enqueued
  <2>4. QED
    BY <2>2, <2>3
<1>7. /\ schedCount' \in [Queues -> {0, 1}] /\ schedCount'[q] = IF n = 0 THEN 0 ELSE 1
      /\ \A p \in Queues : p # q => schedCount'[p] = schedCount[p]
  BY <1>3, <1>5 DEF EInv, EventTypes
<1>8. /\ eventCount' \in [Queues -> Nat] /\ eventCount'[q] = n
      /\ \A p \in Queues : p # q => eventCount'[p] = eventCount[p]
  BY <1>4 DEF EInv, EventTypes
<1>9. /\ elem'[c] = None /\ \A d \in Cores : d # c => elem'[d] = elem[d] /\ taken'[d] = taken[d]
      /\ taken' \in [Cores -> Nat]
  BY <1>2 DEF IInv, TypeOK, EInv, EventTypes
<1>10. \A p \in Queues : Exists(p)' <=> Exists(p)
  BY <1>2 DEF Exists
<1>11. EventTypes' /\ BurstsHeld'
  <2>1. EventTypes'
    BY <1>2, <1>7, <1>8, <1>9 DEF EInv, EventTypes
  <2>2. BurstsHeld'
    BY <1>2, <1>9 DEF EInv, BurstsHeld
  <2>3. QED
    BY <2>1, <2>2
<1>12. RingsApart' /\ EventsApart'
  BY <1>2, <1>10 DEF EInv, RingsApart, EventsApart, InRing, InBurst
<1>13. /\ \A d \in Cores : elem'[d] # q
       /\ \A p \in Queues : p # q => \A d \in Cores : elem'[d] = p <=> elem[d] = p
  BY <1>1, <1>3, <1>9, OperationFacts
<1>14. OneElement'
  <2>1. \A d \in Cores : ~InSchedQueue(elem[d])'
    <3> SUFFICES ASSUME NEW d \in Cores PROVE ~InSchedQueue(elem[d])'
      OBVIOUS
    <3>1. PICK p : p = elem'[d]
      OBVIOUS
    <3>2. p # q /\ ~InSchedQueue(p)
      <4>1. CASE d = c
        <5>1. p = None /\ p # q
          BY <1>1, <1>9, <3>1, <4>1
        <5>2. ~InSchedQueue(None)
          BY NoneNotQueued DEF IInv, TypeOK
        <5>3. QED
          BY <5>1, <5>2
      <4>2. CASE d # c
        BY <1>9, <1>13, <3>1, <4>2 DEF EInv, OneElement
      <4>3. QED
        BY <4>1, <4>2
    <3>3. ~InSchedQueue(p)'
      BY <1>6, <3>2
    <3>4. QED
      BY <3>1, <3>3 DEF InSchedQueue
  <2>2. \A d, e \in Cores : elem'[d] = elem'[e] /\ elem'[d] # None => d = e
    BY <1>9 DEF EInv, OneElement
  <2>3. ASSUME NEW p \in Queues
        PROVE  Exists(p)' /\ schedCount'[p] = 1 <=> InSchedQueue(p)' \/ \E d \in Cores : elem'[d] = p
    <3>1. CASE p = q
      BY <1>3, <1>6, <1>7, <1>10, <1>13, <3>1
    <3>2. CASE p # q
      BY <1>6, <1>7, <1>10, <1>13, <3>2 DEF EInv, OneElement
    <3>3. QED
      BY <3>1, <3>2
  <2>4. QED
    BY <1>6, <2>1, <2>2, <2>3 DEF OneElement
<1>15. CountsTrue'
  <2>1. ASSUME NEW p \in Queues, Exists(p)'
        PROVE  /\ InSchedQueue(p)' => eventCount'[p] > 0
               /\ (\A d \in Cores : elem'[d] # p) => eventCount'[p] = Len(content'[ring'[p]])
               /\ \A d \in Cores : elem'[d] = p => eventCount'[p] = Len(content'[ring'[p]]) + taken'[d]
    <3>1. CASE p # q
      <4>1. /\ InSchedQueue(p) => eventCount[p] > 0
            /\ (\A d \in Cores : elem[d] # p) => eventCount[p] = Len(content[ring[p]])
            /\ \A d \in Cores : elem[d] = p => eventCount[p] = Len(content[ring[p]]) + taken[d]
        BY <1>10, <2>1 DEF EInv, CountsTrue
      <4>2. \A d \in Cores : elem[d] = p => taken'[d] = taken[d]
        BY <1>1, <1>9, <3>1
      <4>3. QED
        BY <1>2, <1>6, <1>8, <1>13, <3>1, <4>1, <4>2
    <3>2. CASE p = q
      <4>1. InSchedQueue(q)' => n > 0
        BY <1>3, <1>6
      <4>2. eventCount'[q] = n /\ Len(content'[ring'[q]]) = n
        BY <1>2, <1>4, <1>8
      <4>3. QED
        BY <1>13, <3>2, <4>1, <4>2
    <3>3. QED
      BY <3>1, <3>2
  <2>2. QED
    BY <2>1 DEF CountsTrue
<1>16. RemovedIsIdle'
  <2>1. \A p : Owing(p)' = Owing(p)
    BY <1>2, SameOwing DEF SameLocal
  <2>2. ASSUME NEW p \in removing \cup removed
        PROVE  ~InSchedQueue(p)' /\ \A d \in Cores : elem'[d] = p => elem[d] = p
    <3>1. p \in Queues /\ content[ring[p]] = <<>> /\ ~InSchedQueue(p)
      BY <2>2 DEF EInv, RemovedIsIdle, IInv, TypeOK
    <3>2. p = q => n = 0
      <4>1. ASSUME p = q PROVE n = 0
        <5>1. content[ring[q]] = <<>>
          BY <3>1, <4>1
        <5>2. QED
          BY <1>4, <5>1
      <4>2. QED
        BY <4>1
    <3>3. QED
      BY <1>6, <1>13, <3>1, <3>2
  <2>3. QED
    BY <1>2, <2>1, <2>2 DEF EInv, RemovedIsIdle
<1>17. QED
  BY <1>11, <1>12, <1>14, <1>15, <1>16 DEF EInv

-----------------------------------------------------------------------------
(* Elements, rings and events: the theorems *)

\* Nothing is created at first.
LEMMA InitEInv == Init => EInv
<1> SUFFICES ASSUME Init PROVE EInv
  OBVIOUS
<1>1. EventTypes
  BY DEF Init, EventTypes
<1>2. /\ \A q \in Queues : ~Exists(q)
      /\ \A c \in Cores : elem[c] = None /\ burst[c] = <<>> /\ running[c] = None
      /\ removing = {} /\ removed = {} /\ free = Events
      /\ schedQueue = <<>> /\ freeRings = <<>> /\ content = <<>>
  BY DEF Init, Exists
<1>3. RingsApart /\ OneElement /\ CountsTrue /\ BurstsHeld /\ RemovedIsIdle
  <2>1. OneElement
    BY <1>2, EmptyMembers, OperationFacts DEF OneElement, InSchedQueue
  <2>2. QED
    BY <1>2, <2>1, EmptyMembers DEF RingsApart, CountsTrue, BurstsHeld, RemovedIsIdle
<1>4. EventsApart
  BY <1>2, EmptyMembers DEF EventsApart, InRing, InBurst
<1>5. QED
  BY <1>1, <1>3, <1>4 DEF EInv

\* Every step keeps it, if a queue is removed only when its events have come back.
LEMMA StepEInv ==
  ASSUME Drains, IInv, EInv, [Next]_vars
  PROVE  EInv'
<1>1. CASE UNCHANGED vars
  <2>1. /\ UNCHANGED <<ring, freeRings, eventVars, elem, burst, taken, running, removing, removed, status,
                      function, internalVars>>
    BY <1>1 DEF vars, poolVars, queueVars, coreVars, ruleVars
  <2>2. EventTypes' /\ RingsApart' /\ OneElement' /\ CountsTrue' /\ BurstsHeld' /\ EventsApart'
    BY <2>1, SameEvents
  <2>3. \A p : Owing(p)' = Owing(p)
    BY <2>1, SameOwing DEF SameLocal
  <2>4. RemovedIsIdle'
    BY <2>1, <2>3, SameRemoved DEF EInv, IInv, TypeOK, eventVars
  <2>5. QED
    BY <2>2, <2>4 DEF EInv
<1>2. CASE Next
  <2>1. PICK c \in Cores :
          AppStep(c) \/ Returns(c) \/ CallStep(c) \/ DispatchStep(c) \/ Take(c) \/ Handle(c) \/ Done(c)
    BY <1>2 DEF Next
  <2>2. CASE AppStep(c)
    <3>1. CASE CreateQueue(c)
      BY <3>1, CreateQueueEvents
    <3>2. CASE \E q \in Queues : CreateStaticQueue(c, q) \/ AddQueue(c, q) \/ EnableQueue(c, q)
      BY <3>2, QueueEvents
    <3>3. CASE \E q \in Queues : DeleteQueue(c, q)
      BY <3>3, DeleteEvents
    <3>4. CASE \E q \in Queues : RemoveQueue(c, q)
      BY <3>4, RemoveEvents
    <3>5. CASE \E q \in Queues, e \in Events : Send(c, q, e)
      BY <3>5, SendEvents
    <3>6. CASE \/ EoCreate(c) \/ EoDelete(c) \/ EoStart(c) \/ EoStop(c) \/ EnableAll(c) \/ DisableAll(c)
      BY <3>6, EoEvents
    <3>7. QED
      BY <2>2, <3>1, <3>2, <3>3, <3>4, <3>5, <3>6 DEF AppStep
  <2>3. CASE Returns(c)
    BY <2>3, EoEvents, InternalEvents, DispatchEvents DEF Returns
  <2>4. CASE CallStep(c)
    BY <2>4, EoEvents
  <2>5. CASE DispatchStep(c)
    BY <2>5, DispatchEvents, PutBackEvents DEF DispatchStep
  <2>6. CASE Take(c)
    BY <2>6, TakeEvents
  <2>7. CASE Handle(c) \/ Done(c)
    BY <2>7, InternalEvents
  <2>8. QED
    BY <2>1, <2>2, <2>3, <2>4, <2>5, <2>6, <2>7
<1>3. QED
  BY <1>1, <1>2

\* An em_eo_remove_queue whose queue is drained leaves nothing of the queue in the scheduler
\* once it is notified, so that em_queue_delete may give its id and its ring away; and a
\* queue has one element if its sched_count is 1, none if it is 0.
THEOREM DeletedStaysIdle ==
  ASSUME Drains
  PROVE  Spec => []DeletedIsIdle
<1>1. Drains
  OBVIOUS
<1>2. IInv /\ EInv => DeletedIsIdle
  <2> SUFFICES ASSUME IInv, EInv, NEW q \in Queues
               PROVE  /\ Places(q) = IF status[q] = "INVALID" THEN 0 ELSE schedCount[q]
                      /\ q \in removed => content[ring[q]] = <<>> /\ Places(q) = 0
    BY DEF DeletedIsIdle
  <2>1. PICK A, B : /\ A = {i \in 1..Len(schedQueue) : schedQueue[i] = q}
                    /\ B = {c \in Cores : elem[c] = q}
    OBVIOUS
  <2>2. /\ A = {} <=> ~InSchedQueue(q)
        /\ B = {} <=> \A c \in Cores : elem[c] # q
    BY <2>1 DEF InSchedQueue, Contains
  <2>3. A # {} => (\E i : A = {i}) /\ B = {}
    <3>1. \A i, j \in 1..Len(schedQueue) : schedQueue[i] = schedQueue[j] => i = j
      BY InjectiveFacts DEF IInv, TypeOK, EInv, OneElement
    <3>2. InSchedQueue(q) => B = {}
      BY <2>2 DEF EInv, OneElement
    <3>3. \A i, j \in A : i = j
      <4>1. \A i \in A : i \in 1..Len(schedQueue) /\ schedQueue[i] = q
        BY <2>1
      <4>2. QED
        BY <3>1, <4>1
    <3>4. A # {} => \E i : A = {i}
      BY <3>3
    <3>5. QED
      BY <2>2, <3>2, <3>4
  <2>4. B # {} => \E c : B = {c}
    <3>1. \A c, d \in B : c = d
      <4>1. q # None
        BY OperationFacts
      <4>2. QED
        BY <2>1, <4>1 DEF EInv, OneElement
    <3>2. QED
      BY <3>1
  <2>5. /\ Cardinality(A) = IF InSchedQueue(q) THEN 1 ELSE 0
        /\ Cardinality(B) = IF \A c \in Cores : elem[c] # q THEN 0 ELSE 1
    BY <2>2, <2>3, <2>4, FS_EmptySet, FS_Singleton
  <2>6. Places(q) = Cardinality(A) + Cardinality(B)
    BY <2>1 DEF Places
  <2>7. Places(q) = IF InSchedQueue(q) \/ \E c \in Cores : elem[c] = q THEN 1 ELSE 0
    BY <2>2, <2>3, <2>5, <2>6
  <2>8. schedCount[q] \in {0, 1}
    BY DEF EInv, EventTypes
  <2>9. Places(q) = IF status[q] = "INVALID" THEN 0 ELSE schedCount[q]
    BY <2>7, <2>8 DEF EInv, OneElement, Exists
  <2>10. q \in removed => content[ring[q]] = <<>> /\ Places(q) = 0
    <3>1. SUFFICES ASSUME q \in removed PROVE content[ring[q]] = <<>> /\ Places(q) = 0
      OBVIOUS
    <3>2. ~UnderWay(q)
      BY <3>1 DEF IInv, Course, QueuesPlaced
    <3>3. /\ content[ring[q]] = <<>> /\ ~InSchedQueue(q)
          /\ \A c \in Cores : elem[c] # q
      BY <3>1, <3>2 DEF UnderWay, EInv, RemovedIsIdle
    <3>4. QED
      BY <2>7, <3>3
  <2>11. QED
    BY <2>9, <2>10
<1>3. Drains /\ IInv /\ EInv /\ [Next]_vars => EInv'
  BY StepEInv
<1>4. QED
  BY <1>1, <1>2, <1>3, InitEInv, InvariantHolds, PTL DEF Spec

\* An event is free, in one ring or in one burst, whatever queues are created on rings of
\* others that have been deleted; if queues are drained before they are removed.
THEOREM EventsStayInOnePlace ==
  ASSUME Drains
  PROVE  Spec => []OnePlace
<1>1. Drains
  OBVIOUS
<1>2. IInv /\ EInv => OnePlace
  <2> SUFFICES ASSUME IInv, EInv, NEW e \in Events
               PROVE  Cardinality({r \in 1..Len(content) : Contains(content[r], e)})
                        + Cardinality({c \in Cores : Contains(burst[c], e)})
                        + (IF e \in free THEN 1 ELSE 0) = 1
    BY DEF OnePlace
  <2>1. PICK A, B : /\ A = {r \in 1..Len(content) : Contains(content[r], e)}
                    /\ B = {c \in Cores : Contains(burst[c], e)}
    OBVIOUS
  <2>2. /\ \A r, s \in A : r = s
        /\ \A c, d \in B : c = d
        /\ A = {} \/ B = {}
        /\ e \in free <=> A = {} /\ B = {}
    BY <2>1 DEF EInv, EventsApart, InRing, InBurst
  <2>3. (A = {} \/ \E r : A = {r}) /\ (B = {} \/ \E c : B = {c})
    BY <2>2
  <2>4. /\ Cardinality(A) = IF A = {} THEN 0 ELSE 1
        /\ Cardinality(B) = IF B = {} THEN 0 ELSE 1
    BY <2>3, FS_EmptySet, FS_Singleton
  <2>5. Cardinality(A) + Cardinality(B) + (IF e \in free THEN 1 ELSE 0) = 1
    BY <2>2, <2>4
  <2>6. QED
    BY <2>1, <2>5
<1>3. Drains /\ IInv /\ EInv /\ [Next]_vars => EInv'
  BY StepEInv
<1>4. QED
  BY <1>1, <1>2, <1>3, InitEInv, InvariantHolds, PTL DEF Spec

=============================================================================
