-------------------------- MODULE QueueGroupProofs --------------------------
(***************************************************************************)
(* The safety of QueueGroup, for any number of cores and queues: the mask  *)
(* of the group is that of the cores in it, the counts behind the cores'   *)
(* scheduling masks are those of its enabled queues, and a notified        *)
(* disable has silenced its cores.  The application leaves a group alone    *)
(* while it is deleted (~Contends): otherwise the first of these fails.     *)
(*                                                                         *)
(* The invariants of the runs say nothing of what is under way; what does  *)
(* is the inductive invariant below.  Its centre is Owing(o), the cores    *)
(* whose internal event of operation o is not handled yet, whether it is   *)
(* still to be sent or in the core's queue: left[o] counts them, so the    *)
(* 'done' event means that none is left.                                   *)
(***************************************************************************)
EXTENDS QueueGroup, SequencesExt, SequenceTheorems, FiniteSetTheorems, TLAPS

-----------------------------------------------------------------------------
(* Sequences *)

(* Appending to a sequence.                                                    *)
LEMMA AppendFacts ==
  ASSUME NEW S, NEW s \in Seq(S), NEW x \in S
  PROVE  /\ Append(s, x) \in Seq(S)
         /\ Len(Append(s, x)) = Len(s) + 1
         /\ \A i \in 1..Len(s) : Append(s, x)[i] = s[i]
         /\ Append(s, x)[Len(s) + 1] = x
  OBVIOUS

(* Leaving out the first element of a sequence.                                *)
LEMMA TailFacts ==
  ASSUME NEW S, NEW s \in Seq(S), s # <<>>
  PROVE  /\ Head(s) = s[1] /\ Head(s) \in S
         /\ Len(s) \in Nat \ {0} /\ 1 \in 1..Len(s)
         /\ Tail(s) \in Seq(S)
         /\ Len(Tail(s)) = Len(s) - 1
         /\ \A i \in 1..Len(Tail(s)) : Tail(s)[i] = s[i + 1]
         /\ Len(s) > 1 => Tail(s) # <<>>
         /\ ~(Len(s) > 1) => Tail(s) = <<>>
<1>1. Len(s) \in Nat \ {0}
  OBVIOUS
<1>2. Tail(s) \in Seq(S) /\ Len(Tail(s)) = Len(s) - 1
  OBVIOUS
<1>3. \A i \in 1..Len(Tail(s)) : Tail(s)[i] = s[i + 1]
  OBVIOUS
<1>4. ASSUME Len(s) > 1 PROVE Tail(s) # <<>>
  <2>1. Len(Tail(s)) # 0
    BY <1>1, <1>2, <1>4
  <2>2. QED
    BY <1>2, <2>1, EmptySeq
<1>5. ASSUME ~(Len(s) > 1) PROVE Tail(s) = <<>>
  BY <1>1, <1>2, <1>5
<1>6. QED
  BY <1>1, <1>2, <1>3, <1>4, <1>5

-----------------------------------------------------------------------------
(* The inductive invariant *)

TypeOK ==
  /\ allocated \in BOOLEAN /\ list \in SUBSET Queues
  /\ mask \in SUBSET Cores /\ pending \in BOOLEAN /\ newMask \in SUBSET Cores
  /\ status \in [Queues -> {"INVALID", "BIND", "READY"}]
  /\ qidxCnt \in [Cores -> [Idxs -> Nat]]
  /\ grpCnt \in [Cores -> Nat]
  /\ qidxMask \in [Cores -> SUBSET Idxs]
  /\ grpMask \in SUBSET Cores /\ member \in SUBSET Cores
  /\ inbox \in [Cores -> Seq(Requests)]
  /\ left \in [Operations -> Int]
  /\ done \in Seq(Operations)
  /\ pc \in [Cores -> ControlPoints]
  /\ arg \in [Cores -> Queues \cup {None}]
  /\ toSend \in [Cores -> SUBSET (Cores \X Requests)]
  /\ cursor \in [Cores -> Idxs \cup {None}]
  /\ running \in [Cores -> Queues \cup {None}]
  /\ asked \in SUBSET Queues /\ quiet \in SUBSET Queues

\* A call that changes a queue has the queue to itself, in the status it gave it, and
\* only a call that sends has something to send.
CallsApart ==
  \A c \in Cores :
    /\ pc[c] # "send" => toSend[c] = {}
    /\ arg[c] # None <=> Changing(c)
    /\ pc[c] = "add" => status[arg[c]] = "READY"
    /\ pc[c] = "rem" => status[arg[c]] = "BIND"
    /\ Changing(c) => ~pending
    /\ \A d \in Cores : arg[c] = arg[d] /\ arg[c] # None => c = d

\* The queues of the list are those that exist, and a free place has no queues and cores.
TableTrue ==
  /\ list = {q \in Queues : status[q] # "INVALID"}
  /\ ~allocated => ~pending /\ mask = {} /\ list = {}

\* A core that is deleting the group has it to itself.
DeletionAlone ==
  \A c \in Cores : pc[c] = "delete" =>
    /\ allocated /\ ~pending /\ mask = {} /\ list = {}
    /\ \A d \in Cores : pc[d] = "delete" => c = d

\* Core d's internal event r is in its queue, or still to be sent.
Unsent(d, r) == \E c \in Cores : <<d, r>> \in toSend[c]
Held(d, r) == \E i \in 1..Len(inbox[d]) : inbox[d][i] = r

\* The cores that have not handled their event of operation o.
Owing(o) == {d \in Cores : \E r \in Requests : OperationOf(r) = o /\ (Unsent(d, r) \/ Held(d, r))}

\* An operation has one event for a core: in one place, ...
OneInToSend ==
  \A c1, c2, d \in Cores : \A r1, r2 \in Requests :
    /\ <<d, r1>> \in toSend[c1] /\ <<d, r2>> \in toSend[c2]
    /\ OperationOf(r1) = OperationOf(r2)
    => c1 = c2 /\ r1 = r2

OneInInbox ==
  \A d \in Cores : \A i, j \in 1..Len(inbox[d]) :
    OperationOf(inbox[d][i]) = OperationOf(inbox[d][j]) => i = j

NotInBoth ==
  \A c, d \in Cores : \A r \in Requests : \A i \in 1..Len(inbox[d]) :
    <<d, r>> \in toSend[c] => OperationOf(inbox[d][i]) # OperationOf(r)

OneEvent == OneInToSend /\ OneInInbox /\ NotInBoth

\* Its event group counts them, ...
LeftCounts == \A o \in Operations : left[o] = Cardinality(Owing(o))

\* and its 'done' event is the only one, after all of them.
Over(o) == \E i \in 1..Len(done) : done[i] = o

DoneOnce == \A i, j \in 1..Len(done) : done[i] = done[j] => i = j
DoneIsLast == \A o \in Operations : Over(o) => Owing(o) = {}

\* A disable begins when the last one of the queue is over.
DisableAlone ==
  \A c \in Cores, q \in Queues :
    pc[c] = "rem" /\ arg[c] = q => Owing(q) = {} /\ ~Over(q)

\* A modify is pending as long as it is under way.
PendingUnderWay == pending <=> Owing("MODIFY") # {} \/ Over("MODIFY")

\* The cores that still have to enter or leave, and all others are where they belong.
MembersFollow ==
  \A d \in Cores :
    /\ (Unsent(d, "ADD") \/ Held(d, "ADD")) => d \in newMask \ mask /\ d \notin member
    /\ (Unsent(d, "REM") \/ Held(d, "REM")) => d \in mask \ newMask /\ d \in member
    /\ d \notin Owing("MODIFY") => (d \in member <=> d \in (IF pending THEN newMask ELSE mask))

\* The queues that the masks have: enabled and added, or disabled and not removed yet.
Counted ==
  {q \in Queues : \/ status[q] = "READY" /\ \A c \in Cores : ~(pc[c] = "add" /\ arg[c] = q)
                  \/ \E c \in Cores : pc[c] = "rem" /\ arg[c] = q}

CountedAt(i) == {q \in Counted : Idx[q] = i}

\* What the counts of core d, and its mask bits, must be.
RightCounts(d) ==
  /\ \A i \in Idxs :
       /\ qidxCnt[d][i] = IF d \in member THEN Cardinality(CountedAt(i)) ELSE 0
       /\ i \in qidxMask[d] <=> qidxCnt[d][i] > 0
  /\ grpCnt[d] = IF d \in member THEN Cardinality(Counted) ELSE 0
  /\ d \in grpMask <=> grpCnt[d] > 0

CountsFollow == \A d \in Cores : RightCounts(d)

\* A core of the group in the receive function of a queue whose disable waits for it
\* still has the disable's event to come; nothing begins meanwhile.
QuietFollows ==
  /\ quiet \subseteq asked /\ asked \subseteq Notified
  /\ \A q \in asked :
       /\ status[q] = "BIND"
       /\ (\A c \in Cores : ~(pc[c] = "rem" /\ arg[c] = q)) =>
            \A d \in member : running[d] = q => d \in Owing(q)

Events == OneEvent /\ LeftCounts /\ DoneOnce /\ DoneIsLast /\ DisableAlone

\* What the invariant says of operations and of the cores that enter and leave.
Phases == Events /\ PendingUnderWay /\ MembersFollow

IInv ==
  /\ TypeOK /\ CallsApart /\ TableTrue /\ DeletionAlone
  /\ Phases
  /\ QuietFollows /\ MembersAreQuiet

-----------------------------------------------------------------------------
(* Types *)

\* What a modify asks of the cores is one event for each that enters or leaves.
LEMMA ChangesFacts ==
  ASSUME NEW old \in SUBSET Cores, NEW new \in SUBSET Cores
  PROVE  /\ Changes(old, new) \in SUBSET (Cores \X Requests)
         /\ IsFiniteSet((old \ new) \cup (new \ old))
         /\ Cardinality(Changes(old, new)) = Cardinality((old \ new) \cup (new \ old))
         /\ Cardinality(Changes(old, new)) \in Nat
<1> DEFINE S == (old \ new) \cup (new \ old)
           f == [d \in S |-> <<d, IF d \in old THEN "REM" ELSE "ADD">>]
<1>1. IsFiniteSet(S)
  BY ConstantsAssumption, FS_Subset
<1>2. f \in Bijection(S, Changes(old, new))
  <2>1. f \in [S -> Changes(old, new)] /\ \A a, b \in S : f[a] = f[b] => a = b
    BY DEF Changes
  <2>2. \A t \in Changes(old, new) : \E s \in S : f[s] = t
    BY DEF Changes
  <2>3. QED
    BY <2>1, <2>2 DEF Bijection, Injection, Surjection, IsInjective
<1>3. QED
  BY <1>1, <1>2, FS_Bijection, FS_CardinalityType DEF ExistsBijection, Changes, Requests

\* The queues that a core counts are finite in number.
LEMMA QueuesCounted ==
  ASSUME NEW S \in SUBSET Queues
  PROVE  IsFiniteSet(S) /\ Cardinality(S) \in Nat
BY ConstantsAssumption, FS_Subset, FS_CardinalityType

\* The cores that a group count stands for are finite in number.
LEMMA CoresCounted ==
  ASSUME NEW S \in SUBSET Cores
  PROVE  IsFiniteSet(S) /\ Cardinality(S) \in Nat
BY ConstantsAssumption, FS_Subset, FS_CardinalityType

\* Operations and requests.
LEMMA OperationFacts ==
  /\ \A q \in Queues : OperationOf(q) = q /\ q \in Operations /\ q \in Requests /\ q # None
  /\ \A r \in Requests : OperationOf(r) \in Operations
  /\ OperationOf("ADD") = "MODIFY" /\ OperationOf("REM") = "MODIFY"
  /\ "MODIFY" \in Operations /\ "MODIFY" \notin Queues
  /\ "ADD" \notin Queues /\ "REM" \notin Queues
  /\ \A r \in Requests : OperationOf(r) = "MODIFY" => r \in {"ADD", "REM"}
  /\ \A r \in Requests, q \in Queues : OperationOf(r) = q => r = q
  /\ \A q \in Queues : Idx[q] \in Idxs
BY ConstantsAssumption DEF OperationOf, Operations, Requests, Idxs

\* A modify of the group as it is begins.
Remask(c, new) == new # mask /\ Modify(c, mask, new) /\ UNCHANGED mask

\* A group that is created is modified, or has no cores and is ready.
LEMMA CreateFacts ==
  ASSUME TypeOK, TableTrue, NEW c \in Cores, NEW new \in SUBSET Cores, CreateGroup(c, new)
  PROVE  /\ MayCall(c) /\ ~allocated /\ ~pending /\ list = {} /\ mask = {}
         /\ allocated' /\ list' = list /\ mask' = mask
         /\ \/ Remask(c, new)
            \/ UNCHANGED <<pending, newMask, status, maskVars, eventVars, pc, callVars, coreVars, ruleVars>>
<1>1. ~allocated /\ ~pending /\ list = {} /\ mask = {} /\ list' = {} /\ mask' = {}
  BY DEF CreateGroup, TableTrue
<1>2. CASE new = {}
  BY <1>1, <1>2 DEF CreateGroup, TypeOK
<1>3. CASE new # {}
  BY <1>1, <1>3 DEF CreateGroup, Remask
<1>4. QED
  BY <1>2, <1>3

\* The variables keep their types.
LEMMA TypeStep == TypeOK /\ CallsApart /\ TableTrue /\ [Next]_vars => TypeOK'
<1> USE DEF tableVars, groupVars, maskVars, eventVars, callVars, coreVars, ruleVars, Goto
<1> SUFFICES ASSUME TypeOK, CallsApart, TableTrue, [Next]_vars PROVE TypeOK'
  OBVIOUS
<1>1. CASE UNCHANGED vars
  BY <1>1 DEF TypeOK, vars
<1>2. ASSUME NEW c \in Cores, NEW new \in SUBSET Cores, Remask(c, new),
             list' \in SUBSET Queues, allocated' \in BOOLEAN
      PROVE  TypeOK'
  <2>1. mask \in SUBSET Cores
    BY DEF TypeOK
  <2> DEFINE asks == Changes(mask, new)
  <2>2. asks \in SUBSET (Cores \X Requests) /\ Cardinality(asks) \in Nat
    BY <2>1, ChangesFacts
  <2>3. "send" \in ControlPoints /\ "MODIFY" \in Operations
    BY DEF ControlPoints, Operations
  <2>4. QED
    BY <1>2, <2>2, <2>3 DEF Remask, Modify, TypeOK
<1>3. ASSUME NEW c \in Cores, NEW new \in SUBSET Cores, CreateGroup(c, new)
      PROVE  TypeOK'
  <2>1. /\ allocated' \in BOOLEAN /\ list' = list /\ mask' = mask
        /\ \/ Remask(c, new)
           \/ UNCHANGED <<pending, newMask, status, maskVars, eventVars, pc, callVars, coreVars, ruleVars>>
    BY <1>3, CreateFacts DEF CreateGroup
  <2>2. list \in SUBSET Queues
    BY DEF TypeOK
  <2>3. CASE Remask(c, new)
    BY <1>2, <2>1, <2>2, <2>3
  <2>4. CASE UNCHANGED <<pending, newMask, status, maskVars, eventVars, pc, callVars, coreVars, ruleVars>>
    BY <2>1, <2>4 DEF TypeOK
  <2>5. QED
    BY <2>1, <2>3, <2>4
<1>4. ASSUME NEW c \in Cores, NEW new \in SUBSET Cores, ModifyGroup(c, new)
      PROVE  TypeOK'
  <2>1. Remask(c, new) /\ list' \in SUBSET Queues /\ allocated' \in BOOLEAN
    BY <1>4 DEF ModifyGroup, Remask, TypeOK
  <2>2. QED
    BY <1>2, <2>1
<1>5. ASSUME NEW c \in Cores, DeleteGroup(c) \/ DeleteDone(c)
      PROVE  TypeOK'
  <2>1. /\ pc' = [pc EXCEPT ![c] = "delete"] \/ pc' = [pc EXCEPT ![c] = "idle"]
        /\ allocated' \in BOOLEAN /\ pending' \in BOOLEAN
        /\ UNCHANGED <<list, mask, newMask, status, maskVars, eventVars, callVars, coreVars, ruleVars>>
    BY <1>5 DEF DeleteGroup, DeleteDone, TypeOK
  <2>2. pc' \in [Cores -> ControlPoints]
    BY <2>1 DEF TypeOK, ControlPoints
  <2>3. QED
    BY <2>1, <2>2 DEF TypeOK
<1>6. ASSUME NEW c \in Cores, NEW q \in Queues, CreateQueue(c, q) \/ DeleteQueue(c, q)
      PROVE  TypeOK'
  BY <1>6 DEF CreateQueue, DeleteQueue, TypeOK
<1>7. ASSUME NEW c \in Cores, NEW q \in Queues, Enable(c, q) \/ Disable(c, q)
      PROVE  TypeOK'
  <2>1. /\ status' = [status EXCEPT ![q] = "READY"] \/ status' = [status EXCEPT ![q] = "BIND"]
        /\ pc' = [pc EXCEPT ![c] = "add"] \/ pc' = [pc EXCEPT ![c] = "rem"]
        /\ arg' = [arg EXCEPT ![c] = q]
    BY <1>7 DEF Enable, Disable
  <2>2. /\ status' \in [Queues -> {"INVALID", "BIND", "READY"}]
        /\ pc' \in [Cores -> ControlPoints]
        /\ arg' \in [Cores -> Queues \cup {None}]
    BY <2>1 DEF TypeOK, ControlPoints
  <2>3. asked' \in SUBSET Queues /\ quiet' \in SUBSET Queues
    BY <1>7 DEF Enable, Disable, TypeOK
  <2>4. QED
    BY <1>7, <2>2, <2>3 DEF Enable, Disable, TypeOK
<1>8. ASSUME NEW c \in Cores, SendRequest(c)
      PROVE  TypeOK'
  <2>1. PICK r \in toSend[c] : /\ inbox' = [inbox EXCEPT ![r[1]] = Append(@, r[2])]
                               /\ toSend' = [toSend EXCEPT ![c] = @ \ {r}]
    BY <1>8 DEF SendRequest
  <2>2. r[1] \in Cores /\ r[2] \in Requests
    BY DEF TypeOK
  <2>3. inbox' \in [Cores -> Seq(Requests)]
    BY <2>1, <2>2 DEF TypeOK
  <2>4. pc' \in [Cores -> ControlPoints]
    BY <1>8 DEF SendRequest, TypeOK, ControlPoints
  <2>5. toSend' \in [Cores -> SUBSET (Cores \X Requests)]
    BY <2>1 DEF TypeOK
  <2>6. QED
    BY <1>8, <2>3, <2>4, <2>5 DEF SendRequest, TypeOK
<1>9. ASSUME NEW c \in Cores, AddQueue(c)
      PROVE  TypeOK'
  <2> DEFINE i == Idx[arg[c]]
  <2>1. i \in Idxs
    BY <1>9, OperationFacts DEF AddQueue, TypeOK, CallsApart, Changing
  <2>2. \A d \in Cores : qidxCnt[d] \in [Idxs -> Nat] /\ grpCnt[d] \in Nat /\ qidxMask[d] \in SUBSET Idxs
    BY DEF TypeOK
  <2>3. \A d \in Cores : [qidxCnt[d] EXCEPT ![i] = @ + 1] \in [Idxs -> Nat]
    BY <2>1, <2>2
  <2>4. qidxCnt' \in [Cores -> [Idxs -> Nat]]
    BY <1>9, <2>2, <2>3 DEF AddQueue
  <2>5. grpCnt' \in [Cores -> Nat]
    BY <1>9, <2>2 DEF AddQueue
  <2>6. qidxMask' \in [Cores -> SUBSET Idxs]
    BY <1>9, <2>1, <2>2 DEF AddQueue
  <2>7. grpMask' \in SUBSET Cores
    BY <1>9 DEF AddQueue, TypeOK
  <2>8. QED
    BY <1>9, <2>4, <2>5, <2>6, <2>7 DEF AddQueue, TypeOK, ControlPoints
<1>10. ASSUME NEW c \in Cores, RemoveQueue(c)
      PROVE  TypeOK'
  <2> DEFINE q == arg[c]
             i == Idx[arg[c]]
             ds == CoresToNotify(q)
  <2>1. i \in Idxs /\ q \in Queues /\ q \in Operations /\ q \in Requests
    BY <1>10, OperationFacts DEF RemoveQueue, TypeOK, CallsApart, Changing
  <2>2. \A d \in Cores : qidxCnt[d] \in [Idxs -> Nat] /\ grpCnt[d] \in Nat /\ qidxMask[d] \in SUBSET Idxs
    BY DEF TypeOK
  <2>3. \A n \in Nat : Less(n) \in Nat
    BY DEF Less
  <2>4. \A d \in Cores : [qidxCnt[d] EXCEPT ![i] = Less(@)] \in [Idxs -> Nat]
    BY <2>1, <2>2, <2>3
  <2>5. qidxCnt' \in [Cores -> [Idxs -> Nat]]
    BY <1>10, <2>2, <2>4 DEF RemoveQueue, Uncount
  <2>6. grpCnt' \in [Cores -> Nat]
    BY <1>10, <2>2, <2>3 DEF RemoveQueue, Uncount
  <2>7. qidxMask' \in [Cores -> SUBSET Idxs]
    BY <1>10, <2>2 DEF RemoveQueue, Uncount
  <2>8. grpMask' \in SUBSET Cores
    BY <1>10 DEF RemoveQueue, Uncount, TypeOK
  <2>9. ds \in SUBSET Cores /\ Cardinality(ds) \in Int
    BY CoresCounted DEF CoresToNotify, TypeOK
  <2>10. left' \in [Operations -> Int] /\ toSend' \in [Cores -> SUBSET (Cores \X Requests)]
    BY <1>10, <2>1, <2>9 DEF RemoveQueue, NotifyCores, WaitFor, TypeOK
  <2>11. pc' \in [Cores -> ControlPoints] /\ arg' \in [Cores -> Queues \cup {None}]
    BY <1>10 DEF RemoveQueue, NotifyCores, WaitFor, ControlPoints, TypeOK
  <2>12. QED
    BY <1>10, <2>5, <2>6, <2>7, <2>8, <2>10, <2>11 DEF RemoveQueue, Uncount, TypeOK
<1>11. ASSUME NEW d \in Cores, Handle(d)
      PROVE  TypeOK'
  <2> DEFINE r == Head(inbox[d])
  <2>1. /\ inbox[d] \in Seq(Requests) /\ inbox[d] # <<>> /\ r \in Requests
        /\ Tail(inbox[d]) \in Seq(Requests)
    BY <1>11, TailFacts DEF Handle, TypeOK
  <2>2. OperationOf(r) \in Operations
    BY <2>1, OperationFacts
  <2>3. inbox' \in [Cores -> Seq(Requests)]
    BY <1>11, <2>1 DEF Handle, TypeOK
  <2>4. left' \in [Operations -> Int] /\ done' \in Seq(Operations)
    BY <1>11, <2>2 DEF Handle, CountDown, TypeOK
  <2>5. ASSUME AddGroup(d), member' = member \cup {d}
        PROVE  TypeOK'
    <3>1. EnabledListed \in SUBSET Queues /\ \A i \in Idxs : EnabledHere(i) \in SUBSET Queues
      BY DEF EnabledListed, EnabledHere, TypeOK
    <3>2. Cardinality(EnabledListed) \in Nat /\ \A i \in Idxs : Cardinality(EnabledHere(i)) \in Nat
      BY <3>1, QueuesCounted
    <3>3. [i \in Idxs |-> qidxCnt[d][i] + Cardinality(EnabledHere(i))] \in [Idxs -> Nat]
      BY <3>2 DEF TypeOK
    <3>4. qidxCnt' \in [Cores -> [Idxs -> Nat]]
      BY <2>5, <3>3 DEF AddGroup, TypeOK
    <3>5. grpCnt' \in [Cores -> Nat]
      BY <2>5, <3>2 DEF AddGroup, TypeOK
    <3>6. {Idx[q] : q \in EnabledListed} \in SUBSET Idxs
      BY <3>1 DEF Idxs
    <3>7. qidxMask' \in [Cores -> SUBSET Idxs]
      BY <2>5, <3>6 DEF AddGroup, TypeOK
    <3>8. grpMask' \in SUBSET Cores /\ member' \in SUBSET Cores
      BY <2>5 DEF AddGroup, TypeOK
    <3>9. QED
      BY <1>11, <2>3, <2>4, <3>4, <3>5, <3>7, <3>8 DEF Handle, TypeOK
  <2>6. ASSUME RemoveGroup(d), member' = member \ {d}
        PROVE  TypeOK'
    <3>1. qidxCnt' \in [Cores -> [Idxs -> Nat]] /\ grpCnt' \in [Cores -> Nat]
      BY <2>6 DEF RemoveGroup, TypeOK
    <3>2. /\ qidxMask' \in [Cores -> SUBSET Idxs]
          /\ grpMask' \in SUBSET Cores /\ member' \in SUBSET Cores
      BY <2>6 DEF RemoveGroup, TypeOK
    <3>3. QED
      BY <1>11, <2>3, <2>4, <3>1, <3>2 DEF Handle, TypeOK
  <2>7. ASSUME UNCHANGED maskVars
        PROVE  TypeOK'
    BY <1>11, <2>3, <2>4, <2>7 DEF Handle, TypeOK
  <2>8. QED
    BY <1>11, <2>5, <2>6, <2>7 DEF Handle
<1>12. ASSUME NEW d \in Cores, ModifyDone(d) \/ \E q \in Queues : DisableDone(d, q)
      PROVE  TypeOK'
  <2>1. done # <<>> => Tail(done) \in Seq(Operations)
    BY TailFacts DEF TypeOK
  <2>2. done' \in Seq(Operations)
    BY <1>12, <2>1 DEF ModifyDone, DisableDone, NextDone, TypeOK
  <2>3. QED
    BY <1>12, <2>2 DEF ModifyDone, DisableDone, TypeOK
<1>13. ASSUME NEW d \in Cores, MoveCursor(d) \/ ReceiveReturns(d)
      PROVE  TypeOK'
  BY <1>13 DEF MoveCursor, ReceiveReturns, TypeOK
<1>14. ASSUME NEW d \in Cores, NEW q \in Queues, Dispatch(d, q) \/ DirectDispatch(d, q)
      PROVE  TypeOK'
  BY <1>14 DEF Dispatch, DirectDispatch, TypeOK
<1>15. QED
  BY <1>1, <1>3, <1>4, <1>5, <1>6, <1>7, <1>8, <1>9, <1>10, <1>11, <1>12, <1>13, <1>14
     DEF Next, AppStep, CallStep, TakeDone

-----------------------------------------------------------------------------
(* Where the internal events are *)

\* Steps that send and take no internal event leave them where they are.
LEMMA SameEvents ==
  ASSUME UNCHANGED <<inbox, toSend>>
  PROVE  /\ \A o : Owing(o)' = Owing(o)
         /\ \A d, r : /\ Unsent(d, r)' <=> Unsent(d, r)
                      /\ Held(d, r)' <=> Held(d, r)
         /\ OneEvent => OneEvent'
<1>1. \A d, r : /\ Unsent(d, r)' <=> Unsent(d, r)
                /\ Held(d, r)' <=> Held(d, r)
  BY DEF Unsent, Held
<1>2. \A o : Owing(o)' = Owing(o)
  BY <1>1 DEF Owing
<1>3. OneEvent => OneEvent'
  BY DEF OneEvent, OneInToSend, OneInInbox, NotInBoth
<1>4. QED
  BY <1>1, <1>2, <1>3

\* The beginning of an operation: a core that sends nothing has events to send, at most
\* one for each core, of an operation that no core owes.
Begins(c, o, R) ==
  /\ pc[c] # "send" /\ Owing(o) = {}
  /\ R \in SUBSET (Cores \X Requests)
  /\ \A r \in R : OperationOf(r[2]) = o
  /\ \A r, s \in R : r[1] = s[1] => r = s
  /\ toSend' = [toSend EXCEPT ![c] = R] /\ UNCHANGED inbox

LEMMA BeginEvents ==
  ASSUME TypeOK, CallsApart, OneEvent,
         NEW c \in Cores, NEW o \in Operations, NEW R, Begins(c, o, R)
  PROVE  /\ OneEvent'
         /\ Owing(o)' = {r[1] : r \in R}
         /\ \A p \in Operations \ {o} : Owing(p)' = Owing(p)
         /\ \A d \in Cores, r \in Requests : /\ Unsent(d, r)' <=> Unsent(d, r) \/ <<d, r>> \in R
                                             /\ Held(d, r)' <=> Held(d, r)
<1> USE DEF Begins
<1>1. toSend[c] = {} /\ \A d \in Cores : toSend'[d] = IF d = c THEN R ELSE toSend[d]
  BY DEF CallsApart, TypeOK
<1>2. ASSUME NEW d \in Cores, NEW r \in Requests
      PROVE  /\ Unsent(d, r)' <=> Unsent(d, r) \/ <<d, r>> \in R
             /\ Held(d, r)' <=> Held(d, r)
  BY <1>1 DEF Unsent, Held
<1>3. \A d \in Cores, r \in Requests : OperationOf(r) = o => ~Unsent(d, r) /\ ~Held(d, r)
  BY DEF Owing
<1>4. \A d \in Cores, r \in Requests : <<d, r>> \in R => OperationOf(r) = o
  OBVIOUS
<1>5. Owing(o)' = {r[1] : r \in R}
  <2>1. \A d \in Cores, r \in Requests :
          OperationOf(r) = o => (Unsent(d, r)' \/ Held(d, r)' <=> <<d, r>> \in R)
    BY <1>2, <1>3
  <2>2. \A d \in Cores : d \in Owing(o)' <=> \E r \in Requests : <<d, r>> \in R
    BY <1>4, <2>1 DEF Owing
  <2>3. ASSUME NEW d \in Cores
        PROVE  (\E r \in Requests : <<d, r>> \in R) <=> d \in {r[1] : r \in R}
    <3>1. ASSUME NEW r \in Requests, <<d, r>> \in R PROVE d \in {s[1] : s \in R}
      <4>1. <<d, r>>[1] = d
        OBVIOUS
      <4>2. QED
        BY <3>1, <4>1
    <3>2. ASSUME NEW s \in R, d = s[1] PROVE \E r \in Requests : <<d, r>> \in R
      <4>1. s[2] \in Requests /\ s = <<d, s[2]>>
        BY <3>2
      <4>2. QED
        BY <4>1
    <3>3. QED
      BY <3>1, <3>2
  <2>4. Owing(o)' \subseteq Cores /\ {r[1] : r \in R} \subseteq Cores
    BY DEF Owing
  <2>5. QED
    BY <2>2, <2>3, <2>4
<1>6. ASSUME NEW p \in Operations \ {o}
      PROVE  Owing(p)' = Owing(p)
  BY <1>2, <1>4 DEF Owing
<1>7. OneInToSend'
  <2> SUFFICES ASSUME NEW c1 \in Cores, NEW c2 \in Cores, NEW d \in Cores,
                      NEW r1 \in Requests, NEW r2 \in Requests,
                      <<d, r1>> \in toSend'[c1], <<d, r2>> \in toSend'[c2],
                      OperationOf(r1) = OperationOf(r2)
               PROVE  c1 = c2 /\ r1 = r2
    BY DEF OneInToSend
  <2>1. CASE c1 = c /\ c2 = c
    BY <1>1, <2>1
  <2>2. CASE c1 = c /\ c2 # c
    <3>1. <<d, r1>> \in R /\ Unsent(d, r2)
      BY <1>1, <2>2 DEF Unsent
    <3>2. QED
      BY <1>3, <1>4, <3>1
  <2>3. CASE c1 # c /\ c2 = c
    <3>1. <<d, r2>> \in R /\ Unsent(d, r1)
      BY <1>1, <2>3 DEF Unsent
    <3>2. QED
      BY <1>3, <1>4, <3>1
  <2>4. CASE c1 # c /\ c2 # c
    BY <1>1, <2>4 DEF OneEvent, OneInToSend
  <2>5. QED
    BY <2>1, <2>2, <2>3, <2>4
<1>8. NotInBoth'
  <2> SUFFICES ASSUME NEW c1 \in Cores, NEW d \in Cores, NEW r \in Requests,
                      NEW i \in 1..Len(inbox[d]),
                      <<d, r>> \in toSend'[c1], OperationOf(inbox[d][i]) = OperationOf(r)
               PROVE  FALSE
    BY DEF NotInBoth
  <2>1. CASE c1 = c
    <3>1. inbox[d][i] \in Requests /\ Held(d, inbox[d][i])
      BY DEF Held, TypeOK
    <3>2. QED
      BY <1>1, <1>3, <1>4, <2>1, <3>1
  <2>2. CASE c1 # c
    BY <1>1, <2>2 DEF OneEvent, NotInBoth
  <2>3. QED
    BY <2>1, <2>2
<1>9. OneInInbox'
  BY DEF OneEvent, OneInInbox
<1>10. QED
  BY <1>2, <1>5, <1>6, <1>7, <1>8, <1>9 DEF OneEvent

\* Sending an event: it is in the core's queue instead.
LEMMA SendEvents ==
  ASSUME TypeOK, OneEvent, NEW c \in Cores, NEW r \in toSend[c],
         inbox' = [inbox EXCEPT ![r[1]] = Append(@, r[2])],
         toSend' = [toSend EXCEPT ![c] = @ \ {r}]
  PROVE  /\ OneEvent'
         /\ \A o : Owing(o)' = Owing(o)
         /\ \A d \in Cores, s \in Requests :
              (Unsent(d, s)' \/ Held(d, s)') <=> (Unsent(d, s) \/ Held(d, s))
<1> DEFINE e == r[1]
           x == r[2]
<1>1. e \in Cores /\ x \in Requests /\ r = <<e, x>>
  BY DEF TypeOK
<1>2. /\ \A d \in Cores : inbox[d] \in Seq(Requests) /\ Len(inbox[d]) \in Nat
      /\ \A d \in Cores \ {e} : inbox'[d] = inbox[d]
      /\ inbox'[e] = Append(inbox[e], x)
  BY <1>1 DEF TypeOK
<1>3. /\ Len(inbox'[e]) = Len(inbox[e]) + 1
      /\ \A i \in 1..Len(inbox[e]) : inbox'[e][i] = inbox[e][i]
      /\ inbox'[e][Len(inbox[e]) + 1] = x
  BY <1>1, <1>2, AppendFacts
<1>4. \A d \in Cores : toSend'[d] = IF d = c THEN toSend[c] \ {<<e, x>>} ELSE toSend[d]
  BY <1>1 DEF TypeOK
<1>5. ASSUME NEW d \in Cores, NEW s \in Requests
      PROVE  Held(d, s)' <=> Held(d, s) \/ (d = e /\ s = x)
  BY <1>1, <1>2, <1>3 DEF Held
<1>6. ASSUME NEW d \in Cores, NEW s \in Requests
      PROVE  Unsent(d, s)' <=> Unsent(d, s) /\ ~(d = e /\ s = x)
  BY <1>1, <1>4 DEF Unsent, OneEvent, OneInToSend
<1>7. Unsent(e, x)
  BY <1>1 DEF Unsent
<1>8. \A d \in Cores, s \in Requests :
        (Unsent(d, s)' \/ Held(d, s)') <=> (Unsent(d, s) \/ Held(d, s))
  BY <1>5, <1>6, <1>7
<1>9. \A o : Owing(o)' = Owing(o)
  BY <1>8 DEF Owing
<1>10. OneInToSend'
  BY <1>4 DEF OneEvent, OneInToSend
<1>11. OneInInbox'
  <2> SUFFICES ASSUME NEW d \in Cores, NEW i \in 1..Len(inbox'[d]), NEW j \in 1..Len(inbox'[d]),
                      OperationOf(inbox'[d][i]) = OperationOf(inbox'[d][j])
               PROVE  i = j
    BY DEF OneInInbox
  <2>1. CASE d # e
    BY <1>2, <2>1 DEF OneEvent, OneInInbox
  <2>2. CASE d = e
    <3>1. \A k \in 1..Len(inbox[e]) : OperationOf(inbox[e][k]) # OperationOf(x)
      BY <1>1 DEF OneEvent, NotInBoth
    <3>2. \A k \in 1..Len(inbox'[e]) : k \in 1..Len(inbox[e]) \/ k = Len(inbox[e]) + 1
      BY <1>1, <1>2, <1>3
    <3>3. QED
      BY <1>1, <1>3, <2>2, <3>1, <3>2 DEF OneEvent, OneInInbox
  <2>3. QED
    BY <2>1, <2>2
<1>12. NotInBoth'
  <2> SUFFICES ASSUME NEW c1 \in Cores, NEW d \in Cores, NEW s \in Requests,
                      NEW i \in 1..Len(inbox'[d]),
                      <<d, s>> \in toSend'[c1], OperationOf(inbox'[d][i]) = OperationOf(s)
               PROVE  FALSE
    BY DEF NotInBoth
  <2>1. <<d, s>> \in toSend[c1] /\ ~(c1 = c /\ d = e /\ s = x)
    BY <1>4
  <2>2. CASE d # e \/ i # Len(inbox[e]) + 1
    <3>1. i \in 1..Len(inbox[d]) /\ inbox'[d][i] = inbox[d][i]
      BY <1>1, <1>2, <1>3, <2>2
    <3>2. QED
      BY <2>1, <3>1 DEF OneEvent, NotInBoth
  <2>3. CASE d = e /\ i = Len(inbox[e]) + 1
    BY <1>1, <1>3, <2>1, <2>3 DEF OneEvent, OneInToSend
  <2>4. QED
    BY <2>2, <2>3
<1>13. QED
  BY <1>8, <1>9, <1>10, <1>11, <1>12 DEF OneEvent

\* Handling an event: core d owes its operation no more.
LEMMA HandleEvents ==
  ASSUME TypeOK, OneEvent, NEW d \in Cores, inbox[d] # <<>>,
         NEW x, x = Head(inbox[d]),
         inbox' = [inbox EXCEPT ![d] = Tail(@)], UNCHANGED toSend
  PROVE  /\ x \in Requests
         /\ OneEvent'
         /\ Held(d, x) /\ d \in Owing(OperationOf(x))
         /\ Owing(OperationOf(x))' = Owing(OperationOf(x)) \ {d}
         /\ \A p \in Operations \ {OperationOf(x)} : Owing(p)' = Owing(p)
         /\ \A e \in Cores, s \in Requests :
              /\ Unsent(e, s)' <=> Unsent(e, s)
              /\ Held(e, s)' <=> Held(e, s) /\ ~(e = d /\ s = x)
<1>1. /\ \A e \in Cores : inbox[e] \in Seq(Requests) /\ Len(inbox[e]) \in Nat
      /\ \A e \in Cores \ {d} : inbox'[e] = inbox[e]
      /\ inbox'[d] = Tail(inbox[d])
  BY DEF TypeOK
<1>2. /\ x = inbox[d][1] /\ x \in Requests
      /\ Len(inbox[d]) \in Nat \ {0} /\ 1 \in 1..Len(inbox[d])
      /\ Len(inbox'[d]) = Len(inbox[d]) - 1
      /\ \A i \in 1..Len(inbox'[d]) : inbox'[d][i] = inbox[d][i + 1]
  <2>1. inbox[d] \in Seq(Requests) /\ inbox[d] # <<>>
    BY <1>1
  <2>2. /\ Head(inbox[d]) = inbox[d][1] /\ Head(inbox[d]) \in Requests
        /\ Len(inbox[d]) \in Nat \ {0} /\ 1 \in 1..Len(inbox[d])
        /\ Len(Tail(inbox[d])) = Len(inbox[d]) - 1
        /\ \A i \in 1..Len(Tail(inbox[d])) : Tail(inbox[d])[i] = inbox[d][i + 1]
    BY <2>1, TailFacts
  <2>3. QED
    BY <1>1, <2>2
<1>3. /\ \A i \in 1..Len(inbox'[d]) : i + 1 \in 1..Len(inbox[d]) /\ i + 1 # 1
      /\ \A i \in 1..Len(inbox[d]) : i # 1 => i - 1 \in 1..Len(inbox'[d]) /\ (i - 1) + 1 = i
  BY <1>2
<1>4. \A i \in 1..Len(inbox[d]) : OperationOf(inbox[d][i]) = OperationOf(x) => i = 1
  BY <1>2 DEF OneEvent, OneInInbox
<1>5. ASSUME NEW e \in Cores, NEW s \in Requests
      PROVE  /\ Unsent(e, s)' <=> Unsent(e, s)
             /\ Held(e, s)' <=> Held(e, s) /\ ~(e = d /\ s = x)
  <2>1. Unsent(e, s)' <=> Unsent(e, s)
    BY DEF Unsent
  <2>2. CASE e # d
    BY <1>1, <2>1, <2>2 DEF Held
  <2>3. CASE e = d
    <3>1. ASSUME Held(d, s)' PROVE Held(d, s) /\ s # x
      <4>1. PICK i \in 1..Len(inbox'[d]) : inbox'[d][i] = s
        BY <3>1 DEF Held
      <4>2. i + 1 \in 1..Len(inbox[d]) /\ inbox[d][i + 1] = s /\ i + 1 # 1
        BY <1>2, <1>3, <4>1
      <4>3. QED
        BY <1>4, <4>2 DEF Held
    <3>2. ASSUME Held(d, s), s # x PROVE Held(d, s)'
      <4>1. PICK i \in 1..Len(inbox[d]) : inbox[d][i] = s
        BY <3>2 DEF Held
      <4>2. i - 1 \in 1..Len(inbox'[d]) /\ inbox'[d][i - 1] = inbox[d][i]
        BY <1>2, <1>3, <3>2, <4>1
      <4>3. QED
        BY <4>1, <4>2 DEF Held
    <3>3. QED
      BY <2>1, <2>3, <3>1, <3>2
  <2>4. QED
    BY <2>2, <2>3
<1>6. Held(d, x)
  BY <1>2 DEF Held
<1>7. d \in Owing(OperationOf(x))
  BY <1>2, <1>6 DEF Owing
<1>8. \A s \in Requests : OperationOf(s) = OperationOf(x) => ~Unsent(d, s) /\ (Held(d, s) => s = x)
  BY <1>2, <1>4 DEF Unsent, Held, OneEvent, NotInBoth
<1>9. Owing(OperationOf(x))' = Owing(OperationOf(x)) \ {d}
  <2>1. d \notin Owing(OperationOf(x))'
    BY <1>5, <1>8 DEF Owing
  <2>2. \A e \in Cores \ {d} : e \in Owing(OperationOf(x))' <=> e \in Owing(OperationOf(x))
    BY <1>5 DEF Owing
  <2>3. QED
    BY <2>1, <2>2 DEF Owing
<1>10. ASSUME NEW p \in Operations \ {OperationOf(x)}
       PROVE  Owing(p)' = Owing(p)
  BY <1>5 DEF Owing
<1>11. OneInToSend' /\ NotInBoth'
  <2>1. OneInToSend'
    BY DEF OneEvent, OneInToSend
  <2>2. \A e \in Cores : \A i \in 1..Len(inbox'[e]) : \E j \in 1..Len(inbox[e]) : inbox'[e][i] = inbox[e][j]
    BY <1>1, <1>2, <1>3
  <2>3. ASSUME NEW c \in Cores, NEW e \in Cores, NEW r \in Requests,
               NEW i \in 1..Len(inbox'[e]), <<e, r>> \in toSend'[c]
        PROVE  OperationOf(inbox'[e][i]) # OperationOf(r)
    <3>1. PICK j \in 1..Len(inbox[e]) : inbox'[e][i] = inbox[e][j]
      BY <2>2
    <3>2. QED
      BY <2>3, <3>1 DEF OneEvent, NotInBoth
  <2>4. QED
    BY <2>1, <2>3 DEF NotInBoth
<1>12. OneInInbox'
  <2> SUFFICES ASSUME NEW e \in Cores, NEW i \in 1..Len(inbox'[e]), NEW j \in 1..Len(inbox'[e]),
                      OperationOf(inbox'[e][i]) = OperationOf(inbox'[e][j])
               PROVE  i = j
    BY DEF OneInInbox
  <2>1. CASE e # d
    BY <1>1, <2>1 DEF OneEvent, OneInInbox
  <2>2. CASE e = d
    <3>1. i + 1 \in 1..Len(inbox[d]) /\ j + 1 \in 1..Len(inbox[d])
      BY <1>3, <2>2
    <3>2. OperationOf(inbox[d][i + 1]) = OperationOf(inbox[d][j + 1])
      BY <1>2, <2>2
    <3>3. i + 1 = j + 1
      BY <3>1, <3>2 DEF OneEvent, OneInInbox
    <3>4. QED
      BY <3>3
  <2>3. QED
    BY <2>1, <2>2
<1>13. QED
  BY <1>2, <1>5, <1>6, <1>7, <1>9, <1>10, <1>11, <1>12 DEF OneEvent

-----------------------------------------------------------------------------
(* Calls and the table of groups *)

\* A free place in the table has no call that changes its queues.
LEMMA NobodyChanging ==
  ASSUME TypeOK, CallsApart, TableTrue, list = {}
  PROVE  \A c \in Cores : ~Changing(c)
<1> SUFFICES ASSUME NEW c \in Cores, Changing(c) PROVE FALSE
  OBVIOUS
<1>1. arg[c] \in Queues /\ status[arg[c]] # "INVALID"
  BY DEF CallsApart, Changing, TypeOK
<1>2. QED
  BY <1>1 DEF TableTrue

\* No two calls get into each other's way, and the list is that of the queues.
LEMMA CallsStep ==
  ASSUME TypeOK, CallsApart, TableTrue, PendingUnderWay, [Next]_vars
  PROVE  CallsApart' /\ TableTrue'
<1> USE DEF tableVars, groupVars, maskVars, eventVars, callVars, coreVars, ruleVars, Goto, MayCall
<1>1. ASSUME UNCHANGED <<allocated, list, mask, status, pc, arg, toSend>>,
             UNCHANGED pending \/ ~pending'
      PROVE  CallsApart' /\ TableTrue'
  BY <1>1 DEF CallsApart, Changing, TableTrue
<1>2. ASSUME NEW c \in Cores, NEW new \in SUBSET Cores, Remask(c, new), MayCall(c),
             UNCHANGED list, allocated', \A d \in Cores : ~Changing(d)
      PROVE  CallsApart' /\ TableTrue'
  <2>1. pc'[c] = "send" /\ \A d \in Cores \ {c} : pc'[d] = pc[d] /\ toSend'[d] = toSend[d]
    BY <1>2 DEF Remask, Modify, TypeOK
  <2>2. \A d \in Cores : ~Changing(d)'
    BY <1>2, <2>1 DEF Changing
  <2>3. UNCHANGED <<status, arg, list>> /\ allocated'
    BY <1>2 DEF Remask, Modify
  <2>4. CallsApart'
    BY <1>2, <2>1, <2>2, <2>3 DEF CallsApart, Changing
  <2>5. QED
    BY <2>3, <2>4 DEF TableTrue
<1>3. ASSUME NEW c \in Cores, NEW new \in SUBSET Cores, CreateGroup(c, new) \/ ModifyGroup(c, new)
      PROVE  CallsApart' /\ TableTrue'
  <2>1. CASE CreateGroup(c, new)
    <3>1. /\ MayCall(c) /\ ~pending /\ list = {} /\ list' = list /\ allocated' /\ mask' = mask
          /\ \/ Remask(c, new)
             \/ UNCHANGED <<pending, newMask, status, maskVars, eventVars, pc, callVars, coreVars, ruleVars>>
      BY <2>1, CreateFacts
    <3>2. \A d \in Cores : ~Changing(d)
      BY <3>1, NobodyChanging
    <3>3. CASE Remask(c, new)
      BY <1>2, <3>1, <3>2, <3>3
    <3>4. CASE UNCHANGED <<pending, newMask, status, maskVars, eventVars, pc, callVars, coreVars, ruleVars>>
      BY <3>1, <3>4 DEF CallsApart, Changing, TableTrue
    <3>5. QED
      BY <3>1, <3>3, <3>4
  <2>2. CASE ModifyGroup(c, new)
    BY <1>2, <2>2 DEF ModifyGroup, Remask
  <2>3. QED
    BY <1>3, <2>1, <2>2
<1>4. ASSUME NEW c \in Cores, DeleteGroup(c) \/ DeleteDone(c)
      PROVE  CallsApart' /\ TableTrue'
  <2>1. /\ pc[c] \in {"idle", "delete"}
        /\ pc' = [pc EXCEPT ![c] = "delete"] \/ pc' = [pc EXCEPT ![c] = "idle"]
        /\ pending' \in {pending, FALSE} /\ mask = {} /\ list = {}
        /\ UNCHANGED <<list, mask, status, arg, toSend>>
        /\ UNCHANGED <<allocated, pending>> \/ (~allocated' /\ ~pending')
    BY <1>4 DEF DeleteGroup, DeleteDone
  <2>2. /\ ~Changing(c) /\ ~Changing(c)' /\ pc[c] # "send" /\ pc'[c] # "send"
        /\ \A d \in Cores \ {c} : pc'[d] = pc[d]
    BY <2>1 DEF Changing, TypeOK
  <2>3. \A d \in Cores : ~Changing(d) /\ ~Changing(d)'
    BY <2>1, <2>2, NobodyChanging DEF Changing
  <2>4. CallsApart'
    <3>1. \A d \in Cores : toSend'[d] = toSend[d] /\ (pc'[d] # "send" => toSend[d] = {})
      BY <2>1, <2>2 DEF CallsApart
    <3>2. \A d \in Cores : arg'[d] = None
      BY <2>1, <2>3 DEF CallsApart
    <3>3. QED
      BY <2>3, <3>1, <3>2 DEF CallsApart, Changing
  <2>5. TableTrue'
    BY <2>1 DEF TableTrue
  <2>6. QED
    BY <2>4, <2>5
<1>5. ASSUME NEW c \in Cores, NEW q \in Queues, CreateQueue(c, q) \/ DeleteQueue(c, q)
      PROVE  CallsApart' /\ TableTrue'
  <2>1. \A d \in Cores : Changing(d) => arg[d] # q
    BY <1>5 DEF CreateQueue, DeleteQueue, CallsApart, Changing
  <2>2. UNCHANGED <<pc, arg, toSend, pending>> /\ \A p \in Queues \ {q} : status'[p] = status[p]
    BY <1>5 DEF CreateQueue, DeleteQueue, TypeOK
  <2>3. \A d \in Cores : Changing(d) => arg[d] \in Queues \ {q} /\ status'[arg[d]] = status[arg[d]]
    BY <2>1, <2>2 DEF CallsApart, TypeOK
  <2>4. CallsApart'
    BY <2>2, <2>3 DEF CallsApart, Changing
  <2>5. TableTrue'
    <3>1. CASE CreateQueue(c, q)
      BY <3>1 DEF CreateQueue, TableTrue, TypeOK
    <3>2. CASE DeleteQueue(c, q)
      BY <3>2 DEF DeleteQueue, TableTrue, TypeOK
    <3>3. QED
      BY <1>5, <3>1, <3>2
  <2>6. QED
    BY <2>4, <2>5
<1>6. ASSUME NEW c \in Cores, NEW q \in Queues, Enable(c, q) \/ Disable(c, q)
      PROVE  CallsApart' /\ TableTrue'
  <2>1. /\ \A d \in Cores : arg[d] # q
        /\ arg'[c] = q /\ \A d \in Cores \ {c} : arg'[d] = arg[d] /\ pc'[d] = pc[d]
        /\ UNCHANGED <<toSend, pending, list, allocated, mask>> /\ ~pending
        /\ pc[c] = "idle" /\ toSend[c] = {}
        /\ \A p \in Queues \ {q} : status'[p] = status[p]
    BY <1>6 DEF Enable, Disable, MaskReadable, CallsApart, TypeOK
  <2>2. \/ pc'[c] = "add" /\ status'[q] = "READY"
        \/ pc'[c] = "rem" /\ status'[q] = "BIND"
    <3>1. Enable(c, q) => pc'[c] = "add" /\ status'[q] = "READY"
      BY DEF Enable, TypeOK
    <3>2. Disable(c, q) => pc'[c] = "rem" /\ status'[q] = "BIND"
      BY DEF Disable, TypeOK
    <3>3. QED
      BY <1>6, <3>1, <3>2
  <2>3. q # None
    BY ConstantsAssumption
  <2>4. \A d \in Cores \ {c} : Changing(d) => status'[arg[d]] = status[arg[d]]
    BY <2>1 DEF CallsApart, TypeOK
  <2>5. CallsApart'
    BY <2>1, <2>2, <2>3, <2>4 DEF CallsApart, Changing
  <2>6. status[q] # "INVALID"
    BY <1>6 DEF Enable, Disable
  <2>7. TableTrue'
    BY <2>1, <2>2, <2>6 DEF TableTrue
  <2>8. QED
    BY <2>5, <2>7
<1>7. ASSUME NEW c \in Cores, SendRequest(c)
      PROVE  CallsApart' /\ TableTrue'
  <2>1. PICK r \in toSend[c] : /\ toSend' = [toSend EXCEPT ![c] = @ \ {r}]
                               /\ pc' = [pc EXCEPT ![c] = IF toSend[c] = {r} THEN "idle" ELSE "send"]
    BY <1>7 DEF SendRequest
  <2>2. /\ pc[c] = "send" /\ arg[c] = None
        /\ UNCHANGED <<allocated, list, mask, pending, status, arg>>
    BY <1>7 DEF SendRequest, CallsApart, Changing
  <2>3. \A d \in Cores \ {c} : pc'[d] = pc[d] /\ toSend'[d] = toSend[d]
    BY <2>1 DEF TypeOK
  <2>4. pc'[c] \in {"idle", "send"} /\ (pc'[c] # "send" => toSend'[c] = {})
    BY <2>1 DEF TypeOK
  <2>5. CallsApart'
    BY <2>2, <2>3, <2>4 DEF CallsApart, Changing
  <2>6. QED
    BY <2>2, <2>5 DEF TableTrue
<1>8. ASSUME NEW c \in Cores, AddQueue(c) \/ RemoveQueue(c)
      PROVE  CallsApart' /\ TableTrue'
  <2>1. /\ UNCHANGED <<allocated, list, mask, pending, status>>
        /\ arg' = [arg EXCEPT ![c] = None]
    BY <1>8 DEF AddQueue, RemoveQueue, NotifyCores, WaitFor
  <2>2. \A d \in Cores \ {c} : pc'[d] = pc[d] /\ toSend'[d] = toSend[d]
    BY <1>8 DEF AddQueue, RemoveQueue, NotifyCores, WaitFor, TypeOK
  <2>3. pc'[c] \in {"idle", "send"} /\ (pc'[c] # "send" => toSend'[c] = {})
    <3>1. CASE AddQueue(c)
      BY <3>1 DEF AddQueue, CallsApart, TypeOK
    <3>2. CASE RemoveQueue(c)
      BY <3>2 DEF RemoveQueue, NotifyCores, WaitFor, TypeOK
    <3>3. QED
      BY <1>8, <3>1, <3>2
  <2>4. arg'[c] = None /\ \A d \in Cores \ {c} : arg'[d] = arg[d]
    BY <2>1 DEF TypeOK
  <2>5. CallsApart'
    BY <2>1, <2>2, <2>3, <2>4 DEF CallsApart, Changing
  <2>6. QED
    BY <2>1, <2>5 DEF TableTrue
<1>9. ASSUME NEW d \in Cores, Handle(d)
      PROVE  CallsApart' /\ TableTrue'
  BY <1>1, <1>9 DEF Handle
<1>10. ASSUME NEW d \in Cores, NEW q \in Queues, DisableDone(d, q)
      PROVE  CallsApart' /\ TableTrue'
  BY <1>1, <1>10 DEF DisableDone
<1>11. ASSUME NEW d \in Cores, ModifyDone(d)
       PROVE  CallsApart' /\ TableTrue'
  <2>1. CallsApart'
    BY <1>11 DEF ModifyDone, CallsApart, Changing
  <2>2. 1 \in 1..Len(done) /\ done[1] = "MODIFY"
    BY <1>11, TailFacts DEF ModifyDone, NextDone, TypeOK
  <2>3. pending /\ allocated
    BY <2>2 DEF PendingUnderWay, Over, TableTrue
  <2>4. TableTrue'
    BY <1>11, <2>3 DEF ModifyDone, TableTrue
  <2>5. QED
    BY <2>1, <2>4
<1>12. ASSUME NEW d \in Cores, MoveCursor(d) \/ ReceiveReturns(d)
      PROVE  CallsApart' /\ TableTrue'
  BY <1>1, <1>12 DEF MoveCursor, ReceiveReturns
<1>13. ASSUME NEW d \in Cores, NEW q \in Queues, Dispatch(d, q) \/ DirectDispatch(d, q)
      PROVE  CallsApart' /\ TableTrue'
  BY <1>1, <1>13 DEF Dispatch, DirectDispatch
<1>14. CASE UNCHANGED vars
  BY <1>1, <1>14 DEF vars
<1>15. QED
  BY <1>3, <1>4, <1>5, <1>6, <1>7, <1>8, <1>9, <1>10, <1>11, <1>12, <1>13, <1>14
     DEF Next, AppStep, CallStep, TakeDone

-----------------------------------------------------------------------------
(* Counting the internal events *)

\* A modify asks the cores that enter or leave.
LEMMA ModifyEvents ==
  ASSUME TypeOK, CallsApart, OneEvent, PendingUnderWay, ~pending,
         NEW c \in Cores, NEW new \in SUBSET Cores, MayCall(c), Remask(c, new)
  PROVE  /\ OneEvent'
         /\ Owing("MODIFY") = {}
         /\ Owing("MODIFY")' = (mask \ new) \cup (new \ mask)
         /\ \A q \in Queues : Owing(q)' = Owing(q)
         /\ \A d \in Cores, r \in Requests :
              (Unsent(d, r) \/ Held(d, r))' <=> (Unsent(d, r) \/ Held(d, r)) \/ <<d, r>> \in Changes(mask, new)
<1>1. PICK R : R = Changes(mask, new)
  OBVIOUS
<1>2. mask \in SUBSET Cores
  BY DEF TypeOK
<1>3. /\ R \in SUBSET (Cores \X Requests)
      /\ \A r \in R : OperationOf(r[2]) = "MODIFY"
      /\ \A r, s \in R : r[1] = s[1] => r = s
      /\ {r[1] : r \in R} = (mask \ new) \cup (new \ mask)
  <2>1. R \in SUBSET (Cores \X Requests)
    BY <1>1, <1>2, ChangesFacts
  <2>2. \A r \in R : r[2] \in {"ADD", "REM"} /\ OperationOf(r[2]) = "MODIFY"
    BY <1>1, OperationFacts DEF Changes
  <2>3. \A r, s \in R : r[1] = s[1] => r = s
    BY <1>1 DEF Changes
  <2>4. {r[1] : r \in R} = (mask \ new) \cup (new \ mask)
    <3>1. ASSUME NEW d \in mask \ new PROVE d \in {r[1] : r \in R}
      <4>1. <<d, "REM">> \in R /\ <<d, "REM">>[1] = d
        BY <1>1 DEF Changes
      <4>2. QED
        BY <4>1
    <3>2. ASSUME NEW d \in new \ mask PROVE d \in {r[1] : r \in R}
      <4>1. <<d, "ADD">> \in R /\ <<d, "ADD">>[1] = d
        BY <1>1 DEF Changes
      <4>2. QED
        BY <4>1
    <3>3. \A r \in R : r[1] \in (mask \ new) \cup (new \ mask)
      BY <1>1 DEF Changes
    <3>4. QED
      BY <3>1, <3>2, <3>3
  <2>5. QED
    BY <2>1, <2>2, <2>3, <2>4
<1>4. Owing("MODIFY") = {} /\ "MODIFY" \in Operations /\ Queues \subseteq Operations \ {"MODIFY"}
  BY OperationFacts DEF PendingUnderWay
<1>5. pc[c] # "send" /\ toSend' = [toSend EXCEPT ![c] = R] /\ UNCHANGED inbox
  BY <1>1 DEF MayCall, Remask, Modify
<1>6. /\ OneEvent' /\ Owing("MODIFY")' = {r[1] : r \in R}
      /\ \A p \in Operations \ {"MODIFY"} : Owing(p)' = Owing(p)
      /\ \A d \in Cores, r \in Requests : /\ Unsent(d, r)' <=> Unsent(d, r) \/ <<d, r>> \in R
                                          /\ Held(d, r)' <=> Held(d, r)
  <2>1. Begins(c, "MODIFY", R)
    BY <1>3, <1>4, <1>5 DEF Begins
  <2>2. QED
    BY <1>4, <2>1, BeginEvents
<1>7. QED
  BY <1>1, <1>3, <1>4, <1>6

\* A disable asks the cores of the group.
LEMMA DisableEvents ==
  ASSUME TypeOK, CallsApart, OneEvent,
         NEW c \in Cores, pc[c] # "send", NEW q \in Queues, Owing(q) = {},
         toSend' = [toSend EXCEPT ![c] = CoresToNotify(q) \X {q}], UNCHANGED inbox
  PROVE  /\ OneEvent'
         /\ Owing(q)' = CoresToNotify(q)
         /\ \A o \in Operations \ {q} : Owing(o)' = Owing(o)
         /\ \A d \in Cores, r \in Requests \ {q} :
              (Unsent(d, r) \/ Held(d, r))' <=> (Unsent(d, r) \/ Held(d, r))
<1>1. q \in Operations /\ CoresToNotify(q) \in SUBSET Cores
  BY OperationFacts DEF CoresToNotify, TypeOK
<1>2. PICK R : R = CoresToNotify(q) \X {q}
  OBVIOUS
<1>3. /\ R \in SUBSET (Cores \X Requests)
      /\ \A r \in R : OperationOf(r[2]) = q
      /\ \A r, s \in R : r[1] = s[1] => r = s
  BY <1>1, <1>2, OperationFacts
<1>4. {r[1] : r \in R} = CoresToNotify(q)
  <2>1. \A d \in CoresToNotify(q) : <<d, q>> \in R /\ <<d, q>>[1] = d
    BY <1>2
  <2>2. \A r \in R : r[1] \in CoresToNotify(q)
    BY <1>2
  <2>3. QED
    BY <2>1, <2>2
<1>5. \A d, r : <<d, r>> \in R => r = q
  BY <1>2
<1>6. toSend' = [toSend EXCEPT ![c] = R]
  BY <1>2
<1>7. Begins(c, q, R)
  BY <1>3, <1>6 DEF Begins
<1>8. /\ OneEvent' /\ Owing(q)' = {r[1] : r \in R}
      /\ \A p \in Operations \ {q} : Owing(p)' = Owing(p)
      /\ \A d \in Cores, r \in Requests : /\ Unsent(d, r)' <=> Unsent(d, r) \/ <<d, r>> \in R
                                          /\ Held(d, r)' <=> Held(d, r)
  BY <1>1, <1>7, BeginEvents
<1>9. QED
  BY <1>4, <1>5, <1>8

\* When a core handles the last event of an operation the 'done' event is sent, and
\* not before.
LEMMA CountDownStep ==
  ASSUME TypeOK, Events, NEW o \in Operations, NEW d \in Owing(o),
         Owing(o)' = Owing(o) \ {d}, \A p \in Operations \ {o} : Owing(p)' = Owing(p),
         CountDown(o)
  PROVE  /\ LeftCounts' /\ DoneOnce' /\ DoneIsLast'
         /\ \A p \in Operations \ {o} : Over(p)' <=> Over(p)
         /\ ~Over(o)
         /\ Over(o)' <=> Owing(o)' = {}
<1>1. Owing(o) \in SUBSET Cores
  BY DEF Owing
<1>2. /\ left[o] = Cardinality(Owing(o)) /\ Cardinality(Owing(o)) \in Nat
      /\ Cardinality(Owing(o) \ {d}) = Cardinality(Owing(o)) - 1
      /\ IsFiniteSet(Owing(o) \ {d})
  BY <1>1, CoresCounted, FS_RemoveElement DEF Events, LeftCounts
<1>3. left[o] = 1 <=> Owing(o)' = {}
  <2>1. Cardinality(Owing(o) \ {d}) = 0 <=> Owing(o) \ {d} = {}
    BY <1>2, FS_EmptySet
  <2>2. QED
    BY <1>2, <2>1
<1>4. LeftCounts'
  <2>1. left' = [left EXCEPT ![o] = @ - 1]
    BY DEF CountDown
  <2>2. ASSUME NEW p \in Operations PROVE left'[p] = Cardinality(Owing(p)')
    <3>1. CASE p = o
      BY <1>2, <2>1, <3>1 DEF TypeOK
    <3>2. CASE p # o
      BY <2>1, <3>2 DEF TypeOK, Events, LeftCounts
    <3>3. QED
      BY <3>1, <3>2
  <2>3. QED
    BY <2>2 DEF LeftCounts
<1>5. ~Over(o)
  BY DEF Events, DoneIsLast
<1>6. CASE left[o] # 1
  <2>1. done' = done /\ \A p : Over(p)' <=> Over(p)
    BY <1>6 DEF CountDown, Over
  <2>2. DoneOnce' /\ DoneIsLast'
    BY <1>5, <2>1 DEF Events, DoneOnce, DoneIsLast
  <2>3. QED
    BY <1>3, <1>4, <1>5, <1>6, <2>1, <2>2
<1>7. CASE left[o] = 1
  <2>1. done' = Append(done, o) /\ done \in Seq(Operations) /\ Len(done) \in Nat
    BY <1>7 DEF CountDown, TypeOK
  <2>2. /\ Len(done') = Len(done) + 1
        /\ \A i \in 1..Len(done) : done'[i] = done[i]
        /\ done'[Len(done) + 1] = o
    BY <2>1, AppendFacts
  <2>3. \A i \in 1..Len(done') : i \in 1..Len(done) \/ i = Len(done) + 1
    BY <2>1, <2>2
  <2>4. Len(done) + 1 \in 1..Len(done') /\ \A i \in 1..Len(done) : i \in 1..Len(done')
    BY <2>1, <2>2
  <2>5. \A p : Over(p)' <=> Over(p) \/ p = o
    BY <2>2, <2>3, <2>4 DEF Over
  <2>6. DoneOnce'
    BY <1>5, <2>2, <2>3 DEF DoneOnce, Events, Over
  <2>7. DoneIsLast'
    BY <1>3, <1>7, <2>5 DEF Events, DoneIsLast
  <2>8. QED
    BY <1>3, <1>4, <1>5, <1>7, <2>5, <2>6, <2>7
<1>8. QED
  BY <1>6, <1>7

\* Taking the 'done' event of an operation leaves none of it.
LEMMA DoneTaken ==
  ASSUME TypeOK, Events, NEW o \in Operations, NextDone(o), UNCHANGED <<inbox, toSend, left>>
  PROVE  /\ OneEvent' /\ LeftCounts' /\ DoneOnce' /\ DoneIsLast'
         /\ Over(o) /\ Owing(o) = {}
         /\ \A p : Over(p)' <=> Over(p) /\ p # o
         /\ \A p : Owing(p)' = Owing(p)
<1>1. /\ done # <<>> /\ done[1] = o /\ Len(done) \in Nat \ {0} /\ 1 \in 1..Len(done)
      /\ Len(done') = Len(done) - 1
      /\ \A i \in 1..Len(done') : done'[i] = done[i + 1]
  <2>1. done \in Seq(Operations) /\ done # <<>>
    BY DEF TypeOK, NextDone
  <2>2. /\ Head(done) = done[1] /\ Len(done) \in Nat \ {0} /\ 1 \in 1..Len(done)
        /\ Len(Tail(done)) = Len(done) - 1
        /\ \A i \in 1..Len(Tail(done)) : Tail(done)[i] = done[i + 1]
    BY <2>1, TailFacts
  <2>3. QED
    BY <2>1, <2>2 DEF NextDone
<1>2. /\ \A i \in 1..Len(done') : i + 1 \in 1..Len(done) /\ i + 1 # 1
      /\ \A i \in 1..Len(done) : i # 1 => i - 1 \in 1..Len(done') /\ (i - 1) + 1 = i
  BY <1>1
<1>3. \A i \in 1..Len(done) : done[i] = o => i = 1
  BY <1>1 DEF Events, DoneOnce
<1>4. ASSUME NEW p PROVE Over(p)' <=> Over(p) /\ p # o
  <2>1. ASSUME Over(p)' PROVE Over(p) /\ p # o
    BY <1>1, <1>2, <1>3, <2>1 DEF Over
  <2>2. ASSUME Over(p), p # o PROVE Over(p)'
    <3>1. PICK i \in 1..Len(done) : done[i] = p
      BY <2>2 DEF Over
    <3>2. i - 1 \in 1..Len(done') /\ done'[i - 1] = p
      BY <1>1, <1>2, <2>2, <3>1
    <3>3. QED
      BY <3>2 DEF Over
  <2>3. QED
    BY <2>1, <2>2
<1>5. OneEvent' /\ \A p : Owing(p)' = Owing(p)
  BY SameEvents DEF Events
<1>6. LeftCounts' /\ DoneIsLast'
  BY <1>4, <1>5 DEF Events, LeftCounts, DoneIsLast
<1>7. DoneOnce'
  <2> SUFFICES ASSUME NEW i \in 1..Len(done'), NEW j \in 1..Len(done'), done'[i] = done'[j]
               PROVE  i = j
    BY DEF DoneOnce
  <2>1. i + 1 \in 1..Len(done) /\ j + 1 \in 1..Len(done) /\ done[i + 1] = done[j + 1]
    BY <1>1, <1>2
  <2>2. i + 1 = j + 1
    BY <2>1 DEF Events, DoneOnce
  <2>3. QED
    BY <2>2
<1>8. Over(o) /\ Owing(o) = {}
  BY <1>1 DEF Over, Events, DoneIsLast
<1>9. QED
  BY <1>4, <1>5, <1>6, <1>7, <1>8

\* A queue that has no disable under way is owed nothing.
LEMMA NotUnderWay ==
  ASSUME TypeOK, Events, NEW o \in Operations, ~UnderWay(o)
  PROVE  Owing(o) = {} /\ ~Over(o)
<1>1. Owing(o) \in SUBSET Cores
  BY DEF Owing
<1>2. IsFiniteSet(Owing(o)) /\ Cardinality(Owing(o)) \in Nat /\ left[o] = Cardinality(Owing(o))
  BY <1>1, CoresCounted DEF Events, LeftCounts
<1>3. Cardinality(Owing(o)) = 0
  BY <1>2 DEF UnderWay
<1>4. QED
  BY <1>2, <1>3, FS_EmptySet DEF UnderWay, Over

-----------------------------------------------------------------------------
(* The phases of a modify *)

\* Steps that send and handle nothing.
LEMMA SamePhases ==
  ASSUME TypeOK, Phases, UNCHANGED <<inbox, toSend, left, done, mask, pending, newMask, member>>,
         DisableAlone'
  PROVE  Phases'
<1>1. /\ OneEvent' /\ \A o : Owing(o)' = Owing(o)
      /\ \A d, r : /\ Unsent(d, r)' <=> Unsent(d, r)
                   /\ Held(d, r)' <=> Held(d, r)
  BY SameEvents DEF Phases, Events
<1>2. \A o : Over(o)' <=> Over(o)
  BY DEF Over
<1>3. LeftCounts' /\ DoneOnce' /\ DoneIsLast'
  BY <1>1, <1>2 DEF Phases, Events, LeftCounts, DoneOnce, DoneIsLast
<1>4. PendingUnderWay'
  BY <1>1, <1>2 DEF Phases, PendingUnderWay
<1>5. MembersFollow'
  BY <1>1 DEF Phases, MembersFollow
<1>6. QED
  BY <1>1, <1>3, <1>4, <1>5 DEF Phases, Events

\* A modify begins.
LEMMA ModifyPhases ==
  ASSUME TypeOK, CallsApart, Phases, ~pending,
         NEW c \in Cores, NEW new \in SUBSET Cores, MayCall(c), Remask(c, new)
  PROVE  Phases'
<1>1. /\ OneEvent'
      /\ Owing("MODIFY") = {}
      /\ Owing("MODIFY")' = (mask \ new) \cup (new \ mask)
      /\ \A q \in Queues : Owing(q)' = Owing(q)
      /\ \A d \in Cores, r \in Requests :
           (Unsent(d, r) \/ Held(d, r))' <=> (Unsent(d, r) \/ Held(d, r)) \/ <<d, r>> \in Changes(mask, new)
  BY ModifyEvents DEF Phases, Events
<1>2. /\ pending' /\ newMask' = new /\ mask' = mask /\ member' = member /\ done' = done
      /\ left' = [left EXCEPT !["MODIFY"] = Cardinality(Changes(mask, new))]
      /\ pc' = [pc EXCEPT ![c] = "send"] /\ arg' = arg
      /\ mask \in SUBSET Cores /\ new # mask
  BY DEF Remask, Modify, Goto, maskVars, TypeOK
<1>3. ~Over("MODIFY") /\ \A o : Over(o)' <=> Over(o)
  BY <1>2 DEF Phases, PendingUnderWay, Over
<1>4. LeftCounts'
  <2>1. left'["MODIFY"] = Cardinality(Owing("MODIFY")')
    <3>1. Cardinality(Changes(mask, new)) = Cardinality((mask \ new) \cup (new \ mask))
      BY <1>2, ChangesFacts
    <3>2. left'["MODIFY"] = Cardinality(Changes(mask, new))
      BY <1>2, OperationFacts DEF TypeOK
    <3>3. QED
      BY <1>1, <3>1, <3>2
  <2>2. \A q \in Queues : left'[q] = Cardinality(Owing(q)')
    BY <1>1, <1>2, OperationFacts DEF TypeOK, Phases, Events, LeftCounts
  <2>3. QED
    BY <2>1, <2>2 DEF LeftCounts, Operations
<1>5. DoneOnce' /\ DoneIsLast'
  BY <1>1, <1>2, <1>3 DEF Phases, Events, DoneOnce, DoneIsLast, Operations
<1>6. DisableAlone'
  BY <1>1, <1>2, <1>3 DEF Phases, Events, DisableAlone, TypeOK
<1>7. PendingUnderWay'
  BY <1>1, <1>2 DEF PendingUnderWay
<1>8. MembersFollow'
  <2> SUFFICES ASSUME NEW d \in Cores
               PROVE  /\ (Unsent(d, "ADD") \/ Held(d, "ADD"))' => d \in new \ mask /\ d \notin member
                      /\ (Unsent(d, "REM") \/ Held(d, "REM"))' => d \in mask \ new /\ d \in member
                      /\ d \notin Owing("MODIFY")' => (d \in member <=> d \in new)
    BY <1>2 DEF MembersFollow
  <2>1. d \in member <=> d \in mask
    BY <1>1 DEF Phases, MembersFollow
  <2>2. \A r \in {"ADD", "REM"} : ~Unsent(d, r) /\ ~Held(d, r)
    BY <1>1, OperationFacts DEF Owing, Requests
  <2>3. /\ (Unsent(d, "ADD") \/ Held(d, "ADD"))' => d \in new \ mask
        /\ (Unsent(d, "REM") \/ Held(d, "REM"))' => d \in mask \ new
    BY <1>1, <2>2 DEF Changes, Requests
  <2>4. QED
    BY <1>1, <2>1, <2>3
<1>9. QED
  BY <1>1, <1>4, <1>5, <1>6, <1>7, <1>8 DEF Phases, Events

\* A core handles an event.
LEMMA HandlePhases ==
  ASSUME TypeOK, CallsApart, Phases, NEW d \in Cores, Handle(d)
  PROVE  Phases'
<1>1. PICK x : x = Head(inbox[d])
  OBVIOUS
<1>2. PICK o : o = OperationOf(x)
  OBVIOUS
<1>3. /\ inbox[d] # <<>> /\ inbox' = [inbox EXCEPT ![d] = Tail(@)]
      /\ UNCHANGED <<toSend, mask, pending, newMask, pc, arg>>
      /\ CountDown(o)
      /\ \/ x = "ADD" /\ member' = member \cup {d}
         \/ x = "REM" /\ member' = member \ {d}
         \/ x \in Queues /\ member' = member
  BY <1>1, <1>2 DEF Handle, groupVars, callVars, maskVars
<1>4. OneEvent
  BY DEF Phases, Events
<1>5. /\ x \in Requests /\ OneEvent' /\ Held(d, x)
      /\ d \in Owing(o) /\ Owing(o)' = Owing(o) \ {d}
      /\ \A p \in Operations \ {o} : Owing(p)' = Owing(p)
      /\ \A e \in Cores, s \in Requests :
           /\ Unsent(e, s)' <=> Unsent(e, s)
           /\ Held(e, s)' <=> Held(e, s) /\ ~(e = d /\ s = x)
  BY <1>1, <1>2, <1>3, <1>4, HandleEvents
<1>6. o \in Operations
  BY <1>2, <1>5, OperationFacts
<1>7. /\ LeftCounts' /\ DoneOnce' /\ DoneIsLast'
      /\ \A p \in Operations \ {o} : Over(p)' <=> Over(p)
      /\ ~Over(o)
      /\ Over(o)' <=> Owing(o)' = {}
  BY <1>3, <1>5, <1>6, CountDownStep DEF Phases
<1>8. DisableAlone'
  <2>1. \A p \in Operations : Owing(p) = {} /\ ~Over(p) => Owing(p)' = {} /\ ~Over(p)'
    BY <1>5, <1>7
  <2>2. QED
    BY <1>3, <2>1, OperationFacts DEF DisableAlone, Phases, Events
<1>9. PendingUnderWay'
  <2>1. CASE o = "MODIFY"
    BY <1>3, <1>5, <1>7, <2>1 DEF PendingUnderWay, Phases
  <2>2. CASE o # "MODIFY"
    BY <1>3, <1>5, <1>7, <2>2, OperationFacts DEF PendingUnderWay, Phases
  <2>3. QED
    BY <2>1, <2>2
<1>10. MembersFollow'
  <2>1. CASE x \in Queues
    <3>1. o = x /\ o # "MODIFY" /\ x # "ADD" /\ x # "REM" /\ UNCHANGED <<member, mask, pending, newMask>>
      BY <1>2, <1>3, <2>1, OperationFacts
    <3>2. /\ Owing("MODIFY")' = Owing("MODIFY")
          /\ \A e \in Cores, r \in {"ADD", "REM"} : (Unsent(e, r) \/ Held(e, r))' <=> (Unsent(e, r) \/ Held(e, r))
      BY <1>5, <3>1, OperationFacts DEF Requests
    <3>3. QED
      BY <3>1, <3>2 DEF MembersFollow, Phases
  <2>2. CASE x \in {"ADD", "REM"}
    <3>1. o = "MODIFY" /\ UNCHANGED <<mask, pending, newMask>>
      BY <1>2, <1>3, <2>2, OperationFacts
    <3>2. pending
      BY <1>5, <3>1 DEF PendingUnderWay, Phases
    <3>3. /\ x = "ADD" => d \in newMask \ mask /\ member' = member \cup {d}
          /\ x = "REM" => d \in mask \ newMask /\ member' = member \ {d}
      BY <1>3, <1>5, <2>2, OperationFacts DEF MembersFollow, Phases
    <3>4. d \notin Owing("MODIFY")' /\ \A e \in Cores \ {d} : e \in Owing("MODIFY")' <=> e \in Owing("MODIFY")
      BY <1>5, <3>1
    <3>5. \A r \in {"ADD", "REM"} : ~Unsent(d, r)' /\ ~Held(d, r)'
      BY <3>4, OperationFacts DEF Owing, Requests
    <3>6. \A e \in Cores \ {d}, r \in {"ADD", "REM"} :
            (Unsent(e, r) \/ Held(e, r))' <=> (Unsent(e, r) \/ Held(e, r))
      BY <1>5 DEF Requests
    <3>7. \A e \in Cores \ {d} : e \in member' <=> e \in member
      BY <2>2, <3>3
    <3>8. d \in member' <=> d \in newMask
      BY <2>2, <3>3
    <3>9. ASSUME NEW e \in Cores
          PROVE  /\ (Unsent(e, "ADD") \/ Held(e, "ADD"))' => e \in newMask \ mask /\ e \notin member'
                 /\ (Unsent(e, "REM") \/ Held(e, "REM"))' => e \in mask \ newMask /\ e \in member'
                 /\ e \notin Owing("MODIFY")' => (e \in member' <=> e \in newMask)
      <4>1. CASE e = d
        BY <3>4, <3>5, <3>8, <4>1
      <4>2. CASE e # d
        BY <3>2, <3>4, <3>6, <3>7, <4>2 DEF MembersFollow, Phases
      <4>3. QED
        BY <4>1, <4>2
    <3>10. QED
      BY <3>1, <3>2, <3>9 DEF MembersFollow
  <2>3. QED
    BY <1>3, <2>1, <2>2
<1>11. QED
  BY <1>5, <1>7, <1>8, <1>9, <1>10 DEF Phases, Events

\* A disable asks its cores.
LEMMA RemovePhases ==
  ASSUME TypeOK, CallsApart, Phases, NEW c \in Cores, RemoveQueue(c)
  PROVE  Phases'
<1>1. pc[c] = "rem" /\ arg[c] \in Queues
  BY DEF RemoveQueue, CallsApart, Changing, TypeOK
<1>2. PICK q \in Queues : q = arg[c]
  BY <1>1
<1>3. Owing(q) = {} /\ ~Over(q) /\ q \in Operations /\ OneEvent /\ pc[c] # "send"
  BY <1>1, <1>2, OperationFacts DEF DisableAlone, Phases, Events
<1>4. /\ toSend' = [toSend EXCEPT ![c] = CoresToNotify(q) \X {q}]
      /\ left' = [left EXCEPT ![q] = Cardinality(CoresToNotify(q))]
      /\ pc' = [pc EXCEPT ![c] = IF CoresToNotify(q) = {} THEN "idle" ELSE "send"]
      /\ arg' = [arg EXCEPT ![c] = None]
      /\ UNCHANGED <<inbox, done, mask, pending, newMask, member>>
  BY <1>2 DEF RemoveQueue, NotifyCores, WaitFor, Goto, Uncount, groupVars
<1>5. /\ OneEvent'
      /\ Owing(q)' = CoresToNotify(q)
      /\ \A o \in Operations \ {q} : Owing(o)' = Owing(o)
      /\ \A d \in Cores, r \in Requests \ {q} :
           (Unsent(d, r) \/ Held(d, r))' <=> (Unsent(d, r) \/ Held(d, r))
  BY <1>3, <1>4, DisableEvents
<1>6. \A o : Over(o)' <=> Over(o)
  BY <1>4 DEF Over
<1>7. LeftCounts'
  <2>1. ASSUME NEW o \in Operations PROVE left'[o] = Cardinality(Owing(o)')
    BY <1>3, <1>4, <1>5 DEF TypeOK, Phases, Events, LeftCounts
  <2>2. QED
    BY <2>1 DEF LeftCounts
<1>8. DoneOnce' /\ DoneIsLast'
  BY <1>3, <1>4, <1>5, <1>6 DEF Phases, Events, DoneOnce, DoneIsLast
<1>9. DisableAlone'
  <2> SUFFICES ASSUME NEW d \in Cores, NEW p \in Queues, pc'[d] = "rem", arg'[d] = p
               PROVE  Owing(p)' = {} /\ ~Over(p)'
    BY DEF DisableAlone
  <2>1. d # c /\ pc[d] = "rem" /\ arg[d] = p
    BY <1>4 DEF TypeOK
  <2>2. p # q
    BY <1>2, <2>1, OperationFacts DEF CallsApart
  <2>3. QED
    BY <1>5, <1>6, <2>1, <2>2, OperationFacts DEF DisableAlone, Phases, Events
<1>10. Owing("MODIFY")' = Owing("MODIFY")
  BY <1>5, OperationFacts
<1>11. PendingUnderWay'
  BY <1>4, <1>6, <1>10 DEF PendingUnderWay, Phases
<1>12. \A d \in Cores, r \in {"ADD", "REM"} : (Unsent(d, r) \/ Held(d, r))' <=> (Unsent(d, r) \/ Held(d, r))
  BY <1>5, OperationFacts DEF Requests
<1>13. MembersFollow'
  BY <1>4, <1>10, <1>12 DEF MembersFollow, Phases
<1>14. QED
  BY <1>5, <1>7, <1>8, <1>9, <1>11, <1>13 DEF Phases, Events

\* An event is sent.
LEMMA SendPhases ==
  ASSUME TypeOK, CallsApart, Phases, NEW c \in Cores, SendRequest(c)
  PROVE  Phases'
<1>1. PICK r \in toSend[c] : /\ inbox' = [inbox EXCEPT ![r[1]] = Append(@, r[2])]
                             /\ toSend' = [toSend EXCEPT ![c] = @ \ {r}]
                             /\ pc' = [pc EXCEPT ![c] = IF toSend[c] = {r} THEN "idle" ELSE "send"]
  BY DEF SendRequest, Goto
<1>2. /\ UNCHANGED <<left, done, mask, pending, newMask, member, arg>>
      /\ OneEvent
  BY DEF SendRequest, groupVars, maskVars, Phases, Events
<1>3. /\ OneEvent'
      /\ \A o : Owing(o)' = Owing(o)
      /\ \A d \in Cores, s \in Requests :
           (Unsent(d, s)' \/ Held(d, s)') <=> (Unsent(d, s) \/ Held(d, s))
  BY <1>1, <1>2, SendEvents
<1>4. \A o : Over(o)' <=> Over(o)
  BY <1>2 DEF Over
<1>5. LeftCounts' /\ DoneOnce' /\ DoneIsLast' /\ PendingUnderWay'
  BY <1>2, <1>3, <1>4 DEF Phases, Events, LeftCounts, DoneOnce, DoneIsLast, PendingUnderWay
<1>6. \A d \in Cores : pc'[d] = "rem" => pc[d] = "rem"
  BY <1>1 DEF TypeOK
<1>7. DisableAlone'
  BY <1>2, <1>3, <1>4, <1>6 DEF DisableAlone, Phases, Events
<1>8. MembersFollow'
  BY <1>2, <1>3 DEF MembersFollow, Phases, Requests
<1>9. QED
  BY <1>3, <1>5, <1>7, <1>8 DEF Phases, Events

\* The last phase: the new mask is stored when every core has followed.
LEMMA DonePhases ==
  ASSUME TypeOK, Phases, NEW d \in Cores, ModifyDone(d) \/ \E q \in Queues : DisableDone(d, q)
  PROVE  Phases'
<1>1. UNCHANGED <<inbox, toSend, left, member, newMask, pc, arg>>
  BY DEF ModifyDone, DisableDone, groupVars, maskVars, callVars
<1>2. ASSUME NEW o \in Operations, NextDone(o)
      PROVE  /\ OneEvent' /\ LeftCounts' /\ DoneOnce' /\ DoneIsLast' /\ DisableAlone'
             /\ Over(o) /\ Owing(o) = {}
             /\ \A p : Over(p)' <=> Over(p) /\ p # o
             /\ \A p : Owing(p)' = Owing(p)
             /\ \A e, r : /\ Unsent(e, r)' <=> Unsent(e, r)
                          /\ Held(e, r)' <=> Held(e, r)
  <2>1. /\ OneEvent' /\ LeftCounts' /\ DoneOnce' /\ DoneIsLast'
        /\ Over(o) /\ Owing(o) = {}
        /\ \A p : Over(p)' <=> Over(p) /\ p # o
        /\ \A p : Owing(p)' = Owing(p)
    BY <1>1, <1>2, DoneTaken DEF Phases
  <2>2. DisableAlone'
    BY <1>1, <2>1 DEF DisableAlone, Phases, Events
  <2>3. \A e, r : /\ Unsent(e, r)' <=> Unsent(e, r)
                  /\ Held(e, r)' <=> Held(e, r)
    BY <1>1, SameEvents
  <2>4. QED
    BY <2>1, <2>2, <2>3
<1>3. CASE ModifyDone(d)
  <2>1. NextDone("MODIFY") /\ "MODIFY" \in Operations /\ mask' = newMask /\ ~pending'
    BY <1>3, OperationFacts DEF ModifyDone
  <2>2. Over("MODIFY") /\ Owing("MODIFY") = {} /\ Owing("MODIFY")' = {} /\ ~Over("MODIFY")'
    BY <1>2, <2>1
  <2>3. pending
    BY <2>2 DEF Phases, PendingUnderWay
  <2>4. PendingUnderWay'
    BY <2>1, <2>2 DEF PendingUnderWay
  <2>5. MembersFollow'
    <3>1. \A e \in Cores, r \in {"ADD", "REM"} : ~Unsent(e, r)' /\ ~Held(e, r)'
      BY <2>2, OperationFacts DEF Owing, Requests
    <3>2. \A e \in Cores : e \in member <=> e \in newMask
      BY <2>2, <2>3 DEF Phases, MembersFollow
    <3>3. QED
      BY <1>1, <2>1, <3>1, <3>2 DEF MembersFollow
  <2>6. QED
    BY <1>2, <2>1, <2>4, <2>5 DEF Phases, Events
<1>4. ASSUME NEW q \in Queues, DisableDone(d, q)
      PROVE  Phases'
  <2>1. NextDone(q) /\ q \in Operations /\ q # "MODIFY" /\ UNCHANGED <<mask, pending>>
    BY <1>4, OperationFacts DEF DisableDone, groupVars
  <2>2. PendingUnderWay'
    BY <1>2, <2>1 DEF PendingUnderWay, Phases
  <2>3. MembersFollow'
    BY <1>1, <1>2, <2>1 DEF MembersFollow, Phases
  <2>4. QED
    BY <1>2, <2>1, <2>2, <2>3 DEF Phases, Events
<1>5. QED
  BY <1>3, <1>4

\* No step sends an event twice, counts a wrong number, ends an operation early, or
\* has a core where neither the old nor the new mask says.
LEMMA PhasesStep ==
  ASSUME TypeOK, CallsApart, TableTrue, DeletionAlone, Phases, [Next]_vars
  PROVE  Phases'
<1> USE DEF tableVars, groupVars, maskVars, eventVars, callVars, coreVars, ruleVars, Goto
<1>1. ASSUME UNCHANGED <<mask, pending, newMask, member, eventVars, pc, callVars>>
      PROVE  Phases'
  <2>1. \A o : Owing(o)' = Owing(o) /\ (Over(o)' <=> Over(o))
    BY <1>1, SameEvents DEF Over
  <2>2. DisableAlone'
    BY <1>1, <2>1 DEF DisableAlone, Phases, Events
  <2>3. QED
    BY <1>1, <2>2, SamePhases
<1>2. ASSUME NEW c \in Cores, NEW new \in SUBSET Cores, CreateGroup(c, new) \/ ModifyGroup(c, new)
      PROVE  Phases'
  <2>1. /\ ~pending /\ MayCall(c) /\ mask' = mask
        /\ \/ Remask(c, new)
           \/ UNCHANGED <<mask, pending, newMask, member, eventVars, pc, callVars>>
    BY <1>2, CreateFacts DEF ModifyGroup, Remask
  <2>2. QED
    BY <1>1, <2>1, ModifyPhases
<1>3. ASSUME NEW c \in Cores, NEW q \in Queues, Enable(c, q) \/ Disable(c, q)
      PROVE  Phases'
  <2>1. /\ UNCHANGED <<mask, pending, newMask, member, eventVars, toSend>>
        /\ arg' = [arg EXCEPT ![c] = q]
        /\ \/ pc' = [pc EXCEPT ![c] = "add"]
           \/ pc' = [pc EXCEPT ![c] = "rem"] /\ ~UnderWay(q)
    BY <1>3 DEF Enable, Disable
  <2>2. \A o : Owing(o)' = Owing(o) /\ (Over(o)' <=> Over(o))
    BY <2>1, SameEvents DEF Over
  <2>3. ~UnderWay(q) => Owing(q) = {} /\ ~Over(q)
    BY OperationFacts, NotUnderWay DEF Phases
  <2>4. DisableAlone'
    <3> SUFFICES ASSUME NEW d \in Cores, NEW p \in Queues, pc'[d] = "rem", arg'[d] = p
                 PROVE  Owing(p)' = {} /\ ~Over(p)'
      BY DEF DisableAlone
    <3>1. CASE d = c
      BY <2>1, <2>2, <2>3, <3>1 DEF TypeOK
    <3>2. CASE d # c
      BY <2>1, <2>2, <3>2 DEF TypeOK, DisableAlone, Phases, Events
    <3>3. QED
      BY <3>1, <3>2
  <2>5. QED
    BY <2>1, <2>4, SamePhases
<1>4. ASSUME NEW c \in Cores, AddQueue(c)
      PROVE  Phases'
  <2>1. /\ UNCHANGED <<mask, pending, newMask, member, eventVars, toSend>>
        /\ arg' = [arg EXCEPT ![c] = None]
        /\ pc' = [pc EXCEPT ![c] = "idle"]
    BY <1>4 DEF AddQueue
  <2>2. \A o : Owing(o)' = Owing(o) /\ (Over(o)' <=> Over(o))
    BY <2>1, SameEvents DEF Over
  <2>3. \A d \in Cores : pc'[d] = "rem" => pc[d] = "rem" /\ arg'[d] = arg[d]
    BY <2>1 DEF TypeOK
  <2>4. DisableAlone'
    BY <2>2, <2>3 DEF DisableAlone, Phases, Events
  <2>5. QED
    BY <2>1, <2>4, SamePhases
<1>5. ASSUME NEW c \in Cores, DeleteGroup(c) \/ (DeleteDone(c) /\ ~pending)
      PROVE  Phases'
  <2>1. /\ UNCHANGED <<mask, pending, newMask, member, eventVars, toSend, arg>>
        /\ pc' = [pc EXCEPT ![c] = "delete"] \/ pc' = [pc EXCEPT ![c] = "idle"]
    BY <1>5 DEF DeleteGroup, DeleteDone, TypeOK
  <2>2. \A o : Owing(o)' = Owing(o) /\ (Over(o)' <=> Over(o))
    BY <2>1, SameEvents DEF Over
  <2>3. \A d \in Cores : pc'[d] = "rem" => pc[d] = "rem" /\ arg'[d] = arg[d]
    BY <2>1 DEF TypeOK
  <2>4. DisableAlone'
    BY <2>2, <2>3 DEF DisableAlone, Phases, Events
  <2>5. QED
    BY <2>1, <2>4, SamePhases
<1>6. ASSUME NEW c \in Cores, NEW q \in Queues, CreateQueue(c, q) \/ DeleteQueue(c, q)
      PROVE  Phases'
  BY <1>1, <1>6 DEF CreateQueue, DeleteQueue
<1>7. ASSUME NEW d \in Cores, MoveCursor(d) \/ ReceiveReturns(d)
      PROVE  Phases'
  BY <1>1, <1>7 DEF MoveCursor, ReceiveReturns
<1>8. ASSUME NEW d \in Cores, NEW q \in Queues, Dispatch(d, q) \/ DirectDispatch(d, q)
      PROVE  Phases'
  BY <1>1, <1>8 DEF Dispatch, DirectDispatch
<1>9. CASE UNCHANGED vars
  BY <1>1, <1>9 DEF vars
<1>10. \A c \in Cores : DeleteDone(c) => ~pending
  BY DEF DeletionAlone, DeleteDone
<1>11. QED
  BY <1>2, <1>3, <1>4, <1>5, <1>6, <1>7, <1>8, <1>9, <1>10,
     RemovePhases, SendPhases, DonePhases, HandlePhases
     DEF Next, AppStep, CallStep, TakeDone

-----------------------------------------------------------------------------
(* Silence after a disable *)

\* A call is taking queue q out of the masks.
Removing(q) == \E c \in Cores : pc[c] = "rem" /\ arg[c] = q

\* Steps in which the cores run and owe what they did, or less.
LEMMA QuietKept ==
  ASSUME TypeOK, QuietFollows, MembersAreQuiet,
         asked' \subseteq asked, quiet' \subseteq quiet, quiet' \subseteq asked',
         \A q \in asked' : /\ status'[q] = status[q]
                           /\ Removing(q)' <=> Removing(q)
                           /\ \A d \in member' : running'[d] = q =>
                                /\ d \in member /\ running[d] = q
                                /\ d \in Owing(q) => d \in Owing(q)'
  PROVE  QuietFollows' /\ MembersAreQuiet'
<1>1. QuietFollows'
  <2>1. ASSUME NEW q \in asked' PROVE status'[q] = "BIND"
    BY <2>1 DEF QuietFollows
  <2>2. ASSUME NEW q \in asked', ~Removing(q)', NEW d \in member', running'[d] = q
        PROVE  d \in Owing(q)'
    <3>1. q \in asked /\ ~Removing(q) /\ d \in member /\ running[d] = q
      BY <2>2
    <3>2. d \in Owing(q)
      BY <3>1 DEF QuietFollows, Removing
    <3>3. QED
      BY <2>2, <3>2
  <2>3. \A q \in asked' : (\A c \in Cores : ~(pc'[c] = "rem" /\ arg'[c] = q)) => ~Removing(q)'
    BY DEF Removing
  <2>4. QED
    BY <2>1, <2>2, <2>3 DEF QuietFollows
<1>2. MembersAreQuiet'
  BY DEF MembersAreQuiet
<1>3. QED
  BY <1>1, <1>2

\* A core of the group that still runs a queue being disabled has the disable's event to
\* come, and when the disable is notified there is none: every step keeps both.
LEMMA QuietStep ==
  ASSUME TypeOK, CallsApart, TableTrue, Phases, QuietFollows, MembersAreQuiet, [Next]_vars
  PROVE  QuietFollows' /\ MembersAreQuiet'
<1> USE DEF tableVars, groupVars, maskVars, eventVars, callVars, coreVars, ruleVars, Goto
<1>1. ASSUME UNCHANGED <<inbox, toSend, asked, quiet, status, pc, arg, running, member>>
      PROVE  QuietFollows' /\ MembersAreQuiet'
  <2>1. \A o : Owing(o)' = Owing(o)
    BY <1>1, SameEvents
  <2>2. \A q : Removing(q)' <=> Removing(q)
    BY <1>1 DEF Removing
  <2>3. QED
    BY <1>1, <2>1, <2>2, QuietKept DEF QuietFollows
<1>2. ASSUME NEW c \in Cores, NEW new \in SUBSET Cores, CreateGroup(c, new) \/ ModifyGroup(c, new)
      PROVE  QuietFollows' /\ MembersAreQuiet'
  <2> SUFFICES ASSUME Remask(c, new) PROVE QuietFollows' /\ MembersAreQuiet'
    <3>1. \/ Remask(c, new)
          \/ UNCHANGED <<inbox, toSend, asked, quiet, status, pc, arg, running, member>>
      BY <1>2, CreateFacts DEF ModifyGroup, Remask
    <3>2. QED
      BY <1>1, <3>1
  <2>1. ~pending /\ MayCall(c) /\ Remask(c, new)
    BY <1>2, CreateFacts DEF ModifyGroup
  <2>2. \A q \in Queues : Owing(q)' = Owing(q)
    BY <2>1, ModifyEvents DEF Phases, Events
  <2>3. UNCHANGED <<asked, quiet, status, arg, running, member>> /\ pc' = [pc EXCEPT ![c] = "send"]
    BY <2>1 DEF Remask, Modify
  <2>4. \A q : Removing(q)' <=> Removing(q)
    BY <2>1, <2>3 DEF Removing, MayCall, TypeOK
  <2>5. asked \subseteq Queues /\ quiet \subseteq asked
    BY DEF TypeOK, QuietFollows
  <2>6. QED
    BY <2>2, <2>3, <2>4, <2>5, QuietKept
<1>3. ASSUME NEW c \in Cores, NEW q \in Queues,
             CreateQueue(c, q) \/ DeleteQueue(c, q) \/ Enable(c, q) \/ (Disable(c, q) /\ q \notin Notified)
      PROVE  QuietFollows' /\ MembersAreQuiet'
  <2>1. \A o : Owing(o)' = Owing(o)
    BY <1>3, SameEvents DEF CreateQueue, DeleteQueue, Enable, Disable
  <2>2. UNCHANGED <<running, member>> /\ \A p \in Queues \ {q} : status'[p] = status[p]
    BY <1>3 DEF CreateQueue, DeleteQueue, Enable, Disable, TypeOK
  <2>3. \A p \in Queues \ {q} : Removing(p)' <=> Removing(p)
    <3>1. \/ UNCHANGED <<pc, arg>>
          \/ /\ pc[c] = "idle" /\ arg' = [arg EXCEPT ![c] = q]
             /\ pc' = [pc EXCEPT ![c] = "add"] \/ pc' = [pc EXCEPT ![c] = "rem"]
      BY <1>3 DEF CreateQueue, DeleteQueue, Enable, Disable, MayCall
    <3>2. QED
      BY <3>1 DEF Removing, TypeOK
  <2>4. asked' = asked \ {q} /\ quiet' = quiet \ {q}
    <3>1. CASE CreateQueue(c, q)
      <4>1. q \notin asked /\ q \notin quiet
        BY <3>1 DEF CreateQueue, QuietFollows
      <4>2. QED
        BY <3>1, <4>1 DEF CreateQueue
    <3>2. CASE DeleteQueue(c, q) \/ Enable(c, q)
      BY <3>2 DEF DeleteQueue, Enable
    <3>3. CASE Disable(c, q) /\ q \notin Notified
      BY <3>3 DEF Disable, QuietFollows
    <3>4. QED
      BY <1>3, <3>1, <3>2, <3>3
  <2>5. quiet \subseteq asked /\ asked \subseteq Queues
    BY DEF QuietFollows, TypeOK
  <2>6. QED
    BY <2>1, <2>2, <2>3, <2>4, <2>5, QuietKept
<1>4. ASSUME NEW c \in Cores, NEW q \in Queues, Disable(c, q), q \in Notified
      PROVE  QuietFollows' /\ MembersAreQuiet'
  <2>1. /\ asked' = asked \cup {q} /\ UNCHANGED <<quiet, running, member, inbox, toSend>>
        /\ pc[c] = "idle" /\ pc' = [pc EXCEPT ![c] = "rem"] /\ arg' = [arg EXCEPT ![c] = q]
        /\ status' = [status EXCEPT ![q] = "BIND"]
    BY <1>4 DEF Disable, MayCall
  <2>2. \A o : Owing(o)' = Owing(o)
    BY <2>1, SameEvents
  <2>3. pc'[c] = "rem" /\ arg'[c] = q /\ status'[q] = "BIND"
    BY <2>1 DEF TypeOK
  <2>4. ASSUME NEW p \in asked', p # q
        PROVE  /\ status'[p] = "BIND"
               /\ (\A d \in Cores : ~(pc'[d] = "rem" /\ arg'[d] = p)) =>
                     \A d \in member' : running'[d] = p => d \in Owing(p)'
    <3>1. p \in asked /\ p \in Queues /\ status'[p] = status[p]
      BY <2>1, <2>4 DEF TypeOK
    <3>2. \A d \in Cores : (pc'[d] = "rem" /\ arg'[d] = p) <=> (pc[d] = "rem" /\ arg[d] = p)
      BY <2>1, <2>4 DEF TypeOK
    <3>3. QED
      BY <2>1, <2>2, <3>1, <3>2 DEF QuietFollows
  <2>5. QuietFollows'
    BY <1>4, <2>1, <2>3, <2>4 DEF QuietFollows
  <2>6. MembersAreQuiet'
    BY <2>1 DEF MembersAreQuiet
  <2>7. QED
    BY <2>5, <2>6
<1>5. ASSUME NEW c \in Cores, SendRequest(c)
      PROVE  QuietFollows' /\ MembersAreQuiet'
  <2>1. PICK r \in toSend[c] : /\ inbox' = [inbox EXCEPT ![r[1]] = Append(@, r[2])]
                               /\ toSend' = [toSend EXCEPT ![c] = @ \ {r}]
                               /\ pc' = [pc EXCEPT ![c] = IF toSend[c] = {r} THEN "idle" ELSE "send"]
    BY <1>5 DEF SendRequest
  <2>2. UNCHANGED <<asked, quiet, status, arg, running, member>> /\ pc[c] = "send"
    BY <1>5 DEF SendRequest
  <2>3. \A o : Owing(o)' = Owing(o)
    BY <2>1, SendEvents DEF Phases, Events
  <2>4. \A q : Removing(q)' <=> Removing(q)
    BY <2>1, <2>2 DEF Removing, TypeOK
  <2>5. quiet \subseteq asked
    BY DEF QuietFollows
  <2>6. QED
    BY <2>2, <2>3, <2>4, <2>5, QuietKept
<1>6. ASSUME NEW c \in Cores, AddQueue(c)
      PROVE  QuietFollows' /\ MembersAreQuiet'
  <2>1. \A o : Owing(o)' = Owing(o)
    BY <1>6, SameEvents DEF AddQueue
  <2>2. \A q : Removing(q)' <=> Removing(q)
    BY <1>6 DEF AddQueue, Removing, TypeOK
  <2>3. UNCHANGED <<asked, quiet, status, running, member>> /\ quiet \subseteq asked
    BY <1>6 DEF AddQueue, QuietFollows
  <2>4. QED
    BY <2>1, <2>2, <2>3, QuietKept
<1>7. ASSUME NEW c \in Cores, RemoveQueue(c)
      PROVE  QuietFollows' /\ MembersAreQuiet'
  <2>1. pc[c] = "rem" /\ arg[c] \in Queues /\ ~pending
    BY <1>7 DEF RemoveQueue, CallsApart, Changing, TypeOK
  <2>2. PICK q \in Queues : q = arg[c]
    BY <2>1
  <2>3. Owing(q) = {} /\ OneEvent /\ pc[c] # "send"
    BY <2>1, <2>2 DEF DisableAlone, Phases, Events
  <2>4. /\ toSend' = [toSend EXCEPT ![c] = CoresToNotify(q) \X {q}]
        /\ pc' = [pc EXCEPT ![c] = IF CoresToNotify(q) = {} THEN "idle" ELSE "send"]
        /\ arg' = [arg EXCEPT ![c] = None]
        /\ UNCHANGED <<inbox, mask, member, asked, quiet, status, running>>
    BY <1>7, <2>2 DEF RemoveQueue, NotifyCores, WaitFor, Uncount
  <2>5. /\ Owing(q)' = CoresToNotify(q)
        /\ \A o \in Operations \ {q} : Owing(o)' = Owing(o)
    BY <2>3, <2>4, DisableEvents
  <2>6. \A d \in Cores : d \in member <=> d \in mask
    BY <2>1 DEF Phases, PendingUnderWay, MembersFollow
  <2>7. ASSUME NEW p \in asked
        PROVE  (\A d \in Cores : ~(pc'[d] = "rem" /\ arg'[d] = p)) =>
                 \A d \in member : running[d] = p => d \in Owing(p)'
    <3>1. CASE p = q
      BY <2>5, <2>6, <3>1 DEF CoresToNotify, QuietFollows, TypeOK
    <3>2. CASE p # q
      <4>1. p \in Operations \ {q}
        BY <3>2, OperationFacts DEF TypeOK
      <4>2. \A d \in Cores : (pc'[d] = "rem" /\ arg'[d] = p) <=> (pc[d] = "rem" /\ arg[d] = p)
        BY <2>2, <2>4, <3>2 DEF TypeOK
      <4>3. QED
        BY <2>5, <4>1, <4>2 DEF QuietFollows
    <3>3. QED
      BY <3>1, <3>2
  <2>8. QuietFollows'
    BY <2>4, <2>7 DEF QuietFollows
  <2>9. MembersAreQuiet'
    BY <2>4 DEF MembersAreQuiet
  <2>10. QED
    BY <2>8, <2>9
<1>8. ASSUME NEW d \in Cores, Handle(d)
      PROVE  QuietFollows' /\ MembersAreQuiet'
  <2>1. PICK x : x = Head(inbox[d])
    OBVIOUS
  <2>2. PICK o : o = OperationOf(x)
    OBVIOUS
  <2>3. /\ inbox[d] # <<>> /\ inbox' = [inbox EXCEPT ![d] = Tail(@)] /\ running[d] = None
        /\ UNCHANGED <<toSend, asked, quiet, status, pc, arg, running>>
        /\ member' \subseteq member \cup {d}
    BY <1>8 DEF Handle, AtSchedule
  <2>4. OneEvent
    BY DEF Phases, Events
  <2>5. x \in Requests /\ Owing(o)' = Owing(o) \ {d} /\ \A p \in Operations \ {o} : Owing(p)' = Owing(p)
    BY <2>1, <2>2, <2>3, <2>4, HandleEvents
  <2>6. asked \subseteq Queues /\ Queues \subseteq Operations /\ None \notin Queues /\ quiet \subseteq asked
    BY OperationFacts, ConstantsAssumption DEF TypeOK, QuietFollows
  <2>7. \A q : Removing(q)' <=> Removing(q)
    BY <2>3 DEF Removing
  <2>8. \A q \in Queues : \A e \in member' : running'[e] = q =>
          /\ e \in member /\ running[e] = q
          /\ e \in Owing(q) => e \in Owing(q)'
    BY <2>3, <2>5, <2>6
  <2>9. QED
    BY <2>3, <2>6, <2>7, <2>8, QuietKept
<1>9. ASSUME NEW d \in Cores, ModifyDone(d)
      PROVE  QuietFollows' /\ MembersAreQuiet'
  BY <1>1, <1>9 DEF ModifyDone
<1>10. ASSUME NEW d \in Cores, NEW q \in Queues, DisableDone(d, q)
       PROVE  QuietFollows' /\ MembersAreQuiet'
  <2>1. /\ NextDone(q) /\ UNCHANGED <<inbox, toSend, left, asked, status, pc, arg, running, member>>
        /\ quiet' = quiet \cup ({q} \cap asked)
    BY <1>10 DEF DisableDone
  <2>2. Over(q) /\ Owing(q) = {} /\ \A o : Owing(o)' = Owing(o)
    BY <2>1, OperationFacts, DoneTaken DEF Phases
  <2>3. \A c \in Cores : ~(pc[c] = "rem" /\ arg[c] = q)
    BY <2>2 DEF DisableAlone, Phases, Events
  <2>4. q \in asked => \A e \in member : running[e] # q
    BY <2>2, <2>3 DEF QuietFollows
  <2>5. MembersAreQuiet'
    BY <2>1, <2>4 DEF MembersAreQuiet
  <2>6. QuietFollows'
    BY <2>1, <2>2 DEF QuietFollows
  <2>7. QED
    BY <2>5, <2>6
<1>11. ASSUME NEW d \in Cores, NEW q \in Queues, Dispatch(d, q) \/ DirectDispatch(d, q)
       PROVE  QuietFollows' /\ MembersAreQuiet'
  <2>1. /\ UNCHANGED <<inbox, toSend, asked, quiet, status, pc, arg, member>>
        /\ status[q] = "READY" /\ running' = [running EXCEPT ![d] = q]
    BY <1>11 DEF Dispatch, DirectDispatch
  <2>2. q \notin asked /\ quiet \subseteq asked
    BY <2>1 DEF QuietFollows
  <2>3. \A o : Owing(o)' = Owing(o) /\ (Removing(o)' <=> Removing(o))
    BY <2>1, SameEvents DEF Removing
  <2>4. \A p \in asked : \A e \in member : running'[e] = p => running[e] = p
    BY <2>1, <2>2 DEF TypeOK
  <2>5. QED
    BY <2>1, <2>2, <2>3, <2>4, QuietKept
<1>12. ASSUME NEW d \in Cores, ReceiveReturns(d)
       PROVE  QuietFollows' /\ MembersAreQuiet'
  <2>1. /\ UNCHANGED <<inbox, toSend, asked, quiet, status, pc, arg, member>>
        /\ running' = [running EXCEPT ![d] = None]
    BY <1>12 DEF ReceiveReturns
  <2>2. quiet \subseteq asked /\ None \notin asked
    BY ConstantsAssumption DEF QuietFollows, TypeOK
  <2>3. \A o : Owing(o)' = Owing(o) /\ (Removing(o)' <=> Removing(o))
    BY <2>1, SameEvents DEF Removing
  <2>4. \A p \in asked : \A e \in member : running'[e] = p => running[e] = p
    BY <2>1, <2>2 DEF TypeOK
  <2>5. QED
    BY <2>1, <2>2, <2>3, <2>4, QuietKept
<1>13. ASSUME NEW d \in Cores, MoveCursor(d)
       PROVE  QuietFollows' /\ MembersAreQuiet'
  BY <1>1, <1>13 DEF MoveCursor
<1>14. ASSUME NEW c \in Cores, DeleteGroup(c) \/ DeleteDone(c)
       PROVE  QuietFollows' /\ MembersAreQuiet'
  <2>1. /\ UNCHANGED <<inbox, toSend, asked, quiet, status, arg, running, member>>
        /\ pc[c] \in {"idle", "delete"}
        /\ pc' = [pc EXCEPT ![c] = "delete"] \/ pc' = [pc EXCEPT ![c] = "idle"]
    BY <1>14 DEF DeleteGroup, DeleteDone, MayCall
  <2>2. \A o : Owing(o)' = Owing(o)
    BY <2>1, SameEvents
  <2>3. \A q : Removing(q)' <=> Removing(q)
    BY <2>1 DEF Removing, TypeOK
  <2>4. QED
    BY <2>1, <2>2, <2>3, QuietKept DEF QuietFollows
<1>15. CASE UNCHANGED vars
  BY <1>1, <1>15 DEF vars
<1>16. QED
  BY <1>2, <1>3, <1>4, <1>5, <1>6, <1>7, <1>8, <1>9, <1>10, <1>11, <1>12, <1>13, <1>14, <1>15
     DEF Next, AppStep, CallStep, TakeDone

-----------------------------------------------------------------------------
(* Theorems *)

\* Nothing happens to a group between the two parts of its deletion, if the application
\* leaves it alone.
LEMMA DeletionStep ==
  ASSUME ~Contends, TypeOK, TableTrue, PendingUnderWay, DeletionAlone, [Next]_vars
  PROVE  DeletionAlone'
<1> USE DEF tableVars, groupVars, maskVars, eventVars, callVars, coreVars, ruleVars, Goto, MayCall
<1>1. ASSUME UNCHANGED <<allocated, list, mask, pending, pc>>
      PROVE  DeletionAlone'
  BY <1>1 DEF DeletionAlone
<1>2. ASSUME NEW c \in Cores, pc'[c] # "delete", \A d \in Cores \ {c} : pc'[d] = pc[d],
             \/ UNCHANGED <<allocated, list, mask, pending>>
             \/ \A d \in Cores \ {c} : pc[d] # "delete"
      PROVE  DeletionAlone'
  BY <1>2 DEF DeletionAlone
<1>3. ASSUME NEW c \in Cores, NEW new \in SUBSET Cores, CreateGroup(c, new) \/ ModifyGroup(c, new)
      PROVE  DeletionAlone'
  <2>1. \A d \in Cores : pc[d] # "delete"
    BY <1>3 DEF CreateGroup, ModifyGroup, LeftAlone, DeletionAlone
  <2>2. pc' = [pc EXCEPT ![c] = "send"] \/ pc' = pc
    BY <1>3 DEF CreateGroup, ModifyGroup, Modify
  <2>3. QED
    BY <1>2, <2>1, <2>2 DEF TypeOK
<1>4. ASSUME NEW c \in Cores, DeleteGroup(c)
      PROVE  DeletionAlone'
  <2>1. \A d \in Cores : pc[d] # "delete"
    BY <1>4 DEF DeleteGroup, LeftAlone
  <2>2. pc' = [pc EXCEPT ![c] = "delete"] /\ allocated /\ ~pending /\ mask = {} /\ list = {}
        /\ UNCHANGED <<allocated, list, mask, pending>>
    BY <1>4 DEF DeleteGroup
  <2>3. QED
    BY <2>1, <2>2 DEF DeletionAlone, TypeOK
<1>5. ASSUME NEW c \in Cores, DeleteDone(c)
      PROVE  DeletionAlone'
  <2>1. pc[c] = "delete" /\ pc' = [pc EXCEPT ![c] = "idle"]
    BY <1>5 DEF DeleteDone
  <2>2. \A d \in Cores \ {c} : pc[d] # "delete"
    BY <2>1 DEF DeletionAlone
  <2>3. QED
    BY <1>2, <2>1, <2>2 DEF TypeOK
<1>6. ASSUME NEW c \in Cores, NEW q \in Queues, CreateQueue(c, q) \/ DeleteQueue(c, q)
      PROVE  DeletionAlone'
  <2>1. pc[c] = "idle" /\ pc' = pc
    BY <1>6 DEF CreateQueue, DeleteQueue
  <2>2. \A d \in Cores : pc[d] # "delete"
    <3>1. CASE CreateQueue(c, q)
      BY <3>1 DEF CreateQueue, LeftAlone
    <3>2. CASE DeleteQueue(c, q)
      <4>1. list # {}
        BY <3>2 DEF DeleteQueue, TableTrue
      <4>2. QED
        BY <4>1 DEF DeletionAlone
    <3>3. QED
      BY <1>6, <3>1, <3>2
  <2>3. QED
    BY <1>2, <2>1, <2>2
<1>7. ASSUME NEW c \in Cores, NEW q \in Queues, Enable(c, q) \/ Disable(c, q)
      PROVE  DeletionAlone'
  <2>1. /\ UNCHANGED <<allocated, list, mask, pending>>
        /\ pc' = [pc EXCEPT ![c] = "add"] \/ pc' = [pc EXCEPT ![c] = "rem"]
    BY <1>7 DEF Enable, Disable
  <2>2. QED
    BY <1>2, <2>1 DEF TypeOK
<1>8. ASSUME NEW c \in Cores, SendRequest(c) \/ AddQueue(c) \/ RemoveQueue(c)
      PROVE  DeletionAlone'
  <2>1. /\ UNCHANGED <<allocated, list, mask, pending>>
        /\ pc' = [pc EXCEPT ![c] = "idle"] \/ pc' = [pc EXCEPT ![c] = "send"]
    BY <1>8 DEF SendRequest, AddQueue, RemoveQueue, NotifyCores, WaitFor
  <2>2. QED
    BY <1>2, <2>1 DEF TypeOK
<1>9. ASSUME NEW d \in Cores, ModifyDone(d)
      PROVE  DeletionAlone'
  <2>1. 1 \in 1..Len(done) /\ done[1] = "MODIFY"
    BY <1>9, TailFacts DEF ModifyDone, NextDone, TypeOK
  <2>2. pending
    BY <2>1 DEF PendingUnderWay, Over
  <2>3. \A e \in Cores : pc[e] # "delete"
    BY <2>2 DEF DeletionAlone
  <2>4. pc' = pc
    BY <1>9 DEF ModifyDone
  <2>5. QED
    BY <2>3, <2>4 DEF DeletionAlone
<1>10. ASSUME NEW d \in Cores, Handle(d) \/ MoveCursor(d) \/ ReceiveReturns(d)
       PROVE  DeletionAlone'
  BY <1>1, <1>10 DEF Handle, MoveCursor, ReceiveReturns
<1>11. ASSUME NEW d \in Cores, NEW q \in Queues,
              DisableDone(d, q) \/ Dispatch(d, q) \/ DirectDispatch(d, q)
       PROVE  DeletionAlone'
  BY <1>1, <1>11 DEF DisableDone, Dispatch, DirectDispatch
<1>12. CASE UNCHANGED vars
  BY <1>1, <1>12 DEF vars
<1>13. QED
  BY <1>3, <1>4, <1>5, <1>6, <1>7, <1>8, <1>9, <1>10, <1>11, <1>12 DEF Next, AppStep, CallStep, TakeDone

\* The invariant holds in the initial state.
LEMMA InitIInv == Init => IInv
<1> SUFFICES ASSUME Init PROVE IInv
  OBVIOUS
<1> USE DEF Init, InitGroup, InitInternalQueues, InitLocal
<1>1. TypeOK
  <2>1. /\ qidxCnt \in [Cores -> [Idxs -> Nat]] /\ grpCnt \in [Cores -> Nat]
        /\ qidxMask \in [Cores -> SUBSET Idxs]
    OBVIOUS
  <2>2. /\ inbox \in [Cores -> Seq(Requests)] /\ done \in Seq(Operations)
        /\ left \in [Operations -> Int]
    OBVIOUS
  <2>3. /\ pc \in [Cores -> ControlPoints] /\ toSend \in [Cores -> SUBSET (Cores \X Requests)]
        /\ arg \in [Cores -> Queues \cup {None}] /\ running \in [Cores -> Queues \cup {None}]
        /\ cursor \in [Cores -> Idxs \cup {None}]
    BY DEF ControlPoints
  <2>4. QED
    BY <2>1, <2>2, <2>3 DEF TypeOK
<1>2. CallsApart /\ TableTrue /\ DeletionAlone
  BY DEF CallsApart, Changing, TableTrue, DeletionAlone
<1>3. /\ \A d \in Cores, r \in Requests : ~Unsent(d, r) /\ ~Held(d, r)
      /\ \A o : Owing(o) = {} /\ ~Over(o)
  <2>1. \A d \in Cores, r \in Requests : ~Unsent(d, r) /\ ~Held(d, r)
    BY DEF Unsent, Held
  <2>2. \A o : Owing(o) = {} /\ ~Over(o)
    BY <2>1 DEF Owing, Over
  <2>3. QED
    BY <2>1, <2>2
<1>4. OneEvent
  BY DEF OneEvent, OneInToSend, OneInInbox, NotInBoth
<1>5. LeftCounts /\ DoneOnce /\ DoneIsLast /\ DisableAlone
  <2>1. LeftCounts
    BY <1>3, FS_EmptySet DEF LeftCounts
  <2>2. DoneOnce /\ DoneIsLast /\ DisableAlone
    BY <1>3 DEF DoneOnce, DoneIsLast, DisableAlone
  <2>3. QED
    BY <2>1, <2>2
<1>6. PendingUnderWay /\ MembersFollow
  BY <1>3 DEF PendingUnderWay, MembersFollow, Requests
<1>7. QuietFollows /\ MembersAreQuiet
  BY DEF QuietFollows, MembersAreQuiet
<1>8. QED
  BY <1>1, <1>2, <1>4, <1>5, <1>6, <1>7 DEF IInv, Phases, Events

\* Every step keeps the invariant, if a group is left alone while it is deleted.
LEMMA StepIInv == ~Contends /\ IInv /\ [Next]_vars => IInv'
<1> SUFFICES ASSUME ~Contends, IInv, [Next]_vars PROVE IInv'
  OBVIOUS
<1>1. /\ TypeOK /\ CallsApart /\ TableTrue /\ DeletionAlone /\ Phases /\ PendingUnderWay
      /\ QuietFollows /\ MembersAreQuiet
  BY DEF IInv, Phases
<1>2. TypeOK'
  BY <1>1, TypeStep
<1>3. CallsApart' /\ TableTrue' /\ DeletionAlone'
  BY <1>1, CallsStep, DeletionStep
<1>4. Phases'
  BY <1>1, PhasesStep
<1>5. QuietFollows' /\ MembersAreQuiet'
  BY <1>1, QuietStep
<1>6. QED
  BY <1>2, <1>3, <1>4, <1>5 DEF IInv

\* The invariant always holds: requests, group counts and 'done' events of em_internal_notif
\* fit together in every state, for any number of cores and queues, if the application does
\* not touch a group that em_queue_group_delete is working on.
THEOREM InvariantHolds ==
  ASSUME ~Contends
  PROVE  Spec => []IInv
<1>1. IInv /\ [Next]_vars => IInv'
  BY StepIInv
<1>2. QED
  BY <1>1, InitIInv, PTL DEF Spec

\* The mask that em_queue_group_mask returns is that of the cores in the group, unless a
\* modify is pending; a free group has none.  Were the group modified between the two locked
\* parts of its deletion, which mark nothing as pending, neither would hold.
THEOREM MaskStaysTrue ==
  ASSUME ~Contends
  PROVE  Spec => []MaskIsTrue
<1>1. IInv => MaskIsTrue
  <2> SUFFICES ASSUME IInv PROVE MaskIsTrue
    OBVIOUS
  <2>1. ~pending => member = mask
    BY DEF IInv, TypeOK, Phases, PendingUnderWay, MembersFollow
  <2>2. QED
    BY <2>1 DEF IInv, TableTrue, MaskIsTrue
<1>2. Spec => []IInv
  BY InvariantHolds
<1>3. QED
  BY <1>1, <1>2, PTL

\* When em_queue_disable has been notified, no core of the group is still in the receive
\* function of the queue.
THEOREM MembersStayQuiet ==
  ASSUME ~Contends
  PROVE  Spec => []MembersAreQuiet
<1>1. IInv => MembersAreQuiet
  BY DEF IInv
<1>2. Spec => []IInv
  BY InvariantHolds
<1>3. QED
  BY <1>1, <1>2, PTL

-----------------------------------------------------------------------------
(* The counts behind the mask bits *)

\* One queue more or less in a set.
LEMMA OneQueueMore ==
  ASSUME NEW S \in SUBSET Queues, NEW q \in Queues
  PROVE  /\ Cardinality(S) \in Nat
         /\ q \notin S => Cardinality(S \cup {q}) = Cardinality(S) + 1
         /\ q \in S => Cardinality(S) > 0 /\ Cardinality(S \ {q}) = Cardinality(S) - 1
         /\ Cardinality(S) > 0 <=> S # {}
<1>1. IsFiniteSet(S) /\ Cardinality(S) \in Nat
  BY QueuesCounted
<1>2. q \notin S => Cardinality(S \cup {q}) = Cardinality(S) + 1
  BY <1>1, FS_AddElement
<1>3. q \in S => Cardinality(S \ {q}) = Cardinality(S) - 1
  BY <1>1, FS_RemoveElement
<1>4. Cardinality(S) = 0 <=> S = {}
  BY <1>1, FS_EmptySet
<1>5. QED
  BY <1>1, <1>2, <1>3, <1>4

\* Steps in which neither the queues counted nor the cores' masks change.
LEMMA SameCounts ==
  ASSUME CountsFollow, Counted' = Counted, UNCHANGED maskVars
  PROVE  CountsFollow'
<1>1. \A i \in Idxs : CountedAt(i)' = CountedAt(i)
  BY DEF CountedAt
<1>2. QED
  BY <1>1 DEF CountsFollow, RightCounts, maskVars

\* A call adds its queue to the masks of the cores in the group.
LEMMA AddCounts ==
  ASSUME TypeOK, CallsApart, Phases, CountsFollow, NEW c \in Cores, AddQueue(c)
  PROVE  CountsFollow'
<1>1. pc[c] = "add" /\ arg[c] \in Queues /\ ~pending /\ status[arg[c]] = "READY"
  BY DEF AddQueue, CallsApart, Changing, TypeOK
<1>2. PICK q \in Queues : q = arg[c]
  BY <1>1
<1>3. PICK i \in Idxs : i = Idx[q]
  BY OperationFacts
<1>4. \A d \in Cores : d \in member <=> d \in mask
  BY <1>1 DEF Phases, PendingUnderWay, MembersFollow
<1>5. q \notin Counted /\ Counted' = Counted \cup {q}
  <2>1. \A d \in Cores : arg[d] = q => d = c
    BY <1>1, <1>2, OperationFacts DEF CallsApart
  <2>2. q \notin Counted
    BY <1>1, <1>2, <2>1 DEF Counted
  <2>3. UNCHANGED status /\ pc' = [pc EXCEPT ![c] = "idle"] /\ arg' = [arg EXCEPT ![c] = None]
    BY DEF AddQueue, Goto
  <2>4. \A d \in Cores : /\ pc'[d] = IF d = c THEN "idle" ELSE pc[d]
                         /\ arg'[d] = IF d = c THEN None ELSE arg[d]
    BY <2>3 DEF TypeOK
  <2>5. q \in Counted'
    BY <1>1, <1>2, <2>1, <2>3, <2>4 DEF Counted
  <2>6. \A p \in Queues \ {q} : p \in Counted' <=> p \in Counted
    BY <1>1, <1>2, <2>3, <2>4 DEF Counted
  <2>7. QED
    BY <2>2, <2>5, <2>6 DEF Counted
<1>6. /\ q \notin CountedAt(i) /\ CountedAt(i)' = CountedAt(i) \cup {q}
      /\ \A j \in Idxs \ {i} : CountedAt(j)' = CountedAt(j)
      /\ Counted \in SUBSET Queues /\ \A j \in Idxs : CountedAt(j) \in SUBSET Queues
  BY <1>3, <1>5 DEF CountedAt, Counted
<1>7. /\ Cardinality(Counted') = Cardinality(Counted) + 1 /\ Cardinality(Counted) \in Nat
      /\ Cardinality(CountedAt(i)') = Cardinality(CountedAt(i)) + 1 /\ Cardinality(CountedAt(i)) \in Nat
  BY <1>5, <1>6, OneQueueMore
<1> SUFFICES ASSUME NEW d \in Cores PROVE RightCounts(d)'
  BY DEF CountsFollow
<1>8. /\ qidxCnt[d] \in [Idxs -> Nat] /\ grpCnt[d] \in Nat /\ qidxMask[d] \in SUBSET Idxs
      /\ RightCounts(d) /\ UNCHANGED member
  BY DEF TypeOK, CountsFollow, AddQueue
<1>9. CASE d \in mask
  <2>1. /\ qidxCnt'[d] = [qidxCnt[d] EXCEPT ![i] = @ + 1]
        /\ grpCnt'[d] = grpCnt[d] + 1
        /\ qidxMask'[d] = IF qidxCnt[d][i] = 0 THEN qidxMask[d] \cup {i} ELSE qidxMask[d]
        /\ d \in grpMask' <=> d \in grpMask \/ grpCnt[d] = 0
    BY <1>2, <1>3, <1>9 DEF AddQueue
  <2>2. ASSUME NEW j \in Idxs
        PROVE  /\ qidxCnt'[d][j] = Cardinality(CountedAt(j)')
               /\ j \in qidxMask'[d] <=> qidxCnt'[d][j] > 0
    <3>1. CASE j = i
      BY <1>4, <1>7, <1>8, <1>9, <2>1, <3>1 DEF RightCounts
    <3>2. CASE j # i
      <4>1. qidxCnt'[d][j] = qidxCnt[d][j] /\ (j \in qidxMask'[d] <=> j \in qidxMask[d])
        BY <1>8, <2>1, <3>2
      <4>2. QED
        BY <1>4, <1>6, <1>8, <1>9, <3>2, <4>1 DEF RightCounts
    <3>3. QED
      BY <3>1, <3>2
  <2>3. grpCnt'[d] = Cardinality(Counted') /\ (d \in grpMask' <=> grpCnt'[d] > 0)
    BY <1>4, <1>7, <1>8, <1>9, <2>1 DEF RightCounts
  <2>4. QED
    BY <1>4, <1>8, <1>9, <2>2, <2>3 DEF RightCounts
<1>10. CASE d \notin mask
  <2>1. /\ qidxCnt'[d] = qidxCnt[d] /\ grpCnt'[d] = grpCnt[d]
        /\ qidxMask'[d] = qidxMask[d] /\ (d \in grpMask' <=> d \in grpMask)
    BY <1>10 DEF AddQueue
  <2>2. QED
    BY <1>4, <1>8, <1>10, <2>1 DEF RightCounts
<1>11. QED
  BY <1>9, <1>10

\* A call takes its queue out of the masks; without cores in the group the masks of all
\* cores are gone through, and have nothing to lose.
LEMMA RemoveCounts ==
  ASSUME TypeOK, CallsApart, Phases, CountsFollow, NEW c \in Cores, RemoveQueue(c)
  PROVE  CountsFollow'
<1>1. pc[c] = "rem" /\ arg[c] \in Queues /\ ~pending /\ status[arg[c]] = "BIND"
  BY DEF RemoveQueue, CallsApart, Changing, TypeOK
<1>2. PICK q \in Queues : q = arg[c]
  BY <1>1
<1>3. PICK i \in Idxs : i = Idx[q]
  BY OperationFacts
<1>4. \A d \in Cores : d \in member <=> d \in mask
  BY <1>1 DEF Phases, PendingUnderWay, MembersFollow
<1>5. q \in Counted /\ Counted' = Counted \ {q}
  <2>1. \A d \in Cores : arg[d] = q => d = c
    BY <1>1, <1>2, OperationFacts DEF CallsApart
  <2>2. q \in Counted
    BY <1>1, <1>2 DEF Counted
  <2>3. UNCHANGED status /\ arg' = [arg EXCEPT ![c] = None] /\ pc'[c] \in {"idle", "send"}
        /\ \A d \in Cores \ {c} : pc'[d] = pc[d]
    BY DEF RemoveQueue, NotifyCores, WaitFor, Goto, TypeOK
  <2>4. \A d \in Cores : /\ d # c => pc'[d] = pc[d]
                         /\ arg'[d] = IF d = c THEN None ELSE arg[d]
    BY <2>3 DEF TypeOK
  <2>5. q \notin Counted'
    BY <1>1, <1>2, <2>1, <2>3, <2>4 DEF Counted
  <2>6. \A p \in Queues \ {q} : p \in Counted' <=> p \in Counted
    BY <1>1, <1>2, <2>3, <2>4 DEF Counted
  <2>7. QED
    BY <2>2, <2>5, <2>6 DEF Counted
<1>6. /\ q \in CountedAt(i) /\ CountedAt(i)' = CountedAt(i) \ {q}
      /\ \A j \in Idxs \ {i} : CountedAt(j)' = CountedAt(j)
      /\ Counted \in SUBSET Queues /\ \A j \in Idxs : CountedAt(j) \in SUBSET Queues
  BY <1>3, <1>5 DEF CountedAt, Counted
<1>7. /\ Cardinality(Counted') = Cardinality(Counted) - 1
      /\ Cardinality(Counted) \in Nat /\ Cardinality(Counted) > 0
      /\ Cardinality(CountedAt(i)') = Cardinality(CountedAt(i)) - 1
      /\ Cardinality(CountedAt(i)) \in Nat /\ Cardinality(CountedAt(i)) > 0
  BY <1>5, <1>6, OneQueueMore
<1> SUFFICES ASSUME NEW d \in Cores PROVE RightCounts(d)'
  BY DEF CountsFollow
<1>8. /\ qidxCnt[d] \in [Idxs -> Nat] /\ grpCnt[d] \in Nat /\ qidxMask[d] \in SUBSET Idxs
      /\ RightCounts(d) /\ UNCHANGED member
  BY DEF TypeOK, CountsFollow, RemoveQueue, Uncount
<1>9. CASE d \in CoresToChange
  <2>1. /\ qidxCnt'[d] = [qidxCnt[d] EXCEPT ![i] = Less(@)]
        /\ grpCnt'[d] = Less(grpCnt[d])
        /\ qidxMask'[d] = IF qidxCnt[d][i] = 1 THEN qidxMask[d] \ {i} ELSE qidxMask[d]
        /\ d \in grpMask' <=> d \in grpMask /\ grpCnt[d] # 1
    BY <1>2, <1>3, <1>9 DEF RemoveQueue, Uncount
  <2>2. /\ qidxCnt'[d][i] = Less(qidxCnt[d][i])
        /\ \A j \in Idxs \ {i} : /\ qidxCnt'[d][j] = qidxCnt[d][j]
                                 /\ j \in qidxMask'[d] <=> j \in qidxMask[d]
    BY <1>8, <2>1
  <2>3. CASE d \in mask
    <3>1. ASSUME NEW j \in Idxs
          PROVE  /\ qidxCnt'[d][j] = Cardinality(CountedAt(j)')
                 /\ j \in qidxMask'[d] <=> qidxCnt'[d][j] > 0
      <4>1. CASE j = i
        BY <1>4, <1>7, <1>8, <2>1, <2>2, <2>3, <4>1 DEF RightCounts, Less
      <4>2. CASE j # i
        BY <1>4, <1>6, <1>8, <2>2, <2>3, <4>2 DEF RightCounts
      <4>3. QED
        BY <4>1, <4>2
    <3>2. grpCnt'[d] = Cardinality(Counted') /\ (d \in grpMask' <=> grpCnt'[d] > 0)
      BY <1>4, <1>7, <1>8, <2>1, <2>3 DEF RightCounts, Less
    <3>3. QED
      BY <1>4, <1>8, <2>3, <3>1, <3>2 DEF RightCounts
  <2>4. CASE d \notin mask
    <3>1. \A j \in Idxs : qidxCnt[d][j] = 0 /\ j \notin qidxMask[d]
      BY <1>4, <1>8, <2>4 DEF RightCounts
    <3>2. \A j \in Idxs : qidxCnt'[d][j] = 0 /\ j \notin qidxMask'[d]
      BY <2>1, <2>2, <3>1 DEF Less
    <3>3. grpCnt'[d] = 0 /\ d \notin grpMask'
      BY <1>4, <1>8, <2>1, <2>4 DEF RightCounts, Less
    <3>4. QED
      BY <1>4, <1>8, <2>4, <3>2, <3>3 DEF RightCounts
  <2>5. QED
    BY <2>3, <2>4
<1>10. CASE d \notin CoresToChange
  <2>1. /\ qidxCnt'[d] = qidxCnt[d] /\ grpCnt'[d] = grpCnt[d]
        /\ qidxMask'[d] = qidxMask[d] /\ (d \in grpMask' <=> d \in grpMask)
    BY <1>10 DEF RemoveQueue, Uncount
  <2>2. d \notin mask
    BY <1>10 DEF CoresToChange
  <2>3. QED
    BY <1>4, <1>8, <2>1, <2>2 DEF RightCounts
<1>11. QED
  BY <1>9, <1>10

\* A core that enters the group counts the queues itself, one that leaves forgets them.
LEMMA HandleCounts ==
  ASSUME TypeOK, CallsApart, TableTrue, Phases, CountsFollow, NEW d \in Cores, Handle(d)
  PROVE  CountsFollow'
<1>1. PICK x : x = Head(inbox[d])
  OBVIOUS
<1>2. /\ inbox[d] # <<>> /\ inbox' = [inbox EXCEPT ![d] = Tail(@)]
      /\ UNCHANGED <<toSend, status, pc, arg>>
      /\ \/ x = "ADD" /\ AddGroup(d) /\ member' = member \cup {d}
         \/ x = "REM" /\ RemoveGroup(d) /\ member' = member \ {d}
         \/ x \in Queues /\ UNCHANGED maskVars
  BY <1>1 DEF Handle, callVars
<1>3. x \in Requests /\ Held(d, x) /\ d \in Owing(OperationOf(x))
  <2>1. PICK o : o = OperationOf(x)
    OBVIOUS
  <2>2. inbox[d] \in Seq(Requests) /\ x = inbox[d][1] /\ x \in Requests /\ 1 \in 1..Len(inbox[d])
    BY <1>1, <1>2, TailFacts DEF TypeOK
  <2>3. QED
    BY <2>2 DEF Held, Owing
<1>4. Counted' = Counted /\ \A i \in Idxs : CountedAt(i)' = CountedAt(i)
  BY <1>2 DEF Counted, CountedAt
<1>5. CASE x \in Queues
  BY <1>2, <1>4, <1>5, SameCounts, OperationFacts
<1>6. CASE x \in {"ADD", "REM"}
  <2>1. pending
    BY <1>3, <1>6, OperationFacts DEF Phases, PendingUnderWay
  <2>2. \A e \in Cores : pc[e] # "add" /\ pc[e] # "rem"
    BY <2>1 DEF CallsApart, Changing
  <2>3. ASSUME NEW e \in Cores, e # d PROVE RightCounts(e)'
    <3>1. /\ qidxCnt'[e] = qidxCnt[e] /\ grpCnt'[e] = grpCnt[e]
          /\ qidxMask'[e] = qidxMask[e] /\ (e \in grpMask' <=> e \in grpMask)
          /\ e \in member' <=> e \in member
      BY <1>2, <1>6, <2>3, OperationFacts DEF AddGroup, RemoveGroup, TypeOK
    <3>2. QED
      BY <1>4, <3>1 DEF RightCounts, CountsFollow
  <2>4. CASE x = "ADD"
    <3>1. AddGroup(d) /\ d \in member'
      BY <1>2, <2>4, OperationFacts
    <3>2. d \notin member /\ RightCounts(d)
      BY <1>3, <2>4 DEF Phases, MembersFollow, CountsFollow
    <3>3. EnabledListed = Counted /\ \A i \in Idxs : EnabledHere(i) = CountedAt(i)
      BY <2>2 DEF EnabledListed, EnabledHere, Counted, CountedAt, TableTrue
    <3>4. /\ Cardinality(Counted) \in Nat /\ (Cardinality(Counted) > 0 <=> Counted # {})
          /\ \A i \in Idxs : /\ Cardinality(CountedAt(i)) \in Nat
                             /\ Cardinality(CountedAt(i)) > 0 <=> CountedAt(i) # {}
      <4>1. Counted \in SUBSET Queues /\ \A i \in Idxs : CountedAt(i) \in SUBSET Queues
        BY DEF Counted, CountedAt
      <4>2. \A S \in SUBSET Queues : Cardinality(S) \in Nat /\ (Cardinality(S) > 0 <=> S # {})
        <5>1. TAKE S \in SUBSET Queues
        <5>2. IsFiniteSet(S) /\ Cardinality(S) \in Nat
          BY QueuesCounted
        <5>3. QED
          BY <5>2, FS_EmptySet
      <4>3. QED
        BY <4>1, <4>2
    <3>5. /\ qidxCnt'[d] = [i \in Idxs |-> qidxCnt[d][i] + Cardinality(CountedAt(i))]
          /\ grpCnt'[d] = grpCnt[d] + Cardinality(Counted)
          /\ qidxMask'[d] = qidxMask[d] \cup {Idx[q] : q \in Counted}
          /\ d \in grpMask' <=> d \in grpMask \/ Counted # {}
      <4>1. \A i \in Idxs : Cardinality(EnabledHere(i)) = Cardinality(CountedAt(i))
        BY <3>3
      <4>2. qidxCnt'[d] = [i \in Idxs |-> qidxCnt[d][i] + Cardinality(CountedAt(i))]
        BY <3>1, <4>1 DEF AddGroup, TypeOK
      <4>3. QED
        BY <3>1, <3>3, <4>2 DEF AddGroup, TypeOK
    <3>6. /\ \A i \in Idxs : qidxCnt[d][i] = 0 /\ i \notin qidxMask[d]
          /\ grpCnt[d] = 0 /\ d \notin grpMask
      BY <3>2 DEF RightCounts
    <3>7. \A i \in Idxs : /\ qidxCnt'[d][i] = Cardinality(CountedAt(i))
                          /\ i \in qidxMask'[d] <=> CountedAt(i) # {}
      BY <3>4, <3>5, <3>6 DEF CountedAt
    <3>8. grpCnt'[d] = Cardinality(Counted) /\ (d \in grpMask' <=> Counted # {})
      BY <3>4, <3>5, <3>6
    <3>9. RightCounts(d)'
      BY <1>4, <3>1, <3>4, <3>7, <3>8 DEF RightCounts
    <3>10. QED
      BY <2>3, <3>9 DEF CountsFollow
  <2>5. CASE x = "REM"
    <3>1. RemoveGroup(d) /\ d \notin member'
      BY <1>2, <2>5, OperationFacts
    <3>2. RightCounts(d)'
      BY <3>1 DEF RemoveGroup, RightCounts, TypeOK
    <3>3. QED
      BY <2>3, <3>2 DEF CountsFollow
  <2>6. QED
    BY <1>6, <2>4, <2>5
<1>7. QED
  BY <1>2, <1>5, <1>6

\* Every step keeps the counts, if no queue is disabled that is not enabled.
LEMMA CountsStep ==
  ASSUME ~Repeats, TypeOK, CallsApart, TableTrue, Phases, CountsFollow, [Next]_vars
  PROVE  CountsFollow'
<1> USE DEF tableVars, groupVars, eventVars, callVars, coreVars, ruleVars, Goto, MayCall
<1>1. ASSUME UNCHANGED <<status, pc, arg, maskVars>>
      PROVE  CountsFollow'
  <2>1. Counted' = Counted
    BY <1>1 DEF Counted
  <2>2. QED
    BY <1>1, <2>1, SameCounts
<1>2. ASSUME NEW c \in Cores, NEW new \in SUBSET Cores, CreateGroup(c, new) \/ ModifyGroup(c, new)
      PROVE  CountsFollow'
  <2>1. MayCall(c) /\ (Remask(c, new) \/ UNCHANGED <<status, pc, arg, maskVars>>)
    BY <1>2, CreateFacts DEF ModifyGroup, Remask
  <2>2. /\ UNCHANGED <<status, arg, maskVars>> /\ pc[c] = "idle"
        /\ pc' = [pc EXCEPT ![c] = "send"] \/ pc' = pc
    BY <2>1 DEF Remask, Modify
  <2>3. Counted' = Counted
    BY <2>2 DEF Counted, TypeOK
  <2>4. QED
    BY <2>2, <2>3, SameCounts
<1>3. ASSUME NEW c \in Cores, NEW q \in Queues, CreateQueue(c, q) \/ DeleteQueue(c, q)
      PROVE  CountsFollow'
  <2>1. /\ UNCHANGED <<pc, arg, maskVars>>
        /\ status[q] # "READY" /\ status'[q] # "READY"
        /\ \A p \in Queues \ {q} : status'[p] = status[p]
    BY <1>3 DEF CreateQueue, DeleteQueue, TypeOK
  <2>2. Counted' = Counted
    BY <2>1 DEF Counted
  <2>3. QED
    BY <2>1, <2>2, SameCounts
<1>4. ASSUME NEW c \in Cores, NEW q \in Queues, Enable(c, q)
      PROVE  CountsFollow'
  <2>1. /\ UNCHANGED maskVars /\ pc[c] = "idle" /\ \A d \in Cores : arg[d] # q
        /\ status' = [status EXCEPT ![q] = "READY"] /\ status[q] = "BIND"
        /\ pc' = [pc EXCEPT ![c] = "add"] /\ arg' = [arg EXCEPT ![c] = q]
    BY <1>4 DEF Enable
  <2>2. \A d \in Cores : /\ pc'[d] = IF d = c THEN "add" ELSE pc[d]
                         /\ arg'[d] = IF d = c THEN q ELSE arg[d]
    BY <2>1 DEF TypeOK
  <2>3. q \notin Counted /\ q \notin Counted'
    BY <2>1, <2>2 DEF Counted
  <2>4. \A p \in Queues \ {q} : p \in Counted' <=> p \in Counted
    BY <2>1, <2>2 DEF Counted, TypeOK
  <2>5. Counted' = Counted
    BY <2>3, <2>4 DEF Counted
  <2>6. QED
    BY <2>1, <2>5, SameCounts
<1>5. ASSUME NEW c \in Cores, NEW q \in Queues, Disable(c, q)
      PROVE  CountsFollow'
  <2>1. /\ UNCHANGED maskVars /\ pc[c] = "idle" /\ \A d \in Cores : arg[d] # q
        /\ status' = [status EXCEPT ![q] = "BIND"] /\ status[q] = "READY"
        /\ pc' = [pc EXCEPT ![c] = "rem"] /\ arg' = [arg EXCEPT ![c] = q]
    BY <1>5 DEF Disable
  <2>2. \A d \in Cores : /\ pc'[d] = IF d = c THEN "rem" ELSE pc[d]
                         /\ arg'[d] = IF d = c THEN q ELSE arg[d]
    BY <2>1 DEF TypeOK
  <2>3. q \in Counted /\ q \in Counted'
    BY <2>1, <2>2 DEF Counted
  <2>4. \A p \in Queues \ {q} : p \in Counted' <=> p \in Counted
    BY <2>1, <2>2 DEF Counted, TypeOK
  <2>5. Counted' = Counted
    BY <2>3, <2>4 DEF Counted
  <2>6. QED
    BY <2>1, <2>5, SameCounts
<1>6. ASSUME NEW c \in Cores, SendRequest(c)
      PROVE  CountsFollow'
  <2>1. /\ UNCHANGED <<status, arg, maskVars>> /\ pc[c] = "send"
        /\ pc'[c] \in {"idle", "send"} /\ \A d \in Cores \ {c} : pc'[d] = pc[d]
    BY <1>6 DEF SendRequest, TypeOK
  <2>2. Counted' = Counted
    BY <2>1 DEF Counted
  <2>3. QED
    BY <2>1, <2>2, SameCounts
<1>7. ASSUME NEW d \in Cores, ModifyDone(d) \/ \E q \in Queues : DisableDone(d, q)
      PROVE  CountsFollow'
  BY <1>1, <1>7 DEF ModifyDone, DisableDone
<1>8. ASSUME NEW d \in Cores, MoveCursor(d) \/ ReceiveReturns(d)
      PROVE  CountsFollow'
  BY <1>1, <1>8 DEF MoveCursor, ReceiveReturns
<1>9. ASSUME NEW d \in Cores, NEW q \in Queues, Dispatch(d, q) \/ DirectDispatch(d, q)
      PROVE  CountsFollow'
  BY <1>1, <1>9 DEF Dispatch, DirectDispatch
<1>10. CASE UNCHANGED vars
  BY <1>1, <1>10 DEF vars
<1>11. ASSUME NEW c \in Cores, DeleteGroup(c) \/ DeleteDone(c)
       PROVE  CountsFollow'
  <2>1. /\ UNCHANGED <<status, arg, maskVars>> /\ pc[c] \in {"idle", "delete"}
        /\ pc' = [pc EXCEPT ![c] = "delete"] \/ pc' = [pc EXCEPT ![c] = "idle"]
    BY <1>11 DEF DeleteGroup, DeleteDone
  <2>2. Counted' = Counted
    BY <2>1 DEF Counted, TypeOK
  <2>3. QED
    BY <2>1, <2>2, SameCounts
<1>12. QED
  BY <1>2, <1>3, <1>4, <1>5, <1>6, <1>7, <1>8, <1>9, <1>10, <1>11, AddCounts, RemoveCounts, HandleCounts
     DEF Next, AppStep, CallStep, TakeDone

-----------------------------------------------------------------------------
(* Theorems on the masks *)

\* Nothing is counted before the first core enters the group.
LEMMA InitCounts == Init => CountsFollow
BY DEF Init, InitGroup, InitLocal, CountsFollow, RightCounts

\* Every step keeps the counts right, given the invariant of what is under way.
LEMMA StepCounts == ~Repeats /\ IInv /\ CountsFollow /\ [Next]_vars => CountsFollow'
BY CountsStep DEF IInv

\* sched_masks_add_queue and _rem_queue, on whichever core, and _add_queue_group__local and
\* _rem_queue_group__local, on the cores themselves, never count a queue twice or not at
\* all, however they interleave: if no queue is disabled that is not enabled.
THEOREM CountsHold ==
  ASSUME ~Repeats, ~Contends
  PROVE  Spec => []CountsFollow
<1>1. ~Repeats
  OBVIOUS
<1>2. IInv /\ CountsFollow /\ [Next]_vars => CountsFollow'
  BY <1>1, StepCounts
<1>3. Spec => []IInv
  BY InvariantHolds
<1>4. QED
  BY <1>2, <1>3, InitCounts, PTL DEF Spec

\* When no call and no modify is under way, the counts of a core in the group are those of
\* the enabled queues, and a core out of it has none.
THEOREM CountsStayExact ==
  ASSUME ~Repeats, ~Contends
  PROVE  Spec => []CountsExact
<1>1. IInv /\ CountsFollow => CountsExact
  <2> SUFFICES ASSUME IInv, CountsFollow, Settled = Queues, ~pending, NEW c \in Cores
               PROVE  LET counted(i) == {q \in Queues : c \in mask /\ status[q] = "READY" /\ Idx[q] = i} IN
                      /\ \A i \in Idxs : qidxCnt[c][i] = Cardinality(counted(i))
                      /\ grpCnt[c] = Cardinality(UNION {counted(i) : i \in Idxs})
    BY DEF CountsExact
  <2> DEFINE counted(i) == {q \in Queues : c \in mask /\ status[q] = "READY" /\ Idx[q] = i}
  <2>1. RightCounts(c) /\ (c \in member <=> c \in mask)
    BY DEF CountsFollow, IInv, Phases, PendingUnderWay, MembersFollow
  <2>2. \A q \in Queues : q \in Counted <=> status[q] = "READY"
    BY DEF Counted, Settled
  <2>3. \A i \in Idxs : counted(i) = IF c \in mask THEN CountedAt(i) ELSE {}
    BY <2>2 DEF CountedAt, Counted
  <2>4. UNION {counted(i) : i \in Idxs} = IF c \in mask THEN Counted ELSE {}
    BY <2>2, OperationFacts DEF Counted
  <2>5. Cardinality({}) = 0
    BY FS_EmptySet
  <2>6. QED
    BY <2>1, <2>3, <2>4, <2>5 DEF RightCounts
<1>2. Spec => []IInv /\ []CountsFollow
  BY CountsHold, InvariantHolds
<1>3. QED
  BY <1>1, <1>2, PTL

\* A core of the group polls every enabled queue, also while other cores enter and leave.
\* (With a second disable of a queue this fails, which a run shows.)
THEOREM EnabledStaysPolled ==
  ASSUME ~Repeats, ~Contends
  PROVE  Spec => []EnabledIsPolled
<1>1. IInv /\ CountsFollow => EnabledIsPolled
  <2> SUFFICES ASSUME IInv, CountsFollow, NEW q \in Settled, status[q] = "READY", NEW c \in Staying
               PROVE  Polls(c, Idx[q])
    BY DEF EnabledIsPolled
  <2>1. c \in Cores /\ q \in Queues /\ Idx[q] \in Idxs
    BY OperationFacts DEF Staying, Settled, IInv, TypeOK
  <2>2. c \in member
    <3>1. Phases /\ mask \in SUBSET Cores /\ newMask \in SUBSET Cores
      BY DEF IInv, TypeOK
    <3>2. CASE pending
      <4>1. c \in mask /\ c \in newMask
        BY <3>2 DEF Staying
      <4>2. \A r \in {"ADD", "REM"} : ~Unsent(c, r) /\ ~Held(c, r)
        BY <2>1, <3>1, <4>1 DEF Phases, MembersFollow
      <4>3. c \notin Owing("MODIFY")
        BY <4>2, OperationFacts DEF Owing
      <4>4. QED
        BY <2>1, <3>1, <3>2, <4>1, <4>3 DEF Phases, MembersFollow
    <3>3. CASE ~pending
      BY <2>1, <3>1, <3>3 DEF Staying, Phases, PendingUnderWay, MembersFollow
    <3>4. QED
      BY <3>2, <3>3
  <2>3. q \in Counted /\ q \in CountedAt(Idx[q])
    BY <2>1 DEF Counted, CountedAt, Settled
  <2>4. Cardinality(Counted) > 0 /\ Cardinality(CountedAt(Idx[q])) > 0
    <3>1. Counted \in SUBSET Queues /\ CountedAt(Idx[q]) \in SUBSET Queues
      BY DEF Counted, CountedAt
    <3>2. QED
      BY <2>1, <2>3, <3>1, OneQueueMore
  <2>5. QED
    BY <2>1, <2>2, <2>4 DEF Polls, CountsFollow, RightCounts
<1>2. Spec => []IInv /\ []CountsFollow
  BY CountsHold, InvariantHolds
<1>3. QED
  BY <1>1, <1>2, PTL
=============================================================================
