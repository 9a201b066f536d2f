-------------------------- MODULE EventGroupProofs --------------------------
(***************************************************************************)
(* Proofs about EventGroup, for any number of cores, groups, events and    *)
(* notifications.                                                          *)
(***************************************************************************)
EXTENDS EventGroup, FiniteSetTheorems, TLAPS

\* Every round of a group has as many notifications as the one before.
OneSize == \A k, l \in NotifCounts : k = l

-----------------------------------------------------------------------------
(* The inductive invariant *)

(* How a core's local state goes with its control point.                       *)
Shape(c) ==
  /\ pc[c] \in {"setcount", "setnum", "settbl"} <=> apply[c].group # None
  /\ pc[c] = "recv" => running[c]
  /\ pc[c] \in {"idle", "update", "notify"} => ~running[c]
  /\ pc[c] \in {"update", "notify"} => current[c] # None
  /\ pc[c] \notin {"settbl", "notify"} => index[c] = 0
  /\ pc[c] = "settbl" => index[c] \in DOMAIN apply[c].tbl

\* A group is applied by one core at a time.
OneApply ==
  \A c, d \in Cores : apply[c].group # None /\ apply[c].group = apply[d].group => c = d

\* An event is the application's or in one queue.
EventsOnce == \A e \in Events : queued[e] = IF e \in app THEN 0 ELSE 1

\* Notifications belong to no group.
NotifsUncounted == \A e \in Notifs : evGroup[e] = None

\* The two parts of InFlight.
Waiting(g) == {e \in Events : queued[e] > 0 /\ evGroup[e] = g}
Busy(g) == {c \in Cores : current[c] = g /\ (running[c] \/ pc[c] = "update")}

\* What the count of a group should be, and that a group that does not count has none.
Balanced(g) ==
  /\ Settled(g) /\ count[g] > 0 => count[g] = toSend[g] + InFlight(g) + dropped[g]
  /\ Settled(g) /\ count[g] = 0 => toSend[g] = 0 /\ Waiting(g) = {} /\ Busy(g) = {}
  /\ \A c \in Cores : apply[c].group = g =>
       /\ toSend[g] = 0 /\ Waiting(g) = {} /\ Busy(g) = {} /\ dropped[g] = 0
       /\ count[g] = IF pc[c] = "setcount" THEN 0 ELSE apply[c].count

(* Nothing has been lost by a group that may be applied.                       *)
CleanAtRest == \A g \in Groups : AtRest(g) /\ count[g] = 0 => dropped[g] = 0

Base ==
  /\ TypeOK /\ OneApply /\ EventsOnce /\ NotifsUncounted
  /\ \A c \in Cores : Shape(c)
  /\ \A g \in Groups : Balanced(g)

NothingDropped == \A g \in Groups : dropped[g] = 0

-----------------------------------------------------------------------------
(* The notifications *)

\* c still has to send the notifications i of g.
Sends(c, g, i) == pc[c] = "notify" /\ current[c] = g /\ i \in index[c]..numNotif[g] - 1

\* The first n entries of table t are different.
Different(t, S) == \A i, j \in S : t[i] = t[j] => i = j

\* While g is applied its notifications are in nobody's queue, and in the table as far
\* as the core has come.
Applied(g) ==
  \A c \in Cores : apply[c].group = g =>
    /\ awaited[g] = {apply[c].tbl[i] : i \in DOMAIN apply[c].tbl}
    /\ Different(apply[c].tbl, DOMAIN apply[c].tbl)
    /\ \A e \in awaited[g] : queued[e] = 0
    /\ pc[c] = "settbl" =>
         /\ DOMAIN apply[c].tbl = 0..numNotif[g] - 1
         /\ \A i \in 0..index[c] - 1 : notif[g][i] = apply[c].tbl[i]

\* While g counts they are those of the table.
Counting(g) ==
  Settled(g) /\ count[g] > 0 =>
    /\ numNotif[g] \in NotifCounts
    /\ awaited[g] = {notif[g][i] : i \in 0..numNotif[g] - 1}
    /\ Different(notif[g], 0..numNotif[g] - 1)
    /\ \A e \in awaited[g] : queued[e] = 0

\* What a core has yet to send is awaited, and one core sends.
Sending(g) ==
  /\ \A c \in Cores : pc[c] = "notify" /\ current[c] = g => numNotif[g] \in NotifCounts
  /\ ~Settled(g) \/ count[g] > 0 => \A c \in Cores, i \in 0..MaxNotif : ~Sends(c, g, i)
  /\ \A c \in Cores, i \in 0..MaxNotif : Sends(c, g, i) =>
       /\ notif[g][i] \in awaited[g] /\ queued[notif[g][i]] = 0
       /\ \A d \in Cores, j \in 0..MaxNotif :
            Sends(d, g, j) => c = d /\ (notif[g][i] = notif[g][j] => i = j)

\* One that is awaited, in no queue, and not to be sent, will never come.
Gone(g, e) ==
  e \in awaited[g] /\ queued[e] = 0
  /\ \A c \in Cores, i \in 0..MaxNotif : Sends(c, g, i) => notif[g][i] # e

\* A group that has lost something when its count is down does not come to rest.
Losing(g) ==
  Settled(g) /\ count[g] = 0 /\ dropped[g] > 0 => \E e \in Notifs : Gone(g, e)

Round(g) == Applied(g) /\ Counting(g) /\ Sending(g) /\ Losing(g)

\* Notifications are the application's, in one queue, or awaited by one group.
NotifsOnce ==
  /\ \A e \in Notifs : queued[e] \in {0, 1} /\ (e \in app => queued[e] = 0)
  /\ \A g, h \in Groups : awaited[g] \cap awaited[h] # {} => g = h
  /\ \A g \in Groups : awaited[g] \cap app = {}

Rounds == NotifsOnce /\ \A g \in Groups : Round(g)

IInv == Base /\ Rounds

-----------------------------------------------------------------------------
(* Types *)

(* A table's size is one of the sizes the application uses.                    *)
LEMMA TableFacts ==
  ASSUME NEW tbl \in Tables
  PROVE  \E k \in NotifCounts :
           k \in 0..MaxNotif /\ tbl \in [0..k - 1 -> Notifs] /\ Cardinality(DOMAIN tbl) = k
<1>1. PICK k \in NotifCounts : tbl \in [0..k - 1 -> Notifs]
  BY DEF Tables
<1>2. k \in 0..MaxNotif
  BY <1>1, ConstantsAssumption
<1>3. Cardinality(0..k - 1) = k
  BY <1>2, ConstantsAssumption, FS_Interval
<1>4. QED
  BY <1>1, <1>2, <1>3

\* The arguments of an apply.
Arguments == [group : Groups, count : 1..MaxCount, tbl : Tables]

(* A core that is in an apply has its arguments.                               *)
LEMMA ApplyFacts ==
  ASSUME TypeOK, NEW c \in Cores, apply[c].group # None
  PROVE  /\ apply[c] \in Arguments
         /\ apply[c].group \in Groups /\ apply[c].count \in 1..MaxCount
         /\ apply[c].tbl \in Tables
<1>1. apply[c] \in Arguments \cup {NoApply}
  BY DEF TypeOK, Arguments
<1>2. apply[c] \in Arguments
  BY <1>1 DEF NoApply
<1>3. QED
  BY <1>2 DEF Arguments

(* One that is not has none.                                                   *)
LEMMA NoApplyFacts ==
  ASSUME TypeOK, NEW c \in Cores, apply[c].group = None
  PROVE  apply[c] = NoApply
<1>1. apply[c] \in Arguments \cup {NoApply}
  BY DEF TypeOK, Arguments
<1>2. None \notin Groups
  BY ConstantsAssumption
<1>3. QED
  BY <1>1, <1>2 DEF Arguments

(* Where a core goes on is a control point.                                    *)
LEMMA ResumeTypes ==
  ASSUME TypeOK, NEW c \in Cores, Resume(c)
  PROVE  pc' \in [Cores -> ControlPoints]
BY DEF TypeOK, Resume, Goto, ControlPoints

(* The apply that is over leaves no arguments behind.                          *)
LEMMA ReturnTypes ==
  ASSUME TypeOK, NEW c \in Cores, apply[c].group # None, ApplyReturns(c)
  PROVE  /\ toSend' \in [Groups -> Nat] /\ pc' \in [Cores -> ControlPoints]
         /\ apply' \in [Cores -> [group : Groups, count : 1..MaxCount, tbl : Tables] \cup {NoApply}]
         /\ index' \in [Cores -> 0..MaxNotif]
<1>1. apply[c].group \in Groups /\ apply[c].count \in Nat
  BY ApplyFacts, ConstantsAssumption
<1>2. pc' \in [Cores -> ControlPoints]
  BY ResumeTypes DEF ApplyReturns
<1>3. 0 \in 0..MaxNotif
  BY ConstantsAssumption
<1>4. index' \in [Cores -> 0..MaxNotif]
  BY <1>3 DEF TypeOK, ApplyReturns
<1>5. QED
  BY <1>1, <1>2, <1>4 DEF TypeOK, ApplyReturns

(* Types are kept.                                                             *)
LEMMA TypeStep ==
  ASSUME TypeOK, \A c \in Cores : Shape(c), [Next]_vars
  PROVE  TypeOK'
<1> USE DEF TypeOK
<1>1. CASE UNCHANGED vars
  BY <1>1 DEF vars, entryVars, eventVars, coreVars, ruleVars
<1>2. ASSUME NEW c \in Cores, Create(c)
      PROVE  TypeOK'
  BY <1>2 DEF Create, eventVars, coreVars, ruleVars
<1>3. ASSUME NEW c \in Cores, NEW g \in Groups, Delete(c, g)
      PROVE  TypeOK'
  BY <1>3 DEF Delete, eventVars, coreVars, ruleVars
<1>4. ASSUME NEW c \in Cores, NEW g \in Groups, NEW n \in 1..MaxCount, NEW tbl \in Tables,
             Apply(c, g, n, tbl)
      PROVE  TypeOK'
  <2>1. {tbl[i] : i \in DOMAIN tbl} \subseteq Notifs
    BY TableFacts
  <2>2. [group |-> g, count |-> n, tbl |-> tbl] \in [group : Groups, count : 1..MaxCount, tbl : Tables]
    OBVIOUS
  <2>3. awaited' \in [Groups -> SUBSET Notifs] /\ app' \subseteq Events \cup Notifs
    BY <1>4, <2>1 DEF Apply
  <2>4. apply' \in [Cores -> [group : Groups, count : 1..MaxCount, tbl : Tables] \cup {NoApply}]
    BY <1>4, <2>2 DEF Apply
  <2>5. pc' \in [Cores -> ControlPoints]
    BY <1>4 DEF Apply, Goto, ControlPoints
  <2>6. QED
    BY <1>4, <2>3, <2>4, <2>5 DEF Apply, entryVars
<1>5. ASSUME NEW c \in Cores, Increment(c)
      PROVE  TypeOK'
  <2>1. current[c] \in Groups
    BY <1>5 DEF Increment
  <2>2. QED
    BY <1>5, <2>1 DEF Increment, eventVars, coreVars
<1>6. ASSUME NEW c \in Cores, NEW e \in Events \cup Notifs, NEW g \in Groups \cup {None}, Send(c, e, g)
      PROVE  TypeOK'
  <2>1. toSend' \in [Groups -> Nat]
    BY <1>6 DEF Send
  <2>2. QED
    BY <1>6, <2>1 DEF Send, entryVars, coreVars
<1>7. ASSUME NEW c \in Cores, SetCount(c)
      PROVE  TypeOK'
  <2>1. apply[c].group # None
    BY <1>7 DEF SetCount, Shape
  <2>2. apply[c].group \in Groups /\ apply[c].count \in 1..MaxCount
    BY <2>1, ApplyFacts
  <2>3. apply[c].count \in Nat
    BY <2>2, ConstantsAssumption
  <2>4. pc' \in [Cores -> ControlPoints]
    BY <1>7 DEF SetCount, Goto, ControlPoints
  <2>5. QED
    BY <1>7, <2>2, <2>3, <2>4 DEF SetCount, eventVars, ruleVars
<1>8. ASSUME NEW c \in Cores, SetNum(c)
      PROVE  TypeOK'
  <2>1. apply[c].group # None
    BY <1>8 DEF SetNum, Shape
  <2>2. apply[c].group \in Groups /\ Cardinality(DOMAIN apply[c].tbl) \in 0..MaxNotif
    BY <2>1, ApplyFacts, TableFacts
  <2>3. numNotif' \in [Groups -> 0..MaxNotif]
    BY <1>8, <2>2 DEF SetNum
  <2>4. CASE ApplyReturns(c)
    <3>1. UNCHANGED <<allocated, count, notif, eventVars, running, current, awaited, dropped>>
      BY <1>8 DEF SetNum
    <3>2. QED
      BY <2>1, <2>3, <2>4, <3>1, ReturnTypes DEF eventVars
  <2>5. CASE Goto(c, "settbl") /\ UNCHANGED <<index, apply, toSend>>
    BY <1>8, <2>3, <2>5 DEF SetNum, Goto, ControlPoints, eventVars
  <2>6. QED
    BY <1>8, <2>4, <2>5 DEF SetNum
<1>9. ASSUME NEW c \in Cores, SetTbl(c)
      PROVE  TypeOK'
  <2>1. apply[c].group # None /\ index[c] \in DOMAIN apply[c].tbl
    BY <1>9 DEF SetTbl, Shape
  <2>2. PICK k \in 0..MaxNotif : apply[c].tbl \in [0..k - 1 -> Notifs]
    BY <2>1, ApplyFacts, TableFacts
  <2>3. index[c] \in 0..MaxNotif - 1 /\ apply[c].tbl[index[c]] \in Notifs
    BY <2>1, <2>2, ConstantsAssumption
  <2>4. notif' \in [Groups -> [0..MaxNotif - 1 -> Notifs \cup {None}]]
    BY <1>9, <2>1, <2>3, ApplyFacts DEF SetTbl
  <2>5. CASE ApplyReturns(c)
    <3>1. UNCHANGED <<allocated, count, numNotif, eventVars, running, current, awaited, dropped>>
      BY <1>9 DEF SetTbl
    <3>2. QED
      BY <2>1, <2>4, <2>5, <3>1, ReturnTypes DEF eventVars
  <2>6. CASE index' = [index EXCEPT ![c] = index[c] + 1] /\ UNCHANGED <<pc, apply, toSend>>
    <3>1. index[c] + 1 \in 0..MaxNotif
      BY <2>3, ConstantsAssumption
    <3>2. QED
      BY <1>9, <2>4, <2>6, <3>1 DEF SetTbl, eventVars
  <2>7. QED
    BY <1>9, <2>5, <2>6 DEF SetTbl
<1>10. ASSUME NEW c \in Cores, Update(c)
       PROVE  TypeOK'
  <2>1. current[c] \in Groups
    BY <1>10 DEF Update, Shape
  <2>2. count' \in [Groups -> Nat] /\ pc' \in [Cores -> ControlPoints]
    BY <1>10, <2>1 DEF Update, Goto, ControlPoints
  <2>3. QED
    BY <1>10, <2>2 DEF Update, eventVars, ruleVars
<1>11. ASSUME NEW c \in Cores, Notify(c)
       PROVE  TypeOK'
  <2>1. current[c] \in Groups
    BY <1>11 DEF Notify, Shape
  <2>2. index' \in [Cores -> 0..MaxNotif]
    <3>1. index[c] \in 0..MaxNotif /\ numNotif[current[c]] \in 0..MaxNotif
      BY <2>1
    <3>2. index[c] < numNotif[current[c]] => index[c] + 1 \in 0..MaxNotif
      BY <3>1, ConstantsAssumption
    <3>3. index' = [index EXCEPT ![c] = index[c] + 1] \/ index' = [index EXCEPT ![c] = 0]
      BY <1>11 DEF Notify
    <3>4. index' = [index EXCEPT ![c] = index[c] + 1] => index[c] < numNotif[current[c]]
      BY <1>11, <3>1 DEF Notify
    <3>5. 0 \in 0..MaxNotif
      BY ConstantsAssumption
    <3>6. QED
      BY <3>2, <3>3, <3>4, <3>5
  <2>3. pc' \in [Cores -> ControlPoints]
    BY <1>11 DEF Notify, Goto, ControlPoints
  <2>4. evGroup' \in [Events \cup Notifs -> Groups \cup {None}]
    BY <1>11 DEF Notify
  <2>5. queued' \in [Events \cup Notifs -> Nat] /\ dropped' \in [Groups -> Nat]
    <3>1. \/ queued' = [queued EXCEPT ![notif[current[c]][index[c]]] = @ + 1] /\ UNCHANGED dropped
          \/ dropped' = [dropped EXCEPT ![current[c]] = @ + 1] /\ UNCHANGED queued
          \/ UNCHANGED <<queued, dropped>>
      BY <1>11 DEF Notify
    <3>2. QED
      BY <2>1, <3>1
  <2>6. QED
    BY <1>11, <2>2, <2>3, <2>4, <2>5 DEF Notify, entryVars
<1>12. ASSUME NEW c \in Cores, NEW e \in Events \cup Notifs, Receive(c, e)
       PROVE  TypeOK'
  BY <1>12 DEF Receive, Goto, ControlPoints, entryVars
<1>13. ASSUME NEW c \in Cores, NEW e \in Events \cup Notifs, DropEvent(c, e)
       PROVE  TypeOK'
  BY <1>13 DEF DropEvent, entryVars, coreVars
<1>14. ASSUME NEW c \in Cores, ReceiveReturns(c)
       PROVE  TypeOK'
  BY <1>14 DEF ReceiveReturns, Goto, ControlPoints, entryVars, eventVars, ruleVars
<1>15. QED
  BY <1>1, <1>2, <1>3, <1>4, <1>5, <1>6, <1>7, <1>8, <1>9, <1>10, <1>11, <1>12, <1>13, <1>14
     DEF Next, AppStep, EMStep, Dispatch

-----------------------------------------------------------------------------
(* Control *)

\* Only c moves.
Alone(c) ==
  \A d \in Cores : d # c =>
    /\ pc'[d] = pc[d] /\ running'[d] = running[d] /\ current'[d] = current[d]
    /\ index'[d] = index[d] /\ apply'[d] = apply[d]

(* A call, a step of EM or a dispatch moves one core.                          *)
LEMMA AppAlone ==
  ASSUME TypeOK, NEW c \in Cores, AppStep(c)
  PROVE  Alone(c)
<1>1. CASE UNCHANGED coreVars
  BY <1>1 DEF coreVars, Alone
<1>2. ASSUME NEW g \in Groups, NEW n \in 1..MaxCount, NEW tbl \in Tables, Apply(c, g, n, tbl)
      PROVE  Alone(c)
  BY <1>2 DEF Apply, Goto, Alone, TypeOK
<1>3. QED
  BY <1>1, <1>2 DEF AppStep, Create, Increment, Delete, Send

(* As above, for EM's own steps.                                               *)
LEMMA EMAlone ==
  ASSUME TypeOK, NEW c \in Cores, EMStep(c)
  PROVE  Alone(c)
<1>1. CASE SetCount(c)
  BY <1>1 DEF Goto, Alone, TypeOK, SetCount
<1>2. ASSUME ApplyReturns(c), UNCHANGED <<running, current>>
      PROVE  Alone(c)
  BY <1>2 DEF Goto, Alone, TypeOK, ApplyReturns, Resume
<1>3. CASE SetNum(c)
  <2>1. ApplyReturns(c) \/ (Goto(c, "settbl") /\ UNCHANGED <<index, apply, toSend>>)
    BY <1>3 DEF SetNum
  <2>2. UNCHANGED <<running, current>>
    BY <1>3 DEF SetNum
  <2>3. QED
    BY <1>2, <2>1, <2>2 DEF Goto, Alone, TypeOK
<1>4. CASE SetTbl(c)
  <2>1. ApplyReturns(c) \/ (index' = [index EXCEPT ![c] = index[c] + 1] /\ UNCHANGED <<pc, apply, toSend>>)
    BY <1>4 DEF SetTbl
  <2>2. UNCHANGED <<running, current>>
    BY <1>4 DEF SetTbl
  <2>3. QED
    BY <1>2, <2>1, <2>2 DEF Goto, Alone, TypeOK
<1>5. CASE Update(c)
  BY <1>5 DEF Goto, Alone, TypeOK, Update
<1>6. CASE Notify(c)
  BY <1>6 DEF Goto, Alone, TypeOK, Notify
<1>7. QED
  BY <1>1, <1>3, <1>4, <1>5, <1>6 DEF EMStep

(* As above, for the dispatcher.                                               *)
LEMMA DispatchAlone ==
  ASSUME TypeOK, NEW c \in Cores, Dispatch(c) \/ ReceiveReturns(c)
  PROVE  Alone(c)
BY DEF Dispatch, Receive, DropEvent, ReceiveReturns, Goto, Alone, TypeOK, coreVars

(* A core in an apply, and how it goes on.                                     *)
LEMMA ReturnShape ==
  ASSUME TypeOK, NEW c \in Cores, Shape(c), pc[c] \in {"setnum", "settbl"}, ApplyReturns(c),
         UNCHANGED <<running, current>>
  PROVE  Shape(c)' /\ apply'[c].group = None
<1>1. pc'[c] = IF running[c] THEN "recv" ELSE "idle"
  BY DEF ApplyReturns, Resume, Goto, TypeOK
<1>2. index'[c] = 0 /\ apply'[c] = NoApply
  BY DEF ApplyReturns, TypeOK
<1>3. apply'[c].group = None
  BY <1>2 DEF NoApply
<1>4. QED
  BY <1>1, <1>2, <1>3 DEF Shape

(* Control points and local state go together, and an apply is alone.          *)
LEMMA ShapeStep ==
  ASSUME TypeOK, \A c \in Cores : Shape(c), OneApply, [Next]_vars
  PROVE  (\A c \in Cores : Shape(c))' /\ OneApply'
<1>1. CASE UNCHANGED vars
  BY <1>1 DEF vars, entryVars, eventVars, coreVars, ruleVars, Shape, OneApply
<1>2. ASSUME NEW c \in Cores, Alone(c), Shape(c)',
             apply'[c].group = None \/ apply'[c].group = apply[c].group
                \/ \A d \in Cores : apply[d].group # apply'[c].group
      PROVE  (\A d \in Cores : Shape(d))' /\ OneApply'
  <2>1. \A d \in Cores : d # c => Shape(d)'
    BY <1>2 DEF Alone, Shape
  <2>2. OneApply'
    BY <1>2 DEF Alone, OneApply
  <2>3. QED
    BY <1>2, <2>1, <2>2
<1>3. ASSUME NEW c \in Cores, UNCHANGED coreVars
      PROVE  (\A d \in Cores : Shape(d))' /\ OneApply'
  BY <1>3 DEF coreVars, Shape, OneApply
<1>4. ASSUME NEW c \in Cores, AppStep(c)
      PROVE  (\A d \in Cores : Shape(d))' /\ OneApply'
  <2>1. ASSUME NEW g \in Groups, NEW n \in 1..MaxCount, NEW tbl \in Tables, Apply(c, g, n, tbl)
        PROVE  Shape(c)' /\ \A d \in Cores : apply[d].group # apply'[c].group
    <3>1. pc'[c] = "setcount" /\ apply'[c] = [group |-> g, count |-> n, tbl |-> tbl]
      BY <2>1 DEF Apply, Goto, TypeOK
    <3>2. UNCHANGED <<running, current, index>> /\ g # None /\ pc[c] \in {"idle", "recv"}
      BY <2>1, ConstantsAssumption DEF Apply, AppRuns
    <3>3. \A d \in Cores : apply[d].group # g
      BY <2>1 DEF Apply, AtRest
    <3>4. QED
      BY <3>1, <3>2, <3>3 DEF Shape
  <2>2. Alone(c)
    BY <1>4, AppAlone
  <2>3. QED
    BY <1>2, <1>3, <1>4, <2>1, <2>2 DEF AppStep, Create, Increment, Delete, Send
<1>5. ASSUME NEW c \in Cores, EMStep(c)
      PROVE  Shape(c)' /\ (apply'[c].group = None \/ apply'[c].group = apply[c].group)
  <2> USE <1>5 DEF Goto, TypeOK, Shape
  <2>1. CASE SetCount(c)
    BY <2>1 DEF SetCount
  <2>2. CASE SetNum(c)
    <3>1. pc[c] = "setnum" /\ UNCHANGED <<running, current>> /\ index[c] = 0
      BY <2>2 DEF SetNum
    <3>2. CASE ApplyReturns(c)
      BY <3>1, <3>2, ReturnShape
    <3>3. CASE Cardinality(DOMAIN apply[c].tbl) > 0 /\ Goto(c, "settbl")
               /\ UNCHANGED <<index, apply, toSend>>
      <4>1. apply[c].group # None
        BY <3>1
      <4>2. PICK k \in 0..MaxNotif : DOMAIN apply[c].tbl = 0..k - 1 /\ k > 0
        BY <3>3, <4>1, ApplyFacts, TableFacts
      <4>3. 0 \in DOMAIN apply[c].tbl
        BY <4>2, ConstantsAssumption
      <4>4. QED
        BY <3>1, <3>3, <4>3
    <3>4. QED
      BY <2>2, <3>2, <3>3 DEF SetNum
  <2>3. CASE SetTbl(c)
    <3>1. pc[c] = "settbl" /\ UNCHANGED <<running, current>>
      BY <2>3 DEF SetTbl
    <3>2. CASE ApplyReturns(c)
      BY <3>1, <3>2, ReturnShape
    <3>3. CASE index[c] + 1 \in DOMAIN apply[c].tbl
               /\ index' = [index EXCEPT ![c] = index[c] + 1] /\ UNCHANGED <<pc, apply, toSend>>
      BY <3>1, <3>3
    <3>4. QED
      BY <2>3, <3>2, <3>3 DEF SetTbl
  <2>4. CASE Update(c)
    BY <2>4 DEF Update
  <2>5. CASE Notify(c)
    BY <2>5 DEF Notify
  <2>6. QED
    BY <2>1, <2>2, <2>3, <2>4, <2>5 DEF EMStep
<1>6. ASSUME NEW c \in Cores, Dispatch(c) \/ ReceiveReturns(c)
      PROVE  Shape(c)' /\ apply' = apply
  <2> USE <1>6 DEF Goto, TypeOK, Shape
  <2>1. ASSUME NEW e \in Events \cup Notifs, Receive(c, e)
        PROVE  Shape(c)' /\ apply' = apply
    BY <2>1 DEF Receive
  <2>2. ASSUME NEW e \in Events \cup Notifs, DropEvent(c, e)
        PROVE  Shape(c)' /\ apply' = apply
    BY <2>2 DEF DropEvent, coreVars
  <2>3. CASE ReceiveReturns(c)
    BY <2>3 DEF ReceiveReturns
  <2>4. QED
    BY <1>6, <2>1, <2>2, <2>3 DEF Dispatch
<1>7. QED
  BY <1>1, <1>2, <1>4, <1>5, <1>6, EMAlone, DispatchAlone DEF Next

-----------------------------------------------------------------------------
(* Events *)

(* An event is in one place, and a notification is in no group.                *)
LEMMA EventStep ==
  ASSUME TypeOK, \A c \in Cores : Shape(c), EventsOnce, NotifsUncounted, [Next]_vars
  PROVE  EventsOnce' /\ NotifsUncounted'
<1> USE DEF EventsOnce, NotifsUncounted
<1>0. Events \cap Notifs = {} /\ queued \in [Events \cup Notifs -> Nat]
      /\ evGroup \in [Events \cup Notifs -> Groups \cup {None}]
  BY ConstantsAssumption DEF TypeOK
<1>1. CASE UNCHANGED eventVars
  BY <1>1 DEF eventVars
<1>2. ASSUME NEW c \in Cores, NEW g \in Groups, NEW n \in 1..MaxCount, NEW tbl \in Tables,
             Apply(c, g, n, tbl)
      PROVE  EventsOnce' /\ NotifsUncounted'
  <2>1. {tbl[i] : i \in DOMAIN tbl} \subseteq Notifs
    BY TableFacts
  <2>2. app' = app \ {tbl[i] : i \in DOMAIN tbl} /\ UNCHANGED <<queued, evGroup>>
    BY <1>2 DEF Apply
  <2>3. \A e \in Events : e \in app' <=> e \in app
    BY <1>0, <2>1, <2>2
  <2>4. QED
    BY <2>2, <2>3
<1>3. ASSUME NEW c \in Cores, NEW e \in Events \cup Notifs, NEW g \in Groups \cup {None}, Send(c, e, g)
      PROVE  EventsOnce' /\ NotifsUncounted'
  BY <1>0, <1>3 DEF Send
<1>4. ASSUME NEW c \in Cores, Notify(c)
      PROVE  EventsOnce' /\ NotifsUncounted'
  <2>1. CASE index[c] < numNotif[current[c]]
    <3>1. notif[current[c]][index[c]] \notin Events
      <4>1. current[c] \in Groups
        BY <1>4 DEF Notify, Shape, TypeOK
      <4>2. index[c] \in 0..MaxNotif - 1
        BY <2>1, <4>1, ConstantsAssumption DEF TypeOK
      <4>3. QED
        BY <4>1, <4>2, ConstantsAssumption DEF TypeOK
    <3>2. app' = app /\ evGroup' = [evGroup EXCEPT ![notif[current[c]][index[c]]] = None]
          /\ queued' \in {queued, [queued EXCEPT ![notif[current[c]][index[c]]] = @ + 1]}
      BY <1>4, <2>1 DEF Notify
    <3>3. QED
      BY <1>0, <3>1, <3>2
  <2>2. CASE ~(index[c] < numNotif[current[c]])
    BY <1>4, <2>2 DEF Notify
  <2>3. QED
    BY <2>1, <2>2
<1>5. ASSUME NEW c \in Cores, NEW e \in Events \cup Notifs, Receive(c, e)
      PROVE  EventsOnce' /\ NotifsUncounted'
  BY <1>0, <1>5 DEF Receive
<1>6. ASSUME NEW c \in Cores, NEW e \in Events \cup Notifs, DropEvent(c, e)
      PROVE  EventsOnce' /\ NotifsUncounted'
  BY <1>0, <1>6 DEF DropEvent
<1>7. UNCHANGED eventVars \/ \E c \in Cores :
        \/ Notify(c)
        \/ \E e \in Events \cup Notifs : Receive(c, e) \/ DropEvent(c, e)
                                         \/ \E g \in Groups \cup {None} : Send(c, e, g)
        \/ \E g \in Groups, n \in 1..MaxCount, tbl \in Tables : Apply(c, g, n, tbl)
  BY DEF Next, vars, AppStep, EMStep, Dispatch, Create, Delete, Increment, SetCount, SetNum,
         SetTbl, Update, ReceiveReturns, eventVars
<1>8. QED
  BY <1>1, <1>2, <1>3, <1>4, <1>5, <1>6, <1>7

-----------------------------------------------------------------------------
(* Counts *)

\* Losses that the count of a group does not see come when it does not count.
Harmless ==
  Lossy =>
    /\ \A g \in Groups : (\E e \in awaited[g] : queued[e] > 0) => count[g] = 0 /\ Settled(g)
    /\ \A c \in Cores : pc[c] = "notify" /\ index[c] < numNotif[current[c]]
         => count[current[c]] = 0 /\ Settled(current[c])

(* What is in flight, in numbers.                                              *)
LEMMA InFlightIs ==
  ASSUME NEW g
  PROVE  /\ InFlight(g) = Cardinality(Waiting(g)) + Cardinality(Busy(g))
         /\ IsFiniteSet(Waiting(g)) /\ IsFiniteSet(Busy(g))
         /\ Cardinality(Waiting(g)) \in Nat /\ Cardinality(Busy(g)) \in Nat
         /\ (Cardinality(Waiting(g)) = 0 => Waiting(g) = {})
         /\ (Cardinality(Busy(g)) = 0 => Busy(g) = {})
<1>1. InFlight(g) = Cardinality(Waiting(g)) + Cardinality(Busy(g))
  BY DEF InFlight, Waiting, Busy
<1>2. Waiting(g) \in SUBSET Events /\ Busy(g) \in SUBSET Cores
  BY DEF Waiting, Busy
<1>3. IsFiniteSet(Waiting(g)) /\ IsFiniteSet(Busy(g))
  BY <1>2, ConstantsAssumption, FS_Subset
<1>4. QED
  BY <1>1, <1>3, FS_CardinalityType, FS_EmptySet

\* Nothing that concerns the count of g changes.
Undisturbed(g) ==
  /\ Waiting(g)' = Waiting(g) /\ Busy(g)' = Busy(g)
  /\ toSend'[g] = toSend[g] /\ count'[g] = count[g] /\ dropped'[g] = dropped[g]

\* g is applied by the same cores, at the same place.
SameApply(g) ==
  \A c \in Cores :
    /\ apply'[c].group = g <=> apply[c].group = g
    /\ apply[c].group = g => apply'[c] = apply[c] /\ (pc'[c] = "setcount" <=> pc[c] = "setcount")

(* A step that leaves a group alone keeps its balance.                        *)
LEMMA StaysBalanced ==
  ASSUME NEW g \in Groups, Balanced(g), Undisturbed(g), SameApply(g)
  PROVE  Balanced(g)'
<1>1. Settled(g)' <=> Settled(g)
  BY DEF Settled, SameApply
<1>2. InFlight(g)' = InFlight(g)
  BY DEF Undisturbed, InFlight, Waiting, Busy
<1>3. QED
  BY <1>1, <1>2 DEF Balanced, Undisturbed, SameApply

\* The events of g in flight, and what the application may send, are as many more
\* or less than before as its count is.
SameBalance(g) ==
  count'[g] - (toSend'[g] + Cardinality(Waiting(g)') + Cardinality(Busy(g)') + dropped'[g])
  = count[g] - (toSend[g] + Cardinality(Waiting(g)) + Cardinality(Busy(g)) + dropped[g])

(* A group that counts, and goes on, or comes to its end.                     *)
LEMMA CountsOn ==
  ASSUME TypeOK, TypeOK', NEW g \in Groups, Balanced(g), SameApply(g),
         Settled(g), count[g] > 0, SameBalance(g)
  PROVE  Balanced(g)'
<1>1. Settled(g)' /\ \A c \in Cores : apply'[c].group # g
  BY DEF Settled, SameApply
<1>2. count[g] = toSend[g] + Cardinality(Waiting(g)) + Cardinality(Busy(g)) + dropped[g]
  BY InFlightIs DEF Balanced, TypeOK
<1>3. /\ InFlight(g)' = Cardinality(Waiting(g)') + Cardinality(Busy(g)')
      /\ IsFiniteSet(Waiting(g)') /\ IsFiniteSet(Busy(g)')
  <2>1. InFlight(g)' = Cardinality(Waiting(g)') + Cardinality(Busy(g)')
    BY DEF InFlight, Waiting, Busy
  <2>2. Waiting(g)' \in SUBSET Events /\ Busy(g)' \in SUBSET Cores
    BY DEF Waiting, Busy
  <2>3. QED
    BY <2>1, <2>2, ConstantsAssumption, FS_Subset
<1>4. /\ Cardinality(Waiting(g)') \in Nat /\ Cardinality(Busy(g)') \in Nat
      /\ (Cardinality(Waiting(g)') = 0 => Waiting(g)' = {})
      /\ (Cardinality(Busy(g)') = 0 => Busy(g)' = {})
  BY <1>3, FS_CardinalityType, FS_EmptySet
<1>5. /\ toSend[g] \in Nat /\ toSend'[g] \in Nat /\ count[g] \in Nat /\ count'[g] \in Nat
      /\ dropped[g] \in Nat /\ dropped'[g] \in Nat
  BY DEF TypeOK
<1>6. count'[g] = toSend'[g] + Cardinality(Waiting(g)') + Cardinality(Busy(g)') + dropped'[g]
  BY <1>2, <1>4, <1>5, InFlightIs DEF SameBalance
<1>7. count'[g] = toSend'[g] + InFlight(g)' + dropped'[g]
  BY <1>3, <1>4, <1>5, <1>6
<1>8. count'[g] = 0 => toSend'[g] = 0 /\ Waiting(g)' = {} /\ Busy(g)' = {}
  <2>1. PICK t \in Nat, w \in Nat, b \in Nat, d \in Nat :
          t = toSend'[g] /\ w = Cardinality(Waiting(g)') /\ b = Cardinality(Busy(g)') /\ d = dropped'[g]
    BY <1>4, <1>5
  <2>2. count'[g] = t + w + b + d
    BY <1>6, <2>1
  <2>3. PICK s \in Nat, n \in Nat : s = t + w /\ n = b + d
    BY <2>1
  <2>4. s + n = 0 => s = 0 /\ n = 0
    BY <2>3
  <2>5. s = 0 => t = 0 /\ w = 0
    BY <2>1, <2>3
  <2>6. n = 0 => b = 0
    BY <2>1, <2>3
  <2>7. count'[g] = s + n
    BY <2>1, <2>2, <2>3
  <2>8. QED
    BY <1>4, <2>1, <2>4, <2>5, <2>6, <2>7
<1>9. QED
  BY <1>1, <1>7, <1>8 DEF Balanced

(* Whoever is in flight, or may be sent, is counted.                           *)
LEMMA InFlightCounts ==
  ASSUME TypeOK, NEW g \in Groups, Balanced(g),
         toSend[g] > 0 \/ Waiting(g) # {} \/ Busy(g) # {}
  PROVE  Settled(g) /\ count[g] > 0
<1>1. toSend[g] \in Nat /\ count[g] \in Nat
  BY DEF TypeOK
<1>2. QED
  BY <1>1 DEF Balanced, Settled

-----------------------------------------------------------------------------

(* c does not enter or leave anything that is counted.                         *)
LEMMA SameBusy ==
  ASSUME NEW c \in Cores, NEW g \in Groups, Alone(c),
         (current'[c] = g /\ (running'[c] \/ pc'[c] = "update"))
         <=> (current[c] = g /\ (running[c] \/ pc[c] = "update"))
  PROVE  Busy(g)' = Busy(g)
BY DEF Busy, Alone

(* c stays where it is, as to applies.                                         *)
LEMMA SameApplies ==
  ASSUME NEW c \in Cores, NEW g \in Groups, Alone(c), apply'[c] = apply[c],
         apply[c].group = g => (pc'[c] = "setcount" <=> pc[c] = "setcount")
  PROVE  SameApply(g)
BY DEF SameApply, Alone

(* An apply begins with nothing in flight.                                    *)
LEMMA ApplyBalanced ==
  ASSUME Base, CleanAtRest, NEW c \in Cores, NEW g \in Groups, NEW n \in 1..MaxCount,
         NEW tbl \in Tables, Apply(c, g, n, tbl)
  PROVE  (\A h \in Groups : Balanced(h))'
<1> USE DEF Base
<1>0. Alone(c)
  BY AppAlone DEF AppStep
<1>1. /\ pc[c] \in {"idle", "recv"} /\ pc'[c] = "setcount"
      /\ apply'[c] = [group |-> g, count |-> n, tbl |-> tbl]
      /\ UNCHANGED <<running, current>>
  BY DEF Apply, Goto, AppRuns, TypeOK
<1>2. UNCHANGED <<count, toSend, dropped, queued, evGroup>>
  BY DEF Apply, entryVars
<1>3. \A h \in Groups : Undisturbed(h)
  <2>1. \A h \in Groups : Busy(h)' = Busy(h)
    BY <1>0, <1>1, SameBusy
  <2>2. QED
    BY <1>2, <2>1 DEF Undisturbed, Waiting
<1>4. apply[c].group = None
  BY <1>1 DEF Shape
<1>5. ASSUME NEW h \in Groups, h # g
      PROVE  Balanced(h)'
  <2>1. SameApply(h)
    BY <1>0, <1>1, <1>4, <1>5, ConstantsAssumption DEF SameApply, Alone
  <2>2. QED
    BY <1>3, <2>1, StaysBalanced
<1>6. Balanced(g)'
  <2>1. AtRest(g) /\ count[g] = 0 /\ Settled(g)
    BY DEF Apply, AtRest, Settled
  <2>2. dropped[g] = 0 /\ toSend[g] = 0 /\ Waiting(g) = {} /\ Busy(g) = {}
    BY <2>1 DEF CleanAtRest, Balanced
  <2>3. \A d \in Cores : apply'[d].group = g => d = c
    BY <1>0, <2>1 DEF Alone, Settled
  <2>4. ~Settled(g)'
    BY <1>1 DEF Settled
  <2>5. QED
    BY <1>1, <1>3, <2>1, <2>2, <2>3, <2>4 DEF Balanced, Undisturbed
<1>7. QED
  BY <1>5, <1>6

(* em_event_group_increment: one more is counted and may be sent.             *)
LEMMA IncrementBalanced ==
  ASSUME Base, TypeOK', NEW c \in Cores, Increment(c)
  PROVE  (\A h \in Groups : Balanced(h))'
<1> USE DEF Base
<1>1. PICK g \in Groups : g = current[c]
  BY DEF Increment, TypeOK
<1>2. UNCHANGED <<dropped, queued, evGroup, pc, running, current, apply>>
  BY DEF Increment, eventVars, coreVars
<1>3. count' = [count EXCEPT ![g] = @ + 1] /\ toSend' = [toSend EXCEPT ![g] = @ + 1]
  BY <1>1 DEF Increment
<1>4. \A h \in Groups : SameApply(h) /\ Waiting(h)' = Waiting(h) /\ Busy(h)' = Busy(h)
  BY <1>2 DEF SameApply, Waiting, Busy
<1>5. ASSUME NEW h \in Groups, h # g
      PROVE  Balanced(h)'
  <2>1. Undisturbed(h)
    BY <1>2, <1>3, <1>4, <1>5 DEF Undisturbed, TypeOK
  <2>2. QED
    BY <1>4, <2>1, StaysBalanced
<1>6. Balanced(g)'
  <2>1. c \in Busy(g)
    BY <1>1 DEF Busy, Increment, Shape
  <2>2. Settled(g) /\ count[g] > 0
    BY <2>1, InFlightCounts
  <2>3. count'[g] = count[g] + 1 /\ toSend'[g] = toSend[g] + 1 /\ dropped'[g] = dropped[g]
    BY <1>2, <1>3 DEF TypeOK
  <2>4. SameBalance(g)
    <3>1. toSend[g] \in Nat /\ count[g] \in Nat /\ dropped[g] \in Nat
      BY DEF TypeOK
    <3>2. Cardinality(Waiting(g)') = Cardinality(Waiting(g)) /\ Cardinality(Busy(g)') = Cardinality(Busy(g))
      BY <1>4
    <3>3. QED
      BY <2>3, <3>1, <3>2, InFlightIs DEF SameBalance
  <2>5. QED
    BY <1>4, <2>2, <2>4, CountsOn
<1>7. QED
  BY <1>5, <1>6

(* em_send_group: what may be sent is in flight.                              *)
LEMMA SendBalanced ==
  ASSUME Base, TypeOK', NEW c \in Cores, NEW e \in Events \cup Notifs, NEW f \in Groups \cup {None},
         Send(c, e, f)
  PROVE  (\A h \in Groups : Balanced(h))'
<1> USE DEF Base
<1>1. UNCHANGED <<count, dropped, pc, running, current, apply>>
  BY DEF Send, entryVars, coreVars
<1>2. \A h \in Groups : SameApply(h) /\ Busy(h)' = Busy(h)
  BY <1>1 DEF SameApply, Busy
<1>3. e \in Events => queued[e] = 0 /\ queued'[e] = 1 /\ evGroup'[e] = f
  BY DEF Send, EventsOnce, TypeOK
<1>4. \A d \in Events : d # e => queued'[d] = queued[d] /\ evGroup'[d] = evGroup[d]
  BY DEF Send, TypeOK
<1>5. ASSUME NEW h \in Groups, h # f
      PROVE  Balanced(h)'
  <2>1. Waiting(h)' = Waiting(h)
    BY <1>3, <1>4, <1>5 DEF Waiting
  <2>2. toSend'[h] = toSend[h]
    BY <1>5 DEF Send, TypeOK
  <2>3. Undisturbed(h)
    BY <1>1, <1>2, <2>1, <2>2 DEF Undisturbed
  <2>4. QED
    BY <1>2, <2>3, StaysBalanced
<1>6. ASSUME f \in Groups
      PROVE  Balanced(f)'
  <2>1. f # None /\ e \in Events /\ toSend[f] > 0
    BY <1>6, ConstantsAssumption DEF Send
  <2>2. Settled(f) /\ count[f] > 0
    BY <1>6, <2>1, InFlightCounts
  <2>3. Waiting(f)' = Waiting(f) \cup {e} /\ e \notin Waiting(f)
    BY <1>3, <1>4, <2>1 DEF Waiting
  <2>4. Cardinality(Waiting(f)') = Cardinality(Waiting(f)) + 1
    BY <2>3, InFlightIs, FS_AddElement
  <2>5. toSend'[f] = toSend[f] - 1
    BY <1>6, <2>1 DEF Send, TypeOK
  <2>6. SameBalance(f)
    BY <1>1, <1>2, <1>6, <2>4, <2>5, InFlightIs DEF SameBalance, TypeOK
  <2>7. QED
    BY <1>2, <1>6, <2>2, <2>6, CountsOn
<1>7. QED
  BY <1>5, <1>6

(* The writes of an apply.                                                     *)
LEMMA SetCountBalanced ==
  ASSUME Base, NEW c \in Cores, SetCount(c)
  PROVE  (\A h \in Groups : Balanced(h))'
<1> USE DEF Base
<1>0. Alone(c)
  BY EMAlone DEF EMStep
<1>1. PICK g \in Groups : g = apply[c].group
  BY ApplyFacts DEF SetCount, Shape
<1>2. UNCHANGED <<dropped, toSend, queued, evGroup, running, current, apply>>
  BY DEF SetCount, eventVars, ruleVars
<1>3. count' = [count EXCEPT ![g] = apply[c].count] /\ pc[c] = "setcount" /\ pc'[c] = "setnum"
  BY <1>1 DEF SetCount, Goto, TypeOK
<1>4. \A h \in Groups : Waiting(h)' = Waiting(h) /\ Busy(h)' = Busy(h)
  BY <1>0, <1>2, <1>3, SameBusy DEF Waiting
<1>5. ASSUME NEW h \in Groups, h # g
      PROVE  Balanced(h)'
  <2>1. Undisturbed(h)
    BY <1>2, <1>3, <1>4, <1>5 DEF Undisturbed, TypeOK
  <2>2. SameApply(h)
    BY <1>0, <1>1, <1>2, <1>5, SameApplies
  <2>3. QED
    BY <2>1, <2>2, StaysBalanced
<1>6. Balanced(g)'
  <2>1. toSend[g] = 0 /\ Waiting(g) = {} /\ Busy(g) = {} /\ dropped[g] = 0
    BY <1>1 DEF Balanced
  <2>2. count'[g] = apply'[c].count
    BY <1>2, <1>3 DEF TypeOK
  <2>3. \A d \in Cores : apply'[d].group = g => d = c
    BY <1>1, <1>2, ConstantsAssumption DEF OneApply
  <2>4. apply'[c].group = g
    BY <1>1, <1>2
  <2>5. QED
    BY <1>2, <1>3, <1>4, <2>1, <2>2, <2>3, <2>4 DEF Balanced, Settled
<1>7. QED
  BY <1>5, <1>6

(* An apply ends: the whole count may be sent.                                *)
LEMMA ReturnBalanced ==
  ASSUME Base, TypeOK', NEW c \in Cores, pc[c] \in {"setnum", "settbl"}, Alone(c), ApplyReturns(c),
         UNCHANGED <<count, dropped, queued, evGroup, running, current>>
  PROVE  (\A h \in Groups : Balanced(h))'
<1> USE DEF Base
<1>1. PICK g \in Groups : g = apply[c].group
  BY ApplyFacts DEF Shape
<1>2. toSend' = [toSend EXCEPT ![g] = apply[c].count] /\ apply'[c] = NoApply /\ pc'[c] \in {"idle", "recv"}
  BY <1>1 DEF ApplyReturns, Resume, Goto, TypeOK
<1>3. \A h \in Groups : Waiting(h)' = Waiting(h) /\ Busy(h)' = Busy(h)
  BY <1>2, SameBusy DEF Waiting
<1>4. apply'[c].group = None
  BY <1>2 DEF NoApply
<1>5. ASSUME NEW h \in Groups, h # g
      PROVE  Balanced(h)'
  <2>1. Undisturbed(h)
    BY <1>2, <1>3, <1>5 DEF Undisturbed, TypeOK
  <2>2. SameApply(h)
    BY <1>1, <1>4, <1>5, ConstantsAssumption DEF SameApply, Alone
  <2>3. QED
    BY <2>1, <2>2, StaysBalanced
<1>6. Balanced(g)'
  <2>1. toSend[g] = 0 /\ Waiting(g) = {} /\ Busy(g) = {} /\ dropped[g] = 0 /\ count[g] = apply[c].count
    BY <1>1 DEF Balanced
  <2>2. toSend'[g] = count'[g] /\ count'[g] \in Nat \ {0}
    <3>1. apply[c].count \in 1..MaxCount
      BY <1>1, ApplyFacts, ConstantsAssumption
    <3>2. toSend'[g] = apply[c].count
      BY <1>2 DEF TypeOK
    <3>3. QED
      BY <2>1, <3>1, <3>2, ConstantsAssumption
  <2>3. \A d \in Cores : apply'[d].group # g
    BY <1>1, <1>4, ConstantsAssumption DEF OneApply, Alone
  <2>4. InFlight(g)' = 0
    <3>1. Waiting(g)' = {} /\ Busy(g)' = {}
      BY <1>3, <2>1
    <3>2. InFlight(g)' = Cardinality(Waiting(g)') + Cardinality(Busy(g)')
      BY DEF InFlight, Waiting, Busy
    <3>3. QED
      BY <3>1, <3>2, FS_EmptySet
  <2>5. dropped'[g] = 0
    BY <2>1
  <2>6. count'[g] = toSend'[g] + InFlight(g)' + dropped'[g] /\ count'[g] # 0
    BY <2>2, <2>4, <2>5
  <2>7. QED
    BY <2>3, <2>6 DEF Balanced
<1>7. QED
  BY <1>5, <1>6

(* Writing num_notif and notif_tbl leaves counts alone.                       *)
LEMMA TableBalanced ==
  ASSUME Base, TypeOK', NEW c \in Cores, SetNum(c) \/ SetTbl(c)
  PROVE  (\A h \in Groups : Balanced(h))'
<1> USE DEF Base
<1>0. Alone(c)
  BY EMAlone DEF EMStep
<1>1. pc[c] \in {"setnum", "settbl"}
  BY DEF SetNum, SetTbl
<1>2. UNCHANGED <<count, dropped, queued, evGroup, running, current>>
  BY DEF SetNum, SetTbl, eventVars
<1>3. CASE ApplyReturns(c)
  BY <1>0, <1>1, <1>2, <1>3, ReturnBalanced
<1>4. CASE pc'[c] \in {"setnum", "settbl"} /\ UNCHANGED <<apply, toSend>>
  <2>1. \A h \in Groups : Busy(h)' = Busy(h)
    BY <1>0, <1>1, <1>2, <1>4, SameBusy
  <2>2. \A h \in Groups : SameApply(h)
    BY <1>0, <1>1, <1>4, SameApplies
  <2>3. \A h \in Groups : Undisturbed(h)
    BY <1>2, <1>4, <2>1 DEF Undisturbed, Waiting
  <2>4. QED
    BY <2>2, <2>3, StaysBalanced
<1>5. ApplyReturns(c) \/ (pc'[c] \in {"setnum", "settbl"} /\ UNCHANGED <<apply, toSend>>)
  <2>1. CASE SetNum(c)
    BY <2>1 DEF SetNum, Goto, TypeOK
  <2>2. CASE SetTbl(c)
    BY <1>1, <2>2 DEF SetTbl
  <2>3. QED
    BY <2>1, <2>2
<1>6. QED
  BY <1>3, <1>4, <1>5

-----------------------------------------------------------------------------

(* event_group_count_update: one event less.                                  *)
LEMMA UpdateBalanced ==
  ASSUME Base, TypeOK', NEW c \in Cores, Update(c)
  PROVE  (\A h \in Groups : Balanced(h))'
<1> USE DEF Base
<1>0. Alone(c)
  BY EMAlone DEF EMStep
<1>1. PICK g \in Groups : g = current[c]
  BY DEF Update, Shape, TypeOK
<1>2. UNCHANGED <<dropped, toSend, queued, evGroup, running, current, apply>>
  BY DEF Update, eventVars, ruleVars
<1>3. pc[c] = "update" /\ pc'[c] \in {"idle", "notify"} /\ ~running[c]
  BY DEF Update, Goto, Shape, TypeOK
<1>4. c \in Busy(g)
  BY <1>1, <1>3 DEF Busy
<1>5. Settled(g) /\ count[g] > 0
  BY <1>4, InFlightCounts
<1>6. count' = [count EXCEPT ![g] = @ - 1]
  BY <1>1, <1>5 DEF Update
<1>7. \A h \in Groups : SameApply(h) /\ Waiting(h)' = Waiting(h)
  BY <1>0, <1>2, <1>3, SameApplies DEF Waiting
<1>8. ASSUME NEW h \in Groups, h # g
      PROVE  Balanced(h)'
  <2>1. Busy(h)' = Busy(h)
    BY <1>0, <1>1, <1>2, <1>8, SameBusy
  <2>2. Undisturbed(h)
    BY <1>2, <1>6, <1>7, <1>8, <2>1 DEF Undisturbed, TypeOK
  <2>3. QED
    BY <1>7, <2>2, StaysBalanced
<1>9. Balanced(g)'
  <2>1. Busy(g)' = Busy(g) \ {c}
    BY <1>0, <1>2, <1>3 DEF Busy, Alone
  <2>2. Cardinality(Busy(g)') = Cardinality(Busy(g)) - 1
    BY <1>4, <2>1, InFlightIs, FS_RemoveElement
  <2>3. count'[g] = count[g] - 1 /\ toSend'[g] = toSend[g] /\ dropped'[g] = dropped[g]
    BY <1>2, <1>6 DEF TypeOK
  <2>4. SameBalance(g)
    <3>1. toSend[g] \in Nat /\ count[g] \in Nat /\ dropped[g] \in Nat
      BY DEF TypeOK
    <3>2. Cardinality(Waiting(g)') = Cardinality(Waiting(g))
      BY <1>7
    <3>3. PICK w \in Nat, b \in Nat : w = Cardinality(Waiting(g)) /\ b = Cardinality(Busy(g))
      BY InFlightIs
    <3>4. Cardinality(Busy(g)') = b - 1
      BY <2>2, <3>3
    <3>5. count'[g] - (toSend'[g] + Cardinality(Waiting(g)') + Cardinality(Busy(g)') + dropped'[g])
          = (count[g] - 1) - (toSend[g] + w + (b - 1) + dropped[g])
      BY <2>3, <3>2, <3>3, <3>4
    <3>6. (count[g] - 1) - (toSend[g] + w + (b - 1) + dropped[g])
          = count[g] - (toSend[g] + w + b + dropped[g])
      BY <3>1, <3>3
    <3>7. QED
      BY <3>3, <3>5, <3>6 DEF SameBalance
  <2>5. QED
    BY <1>5, <1>7, <2>4, CountsOn
<1>10. QED
  BY <1>8, <1>9

(* Notifications are not counted.                                             *)
LEMMA NotifyBalanced ==
  ASSUME Base, TypeOK', Harmless, NEW c \in Cores, Notify(c)
  PROVE  (\A h \in Groups : Balanced(h))'
<1> USE DEF Base
<1>0. Alone(c)
  BY EMAlone DEF EMStep
<1>1. PICK g \in Groups : g = current[c]
  BY DEF Notify, Shape, TypeOK
<1>2. UNCHANGED <<count, toSend, running, current, apply>>
  BY DEF Notify, entryVars
<1>3. pc[c] = "notify" /\ pc'[c] \in {"idle", "notify"} /\ ~running[c]
  BY DEF Notify, Goto, Shape, TypeOK
<1>4. \A h \in Groups : SameApply(h) /\ Busy(h)' = Busy(h)
  BY <1>0, <1>2, <1>3, SameApplies, SameBusy
<1>5. \A h \in Groups : Waiting(h)' = Waiting(h)
  <2>1. CASE index[c] < numNotif[g]
    <3>1. index[c] \in 0..MaxNotif - 1
      BY <2>1, ConstantsAssumption DEF TypeOK
    <3>2. notif[g][index[c]] \notin Events
      BY <3>1, ConstantsAssumption DEF TypeOK
    <3>3. \A e \in Events : queued'[e] = queued[e] /\ evGroup'[e] = evGroup[e]
      <4>1. evGroup' = [evGroup EXCEPT ![notif[g][index[c]]] = None]
        BY <1>1, <2>1 DEF Notify
      <4>2. queued' \in {queued, [queued EXCEPT ![notif[g][index[c]]] = @ + 1]}
        BY <1>1, <2>1 DEF Notify
      <4>3. QED
        BY <3>2, <4>1, <4>2 DEF TypeOK
    <3>4. QED
      BY <3>3 DEF Waiting
  <2>2. CASE ~(index[c] < numNotif[g])
    BY <1>1, <2>2 DEF Notify, Waiting
  <2>3. QED
    BY <2>1, <2>2
<1>6. ASSUME NEW h \in Groups, dropped'[h] = dropped[h]
      PROVE  Balanced(h)'
  BY <1>2, <1>4, <1>5, <1>6, StaysBalanced DEF Undisturbed
<1>7. CASE Lossy /\ index[c] < numNotif[g] /\ dropped' = [dropped EXCEPT ![g] = @ + 1]
  <2>1. count[g] = 0 /\ Settled(g)
    BY <1>1, <1>3, <1>7 DEF Harmless
  <2>2. Balanced(g)'
    BY <1>2, <1>4, <1>5, <2>1 DEF Balanced, Settled, SameApply
  <2>3. \A h \in Groups : h # g => dropped'[h] = dropped[h]
    BY <1>7 DEF TypeOK
  <2>4. QED
    BY <1>6, <2>2, <2>3
<1>8. dropped' = dropped \/ (Lossy /\ index[c] < numNotif[g] /\ dropped' = [dropped EXCEPT ![g] = @ + 1])
  BY <1>1 DEF Notify
<1>9. QED
  BY <1>6, <1>7, <1>8

(* An event goes from its queue into a receive function.                      *)
LEMMA ReceiveBalanced ==
  ASSUME Base, TypeOK', NEW c \in Cores, NEW e \in Events \cup Notifs, Receive(c, e)
  PROVE  (\A h \in Groups : Balanced(h))'
<1> USE DEF Base
<1>0. Alone(c)
  BY DispatchAlone DEF Dispatch
<1>1. UNCHANGED <<count, toSend, dropped, evGroup, apply>>
  BY DEF Receive, entryVars
<1>2. /\ pc[c] = "idle" /\ ~running[c] /\ pc'[c] = "recv" /\ running'[c]
      /\ current'[c] = evGroup[e]
  BY DEF Receive, Goto, Shape, TypeOK
<1>3. queued' = [queued EXCEPT ![e] = @ - 1] /\ queued[e] > 0
  BY DEF Receive
<1>4. \A h \in Groups : SameApply(h)
  BY <1>0, <1>1, <1>2, SameApplies
<1>5. ASSUME NEW h \in Groups, evGroup[e] # h
      PROVE  Balanced(h)'
  <2>1. Busy(h)' = Busy(h)
    BY <1>0, <1>2, <1>5, SameBusy
  <2>2. Waiting(h)' = Waiting(h)
    BY <1>1, <1>3, <1>5 DEF Waiting, TypeOK
  <2>3. QED
    BY <1>1, <1>4, <2>1, <2>2, StaysBalanced DEF Undisturbed
<1>6. ASSUME NEW h \in Groups, evGroup[e] = h
      PROVE  Balanced(h)'
  <2>1. e \in Events
    BY <1>6, ConstantsAssumption DEF NotifsUncounted
  <2>2. queued'[e] = 0 /\ e \in Waiting(h)
    BY <1>3, <1>6, <2>1 DEF EventsOnce, TypeOK, Waiting
  <2>3. Waiting(h)' = Waiting(h) \ {e}
    BY <1>1, <1>3, <2>2 DEF Waiting, TypeOK
  <2>4. Busy(h)' = Busy(h) \cup {c} /\ c \notin Busy(h)
    BY <1>0, <1>2, <1>6 DEF Busy, Alone
  <2>5. Cardinality(Waiting(h)') = Cardinality(Waiting(h)) - 1
    BY <2>2, <2>3, InFlightIs, FS_RemoveElement
  <2>6. Cardinality(Busy(h)') = Cardinality(Busy(h)) + 1
    BY <2>4, InFlightIs, FS_AddElement
  <2>7. Settled(h) /\ count[h] > 0
    BY <2>2, InFlightCounts
  <2>8. SameBalance(h)
    <3>1. toSend[h] \in Nat /\ count[h] \in Nat /\ dropped[h] \in Nat
      BY DEF TypeOK
    <3>2. QED
      BY <1>1, <2>5, <2>6, <3>1, InFlightIs DEF SameBalance
  <2>9. QED
    BY <1>4, <2>7, <2>8, CountsOn
<1>7. QED
  BY <1>5, <1>6

(* An event that its queue drops stays counted.                               *)
LEMMA DropBalanced ==
  ASSUME Base, TypeOK', Harmless, NEW c \in Cores, NEW e \in Events \cup Notifs, DropEvent(c, e)
  PROVE  (\A h \in Groups : Balanced(h))'
<1> USE DEF Base
<1>1. UNCHANGED <<count, toSend, evGroup, apply, pc, running, current>>
  BY DEF DropEvent, entryVars, coreVars
<1>2. queued' = [queued EXCEPT ![e] = @ - 1] /\ queued[e] > 0 /\ Lossy
  BY DEF DropEvent
<1>3. \A h \in Groups : SameApply(h) /\ Busy(h)' = Busy(h)
  BY <1>1 DEF SameApply, Busy
<1>4. \A h \in Groups :
        dropped'[h] = IF evGroup[e] = h \/ e \in awaited[h] THEN dropped[h] + 1 ELSE dropped[h]
  BY DEF DropEvent
<1>5. ASSUME NEW h \in Groups, evGroup[e] # h
      PROVE  Waiting(h)' = Waiting(h)
  BY <1>1, <1>2, <1>5 DEF Waiting, TypeOK
<1>6. ASSUME NEW h \in Groups, evGroup[e] # h, e \notin awaited[h]
      PROVE  Balanced(h)'
  BY <1>1, <1>3, <1>4, <1>5, <1>6, StaysBalanced DEF Undisturbed
<1>7. ASSUME NEW h \in Groups, evGroup[e] # h, e \in awaited[h]
      PROVE  Balanced(h)'
  <2>1. count[h] = 0 /\ Settled(h)
    BY <1>2, <1>7 DEF Harmless
  <2>2. QED
    BY <1>1, <1>3, <1>5, <1>7, <2>1 DEF Balanced, Settled, SameApply
<1>8. ASSUME NEW h \in Groups, evGroup[e] = h
      PROVE  Balanced(h)'
  <2>1. e \in Events
    BY <1>8, ConstantsAssumption DEF NotifsUncounted
  <2>2. queued'[e] = 0 /\ e \in Waiting(h)
    BY <1>2, <1>8, <2>1 DEF EventsOnce, TypeOK, Waiting
  <2>3. Waiting(h)' = Waiting(h) \ {e}
    BY <1>1, <1>2, <2>2 DEF Waiting, TypeOK
  <2>4. Cardinality(Waiting(h)') = Cardinality(Waiting(h)) - 1
    BY <2>2, <2>3, InFlightIs, FS_RemoveElement
  <2>5. Settled(h) /\ count[h] > 0
    BY <2>2, InFlightCounts
  <2>6. SameBalance(h)
    <3>1. toSend[h] \in Nat /\ count[h] \in Nat /\ dropped[h] \in Nat
      BY DEF TypeOK
    <3>2. Cardinality(Busy(h)') = Cardinality(Busy(h)) /\ dropped'[h] = dropped[h] + 1
      BY <1>3, <1>4, <1>8
    <3>3. QED
      BY <1>1, <2>4, <3>1, <3>2, InFlightIs DEF SameBalance
  <2>7. QED
    BY <1>3, <2>5, <2>6, CountsOn
<1>9. QED
  BY <1>6, <1>7, <1>8

(* The receive function returns, and c goes to count.                         *)
LEMMA ReturnsBalanced ==
  ASSUME Base, NEW c \in Cores, ReceiveReturns(c)
  PROVE  (\A h \in Groups : Balanced(h))'
<1> USE DEF Base
<1>0. Alone(c)
  BY DispatchAlone
<1>1. UNCHANGED <<count, toSend, dropped, evGroup, queued, apply, current>>
  BY DEF ReceiveReturns, entryVars, eventVars, ruleVars
<1>2. /\ pc[c] = "recv" /\ running[c] /\ ~running'[c]
      /\ pc'[c] = IF current[c] # None THEN "update" ELSE "idle"
  BY DEF ReceiveReturns, Goto, Shape, TypeOK
<1>3. \A h \in Groups : Busy(h)' = Busy(h)
  <2>1. None \notin Groups
    BY ConstantsAssumption
  <2>2. QED
    BY <1>0, <1>1, <1>2, <2>1, SameBusy
<1>4. \A h \in Groups : SameApply(h)
  BY <1>0, <1>1, <1>2, SameApplies
<1>5. QED
  BY <1>1, <1>3, <1>4, StaysBalanced DEF Undisturbed, Waiting

(* The count of every group stays what it should be.                           *)
LEMMA BalanceStep ==
  ASSUME Base, CleanAtRest, Harmless, TypeOK', [Next]_vars
  PROVE  (\A h \in Groups : Balanced(h))'
<1>1. CASE UNCHANGED <<count, toSend, dropped, evGroup, queued, coreVars>>
  <2>1. \A h \in Groups : SameApply(h) /\ Undisturbed(h)
    BY <1>1 DEF coreVars, SameApply, Undisturbed, Waiting, Busy
  <2>2. QED
    BY <2>1, StaysBalanced DEF Base
<1>2. ASSUME NEW c \in Cores, AppStep(c)
      PROVE  (\A h \in Groups : Balanced(h))'
  <2>1. ASSUME Create(c) \/ \E g \in Groups : Delete(c, g)
        PROVE  UNCHANGED <<count, toSend, dropped, evGroup, queued, coreVars>>
    BY <2>1 DEF Create, Delete, eventVars, ruleVars
  <2>2. QED
    BY <1>1, <1>2, <2>1, ApplyBalanced, IncrementBalanced, SendBalanced DEF AppStep
<1>3. ASSUME NEW c \in Cores, EMStep(c)
      PROVE  (\A h \in Groups : Balanced(h))'
  BY <1>3, SetCountBalanced, TableBalanced, UpdateBalanced, NotifyBalanced DEF EMStep
<1>4. ASSUME NEW c \in Cores, Dispatch(c) \/ ReceiveReturns(c)
      PROVE  (\A h \in Groups : Balanced(h))'
  BY <1>4, ReceiveBalanced, DropBalanced, ReturnsBalanced DEF Dispatch
<1>5. CASE UNCHANGED vars
  BY <1>1, <1>5 DEF vars, entryVars, eventVars, ruleVars
<1>6. QED
  BY <1>2, <1>3, <1>4, <1>5 DEF Next

-----------------------------------------------------------------------------
(* The notifications of a round *)

\* For the round of g, the cores stay where they are.
SameCores(g) ==
  /\ \A c \in Cores :
       /\ apply'[c].group = g <=> apply[c].group = g
       /\ apply[c].group = g =>
            apply'[c] = apply[c] /\ index'[c] = index[c] /\ (pc'[c] = "settbl" => pc[c] = "settbl")
       /\ pc'[c] = "notify" /\ current'[c] = g => pc[c] = "notify" /\ current[c] = g
  /\ \A c \in Cores, i \in 0..MaxNotif : Sends(c, g, i)' <=> Sends(c, g, i)

\* So do the entry of g and the notifications it waits for.
SameEntry(g) ==
  /\ numNotif'[g] = numNotif[g] /\ notif'[g] = notif[g] /\ awaited'[g] = awaited[g]
  /\ \A e \in awaited[g] : queued'[e] = queued[e]
  /\ Settled(g) => /\ count'[g] > 0 <=> count[g] > 0
                   /\ count[g] = 0 => count'[g] = 0 /\ dropped'[g] = dropped[g]

(* A step that leaves a round alone keeps it right.                           *)
LEMMA RoundSame ==
  ASSUME TypeOK, TypeOK', NEW g \in Groups, Round(g), SameCores(g), SameEntry(g)
  PROVE  Round(g)'
<1>1. Settled(g)' <=> Settled(g)
  BY DEF Settled, SameCores
<1>2. count[g] \in Nat /\ count'[g] \in Nat
  BY DEF TypeOK
<1>3. Applied(g)'
  BY DEF Round, Applied, SameCores, SameEntry
<1>4. Counting(g)'
  <2>1. Settled(g)' /\ count'[g] > 0 => Settled(g) /\ count[g] > 0
    BY <1>1 DEF SameEntry
  <2>2. QED
    BY <2>1 DEF Round, Counting, SameEntry
<1>5. Sending(g)'
  <2>1. ~Settled(g)' \/ count'[g] > 0 => ~Settled(g) \/ count[g] > 0
    BY <1>1 DEF SameEntry
  <2>2. \A c \in Cores : pc'[c] = "notify" /\ current'[c] = g => numNotif'[g] \in NotifCounts
    BY DEF Round, Sending, SameCores, SameEntry
  <2>3. ~Settled(g)' \/ count'[g] > 0 => \A c \in Cores, i \in 0..MaxNotif : ~Sends(c, g, i)'
    BY <2>1 DEF Round, Sending, SameCores
  <2>4. \A c \in Cores, i \in 0..MaxNotif : Sends(c, g, i)' =>
          /\ notif'[g][i] \in awaited'[g] /\ queued'[notif'[g][i]] = 0
          /\ \A d \in Cores, j \in 0..MaxNotif :
               Sends(d, g, j)' => c = d /\ (notif'[g][i] = notif'[g][j] => i = j)
    BY DEF Round, Sending, SameCores, SameEntry
  <2>5. QED
    BY <2>2, <2>3, <2>4 DEF Sending
<1>6. Losing(g)'
  <2>1. SUFFICES ASSUME Settled(g)', count'[g] = 0, dropped'[g] > 0
                 PROVE  \E e \in Notifs : Gone(g, e)'
    BY DEF Losing
  <2>2. Settled(g) /\ count[g] = 0
    BY <1>1, <1>2, <2>1 DEF SameEntry
  <2>3. PICK e \in Notifs : Gone(g, e)
    BY <2>1, <2>2 DEF Round, Losing, SameEntry
  <2>4. Gone(g, e)'
    BY <2>3 DEF Gone, SameCores, SameEntry
  <2>5. QED
    BY <2>4
<1>7. QED
  BY <1>3, <1>4, <1>5, <1>6 DEF Round

(* A core that neither applies nor notifies.                                   *)
LEMMA QuietCore ==
  ASSUME NEW c \in Cores, NEW g \in Groups, Alone(c), numNotif'[g] = numNotif[g],
         apply'[c] = apply[c],
         apply[c].group = g => index'[c] = index[c] /\ (pc'[c] = "settbl" => pc[c] = "settbl"),
         pc[c] # "notify", pc'[c] = "notify" => current'[c] # g
  PROVE  SameCores(g)
BY DEF Alone, SameCores, Sends

(* What a group sends, it has counted down for.                                *)
LEMMA SendsFacts ==
  ASSUME TypeOK, NEW g \in Groups, Round(g), NEW c \in Cores, NEW i \in 0..MaxNotif, Sends(c, g, i)
  PROVE  /\ Settled(g) /\ count[g] = 0
         /\ notif[g][i] \in awaited[g] /\ notif[g][i] \in Notifs /\ queued[notif[g][i]] = 0
<1>1. count[g] \in Nat /\ awaited[g] \subseteq Notifs
  BY DEF TypeOK
<1>2. Sending(g)
  BY DEF Round
<1>3. QED
  BY <1>1, <1>2 DEF Sending

(* A notification in a queue is that of a round that is over.                  *)
LEMMA QueuedFacts ==
  ASSUME TypeOK, NEW g \in Groups, Round(g), NEW e \in awaited[g], queued[e] > 0
  PROVE  Settled(g) /\ count[g] = 0
<1>1. count[g] \in Nat
  BY DEF TypeOK
<1>2. \A c \in Cores : apply[c].group # g
  BY DEF Round, Applied
<1>3. Settled(g)
  BY <1>2 DEF Settled
<1>4. QED
  BY <1>1, <1>3 DEF Round, Counting

(* Right rounds lose nothing while they count.                                *)
LEMMA RoundsHarmless ==
  ASSUME Base, Rounds
  PROVE  CleanAtRest /\ Harmless
<1>1. TypeOK /\ \A g \in Groups : Round(g)
  BY DEF Base, Rounds
<1>2. ASSUME NEW g \in Groups, AtRest(g), count[g] = 0
      PROVE  dropped[g] = 0
  <2>1. Settled(g) /\ awaited[g] = {} /\ dropped[g] \in Nat
    BY <1>1, <1>2 DEF AtRest, Settled, TypeOK
  <2>2. Losing(g)
    BY <1>1 DEF Round
  <2>3. QED
    BY <1>2, <2>1, <2>2 DEF Losing, Gone
<1>3. ASSUME NEW g \in Groups, NEW e \in awaited[g], queued[e] > 0
      PROVE  count[g] = 0 /\ Settled(g)
  BY <1>1, <1>3, QueuedFacts
<1>4. ASSUME NEW c \in Cores, pc[c] = "notify", index[c] < numNotif[current[c]]
      PROVE  count[current[c]] = 0 /\ Settled(current[c])
  <2>1. current[c] \in Groups
    BY <1>1, <1>4 DEF Base, Shape, TypeOK
  <2>2. index[c] \in 0..MaxNotif /\ numNotif[current[c]] \in 0..MaxNotif
    BY <1>1, <2>1 DEF TypeOK
  <2>3. Sends(c, current[c], index[c])
    BY <1>4, <2>2, ConstantsAssumption DEF Sends
  <2>4. QED
    BY <1>1, <2>1, <2>2, <2>3, SendsFacts
<1>5. QED
  BY <1>2, <1>3, <1>4 DEF CleanAtRest, Harmless

-----------------------------------------------------------------------------

(* em_event_group_apply begins: the group waits for notifications nobody has.  *)
LEMMA ApplyRounds ==
  ASSUME Base, Rounds, TypeOK', NEW c \in Cores, NEW g \in Groups, NEW n \in 1..MaxCount,
         NEW tbl \in Tables, Apply(c, g, n, tbl)
  PROVE  Rounds'
<1> USE DEF Base
<1>0. Alone(c) /\ Applied(g) /\ Sending(g) /\ \A h \in Groups : Round(h)
  BY AppAlone DEF AppStep, Rounds, Round
<1>1. /\ pc[c] \in {"idle", "recv"} /\ pc'[c] = "setcount" /\ apply[c].group = None
      /\ apply'[c] = [group |-> g, count |-> n, tbl |-> tbl]
  BY DEF Apply, Goto, AppRuns, TypeOK, Shape
<1>2. UNCHANGED <<count, dropped, queued, numNotif, notif, current, index>>
  BY DEF Apply, entryVars
<1>3. PICK given : /\ given = {tbl[i] : i \in DOMAIN tbl} /\ given \subseteq app
                   /\ app' = app \ given /\ awaited' = [awaited EXCEPT ![g] = given]
  BY DEF Apply
<1>4. given \subseteq Notifs
  BY <1>3, TableFacts
<1>5. ASSUME NEW h \in Groups, h # g
      PROVE  Round(h)'
  <2>1. SameCores(h)
    BY <1>0, <1>1, <1>2, <1>5, ConstantsAssumption DEF SameCores, Alone, Sends
  <2>2. SameEntry(h)
    BY <1>2, <1>3, <1>5 DEF SameEntry, TypeOK
  <2>3. QED
    BY <1>0, <2>1, <2>2, RoundSame
<1>6. Round(g)'
  <2>1. Settled(g) /\ awaited[g] = {} /\ ~Settled(g)'
    BY <1>1 DEF Apply, AtRest, Settled
  <2>2. \A d \in Cores : apply'[d].group = g => d = c
    BY <1>0, <2>1 DEF Alone, Settled
  <2>3. Applied(g)'
    <3>1. awaited'[g] = given
      BY <1>3 DEF TypeOK
    <3>2. \A e \in given : queued'[e] = 0
      BY <1>2, <1>3, <1>4 DEF Rounds, NotifsOnce
    <3>3. Different(tbl, DOMAIN tbl)
      BY DEF Apply, Different
    <3>4. QED
      BY <1>1, <1>3, <2>2, <3>1, <3>2, <3>3 DEF Applied, Different
  <2>4. \A d \in Cores, i \in 0..MaxNotif : ~Sends(d, g, i)'
    <3>1. \A d \in Cores, i \in 0..MaxNotif : ~Sends(d, g, i)
      BY <1>0, <2>1 DEF Sending
    <3>2. QED
      BY <1>0, <1>1, <1>2, <3>1 DEF Alone, Sends
  <2>5. \A d \in Cores : pc'[d] = "notify" /\ current'[d] = g => numNotif'[g] \in NotifCounts
    BY <1>0, <1>1, <1>2 DEF Alone, Sending
  <2>6. Sending(g)'
    BY <2>4, <2>5 DEF Sending
  <2>7. QED
    BY <2>1, <2>3, <2>6 DEF Round, Counting, Losing
<1>7. NotifsOnce'
  <2>1. \A h \in Groups : awaited'[h] = IF h = g THEN given ELSE awaited[h]
    BY <1>3 DEF TypeOK
  <2>2. \A h \in Groups : awaited[h] \cap given = {}
    BY <1>3 DEF Rounds, NotifsOnce
  <2>3. QED
    BY <1>2, <1>3, <2>1, <2>2 DEF Rounds, NotifsOnce
<1>8. QED
  BY <1>5, <1>6, <1>7 DEF Rounds

\* Nothing that concerns notifications changes.
NotifsStay ==
  /\ numNotif' = numNotif /\ notif' = notif /\ awaited' = awaited
  /\ \A e \in Notifs : queued'[e] = queued[e] /\ (e \in app' <=> e \in app)

(* Steps that nothing of this concerns.                                        *)
LEMMA QuietRounds ==
  ASSUME Base, Rounds, TypeOK', NotifsStay, \A g \in Groups : SameCores(g),
         \A g \in Groups : Settled(g) =>
            /\ count'[g] > 0 <=> count[g] > 0
            /\ count[g] = 0 => count'[g] = 0 /\ dropped'[g] = dropped[g]
  PROVE  Rounds'
<1>1. TypeOK /\ \A g \in Groups : Round(g) /\ awaited[g] \subseteq Notifs
  BY DEF Base, Rounds, TypeOK
<1>2. \A g \in Groups : SameEntry(g)
  BY <1>1 DEF SameEntry, NotifsStay
<1>3. \A g \in Groups : Round(g)'
  BY <1>1, <1>2, RoundSame
<1>4. NotifsOnce'
  <2>1. \A g \in Groups : awaited'[g] = awaited[g]
    BY DEF NotifsStay
  <2>2. \A g \in Groups : awaited[g] \cap app' = {}
    BY <1>1 DEF Rounds, NotifsOnce, NotifsStay
  <2>3. QED
    BY <2>1, <2>2 DEF Rounds, NotifsOnce, NotifsStay
<1>5. QED
  BY <1>3, <1>4 DEF Rounds

(* Calls that give EM nothing to notify with.                                  *)
LEMMA CallRounds ==
  ASSUME Base, Rounds, TypeOK', NEW c \in Cores,
         Create(c) \/ Increment(c) \/ (\E g \in Groups : Delete(c, g))
  PROVE  Rounds'
<1> USE DEF Base
<1>1. UNCHANGED <<numNotif, notif, awaited, queued, app, pc, current, index, apply, dropped, running>>
  BY DEF Create, Increment, Delete, eventVars, coreVars, ruleVars
<1>2. \A g \in Groups : SameCores(g)
  BY <1>1 DEF SameCores, Sends
<1>3. NotifsStay
  BY <1>1 DEF NotifsStay
<1>4. ASSUME NEW g \in Groups
      PROVE  (count'[g] > 0 <=> count[g] > 0) /\ (count[g] = 0 => count'[g] = 0)
  <2>1. CASE count' = count
    BY <2>1
  <2>2. CASE Increment(c)
    <3>1. current[c] \in Groups /\ c \in Busy(current[c])
      BY <2>2 DEF Increment, TypeOK, Busy, Shape
    <3>2. count[current[c]] > 0
      BY <3>1, InFlightCounts
    <3>3. count'[g] = IF g = current[c] THEN count[g] + 1 ELSE count[g]
      BY <2>2, <3>1 DEF Increment, TypeOK
    <3>4. count[g] \in Nat
      BY DEF TypeOK
    <3>5. CASE g = current[c]
      BY <3>2, <3>3, <3>4, <3>5
    <3>6. CASE g # current[c]
      BY <3>3, <3>6
    <3>7. QED
      BY <3>5, <3>6
  <2>3. QED
    BY <2>1, <2>2 DEF Create, Delete
<1>5. QED
  BY <1>1, <1>2, <1>3, <1>4, QuietRounds

(* em_send of what is the application's.                                      *)
LEMMA SendRounds ==
  ASSUME Base, Rounds, TypeOK', NEW c \in Cores, NEW e \in Events \cup Notifs,
         NEW f \in Groups \cup {None}, Send(c, e, f)
  PROVE  Rounds'
<1> USE DEF Base
<1>1. UNCHANGED <<numNotif, notif, awaited, count, dropped, pc, current, index, apply, running>>
  BY DEF Send, entryVars, coreVars
<1>2. e \in app /\ app' = app \ {e} /\ queued' = [queued EXCEPT ![e] = @ + 1]
  BY DEF Send
<1>3. ASSUME NEW g \in Groups
      PROVE  Round(g)'
  <2>1. SameCores(g)
    BY <1>1 DEF SameCores, Sends
  <2>2. \A d \in awaited[g] : d # e
    BY <1>2 DEF Rounds, NotifsOnce
  <2>3. SameEntry(g)
    BY <1>1, <1>2, <2>2 DEF SameEntry, TypeOK
  <2>4. QED
    BY <2>1, <2>3, RoundSame DEF Rounds
<1>4. NotifsOnce'
  <2>1. \A d \in Notifs : queued'[d] \in {0, 1} /\ (d \in app' => queued'[d] = 0)
    <3>1. e \in Notifs => queued[e] = 0
      BY <1>2 DEF Rounds, NotifsOnce
    <3>2. QED
      BY <1>2, <3>1 DEF Rounds, NotifsOnce, TypeOK
  <2>2. QED
    BY <1>1, <1>2, <2>1 DEF Rounds, NotifsOnce
<1>5. QED
  BY <1>3, <1>4 DEF Rounds

(* The count is written first.                                                *)
LEMMA SetCountRounds ==
  ASSUME Base, Rounds, TypeOK', NEW c \in Cores, SetCount(c)
  PROVE  Rounds'
<1> USE DEF Base
<1>0. Alone(c)
  BY EMAlone DEF EMStep
<1>1. UNCHANGED <<numNotif, notif, awaited, queued, app, dropped, current, index, apply>>
  BY DEF SetCount, eventVars, ruleVars
<1>2. pc[c] = "setcount" /\ pc'[c] = "setnum" /\ apply[c].group \in Groups
  BY ApplyFacts DEF SetCount, Goto, TypeOK, Shape
<1>3. \A g \in Groups : SameCores(g)
  BY <1>0, <1>1, <1>2, QuietCore
<1>4. ASSUME NEW g \in Groups, Settled(g)
      PROVE  count'[g] = count[g]
  <2>1. apply[c].group # g
    BY <1>4 DEF Settled
  <2>2. QED
    BY <2>1 DEF SetCount, TypeOK
<1>5. QED
  BY <1>1, <1>3, <1>4, QuietRounds DEF NotifsStay

(* What has to be shown when c applies a group: that group's round.            *)
LEMMA OtherRounds ==
  ASSUME Base, Rounds, TypeOK', NEW c \in Cores, NEW g \in Groups, g = apply[c].group, Alone(c),
         pc[c] # "notify", pc'[c] # "notify", apply'[c].group \in {g, None},
         UNCHANGED <<awaited, queued, app, count, dropped, current>>,
         \A h \in Groups : h # g => numNotif'[h] = numNotif[h] /\ notif'[h] = notif[h],
         Round(g)'
  PROVE  Rounds'
<1> USE DEF Base
<1>1. ASSUME NEW h \in Groups, h # g
      PROVE  Round(h)'
  <2>1. SameCores(h)
    BY <1>1, ConstantsAssumption DEF SameCores, Alone, Sends
  <2>2. SameEntry(h)
    BY <1>1 DEF SameEntry
  <2>3. QED
    BY <2>1, <2>2, RoundSame DEF Rounds
<1>2. NotifsOnce'
  BY DEF Rounds, NotifsOnce
<1>3. QED
  BY <1>1, <1>2 DEF Rounds

(* num_notif has the value it had: no old loop begins again.                  *)
LEMMA SetNumRounds ==
  ASSUME Base, Rounds, OneSize, TypeOK', NEW c \in Cores, SetNum(c)
  PROVE  Rounds'
<1> USE DEF Base
<1>0. Alone(c)
  BY EMAlone DEF EMStep
<1>1. PICK g \in Groups : g = apply[c].group /\ apply[c].tbl \in Tables /\ apply[c].count \in 1..MaxCount
  BY ApplyFacts DEF SetNum, Shape
<1>2. PICK k \in NotifCounts : /\ k \in 0..MaxNotif /\ apply[c].tbl \in [0..k - 1 -> Notifs]
                               /\ Cardinality(DOMAIN apply[c].tbl) = k
  BY <1>1, TableFacts
<1>3. /\ pc[c] = "setnum" /\ index[c] = 0 /\ numNotif' = [numNotif EXCEPT ![g] = k]
      /\ UNCHANGED <<awaited, queued, app, count, dropped, current, notif, running>>
  BY <1>1, <1>2 DEF SetNum, eventVars, Shape
<1>4. numNotif'[g] = k
  BY <1>3 DEF TypeOK
<1>5. Applied(g) /\ Sending(g) /\ ~Settled(g)
  BY <1>1 DEF Rounds, Round, Settled
<1>6. /\ \A d \in Cores : pc'[d] = "notify" =>
           d # c /\ pc[d] = "notify" /\ current'[d] = current[d] /\ index'[d] = index[d]
      /\ pc'[c] \in {"settbl", "idle", "recv"}
  BY <1>0 DEF SetNum, Alone, Goto, ApplyReturns, Resume, TypeOK
<1>7. \A d \in Cores, i \in 0..MaxNotif : ~Sends(d, g, i)'
  <2>1. SUFFICES ASSUME NEW d \in Cores, NEW i \in 0..MaxNotif, Sends(d, g, i)'
                 PROVE  FALSE
    OBVIOUS
  <2>2. pc[d] = "notify" /\ current[d] = g /\ i \in index[d]..k - 1
    BY <1>4, <1>6, <2>1 DEF Sends
  <2>3. numNotif[g] \in NotifCounts
    BY <1>5, <2>2 DEF Sending
  <2>4. numNotif[g] = k
    BY <2>3 DEF OneSize
  <2>5. Sends(d, g, i)
    BY <2>2, <2>4 DEF Sends
  <2>6. QED
    BY <1>5, <2>5 DEF Sending
<1>8. Sending(g)'
  BY <1>2, <1>4, <1>7 DEF Sending
<1>9. CASE k > 0
  <2>1. pc'[c] = "settbl" /\ UNCHANGED <<index, apply>>
    BY <1>2, <1>9 DEF SetNum, Goto, TypeOK
  <2>2. \A d \in Cores : apply[d].group = g => d = c
    BY <1>1, ConstantsAssumption DEF OneApply
  <2>3. Applied(g)'
    <3>1. DOMAIN apply[c].tbl = 0..k - 1
      BY <1>2
    <3>2. index'[c] = 0
      BY <1>3, <2>1
    <3>3. \A i \in 0..index'[c] - 1 : FALSE
      BY <3>2
    <3>4. QED
      BY <1>3, <1>4, <1>5, <2>1, <2>2, <3>1, <3>3 DEF Applied
  <2>4. ~Settled(g)'
    BY <1>1, <2>1 DEF Settled
  <2>5. Round(g)'
    BY <1>8, <2>3, <2>4 DEF Round, Counting, Losing
  <2>6. apply'[c].group = g /\ \A h \in Groups : h # g => numNotif'[h] = numNotif[h]
    BY <1>1, <1>3, <2>1 DEF TypeOK
  <2>7. QED
    BY <1>0, <1>1, <1>3, <2>1, <2>5, <2>6, OtherRounds
<1>10. CASE k = 0
  <2>1. ApplyReturns(c)
    BY <1>2, <1>10 DEF SetNum
  <2>2. apply'[c].group = None
    BY <2>1 DEF ApplyReturns, NoApply, TypeOK
  <2>3. \A d \in Cores : apply'[d].group # g
    BY <1>0, <1>1, <2>2, ConstantsAssumption DEF OneApply, Alone
  <2>4. count'[g] > 0
    <3>1. count[g] = apply[c].count
      BY <1>1, <1>3 DEF Balanced
    <3>2. QED
      BY <1>1, <1>3, <3>1, ConstantsAssumption
  <2>5. Counting(g)'
    <3>1. DOMAIN apply[c].tbl = {} /\ 0..numNotif'[g] - 1 = {}
      BY <1>2, <1>4, <1>10
    <3>2. awaited[g] = {}
      BY <1>1, <1>5, <3>1 DEF Applied
    <3>3. QED
      BY <1>2, <1>3, <1>4, <3>1, <3>2 DEF Counting, Different
  <2>6. Round(g)'
    BY <1>8, <2>3, <2>4, <2>5 DEF Round, Applied, Losing
  <2>7. pc'[c] # "notify" /\ \A h \in Groups : h # g => numNotif'[h] = numNotif[h]
    BY <1>3, <1>6 DEF TypeOK
  <2>8. QED
    BY <1>0, <1>1, <1>3, <2>2, <2>6, <2>7, OtherRounds
<1>11. QED
  BY <1>2, <1>9, <1>10

(* notif_tbl is written while no loop reads it.                               *)
LEMMA SetTblRounds ==
  ASSUME Base, Rounds, TypeOK', NEW c \in Cores, SetTbl(c)
  PROVE  Rounds'
<1> USE DEF Base
<1>0. Alone(c)
  BY EMAlone DEF EMStep
<1>1. PICK g \in Groups : g = apply[c].group /\ apply[c].tbl \in Tables /\ apply[c].count \in 1..MaxCount
  BY ApplyFacts DEF SetTbl, Shape
<1>2. PICK k \in NotifCounts : /\ k \in 0..MaxNotif /\ apply[c].tbl \in [0..k - 1 -> Notifs]
                               /\ Cardinality(DOMAIN apply[c].tbl) = k
  BY <1>1, TableFacts
<1>3. PICK i : i = index[c]
  OBVIOUS
<1>4. /\ pc[c] = "settbl" /\ notif' = [notif EXCEPT ![g][i] = apply[c].tbl[i]]
      /\ UNCHANGED <<awaited, queued, app, count, dropped, current, numNotif, running>>
  BY <1>1, <1>3 DEF SetTbl, eventVars
<1>5. Applied(g) /\ Sending(g) /\ ~Settled(g)
  BY <1>1 DEF Rounds, Round, Settled
<1>6. DOMAIN apply[c].tbl = 0..numNotif[g] - 1 /\ numNotif[g] = k
  <2>1. DOMAIN apply[c].tbl = 0..numNotif[g] - 1
    BY <1>1, <1>4, <1>5 DEF Applied
  <2>2. PICK m \in 0..MaxNotif : m = numNotif[g]
    BY DEF TypeOK
  <2>3. m \in Nat
    BY <2>2, ConstantsAssumption
  <2>4. Cardinality(0..m - 1) = m
    BY <2>3, FS_Interval
  <2>5. QED
    BY <1>2, <2>1, <2>2, <2>4
<1>7. i \in 0..k - 1
  BY <1>3, <1>4, <1>6 DEF Shape
<1>8. /\ \A j \in 0..i : notif'[g][j] = apply[c].tbl[j]
      /\ \A h \in Groups : h # g => notif'[h] = notif[h]
  <2>1. \A j \in 0..i - 1 : notif[g][j] = apply[c].tbl[j]
    BY <1>1, <1>3, <1>4, <1>5 DEF Applied
  <2>2. k <= MaxNotif /\ k \in Nat
    BY <1>2, ConstantsAssumption
  <2>3. 0..i \subseteq 0..MaxNotif - 1
    BY <1>7, <2>2, ConstantsAssumption
  <2>4. \A j \in 0..MaxNotif - 1 : notif'[g][j] = IF j = i THEN apply[c].tbl[i] ELSE notif[g][j]
    BY <1>4 DEF TypeOK
  <2>5. \A j \in 0..i : j \in 0..MaxNotif - 1 /\ (j # i => j \in 0..i - 1)
    BY <1>7, <2>3
  <2>6. QED
    BY <1>4, <2>1, <2>4, <2>5 DEF TypeOK
<1>9. /\ \A d \in Cores : pc'[d] = "notify" =>
           d # c /\ pc[d] = "notify" /\ current'[d] = current[d] /\ index'[d] = index[d]
      /\ pc'[c] \in {"settbl", "idle", "recv"}
  BY <1>0, <1>4 DEF SetTbl, Alone, Goto, ApplyReturns, Resume, TypeOK
<1>10. Sending(g)'
  <2>1. \A d \in Cores, j \in 0..MaxNotif : ~Sends(d, g, j)'
    <3>1. \A d \in Cores, j \in 0..MaxNotif : Sends(d, g, j)' => Sends(d, g, j)
      BY <1>4, <1>9 DEF Sends
    <3>2. QED
      BY <1>5, <3>1 DEF Sending
  <2>2. QED
    BY <1>2, <1>4, <1>6, <2>1 DEF Sending
<1>11. CASE i + 1 \in DOMAIN apply[c].tbl
  <2>1. index' = [index EXCEPT ![c] = i + 1] /\ UNCHANGED <<pc, apply>>
    BY <1>3, <1>11 DEF SetTbl
  <2>2. \A d \in Cores : apply[d].group = g => d = c
    BY <1>1, ConstantsAssumption DEF OneApply
  <2>3. Applied(g)'
    <3>1. index'[c] = i + 1
      BY <2>1 DEF TypeOK
    <3>2. \A j \in 0..index'[c] - 1 : notif'[g][j] = apply[c].tbl[j]
      <4>1. 0..index'[c] - 1 = 0..i
        BY <1>7, <3>1
      <4>2. QED
        BY <1>8, <4>1
    <3>3. QED
      BY <1>4, <1>5, <1>6, <2>1, <2>2, <3>2 DEF Applied
  <2>4. ~Settled(g)'
    BY <1>1, <2>1 DEF Settled
  <2>5. Round(g)'
    BY <1>10, <2>3, <2>4 DEF Round, Counting, Losing
  <2>6. apply'[c].group = g /\ pc'[c] # "notify"
    BY <1>1, <1>9, <2>1
  <2>7. QED
    BY <1>0, <1>1, <1>4, <1>8, <2>5, <2>6, OtherRounds
<1>12. CASE i + 1 \notin DOMAIN apply[c].tbl
  <2>1. ApplyReturns(c)
    BY <1>3, <1>12 DEF SetTbl
  <2>2. apply'[c].group = None
    BY <2>1 DEF ApplyReturns, NoApply, TypeOK
  <2>3. \A d \in Cores : apply'[d].group # g
    BY <1>0, <1>1, <2>2, ConstantsAssumption DEF OneApply, Alone
  <2>4. Counting(g)'
    <3>1. 0..i = 0..k - 1 /\ DOMAIN apply[c].tbl = 0..k - 1
      BY <1>2, <1>6, <1>7, <1>12, ConstantsAssumption
    <3>2. \A j \in 0..k - 1 : notif'[g][j] = apply[c].tbl[j]
      BY <1>8, <3>1
    <3>3. awaited[g] = {apply[c].tbl[j] : j \in 0..k - 1}
      BY <1>1, <1>5, <3>1 DEF Applied
    <3>4. awaited'[g] = {notif'[g][j] : j \in 0..k - 1}
      BY <1>4, <3>2, <3>3
    <3>5. Different(notif'[g], 0..k - 1)
      <4>1. Different(apply[c].tbl, 0..k - 1)
        BY <1>1, <1>5, <3>1 DEF Applied
      <4>2. QED
        BY <3>2, <4>1 DEF Different
    <3>6. \A e \in awaited'[g] : queued'[e] = 0
      BY <1>1, <1>4, <1>5 DEF Applied
    <3>7. numNotif'[g] = k
      BY <1>4, <1>6
    <3>8. QED
      BY <1>2, <3>4, <3>5, <3>6, <3>7 DEF Counting, Different
  <2>5. count'[g] > 0
    <3>1. count[g] = apply[c].count
      BY <1>1, <1>4 DEF Balanced
    <3>2. QED
      BY <1>1, <1>4, <3>1, ConstantsAssumption
  <2>6. Round(g)'
    BY <1>10, <2>3, <2>4, <2>5 DEF Round, Applied, Losing
  <2>7. QED
    BY <1>0, <1>1, <1>4, <1>8, <1>9, <2>2, <2>6, OtherRounds
<1>13. QED
  BY <1>11, <1>12

(* The last event but none is counted, or the last, and c will notify.         *)
LEMMA UpdateRounds ==
  ASSUME Base, Rounds, TypeOK', NEW c \in Cores, Update(c)
  PROVE  Rounds'
<1> USE DEF Base
<1>0. Alone(c)
  BY EMAlone DEF EMStep
<1>1. PICK g \in Groups : g = current[c]
  BY DEF Update, Shape, TypeOK
<1>2. UNCHANGED <<numNotif, notif, awaited, queued, app, dropped, current, index, apply, running>>
  BY DEF Update, eventVars, ruleVars
<1>3. pc[c] = "update" /\ index[c] = 0 /\ apply[c].group = None /\ c \in Busy(g)
  BY <1>1 DEF Update, Shape, Busy
<1>4. Settled(g) /\ count[g] > 0
  BY <1>3, InFlightCounts
<1>5. count' = [count EXCEPT ![g] = @ - 1] /\ pc'[c] = IF count[g] = 1 THEN "notify" ELSE "idle"
  BY <1>1, <1>4 DEF Update, Goto, TypeOK
<1>6. ASSUME NEW h \in Groups, h # g
      PROVE  Round(h)'
  <2>1. SameCores(h)
    BY <1>0, <1>1, <1>2, <1>3, <1>5, <1>6, QuietCore
  <2>2. SameEntry(h)
    BY <1>2, <1>5, <1>6 DEF SameEntry, TypeOK
  <2>3. QED
    BY <2>1, <2>2, RoundSame DEF Rounds
<1>7. count'[g] = count[g] - 1 /\ count[g] \in Nat
  BY <1>5 DEF TypeOK
<1>8. CASE count[g] # 1
  <2>1. SameCores(g)
    BY <1>0, <1>2, <1>3, <1>5, <1>8, QuietCore
  <2>2. SameEntry(g)
    BY <1>2, <1>4, <1>7, <1>8 DEF SameEntry
  <2>3. Round(g)'
    BY <2>1, <2>2, RoundSame DEF Rounds
  <2>4. QED
    BY <1>2, <1>6, <2>3 DEF Rounds, NotifsOnce
<1>9. CASE count[g] = 1
  <2>1. Counting(g) /\ Sending(g)
    BY DEF Rounds, Round
  <2>2. Settled(g)' /\ \A d \in Cores : apply'[d].group # g
    BY <1>2, <1>4 DEF Settled
  <2>3. count'[g] = 0 /\ pc'[c] = "notify"
    BY <1>5, <1>7, <1>9
  <2>4. \A d \in Cores, i \in 0..MaxNotif : Sends(d, g, i)' => d = c /\ i \in 0..numNotif[g] - 1
    <3>1. \A d \in Cores, i \in 0..MaxNotif : ~Sends(d, g, i)
      BY <1>4, <2>1 DEF Sending
    <3>2. \A d \in Cores, i \in 0..MaxNotif : d # c => ~Sends(d, g, i)'
      BY <1>0, <1>2, <3>1 DEF Alone, Sends
    <3>3. QED
      BY <1>2, <1>3, <3>2 DEF Sends
  <2>5. Sending(g)'
    <3>1. /\ numNotif[g] \in NotifCounts /\ Different(notif[g], 0..numNotif[g] - 1)
          /\ \A i \in 0..numNotif[g] - 1 : notif[g][i] \in awaited[g] /\ queued[notif[g][i]] = 0
      BY <1>4, <2>1 DEF Counting
    <3>2. \A i, j \in 0..numNotif[g] - 1 : notif[g][i] = notif[g][j] => i = j
      BY <3>1 DEF Different
    <3>3. QED
      BY <1>2, <2>2, <2>3, <2>4, <3>1, <3>2 DEF Sending
  <2>6. dropped'[g] = 0
    <3>1. PICK b \in Nat, w \in Nat : b = Cardinality(Busy(g)) /\ w = Cardinality(Waiting(g)) 
                                      /\ b # 0 /\ InFlight(g) = w + b
      BY <1>3, InFlightIs, FS_EmptySet
    <3>2. count[g] = toSend[g] + (w + b) + dropped[g]
      BY <1>4, <3>1 DEF Balanced
    <3>3. toSend[g] \in Nat /\ dropped[g] \in Nat
      BY DEF TypeOK
    <3>4. PICK s \in Nat : s = toSend[g] + w
      BY <3>1, <3>3
    <3>5. 1 = s + b + dropped[g]
      BY <1>9, <3>1, <3>2, <3>3, <3>4
    <3>6. dropped[g] = 0
      BY <3>1, <3>3, <3>4, <3>5
    <3>7. QED
      BY <1>2, <3>6
  <2>7. Round(g)'
    BY <2>2, <2>3, <2>5, <2>6 DEF Round, Applied, Counting, Losing
  <2>8. QED
    BY <1>2, <1>6, <2>7 DEF Rounds, NotifsOnce
<1>10. QED
  BY <1>8, <1>9

(* One notification is sent, or refused by its queue.                          *)
LEMMA NotifyRounds ==
  ASSUME Base, Rounds, TypeOK', NEW c \in Cores, Notify(c)
  PROVE  Rounds'
<1> USE DEF Base
<1>0. Alone(c)
  BY EMAlone DEF EMStep
<1>1. PICK g \in Groups, i \in 0..MaxNotif : g = current[c] /\ i = index[c]
  BY DEF Notify, Shape, TypeOK
<1>2. UNCHANGED <<numNotif, notif, awaited, count, app, current, apply>>
  BY DEF Notify, entryVars
<1>3. pc[c] = "notify" /\ apply[c].group = None
  BY DEF Notify, Shape
<1>4. \A d \in Cores : pc'[d] = "notify" => pc[d] = "notify"
  BY <1>0, <1>3 DEF Alone
<1>5. \A h \in Groups : Settled(h)' <=> Settled(h)
  BY <1>2 DEF Settled
<1>6. ASSUME NEW h \in Groups, h # g
      PROVE  SameCores(h)
  BY <1>0, <1>1, <1>2, <1>3, <1>4, <1>6, ConstantsAssumption DEF SameCores, Alone, Sends
<1>7. CASE ~(i < numNotif[g])
  <2>1. UNCHANGED <<queued, dropped>> /\ pc'[c] = "idle"
    BY <1>1, <1>7 DEF Notify, Goto, TypeOK
  <2>2. \A j \in 0..MaxNotif : ~Sends(c, g, j)
    BY <1>1, <1>7, ConstantsAssumption DEF Sends, TypeOK
  <2>3. SameCores(g)
    BY <1>0, <1>2, <1>3, <1>4, <2>1, <2>2, ConstantsAssumption DEF SameCores, Alone, Sends
  <2>4. \A h \in Groups : SameCores(h)
    BY <1>6, <2>3
  <2>5. QED
    BY <1>2, <2>1, <2>4, QuietRounds DEF NotifsStay
<1>8. CASE i < numNotif[g]
  <2>1. Sends(c, g, i) /\ numNotif[g] \in 0..MaxNotif
    BY <1>1, <1>3, <1>8, ConstantsAssumption DEF Sends, TypeOK
  <2>2. PICK e \in Notifs : /\ e = notif[g][i] /\ e \in awaited[g] /\ queued[e] = 0
                            /\ Settled(g) /\ count[g] = 0
    BY <2>1, SendsFacts DEF Rounds
  <2>3. /\ pc' = pc /\ index' = [index EXCEPT ![c] = i + 1]
        /\ \/ queued' = [queued EXCEPT ![e] = @ + 1] /\ UNCHANGED dropped
           \/ dropped' = [dropped EXCEPT ![g] = @ + 1] /\ UNCHANGED queued
    BY <1>1, <1>8, <2>2 DEF Notify
  <2>4. \A d \in Events \cup Notifs : d # e => queued'[d] = queued[d]
    BY <2>3 DEF TypeOK
  <2>5. ASSUME NEW h \in Groups, h # g
        PROVE  Round(h)'
    <3>1. e \notin awaited[h]
      BY <2>2, <2>5 DEF Rounds, NotifsOnce
    <3>2. dropped'[h] = dropped[h] /\ awaited[h] \subseteq Notifs
      BY <2>3, <2>5 DEF TypeOK
    <3>3. SameEntry(h)
      BY <1>2, <2>4, <3>1, <3>2 DEF SameEntry
    <3>4. QED
      BY <1>6, <2>5, <3>3, RoundSame DEF Rounds
  <2>6. Sending(g)
    BY DEF Rounds, Round
  <2>7. \A d \in Cores, j \in 0..MaxNotif : Sends(d, g, j)' => Sends(d, g, j) /\ notif[g][j] # e
    <3>1. SUFFICES ASSUME NEW d \in Cores, NEW j \in 0..MaxNotif, Sends(d, g, j)'
                   PROVE  Sends(d, g, j) /\ notif[g][j] # e
      OBVIOUS
    <3>2. index'[d] >= index[d] /\ index[d] \in Int /\ index'[d] \in Int
      <4>1. index[d] \in Nat /\ i \in Nat
        BY <1>1, ConstantsAssumption DEF TypeOK
      <4>2. index'[d] = IF d = c THEN i + 1 ELSE index[d]
        BY <2>3 DEF TypeOK
      <4>3. QED
        BY <1>1, <4>1, <4>2
    <3>3. pc[d] = "notify" /\ current[d] = g /\ j \in index'[d]..numNotif[g] - 1
      BY <1>2, <2>3, <3>1 DEF Sends
    <3>4. Sends(d, g, j)
      BY <2>1, <3>2, <3>3, ConstantsAssumption DEF Sends
    <3>5. d = c /\ (notif[g][i] = notif[g][j] => i = j)
      BY <2>1, <2>6, <3>4 DEF Sending
    <3>6. i # j
      BY <1>1, <2>3, <3>3, <3>5, ConstantsAssumption DEF TypeOK
    <3>7. QED
      BY <2>2, <3>4, <3>5, <3>6
  <2>8. Round(g)'
    <3>1. Settled(g)' /\ count'[g] = 0 /\ \A d \in Cores : apply'[d].group # g
      BY <1>2, <1>5, <2>2 DEF Settled
    <3>2. Sending(g)'
      <4>1. \A d \in Cores : pc'[d] = "notify" /\ current'[d] = g => numNotif'[g] \in NotifCounts
        BY <1>2, <2>3, <2>6 DEF Sending
      <4>2. ASSUME NEW d \in Cores, NEW j \in 0..MaxNotif, Sends(d, g, j)'
            PROVE  notif'[g][j] \in awaited'[g] /\ queued'[notif'[g][j]] = 0
        <5>1. Sends(d, g, j) /\ notif[g][j] # e
          BY <2>7, <4>2
        <5>2. notif[g][j] \in awaited[g] /\ notif[g][j] \in Notifs /\ queued[notif[g][j]] = 0
          BY <5>1, SendsFacts DEF Rounds
        <5>3. QED
          BY <1>2, <2>4, <5>1, <5>2
      <4>3. \A d, b \in Cores, j, k \in 0..MaxNotif : Sends(d, g, j)' /\ Sends(b, g, k)' =>
              d = b /\ (notif'[g][j] = notif'[g][k] => j = k)
        BY <1>2, <2>6, <2>7 DEF Sending
      <4>4. QED
        BY <3>1, <4>1, <4>2, <4>3 DEF Sending
    <3>3. Losing(g)'
      <4>1. SUFFICES ASSUME dropped'[g] > 0
                     PROVE  \E d \in Notifs : Gone(g, d)'
        BY DEF Losing
      <4>2. CASE queued' = queued
        <5>1. Gone(g, e)'
          BY <1>2, <2>2, <2>7, <4>2 DEF Gone
        <5>2. QED
          BY <5>1
      <4>3. CASE dropped' = dropped
        <5>1. PICK d \in Notifs : Gone(g, d)
          BY <2>2, <4>1, <4>3 DEF Rounds, Round, Losing
        <5>2. d # e
          BY <2>1, <2>2, <5>1 DEF Gone
        <5>3. Gone(g, d)'
          BY <1>2, <2>4, <2>7, <5>1, <5>2 DEF Gone
        <5>4. QED
          BY <5>3
      <4>4. QED
        BY <2>3, <4>2, <4>3
    <3>4. QED
      BY <3>1, <3>2, <3>3 DEF Round, Applied, Counting
  <2>9. NotifsOnce'
    <3>1. e \notin app /\ queued'[e] \in {0, 1}
      BY <2>2, <2>3 DEF Rounds, NotifsOnce, TypeOK
    <3>2. \A d \in Notifs : queued'[d] \in {0, 1} /\ (d \in app' => queued'[d] = 0)
      BY <1>2, <2>4, <3>1 DEF Rounds, NotifsOnce
    <3>3. QED
      BY <1>2, <3>2 DEF Rounds, NotifsOnce
  <2>10. QED
    BY <2>5, <2>8, <2>9 DEF Rounds
<1>9. QED
  BY <1>7, <1>8

-----------------------------------------------------------------------------

(* An event leaves its queue: nothing waits for it any more, or it is lost.    *)
LEMMA LeaveRound ==
  ASSUME Base, Rounds, TypeOK', NEW g \in Groups, NEW e \in Notifs, e \in awaited[g], queued[e] = 1,
         queued'[e] = 0, \A d \in Notifs : d # e => queued'[d] = queued[d],
         SameCores(g), numNotif' = numNotif, notif' = notif, count' = count,
         \/ awaited'[g] = awaited[g] \ {e} /\ dropped'[g] = dropped[g]
         \/ awaited'[g] = awaited[g]
  PROVE  Round(g)'
<1>0. TypeOK /\ Round(g) /\ Sending(g)
  BY DEF Base, Rounds, Round
<1>1. Settled(g) /\ count[g] = 0
  BY <1>0, QueuedFacts
<1>2. Settled(g)' /\ count'[g] = 0 /\ \A c \in Cores : apply'[c].group # g
  BY <1>1 DEF Settled, SameCores
<1>3. \A c \in Cores, i \in 0..MaxNotif : Sends(c, g, i)' => notif[g][i] # e
  <2>1. \A c \in Cores, i \in 0..MaxNotif : Sends(c, g, i) => queued[notif[g][i]] = 0
    BY <1>0, SendsFacts
  <2>2. QED
    BY <2>1 DEF SameCores
<1>4. Sending(g)'
  <2>1. \A c \in Cores : pc'[c] = "notify" /\ current'[c] = g => numNotif'[g] \in NotifCounts
    BY <1>0 DEF Sending, SameCores
  <2>2. ASSUME NEW c \in Cores, NEW i \in 0..MaxNotif, Sends(c, g, i)'
        PROVE  notif'[g][i] \in awaited'[g] /\ queued'[notif'[g][i]] = 0
    <3>1. Sends(c, g, i)
      BY <2>2 DEF SameCores
    <3>2. notif[g][i] \in awaited[g] /\ notif[g][i] \in Notifs /\ queued[notif[g][i]] = 0
      BY <1>0, <3>1, SendsFacts
    <3>3. QED
      BY <1>3, <2>2, <3>2
  <2>3. \A c, d \in Cores, i, j \in 0..MaxNotif : Sends(c, g, i)' /\ Sends(d, g, j)' =>
          c = d /\ (notif'[g][i] = notif'[g][j] => i = j)
    BY <1>0 DEF Sending, SameCores
  <2>4. QED
    BY <1>2, <2>1, <2>2, <2>3 DEF Sending
<1>5. Losing(g)'
  <2>1. CASE awaited'[g] = awaited[g]
    <3>1. Gone(g, e)'
      BY <1>3, <2>1 DEF Gone
    <3>2. QED
      BY <3>1 DEF Losing
  <2>2. CASE awaited'[g] = awaited[g] \ {e} /\ dropped'[g] = dropped[g]
    <3>1. SUFFICES ASSUME dropped[g] > 0
                   PROVE  \E d \in Notifs : Gone(g, d)'
      BY <2>2 DEF Losing
    <3>2. PICK d \in Notifs : Gone(g, d)
      BY <1>0, <1>1, <3>1 DEF Round, Losing
    <3>3. d # e
      BY <3>2 DEF Gone
    <3>4. Gone(g, d)'
      BY <2>2, <3>2, <3>3 DEF Gone, SameCores
    <3>5. QED
      BY <3>4
  <2>3. QED
    BY <2>1, <2>2
<1>6. QED
  BY <1>2, <1>4, <1>5 DEF Round, Applied, Counting

(* A notification is received.                                                *)
LEMMA ReceiveRounds ==
  ASSUME Base, Rounds, TypeOK', NEW c \in Cores, NEW e \in Events \cup Notifs, Receive(c, e)
  PROVE  Rounds'
<1> USE DEF Base
<1>0. Alone(c)
  BY DispatchAlone DEF Dispatch
<1>1. UNCHANGED <<count, dropped, numNotif, notif, index, apply>>
  BY DEF Receive, entryVars
<1>2. pc[c] = "idle" /\ pc'[c] = "recv" /\ queued[e] > 0 /\ queued' = [queued EXCEPT ![e] = @ - 1]
      /\ app' = app \cup {e} /\ \A g \in Groups : awaited'[g] = awaited[g] \ {e}
  BY DEF Receive, Goto, TypeOK
<1>3. \A g \in Groups : SameCores(g)
  BY <1>0, <1>1, <1>2, QuietCore
<1>4. e \in Notifs => queued[e] = 1 /\ queued'[e] = 0
  BY <1>2 DEF Rounds, NotifsOnce, TypeOK
<1>5. \A d \in Events \cup Notifs : d # e => queued'[d] = queued[d]
  BY <1>2 DEF TypeOK
<1>6. ASSUME NEW g \in Groups, e \notin awaited[g]
      PROVE  Round(g)'
  <2>1. awaited'[g] = awaited[g]
    BY <1>2, <1>6
  <2>2. awaited[g] \subseteq Notifs
    BY DEF TypeOK
  <2>3. SameEntry(g)
    BY <1>1, <1>5, <1>6, <2>1, <2>2 DEF SameEntry
  <2>4. QED
    BY <1>3, <2>3, RoundSame DEF Rounds
<1>7. ASSUME NEW g \in Groups, e \in awaited[g]
      PROVE  Round(g)'
  <2>1. e \in Notifs
    BY <1>7 DEF TypeOK
  <2>2. \A d \in Notifs : d # e => queued'[d] = queued[d]
    BY <1>5
  <2>3. QED
    BY <1>1, <1>2, <1>3, <1>4, <1>7, <2>1, <2>2, LeaveRound
<1>8. NotifsOnce'
  <2>1. \A d \in Notifs : queued'[d] \in {0, 1} /\ (d \in app' => queued'[d] = 0)
    BY <1>2, <1>4, <1>5 DEF Rounds, NotifsOnce
  <2>2. QED
    BY <1>2, <2>1 DEF Rounds, NotifsOnce
<1>9. QED
  BY <1>6, <1>7, <1>8 DEF Rounds

(* A notification is lost for good.                                           *)
LEMMA DropRounds ==
  ASSUME Base, Rounds, TypeOK', NEW c \in Cores, NEW e \in Events \cup Notifs, DropEvent(c, e)
  PROVE  Rounds'
<1> USE DEF Base
<1>1. UNCHANGED <<count, awaited, numNotif, notif, index, apply, pc, current>>
  BY DEF DropEvent, entryVars, coreVars
<1>2. queued[e] > 0 /\ queued' = [queued EXCEPT ![e] = @ - 1] /\ app' = app \cup ({e} \cap Events)
  BY DEF DropEvent
<1>3. \A g \in Groups : SameCores(g)
  BY <1>1 DEF SameCores, Sends
<1>4. e \in Notifs => queued[e] = 1 /\ queued'[e] = 0
  BY <1>2 DEF Rounds, NotifsOnce, TypeOK
<1>5. \A d \in Events \cup Notifs : d # e => queued'[d] = queued[d]
  BY <1>2 DEF TypeOK
<1>6. ASSUME NEW g \in Groups, e \notin awaited[g]
      PROVE  Round(g)'
  <2>1. Settled(g) /\ count[g] = 0 => dropped'[g] = dropped[g]
    <3>1. SUFFICES ASSUME Settled(g), count[g] = 0, evGroup[e] = g
                   PROVE  FALSE
      BY <1>6 DEF DropEvent
    <3>2. e \in Events
      BY <3>1, ConstantsAssumption DEF NotifsUncounted
    <3>3. e \in Waiting(g)
      BY <1>2, <3>1, <3>2 DEF Waiting
    <3>4. QED
      BY <3>1, <3>3, InFlightCounts
  <2>2. awaited[g] \subseteq Notifs
    BY DEF TypeOK
  <2>3. SameEntry(g)
    BY <1>1, <1>5, <1>6, <2>1, <2>2 DEF SameEntry
  <2>4. QED
    BY <1>3, <2>3, RoundSame DEF Rounds
<1>7. ASSUME NEW g \in Groups, e \in awaited[g]
      PROVE  Round(g)'
  <2>1. e \in Notifs /\ awaited'[g] = awaited[g]
    BY <1>1, <1>7 DEF TypeOK
  <2>2. \A d \in Notifs : d # e => queued'[d] = queued[d]
    BY <1>5
  <2>3. QED
    BY <1>1, <1>3, <1>4, <1>7, <2>1, <2>2, LeaveRound
<1>8. NotifsOnce'
  <2>1. \A d \in Notifs : d \in app' <=> d \in app
    BY <1>2, ConstantsAssumption
  <2>2. \A d \in Notifs : queued'[d] \in {0, 1} /\ (d \in app' => queued'[d] = 0)
    BY <1>4, <1>5, <2>1 DEF Rounds, NotifsOnce
  <2>3. \A g \in Groups : awaited[g] \subseteq Notifs
    BY DEF TypeOK
  <2>4. QED
    BY <1>1, <2>1, <2>2, <2>3 DEF Rounds, NotifsOnce
<1>9. QED
  BY <1>6, <1>7, <1>8 DEF Rounds

(* The end of a receive function.                                             *)
LEMMA ReturnsRounds ==
  ASSUME Base, Rounds, TypeOK', NEW c \in Cores, ReceiveReturns(c)
  PROVE  Rounds'
<1>0. Alone(c)
  BY DispatchAlone DEF Base
<1>1. UNCHANGED <<numNotif, notif, awaited, queued, app, count, dropped, index, apply>>
  BY DEF ReceiveReturns, entryVars, eventVars, ruleVars
<1>2. pc[c] = "recv" /\ pc'[c] \in {"idle", "update"}
  BY DEF ReceiveReturns, Goto, Base, TypeOK
<1>3. \A g \in Groups : SameCores(g)
  BY <1>0, <1>1, <1>2, QuietCore
<1>4. QED
  BY <1>1, <1>3, QuietRounds DEF NotifsStay

(* With as many notifications in every round, none is sent before its time.    *)
LEMMA RoundStep ==
  ASSUME Base, Rounds, OneSize, TypeOK', [Next]_vars
  PROVE  Rounds'
<1>1. CASE UNCHANGED vars
  <2>1. \A g \in Groups : SameCores(g)
    BY <1>1 DEF vars, coreVars, entryVars, SameCores, Sends
  <2>2. QED
    BY <1>1, <2>1, QuietRounds DEF NotifsStay, vars, entryVars, eventVars, ruleVars
<1>2. ASSUME NEW c \in Cores, AppStep(c)
      PROVE  Rounds'
  BY <1>2, CallRounds, ApplyRounds, SendRounds DEF AppStep
<1>3. ASSUME NEW c \in Cores, EMStep(c)
      PROVE  Rounds'
  BY <1>3, SetCountRounds, SetNumRounds, SetTblRounds, UpdateRounds, NotifyRounds DEF EMStep
<1>4. ASSUME NEW c \in Cores, Dispatch(c) \/ ReceiveReturns(c)
      PROVE  Rounds'
  BY <1>4, ReceiveRounds, DropRounds, ReturnsRounds DEF Dispatch
<1>5. QED
  BY <1>1, <1>2, <1>3, <1>4 DEF Next

-----------------------------------------------------------------------------
(* What follows *)

(* At the start.                                                              *)
LEMMA InitBase ==
  ASSUME Init
  PROVE  Base /\ NothingDropped /\ Rounds
<1> USE DEF Init
<1>1. TypeOK
  BY ConstantsAssumption DEF TypeOK, ControlPoints
<1>2. \A c \in Cores : apply[c].group = None
  BY DEF NoApply
<1>3. OneApply /\ EventsOnce /\ NotifsUncounted /\ \A c \in Cores : Shape(c)
  BY <1>2, ConstantsAssumption DEF OneApply, EventsOnce, NotifsUncounted, Shape
<1>4. \A g \in Groups : \A c \in Cores : apply[c].group # g
  BY <1>2, ConstantsAssumption
<1>5. \A g \in Groups : Balanced(g)
  BY <1>4 DEF Balanced, Waiting, Busy
<1>6. \A g \in Groups : Round(g)
  BY <1>4 DEF Round, Applied, Counting, Sending, Sends, Losing
<1>7. NotifsOnce
  <2>1. \A e \in Notifs : queued[e] = 0
    OBVIOUS
  <2>2. \A g \in Groups : awaited[g] = {}
    OBVIOUS
  <2>3. QED
    BY <2>1, <2>2 DEF NotifsOnce
<1>8. QED
  BY <1>1, <1>3, <1>5, <1>6, <1>7 DEF Base, Rounds, NothingDropped

(* Counts stay right if losses are harmless.                                  *)
LEMMA BaseStep ==
  ASSUME Base, CleanAtRest, Harmless, [Next]_vars
  PROVE  Base'
<1>1. TypeOK'
  BY TypeStep DEF Base
<1>2. (\A c \in Cores : Shape(c))' /\ OneApply'
  BY ShapeStep DEF Base
<1>3. EventsOnce' /\ NotifsUncounted'
  BY EventStep DEF Base
<1>4. (\A g \in Groups : Balanced(g))'
  BY <1>1, BalanceStep
<1>5. QED
  BY <1>1, <1>2, <1>3, <1>4 DEF Base

(* In rounds of one size the inductive invariant holds.                        *)
LEMMA Invariance ==
  ASSUME OneSize
  PROVE  Spec => []IInv
<1>1. Init => IInv
  BY InitBase DEF IInv
<1>2. IInv /\ [Next]_vars => IInv'
  <2>1. SUFFICES ASSUME IInv, [Next]_vars
                 PROVE  IInv'
    OBVIOUS
  <2>2. Base /\ Rounds /\ CleanAtRest /\ Harmless
    BY <2>1, RoundsHarmless DEF IInv
  <2>3. Base'
    BY <2>1, <2>2, BaseStep
  <2>4. Rounds'
    BY <2>1, <2>2, <2>3, RoundStep DEF Base
  <2>5. QED
    BY <2>3, <2>4 DEF IInv
<1>3. QED
  BY <1>1, <1>2, PTL DEF Spec

(* When queues take and deliver everything, counts are right in rounds of any  *)
(* sizes.                                                                      *)
LEMMA LosslessInvariance ==
  ASSUME ~Lossy
  PROVE  Spec => [](Base /\ NothingDropped)
<1>1. Init => Base /\ NothingDropped
  BY InitBase
<1>2. Base /\ NothingDropped /\ [Next]_vars => (Base /\ NothingDropped)'
  <2>1. SUFFICES ASSUME Base, NothingDropped, [Next]_vars
                 PROVE  (Base /\ NothingDropped)'
    OBVIOUS
  <2>2. CleanAtRest /\ Harmless
    BY <2>1 DEF NothingDropped, CleanAtRest, Harmless
  <2>3. dropped' = dropped
    <3>1. ASSUME NEW c \in Cores, AppStep(c)
          PROVE  dropped' = dropped
      BY <3>1 DEF AppStep, Create, Delete, Apply, Increment, Send, ruleVars
    <3>2. ASSUME NEW c \in Cores, EMStep(c)
          PROVE  dropped' = dropped
      <4>1. Notify(c) => dropped' = dropped
        BY DEF Notify
      <4>2. QED
        BY <3>2, <4>1 DEF EMStep, SetCount, SetNum, SetTbl, Update, ruleVars
    <3>3. ASSUME NEW c \in Cores, Dispatch(c) \/ ReceiveReturns(c)
          PROVE  dropped' = dropped
      BY <3>3 DEF Dispatch, Receive, DropEvent, ReceiveReturns, ruleVars
    <3>4. QED
      BY <2>1, <3>1, <3>2, <3>3 DEF Next, vars, ruleVars
  <2>4. QED
    BY <2>1, <2>2, <2>3, BaseStep DEF NothingDropped
<1>3. QED
  BY <1>1, <1>2, PTL DEF Spec

(* The state is well typed: no count falls below zero, the loops over          *)
(* notif_tbl (em_event_group_apply, event_group_count_update) stay inside it.  *)
THEOREM TypeCorrect == Spec => []TypeOK
<1>1. Init => TypeOK /\ OneApply /\ \A c \in Cores : Shape(c)
  BY InitBase DEF Base
<1>2. TypeOK /\ OneApply /\ (\A c \in Cores : Shape(c)) /\ [Next]_vars
      => (TypeOK /\ OneApply /\ \A c \in Cores : Shape(c))'
  BY TypeStep, ShapeStep
<1>3. QED
  BY <1>1, <1>2, PTL DEF Spec

(* The compare-and-set loops of em_event_group_increment and                   *)
(* event_group_count_update keep the count of a group what it should be: the   *)
(* events that may still be sent, those on their way or in a receive function, *)
(* and those a queue has swallowed.  For any cores, groups and events, if      *)
(* every round has as many notifications or no queue loses any.                *)
THEOREM CountStaysExact ==
  ASSUME OneSize \/ ~Lossy
  PROVE  Spec => []CountExact
<1>1. Base => CountExact
  BY DEF Base, Balanced, CountExact
<1>2. CASE OneSize
  <2>1. IInv => Base
    BY DEF IInv
  <2>2. QED
    BY <1>1, <1>2, <2>1, Invariance, PTL
<1>3. CASE ~Lossy
  BY <1>1, <1>3, LosslessInvariance, PTL
<1>4. QED
  BY <1>2, <1>3

(* No notification of a group is in a queue before all of its events have been *)
(* processed, although the core that sends them reads num_notif and notif_tbl  *)
(* again in every turn of its loop (event_group_count_update), if every round  *)
(* has as many: the old loop has then come to its end when the group is        *)
(* applied anew.                                                               *)
THEOREM NotifiedOnlyAtEnd ==
  ASSUME OneSize
  PROVE  Spec => []NotifiedAtEnd
<1>1. IInv => NotifiedAtEnd
  <2>1. SUFFICES ASSUME IInv, NEW g \in Groups, NEW e \in awaited[g], queued[e] > 0
                 PROVE  toSend[g] = 0 /\ InFlight(g) = 0 /\ Settled(g)
    BY DEF NotifiedAtEnd
  <2>2. Settled(g) /\ count[g] = 0
    BY <2>1, QueuedFacts DEF IInv, Base, Rounds
  <2>3. toSend[g] = 0 /\ Waiting(g) = {} /\ Busy(g) = {}
    BY <2>1, <2>2 DEF IInv, Base, Balanced
  <2>4. InFlight(g) = 0
    BY <2>3, InFlightIs, FS_EmptySet
  <2>5. QED
    BY <2>2, <2>3, <2>4
<1>2. QED
  BY <1>1, Invariance, PTL
=============================================================================
