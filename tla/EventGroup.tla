----------------------------- MODULE EventGroup -----------------------------
(***************************************************************************)
(* Event groups (fork-join): a count of events, and notification events    *)
(* that EM sends when the last of them has been processed.                 *)
(*                                                                         *)
(* The entry of a group has no lock.  Its count is changed by compare-and- *)
(* set loops, each one step here; em_event_group_apply writes count,       *)
(* num_notif and notif_tbl one after the other, and the dispatcher that    *)
(* counts down to zero reads num_notif and notif_tbl again before every    *)
(* notification it sends.                                                  *)
(*                                                                         *)
(* The application keeps the rules of event_machine_group.h: it sends no   *)
(* more events to a group than it asked to be counted, increments before   *)
(* it sends, and applies or deletes a group only when it has received all  *)
(* notifications of the previous round.  (A group applied with a count of  *)
(* zero never notifies; the model's application does not do that.)         *)
(***************************************************************************)
EXTENDS Integers, FiniteSets

CONSTANTS
  Cores,        \* EM cores
  MaxGroups,    \* EM_MAX_EVENT_GROUPS
  Events,       \* events the application sends to groups
  Notifs,       \* events it uses as notifications
  None,         \* EM_EVENT_GROUP_UNDEF, no event
  MaxNotif,     \* EM_EVENT_GROUP_MAX_NOTIF
  NotifCounts,  \* the num_notif the application uses
  MaxCount,     \* bound: events of a group not yet processed
  Lossy         \* TRUE: queues can be full or not enabled

Groups == 0..MaxGroups - 1

ASSUME ConstantsAssumption ==
  /\ IsFiniteSet(Cores) /\ IsFiniteSet(Events)
  /\ MaxGroups \in Nat /\ MaxNotif \in Nat /\ MaxCount \in Nat
  /\ NotifCounts \subseteq 0..MaxNotif
  /\ Events \cap Notifs = {}
  /\ None \notin Groups \cup Events \cup Notifs
  /\ Lossy \in BOOLEAN

VARIABLES
  allocated,  \* [Groups -> BOOLEAN]
  count,      \* [Groups -> Nat]
  numNotif,   \* [Groups -> Nat]: num_notif
  notif,      \* [Groups -> [0..MaxNotif-1 -> Notifs \cup {None}]]: notif_tbl[i].event
  evGroup,    \* [Events \cup Notifs -> Groups \cup {None}]: ev_hdr->event_group
  queued,     \* [Events \cup Notifs -> Nat]: how often an event is in a queue
  app,        \* events owned by the application
  pc,         \* [Cores -> ControlPoints]
  running,    \* [Cores -> BOOLEAN]: in a receive function
  current,    \* [Cores -> Groups \cup {None}]: em_core_local.current_event_group
  index,      \* [Cores -> Nat]: i, in the loops over notif_tbl
  apply,      \* [Cores -> arguments of the apply in progress]
  toSend,     \* [Groups -> Nat]: events the application may still send (its account)
  awaited,    \* [Groups -> SUBSET Notifs]: notifications given to EM, not yet received
  dropped     \* [Groups -> Nat]: events and notifications of the group lost in EM
              \* (an account kept for the properties)

entryVars == <<allocated, count, numNotif, notif>>
eventVars == <<evGroup, queued, app>>
coreVars  == <<pc, running, current, index, apply>>
ruleVars  == <<toSend, awaited, dropped>>
vars == <<entryVars, eventVars, coreVars, ruleVars>>

ControlPoints == {"idle", "recv", "setcount", "setnum", "settbl", "update", "notify"}

\* The notification tables the application hands over.
Tables == UNION {[0..k - 1 -> Notifs] : k \in NotifCounts}

NoApply == [group |-> None, count |-> 0, tbl |-> [i \in {} |-> None]]

Init ==
  /\ allocated = [g \in Groups |-> FALSE]
  /\ count = [g \in Groups |-> 0]
  /\ numNotif = [g \in Groups |-> 0]
  /\ notif = [g \in Groups |-> [i \in 0..MaxNotif - 1 |-> None]]
  /\ evGroup = [e \in Events \cup Notifs |-> None]
  /\ queued = [e \in Events \cup Notifs |-> 0]
  /\ app = Events \cup Notifs
  /\ pc = [c \in Cores |-> "idle"]
  /\ running = [c \in Cores |-> FALSE]
  /\ current = [c \in Cores |-> None]
  /\ index = [c \in Cores |-> 0]
  /\ apply = [c \in Cores |-> NoApply]
  /\ toSend = [g \in Groups |-> 0]
  /\ awaited = [g \in Groups |-> {}]
  /\ dropped = [g \in Groups |-> 0]

Goto(c, point) == pc' = [pc EXCEPT ![c] = point]

\* Application code runs on c.
AppRuns(c) == pc[c] \in {"idle", "recv"}

Resume(c) == Goto(c, IF running[c] THEN "recv" ELSE "idle")

\* For the application, g is neither being applied nor counting.
AtRest(g) ==
  /\ allocated[g]
  /\ toSend[g] = 0 /\ awaited[g] = {}
  /\ \A c \in Cores : apply[c].group # g

-----------------------------------------------------------------------------
(* Calls of the application *)

\* event_group_next_free: the first free entry of the table, as it was left.
Create(c) ==
  /\ AppRuns(c)
  /\ \E g \in Groups :
       /\ ~allocated[g]
       /\ \A h \in Groups : h < g => allocated[h]
       /\ allocated' = [allocated EXCEPT ![g] = TRUE]
  /\ UNCHANGED <<count, numNotif, notif, eventVars, coreVars, ruleVars>>

Delete(c, g) ==
  /\ AppRuns(c)
  /\ AtRest(g)
  /\ allocated' = [allocated EXCEPT ![g] = FALSE]
  /\ UNCHANGED <<count, numNotif, notif, eventVars, coreVars, ruleVars>>

\* em_event_group_apply: a group that is still counting is refused.
Apply(c, g, n, tbl) ==
  /\ AppRuns(c)
  /\ AtRest(g)
  /\ count[g] = 0
  /\ \A i \in DOMAIN tbl : tbl[i] \in app
  /\ \A i, j \in DOMAIN tbl : tbl[i] = tbl[j] => i = j
  /\ apply' = [apply EXCEPT ![c] = [group |-> g, count |-> n, tbl |-> tbl]]
  /\ LET given == {tbl[i] : i \in DOMAIN tbl} IN
       /\ app' = app \ given
       /\ awaited' = [awaited EXCEPT ![g] = given]
  /\ Goto(c, "setcount")
  /\ UNCHANGED <<entryVars, evGroup, queued, running, current, index, toSend, dropped>>

SetCount(c) ==
  /\ pc[c] = "setcount"
  /\ count' = [count EXCEPT ![apply[c].group] = apply[c].count]
  /\ Goto(c, "setnum")
  /\ UNCHANGED <<allocated, numNotif, notif, eventVars, running, current, index, apply, ruleVars>>

\* Apply returns: from now on the application may send to the group.
ApplyReturns(c) ==
  /\ toSend' = [toSend EXCEPT ![apply[c].group] = apply[c].count]
  /\ apply' = [apply EXCEPT ![c] = NoApply]
  /\ index' = [index EXCEPT ![c] = 0]
  /\ Resume(c)

SetNum(c) ==
  LET n == Cardinality(DOMAIN apply[c].tbl) IN
  /\ pc[c] = "setnum"
  /\ numNotif' = [numNotif EXCEPT ![apply[c].group] = n]
  /\ IF n > 0 THEN Goto(c, "settbl") /\ UNCHANGED <<index, apply, toSend>>
     ELSE ApplyReturns(c)
  /\ UNCHANGED <<allocated, count, notif, eventVars, running, current, awaited, dropped>>

SetTbl(c) ==
  LET i == index[c] IN
  /\ pc[c] = "settbl"
  /\ notif' = [notif EXCEPT ![apply[c].group][i] = apply[c].tbl[i]]
  /\ IF i + 1 \in DOMAIN apply[c].tbl
     THEN index' = [index EXCEPT ![c] = i + 1] /\ UNCHANGED <<pc, apply, toSend>>
     ELSE ApplyReturns(c)
  /\ UNCHANGED <<allocated, count, numNotif, eventVars, running, current, awaited, dropped>>

\* Mutant: the new event is not added to the count.
IncrementForgotten(c) ==
  LET g == current[c] IN
  /\ pc[c] = "recv"
  /\ g # None
  /\ count[g] < MaxCount
  /\ toSend' = [toSend EXCEPT ![g] = @ + 1]
  /\ UNCHANGED <<entryVars, eventVars, coreVars, awaited, dropped>>

\* em_event_group_increment(1) in a receive function, for the event's group.
Increment(c) ==
  LET g == current[c] IN
  /\ pc[c] = "recv"
  /\ g # None
  /\ count[g] < MaxCount
  /\ count' = [count EXCEPT ![g] = @ + 1]
  /\ toSend' = [toSend EXCEPT ![g] = @ + 1]
  /\ UNCHANGED <<allocated, numNotif, notif, eventVars, coreVars, awaited, dropped>>

\* em_send_group to a queue that takes the event, or em_send (no group).
Send(c, e, g) ==
  /\ AppRuns(c)
  /\ e \in app
  /\ g # None => e \in Events /\ toSend[g] > 0
  /\ evGroup' = [evGroup EXCEPT ![e] = g]
  /\ queued' = [queued EXCEPT ![e] = @ + 1]
  /\ app' = app \ {e}
  /\ toSend' = IF g = None THEN toSend ELSE [toSend EXCEPT ![g] = @ - 1]
  /\ UNCHANGED <<entryVars, coreVars, awaited, dropped>>

-----------------------------------------------------------------------------
(* dispatch_event *)

\* The receive function is called with an event of a ready queue.
Receive(c, e) ==
  /\ pc[c] = "idle"
  /\ queued[e] > 0
  /\ queued' = [queued EXCEPT ![e] = @ - 1]
  /\ app' = app \cup {e}
  /\ awaited' = [g \in Groups |-> awaited[g] \ {e}]
  /\ current' = [current EXCEPT ![c] = evGroup[e]]
  /\ running' = [running EXCEPT ![c] = TRUE]
  /\ Goto(c, "recv")
  /\ UNCHANGED <<entryVars, evGroup, index, apply, toSend, dropped>>

\* The event's queue is not ready: em_free, and no word to the group.  (A buffer
\* of the pool is the application's to allocate again; a lost notification is
\* not looked at any further.)
DropEvent(c, e) ==
  /\ Lossy
  /\ pc[c] = "idle"
  /\ queued[e] > 0
  /\ queued' = [queued EXCEPT ![e] = @ - 1]
  /\ app' = app \cup ({e} \cap Events)
  /\ dropped' = [g \in Groups |->
       IF evGroup[e] = g \/ e \in awaited[g] THEN dropped[g] + 1 ELSE dropped[g]]
  /\ UNCHANGED <<entryVars, evGroup, coreVars, toSend, awaited>>

\* The receive function returns.  current_event_group keeps its value.
ReceiveReturns(c) ==
  /\ pc[c] = "recv"
  /\ running' = [running EXCEPT ![c] = FALSE]
  /\ Goto(c, IF current[c] # None THEN "update" ELSE "idle")
  /\ UNCHANGED <<entryVars, eventVars, current, index, apply, ruleVars>>

\* Mutant: the last but one event already notifies.
UpdateEarly(c) ==
  LET g == current[c] IN
  /\ pc[c] = "update"
  /\ count' = [count EXCEPT ![g] = @ - 1]
  /\ Goto(c, IF count[g] \in {1, 2} THEN "notify" ELSE "idle")
  /\ UNCHANGED <<allocated, numNotif, notif, eventVars, running, current, index, apply, ruleVars>>

\* Mutant: nobody looks whether the count has come down to zero.
UpdateForgets(c) ==
  LET g == current[c] IN
  /\ pc[c] = "update"
  /\ count' = [count EXCEPT ![g] = @ - 1]
  /\ Goto(c, "idle")
  /\ UNCHANGED <<allocated, numNotif, notif, eventVars, running, current, index, apply, ruleVars>>

\* event_group_count_update: the one that counts down to zero sends the
\* notifications.  (A count that is zero already is reported as an error.)
Update(c) ==
  LET g == current[c] IN
  /\ pc[c] = "update"
  /\ count' = IF count[g] = 0 THEN count ELSE [count EXCEPT ![g] = @ - 1]
  /\ Goto(c, IF count[g] = 1 THEN "notify" ELSE "idle")
  /\ UNCHANGED <<allocated, numNotif, notif, eventVars, running, current, index, apply, ruleVars>>

\* One round of the loop over notif_tbl.  The status of em_send is not looked at:
\* a notification that a full queue refuses is sent nowhere.
Notify(c) ==
  LET g == current[c]
      i == index[c]
      e == notif[g][i] IN
  /\ pc[c] = "notify"
  /\ IF i < numNotif[g]
     THEN /\ index' = [index EXCEPT ![c] = i + 1]
          /\ evGroup' = [evGroup EXCEPT ![e] = None]
          /\ \/ queued' = [queued EXCEPT ![e] = @ + 1] /\ UNCHANGED dropped
             \/ Lossy /\ dropped' = [dropped EXCEPT ![g] = @ + 1] /\ UNCHANGED queued
          /\ UNCHANGED pc
     ELSE /\ index' = [index EXCEPT ![c] = 0]
          /\ Goto(c, "idle")
          /\ UNCHANGED <<evGroup, queued, dropped>>
  /\ UNCHANGED <<entryVars, app, running, current, apply, toSend, awaited>>

-----------------------------------------------------------------------------

AppStep(c) ==
  \/ Create(c)
  \/ Increment(c)
  \/ \E g \in Groups :
       \/ Delete(c, g)
       \/ \E n \in 1..MaxCount, tbl \in Tables : Apply(c, g, n, tbl)
  \/ \E e \in Events \cup Notifs, g \in Groups \cup {None} : Send(c, e, g)

EMStep(c) ==
  \/ SetCount(c) \/ SetNum(c) \/ SetTbl(c) \/ Update(c) \/ Notify(c)

Dispatch(c) == \E e \in Events \cup Notifs : Receive(c, e) \/ DropEvent(c, e)

Next == \E c \in Cores : AppStep(c) \/ EMStep(c) \/ Dispatch(c) \/ ReceiveReturns(c)

Spec == Init /\ [][Next]_vars

(* A running core takes its next step, a receive function returns, and the     *)
(* queues of every event are scheduled (AtomicQueue, EventuallyServed).        *)
Fairness ==
  /\ \A c \in Cores : WF_vars(EMStep(c)) /\ SF_vars(ReceiveReturns(c))
  /\ \A e \in Events \cup Notifs : SF_vars(\E c \in Cores : Receive(c, e) \/ DropEvent(c, e))

FairSpec == Spec /\ Fairness
-----------------------------------------------------------------------------
(* Properties *)

\* A count is never below zero, and the table is only read and written inside it.
TypeOK ==
  /\ allocated \in [Groups -> BOOLEAN]
  /\ count \in [Groups -> Nat] /\ numNotif \in [Groups -> 0..MaxNotif]
  /\ notif \in [Groups -> [0..MaxNotif - 1 -> Notifs \cup {None}]]
  /\ evGroup \in [Events \cup Notifs -> Groups \cup {None}]
  /\ queued \in [Events \cup Notifs -> Nat] /\ app \subseteq Events \cup Notifs
  /\ pc \in [Cores -> ControlPoints] /\ running \in [Cores -> BOOLEAN]
  /\ current \in [Cores -> Groups \cup {None}] /\ index \in [Cores -> 0..MaxNotif]
  /\ apply \in [Cores -> [group : Groups, count : 1..MaxCount, tbl : Tables] \cup {NoApply}]
  /\ toSend \in [Groups -> Nat] /\ dropped \in [Groups -> Nat]
  /\ awaited \in [Groups -> SUBSET Notifs]

\* Events of g that are in a queue, in a receive function or about to be counted.
InFlight(g) ==
  Cardinality({e \in Events : queued[e] > 0 /\ evGroup[e] = g})
  + Cardinality({c \in Cores : current[c] = g /\ (running[c] \/ pc[c] = "update")})

\* No apply is writing the group's entry.
Settled(g) == \A c \in Cores : apply[c].group # g

\* The count is what the application may still send, what is on its way and,
\* for ever, what a queue that is not ready has swallowed.
CountExact ==
  \A g \in Groups : Settled(g) /\ count[g] > 0 =>
    count[g] = toSend[g] + InFlight(g) + dropped[g]

\* "Notification events are sent when all (counted) events have been processed"
\* (em_intel_event_group.c:146): none is in a queue before.
NotifiedAtEnd ==
  \A g \in Groups : (\E e \in awaited[g] : queued[e] > 0) =>
    toSend[g] = 0 /\ InFlight(g) = 0 /\ Settled(g)

\* When everything that was asked to be counted has been sent and nothing was
\* lost, the notifications arrive.
EventuallyNotified ==
  \A g \in Groups : \A e \in Notifs :
    e \in awaited[g] /\ toSend[g] = 0 /\ Settled(g) ~>
      e \notin awaited[g] \/ toSend[g] > 0 \/ dropped[g] > 0
=============================================================================
