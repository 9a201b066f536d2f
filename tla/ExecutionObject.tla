-------------------------- MODULE ExecutionObject --------------------------
(***************************************************************************)
(* The life of an execution object (EO) and of its queues.                 *)
(*                                                                         *)
(* Queues are created, added to the EO, enabled, disabled, removed from it *)
(* and deleted; their elements and their rings come from pools and go back *)
(* to them.  The EO is started and stopped: its global functions run on    *)
(* one core, its local ones on every core, asked for by internal events.   *)
(* Meanwhile the cores go on to schedule: elements of queues that are      *)
(* about to be disabled are in the sched-queue, their events in bursts.    *)
(*                                                                         *)
(* One EO; atomic queues of one group that all cores are in and that share *)
(* one sched-queue.  What AtomicQueue, QueueGroup and EventGroup model in  *)
(* detail is one step here: a send, the release of an element, the         *)
(* sending of a request to all cores.  The scheduling masks are left out.  *)
(***************************************************************************)
EXTENDS Integers, Sequences, FiniteSets, SequencesExt

CONSTANTS
  Cores,      \* running EM cores
  Managers,   \* the cores from which the application configures EO and queues
  Queues,     \* queue ids
  Static,     \* those of the static range
  Events,
  Burst,      \* MAX_E_BULK_ATOMIC
  StopLocal,  \* TRUE: the EO has a local stop function (and a local start function)
  Drains,     \* TRUE: a queue is removed only when all of its events have come back
  None        \* no queue, no core

ASSUME ConstantsAssumption ==
  /\ IsFiniteSet(Cores) /\ Cores # {} /\ Managers \subseteq Cores
  /\ IsFiniteSet(Queues) /\ IsFiniteSet(Events) /\ Static \subseteq Queues
  /\ Burst \in Nat \ {0}
  /\ StopLocal \in BOOLEAN /\ Drains \in BOOLEAN
  /\ None \notin Queues \cup Cores
  /\ {"START", "STOP", "DISABLE"} \cap Queues = {}

VARIABLES
  queuePool,  \* em_dyn_queue_pool: Seq(Queues \ Static), taken at the front, put back at the end
  status,     \* [Queues -> Statuses]
  queueList,  \* the EO's queue_list: Seq(Queues)
  ring,       \* [Queues -> Nat]: q_elem->rte_ring, 0 if it never had one
  freeRings,  \* queue_init_rings.atomic_rings: Seq of rings
  content,    \* what the rings hold: Seq(Seq(Events)), one for every ring ever made
  eventCount, \* [Queues -> Nat]
  schedCount, \* [Queues -> 0..1]
  schedQueue, \* Seq(Queues): queue elements to be scheduled
  free,       \* events in the event pool
  inbox,      \* [Cores -> Seq(Operations)]: internal events
  left,       \* [Operations -> Nat]: count of the operation's event group
  done,       \* Seq(Operations): 'done' events in the shared internal queue
  elem,       \* [Cores -> Queues \cup {None}]: queue element the core has taken
  burst,      \* [Cores -> Seq(Events)]: events taken with it, not yet dispatched
  taken,      \* [Cores -> Nat]: how many it took
  running,    \* [Cores -> Queues \cup {None}]: receive function it is in
  function,   \* [Cores -> Functions]: function of the EO it is in
  caller,     \* the core in an API call that takes several steps, or None
  call,       \* what it is doing: [goal : Statuses, rest : Seq(Queues), op : Operations]
  life,       \* what the application knows of the EO
  removing,   \* queues whose removal has not been notified yet
  removed,    \* queues whose removal has, neither deleted nor added again yet
  started     \* cores that have returned from the local start function

poolVars == <<queuePool, ring, freeRings>>
queueVars == <<status, queueList>>
eventVars == <<content, eventCount, schedCount, schedQueue, free>>
internalVars == <<inbox, left, done>>
coreVars == <<elem, burst, taken, running>>
callVars == <<caller, call>>
ruleVars == <<life, removing, removed, started>>
vars == <<poolVars, queueVars, eventVars, internalVars, coreVars, function, callVars, ruleVars>>

Statuses == {"INVALID", "INIT", "BIND", "READY"}

\* What an internal event is sent to all cores for; the removal of a queue is named
\* by the queue.
Operations == {"START", "STOP", "DISABLE"} \cup Queues

Functions == {"none", "start", "start_local", "stop_local", "stop"}

NoCall == [goal |-> "INVALID", rest |-> <<>>, op |-> "DISABLE"]

Init ==
  /\ queuePool = SetToSeq(Queues \ Static)
  /\ status = [q \in Queues |-> "INVALID"]
  /\ queueList = <<>>
  /\ ring = [q \in Queues |-> 0]
  /\ freeRings = <<>> /\ content = <<>>
  /\ eventCount = [q \in Queues |-> 0] /\ schedCount = [q \in Queues |-> 0]
  /\ schedQueue = <<>>
  /\ free = Events
  /\ inbox = [c \in Cores |-> <<>>]
  /\ left = [o \in Operations |-> 0]
  /\ done = <<>>
  /\ elem = [c \in Cores |-> None]
  /\ burst = [c \in Cores |-> <<>>]
  /\ taken = [c \in Cores |-> 0]
  /\ running = [c \in Cores |-> None]
  /\ function = [c \in Cores |-> "none"]
  /\ caller = None /\ call = NoCall
  /\ life = "free"
  /\ removing = {} /\ removed = {}
  /\ started = {}

\* The application runs on core c: in a receive function, in a function of the EO, or
\* between two schedulings (an application's main does so at startup).
AppRuns(c) == caller # c /\ (elem[c] = None \/ running[c] # None)

\* The application configures from one core at a time, and not from local functions.
MayConfigure(c) ==
  /\ AppRuns(c) /\ c \in Managers
  /\ caller = None
  /\ function[c] \in {"none", "start", "stop"}
  /\ \A d \in Cores \ {c} : function[d] \notin {"start", "stop"}

\* Core c is about to schedule.
AtSchedule(c) == elem[c] = None /\ function[c] = "none" /\ caller # c

ListHas(q) == \E i \in 1..Len(queueList) : queueList[i] = q

\* eo_add_queue, eo_rem_queue
ListAdd(q) == queueList' = Append(queueList, q)
ListRemove(q) ==
  \E i \in 1..Len(queueList) : queueList[i] = q /\ queueList' = RemoveAt(queueList, i)

-----------------------------------------------------------------------------
(* Queues *)

\* queue_init__ring_create: a ring that a deleted queue gave back, whose events are
\* freed, or a new one.
CreateRing(q) ==
  IF freeRings # <<>>
  THEN LET r == Head(freeRings) IN
       /\ ring' = [ring EXCEPT ![q] = r]
       /\ freeRings' = Tail(freeRings)
       /\ content' = [content EXCEPT ![r] = <<>>]
       /\ free' = free \cup ToSet(content[r])
  ELSE /\ ring' = [ring EXCEPT ![q] = Len(content) + 1]
       /\ content' = Append(content, <<>>)
       /\ UNCHANGED <<freeRings, free>>

\* queue_alloc: the id that has been in the pool for longest.
AllocQueue(q) ==
  /\ queuePool # <<>> /\ q = Head(queuePool)
  /\ queuePool' = Tail(queuePool)

\* queue_init of an atomic queue: it is not scheduled and has no events.
InitQueue(q) ==
  /\ CreateRing(q)
  /\ status' = [status EXCEPT ![q] = "INIT"]
  /\ eventCount' = [eventCount EXCEPT ![q] = 0]
  /\ schedCount' = [schedCount EXCEPT ![q] = 0]

\* em_queue_create
CreateQueue(c) ==
  /\ MayConfigure(c)
  /\ \E q \in Queues : AllocQueue(q) /\ InitQueue(q)
  /\ UNCHANGED <<queueList, schedQueue, internalVars, coreVars, function,
                 callVars, ruleVars>>

\* em_queue_create_static: the id of the application's choice, if it is not in use.  (The
\* queue does not get into the list of its group, see DeleteQueue.  Bound: the application
\* creates the static queues after the dynamic ones.)
CreateStaticQueue(c, q) ==
  /\ MayConfigure(c)
  /\ \A p \in Queues \ Static : status[p] # "INVALID"
  /\ q \in Static /\ status[q] = "INVALID"
  /\ InitQueue(q)
  /\ UNCHANGED <<queuePool, queueList, schedQueue, internalVars, coreVars, function,
                 callVars, ruleVars>>

\* queue_delete__ring_free: the ring keeps what is in it until it serves again.
FreeRing(q) == freeRings' = Append(freeRings, ring[q])

\* em_queue_delete.  The application deletes a queue that it has removed from the EO
\* and been notified of ("can *only* be done after ...", em_intel.c:897); a static one,
\* which is in no list, only when there is no list to take it off: the code would follow
\* its null pointers (em_intel_queue_group.c:971).
DeleteQueue(c, q) ==
  /\ MayConfigure(c)
  /\ q \in removed
  /\ q \notin Static
  /\ FreeRing(q)
  /\ status' = [status EXCEPT ![q] = "INVALID"]
  /\ queuePool' = Append(queuePool, q)
  /\ removed' = removed \ {q}
  /\ UNCHANGED <<ring, queueList, eventVars, internalVars, coreVars, function,
                 callVars, life, removing, started>>

\* em_eo_add_queue.  (The code does not look at the state of queue or EO: the
\* application adds a queue that is new, or again one whose removal has been notified,
\* which is still bound.)
AddQueue(c, q) ==
  /\ MayConfigure(c)
  /\ life \in {"created", "starting", "started"}
  /\ status[q] = "INIT" \/ q \in removed
  /\ status' = [status EXCEPT ![q] = "BIND"]
  /\ ListAdd(q)
  /\ removed' = removed \ {q}
  /\ UNCHANGED <<poolVars, eventVars, internalVars, coreVars, function, callVars, life,
                 removing, started>>

\* queue_state_change of one queue.  (What becomes of the masks is QueueGroup's; here a
\* core may look at the sched-queue whatever they say, see Take.)
ChangeState(q, new) == status' = [status EXCEPT ![q] = new]

\* em_queue_enable: a queue of the EO, not while the EO is stopping or stopped.
\* (A second em_queue_enable counts the queue twice: the application avoids it.)
EnableQueue(c, q) ==
  /\ MayConfigure(c)
  /\ life \in {"starting", "started"}
  /\ status[q] = "BIND" /\ ListHas(q)
  /\ ChangeState(q, "READY")
  /\ UNCHANGED <<poolVars, queueList, eventVars, internalVars, coreVars, function,
                 callVars, ruleVars>>

\* The events that the application has sent to q and that have not come back to it:
\* those in its ring, and those in a burst but the one being received.
Back(q) ==
  /\ content[ring[q]] = <<>>
  /\ \A c \in Cores : elem[c] = q => Len(burst[c]) = IF running[c] = q THEN 1 ELSE 0

\* Mutant: the cores that are at work on an event are not waited for.
RequestIdle(o) ==
  LET idle == {c \in Cores : elem[c] = None} IN
  /\ left' = [left EXCEPT ![o] = Cardinality(idle)]
  /\ inbox' = [c \in Cores |-> IF c \in idle THEN Append(inbox[c], o) ELSE inbox[c]]
  /\ done' = IF idle = {} THEN Append(done, o) ELSE done

\* em_internal_notif with the mask of all cores: the event group is applied, and an
\* internal event sent to every core's queue.
Request(o) ==
  /\ left' = [left EXCEPT ![o] = Cardinality(Cores)]
  /\ inbox' = [c \in Cores |-> Append(inbox[c], o)]
  /\ UNCHANGED done

\* eo_local_func_call_req: the local start or stop function is to be called on every core.
EoLocalFuncCall(o) == Request(o)

\* em_eo_remove_queue: disable the queue if it is enabled, take it off the EO's list,
\* and have a notification sent when every core has been at its internal queue.
RemoveQueue(c, q) ==
  /\ MayConfigure(c)
  /\ ListHas(q)
  /\ Drains => Back(q)
  /\ IF status[q] = "READY" THEN ChangeState(q, "BIND") ELSE UNCHANGED status
  /\ ListRemove(q)
  /\ Request(q)
  /\ removing' = removing \cup {q}
  /\ UNCHANGED <<poolVars, eventVars, coreVars, function, callVars, life, removed, started>>

-----------------------------------------------------------------------------
(* The EO *)

\* em_eo_create
EoCreate(c) ==
  /\ MayConfigure(c)
  /\ life = "free"
  /\ life' = "created"
  /\ queueList' = <<>>
  /\ UNCHANGED <<poolVars, status, eventVars, internalVars, coreVars, function,
                 callVars, removing, removed, started>>

\* em_eo_delete: the element goes back to the pool, whatever its state.  ("EO can only
\* be deleted after it has been stopped", em_intel.c:1441; the application also
\* removes its queues itself, for the code does not.)
EoDelete(c) ==
  /\ MayConfigure(c)
  /\ life \in {"created", "stopped"}
  /\ queueList = <<>>
  /\ life' = "free"
  /\ UNCHANGED <<poolVars, queueVars, eventVars, internalVars, coreVars, function,
                 callVars, removing, removed, started>>

\* em_eo_start calls the global start function, on the calling core.
EoStart(c) ==
  /\ MayConfigure(c) /\ function[c] = "none"
  /\ life \in {"created", "stopped"}
  /\ life' = "starting"
  /\ started' = {}
  /\ function' = [function EXCEPT ![c] = "start"]
  /\ UNCHANGED <<poolVars, queueVars, eventVars, internalVars, coreVars, callVars,
                 removing, removed>>

\* It returns EM_OK: em_eo_start_local, or only the notification is asked for
\* (EO_START_REQ).
StartReturns(c) ==
  /\ function[c] = "start" /\ caller # c
  /\ function' = [function EXCEPT ![c] = "none"]
  /\ IF StopLocal THEN EoLocalFuncCall("START") ELSE Request("START")
  /\ UNCHANGED <<poolVars, queueVars, eventVars, coreVars, callVars, ruleVars>>

\* It returns an error: em_eo_start returns it, and asks for nothing.  (Queues that the
\* application enabled meanwhile stay enabled.)
StartFails(c) ==
  /\ function[c] = "start" /\ caller # c
  /\ function' = [function EXCEPT ![c] = "none"]
  /\ life' = "created"
  /\ UNCHANGED <<poolVars, queueVars, eventVars, internalVars, coreVars, callVars,
                 removing, removed, started>>

\* The application calls em_eo_stop; or em_queue_enable_all or em_queue_disable_all,
\* with a notification: queue_state_change goes through the EO's list.
ChangeAll(c, new, o) ==
  /\ MayConfigure(c) /\ function[c] = "none"
  /\ caller' = c
  /\ call' = [goal |-> new, rest |-> queueList, op |-> o]
  /\ UNCHANGED <<poolVars, queueVars, eventVars, internalVars, coreVars, function,
                 removing, removed, started>>

EnableAll(c) ==
  /\ life = "started"
  /\ \A i \in 1..Len(queueList) : status[queueList[i]] = "BIND"
  /\ ChangeAll(c, "READY", "START")
  /\ UNCHANGED life

DisableAll(c) ==
  /\ life = "started"
  /\ left["DISABLE"] = 0 /\ ~Contains(done, "DISABLE")
  /\ ChangeAll(c, "BIND", "DISABLE")
  /\ UNCHANGED life

\* em_eo_stop, also while the local start functions still run.
EoStop(c) ==
  /\ life \in {"starting", "started"}
  /\ \A d \in Cores : function[d] # "start"
  /\ ChangeAll(c, "BIND", "STOP")
  /\ life' = "stopping"

\* The next queue of the list.
ChangeNext(c) ==
  /\ caller = c /\ call.rest # <<>>
  /\ ChangeState(Head(call.rest), call.goal)
  /\ call' = [call EXCEPT !.rest = Tail(@)]
  /\ UNCHANGED <<poolVars, queueList, eventVars, internalVars, coreVars, function,
                 caller, ruleVars>>

\* Mutant: the global stop function is called, and its end notified, without waiting
\* for the local ones.
ChangeEndsAtOnce(c) ==
  /\ caller = c /\ call.rest = <<>>
  /\ caller' = None /\ call' = NoCall
  /\ IF call.goal = "BIND"
     THEN /\ Request(call.op)
          /\ function' = IF call.op = "STOP" THEN [function EXCEPT ![c] = "stop"]
                         ELSE function
     ELSE UNCHANGED <<internalVars, function>>
  /\ UNCHANGED <<poolVars, queueVars, eventVars, coreVars, ruleVars>>

\* After the last one: a disable asks for its notification; em_eo_stop calls
\* em_eo_stop_local, or without local functions the global one right away.
ChangeEnds(c) ==
  /\ caller = c /\ call.rest = <<>>
  /\ caller' = None /\ call' = NoCall
  /\ CASE call.goal = "READY" -> UNCHANGED <<internalVars, function>>
       [] call.op = "STOP" /\ ~StopLocal ->
            /\ function' = [function EXCEPT ![c] = "stop"]
            /\ UNCHANGED internalVars
       [] call.op = "STOP" /\ StopLocal ->
            EoLocalFuncCall("STOP") /\ UNCHANGED function
       [] OTHER -> Request(call.op) /\ UNCHANGED function
  /\ UNCHANGED <<poolVars, queueVars, eventVars, coreVars, ruleVars>>

-----------------------------------------------------------------------------
(* Internal events *)

\* Mutant: the 'done' event is sent one event too late, that is never.
CountDownLate(o) ==
  /\ left' = [left EXCEPT ![o] = @ - 1]
  /\ done' = IF left[o] = 0 THEN Append(done, o) ELSE done

\* event_group_count_update: the last event has the 'done' event sent.
CountDown(o) ==
  /\ left' = [left EXCEPT ![o] = @ - 1]
  /\ done' = IF left[o] = 1 THEN Append(done, o) ELSE done

\* em_internal_event_receive_func: a local function is called; for the others it is
\* enough that the core is here.
Handle(c) ==
  /\ AtSchedule(c)
  /\ inbox[c] # <<>>
  /\ LET o == Head(inbox[c]) IN
       IF StopLocal /\ o \in {"START", "STOP"}
       THEN /\ function' = [function EXCEPT ![c] =
                 IF o = "START" THEN "start_local" ELSE "stop_local"]
            /\ UNCHANGED <<left, done>>
       ELSE CountDown(o) /\ UNCHANGED function
  /\ inbox' = [inbox EXCEPT ![c] = Tail(@)]
  /\ UNCHANGED <<poolVars, queueVars, eventVars, coreVars, callVars, ruleVars>>

\* A local function returns; the dispatcher counts its event.
LocalReturns(c) ==
  /\ function[c] \in {"start_local", "stop_local"}
  /\ started' = IF function[c] = "start_local" THEN started \cup {c} ELSE started \ {c}
  /\ CountDown(IF function[c] = "start_local" THEN "START" ELSE "STOP")
  /\ function' = [function EXCEPT ![c] = "none"]
  /\ UNCHANGED <<poolVars, queueVars, eventVars, inbox, coreVars, callVars, life,
                 removing, removed>>

\* The application receives the notification of o.
Notified(o) ==
  /\ life' = CASE o = "START" /\ life = "starting" -> "started"
               [] o = "STOP" -> "stopped"
               [] OTHER -> life
  /\ removing' = removing \ {o}
  /\ removed' = removed \cup ({o} \cap Queues)

\* Mutant: the notifications are sent before the callback runs.
DoneNotifiesFirst(c) ==
  /\ AtSchedule(c)
  /\ done # <<>>
  /\ done' = Tail(done)
  /\ Notified(Head(done))
  /\ function' = IF Head(done) = "STOP" THEN [function EXCEPT ![c] = "stop"] ELSE function
  /\ UNCHANGED <<poolVars, queueVars, eventVars, inbox, left, coreVars, callVars, started>>

\* i_event__em_internal_done: the callback of a stop calls the global stop function;
\* then the notifications are sent.
Done(c) ==
  /\ AtSchedule(c)
  /\ done # <<>>
  /\ done' = Tail(done)
  /\ IF Head(done) = "STOP" /\ StopLocal
     THEN /\ function' = [function EXCEPT ![c] = "stop"]
          /\ UNCHANGED <<life, removing, removed>>
     ELSE /\ Notified(Head(done))
          /\ UNCHANGED function
  /\ UNCHANGED <<poolVars, queueVars, eventVars, inbox, left, coreVars, callVars, started>>

\* The global stop function returns: to the callback, or to em_eo_stop, which then asks
\* for the notification (EO_STOP_REQ).
StopReturns(c) ==
  /\ function[c] = "stop"
  /\ function' = [function EXCEPT ![c] = "none"]
  /\ IF StopLocal
     THEN Notified("STOP") /\ UNCHANGED internalVars
     ELSE Request("STOP") /\ UNCHANGED <<life, removing, removed>>
  /\ UNCHANGED <<poolVars, queueVars, eventVars, coreVars, callVars, started>>

-----------------------------------------------------------------------------
(* Events *)

\* The application allocates e and sends it to q: em_send_atomic.
Send(c, q, e) ==
  /\ AppRuns(c)
  /\ e \in free
  /\ status[q] # "INVALID"
  /\ q \notin removing \cup removed
  /\ free' = free \ {e}
  /\ content' = [content EXCEPT ![ring[q]] = Append(@, e)]
  /\ eventCount' = [eventCount EXCEPT ![q] = @ + 1]
  /\ IF eventCount[q] = 0 /\ schedCount[q] = 0
     THEN /\ schedCount' = [schedCount EXCEPT ![q] = 1]
          /\ schedQueue' = Append(schedQueue, q)
     ELSE UNCHANGED <<schedCount, schedQueue>>
  /\ UNCHANGED <<poolVars, queueVars, internalVars, coreVars, function, callVars, ruleVars>>

\* em_schedule_atomic: take the first element and as many of its events as are counted.
\* (They are in the ring: AtomicQueue.  A core's look at the sched-queue may come after
\* its bit was cleared, so the masks do not guard it.)
Take(c) ==
  /\ AtSchedule(c)
  /\ schedQueue # <<>>
  /\ LET q == Head(schedQueue)
         r == ring[q]
         n == IF eventCount[q] < Burst THEN eventCount[q] ELSE Burst IN
       IF n <= Len(content[r])
       THEN /\ elem' = [elem EXCEPT ![c] = q]
            /\ taken' = [taken EXCEPT ![c] = n]
            /\ burst' = [burst EXCEPT ![c] = SubSeq(content[r], 1, n)]
            /\ content' = [content EXCEPT ![r] = SubSeq(@, n + 1, Len(@))]
       ELSE UNCHANGED <<elem, taken, burst, content>>
  /\ schedQueue' = Tail(schedQueue)
  /\ UNCHANGED <<poolVars, queueVars, eventCount, schedCount, free, internalVars, running,
                 function, callVars, ruleVars>>

\* dispatch_event: the receive function is called if the queue is ready.  (From the test
\* of the status on, the core counts as in the receive function.)
Dispatch(c) ==
  /\ burst[c] # <<>> /\ running[c] = None
  /\ status[elem[c]] = "READY"
  /\ running' = [running EXCEPT ![c] = elem[c]]
  /\ UNCHANGED <<poolVars, queueVars, eventVars, internalVars, elem, burst, taken,
                 function, callVars, ruleVars>>

\* Mutant: the event of a queue that is not ready is not freed.
DropLoses(c) ==
  /\ burst[c] # <<>> /\ running[c] = None
  /\ status[elem[c]] # "READY"
  /\ burst' = [burst EXCEPT ![c] = Tail(@)]
  /\ UNCHANGED <<poolVars, queueVars, eventVars, internalVars, elem, taken, running,
                 function, callVars, ruleVars>>

\* dispatch_event of a queue that is not ready.
DropEvent(c) ==
  /\ burst[c] # <<>> /\ running[c] = None
  /\ status[elem[c]] # "READY"
  /\ burst' = [burst EXCEPT ![c] = Tail(@)]
  /\ free' = free \cup {Head(burst[c])}
  /\ UNCHANGED <<poolVars, queueVars, content, eventCount, schedCount, schedQueue,
                 internalVars, elem, taken, running, function, callVars, ruleVars>>

\* The receive function frees its event and returns.
ReceiveReturns(c) ==
  /\ running[c] # None /\ caller # c /\ function[c] = "none"
  /\ running' = [running EXCEPT ![c] = None]
  /\ burst' = [burst EXCEPT ![c] = Tail(@)]
  /\ free' = free \cup {Head(burst[c])}
  /\ UNCHANGED <<poolVars, queueVars, content, eventCount, schedCount, schedQueue,
                 internalVars, elem, taken, function, callVars, ruleVars>>

\* The burst is finished: the element goes back to the sched-queue if events are
\* counted; or if the compare-and-set that ends its scheduling fails.
PutBack(c) ==
  /\ elem[c] # None /\ burst[c] = <<>> /\ running[c] = None
  /\ LET q == elem[c]
         n == eventCount[q] - taken[c] IN
       /\ eventCount' = [eventCount EXCEPT ![q] = n]
       /\ IF n = 0 /\ schedCount[q] = 1
          THEN schedCount' = [schedCount EXCEPT ![q] = 0] /\ UNCHANGED schedQueue
          ELSE schedQueue' = Append(schedQueue, q) /\ UNCHANGED schedCount
  /\ elem' = [elem EXCEPT ![c] = None]
  /\ taken' = [taken EXCEPT ![c] = 0]
  /\ UNCHANGED <<poolVars, queueVars, content, free, internalVars, burst, running,
                 function, callVars, ruleVars>>

-----------------------------------------------------------------------------

AppStep(c) ==
  \/ CreateQueue(c) \/ EoCreate(c) \/ EoDelete(c) \/ EoStart(c)
  \/ EoStop(c) \/ EnableAll(c) \/ DisableAll(c)
  \/ \E q \in Queues :
       \/ CreateStaticQueue(c, q) \/ DeleteQueue(c, q)
       \/ AddQueue(c, q) \/ EnableQueue(c, q) \/ RemoveQueue(c, q)
       \/ \E e \in Events : Send(c, q, e)

\* Functions of the application return.
Returns(c) == StartReturns(c) \/ StartFails(c) \/ LocalReturns(c) \/ StopReturns(c)
              \/ ReceiveReturns(c)

CallStep(c) == ChangeNext(c) \/ ChangeEnds(c)

DispatchStep(c) == Dispatch(c) \/ DropEvent(c) \/ PutBack(c)

Next ==
  \E c \in Cores :
    \/ AppStep(c) \/ Returns(c) \/ CallStep(c) \/ DispatchStep(c)
    \/ Take(c) \/ Handle(c) \/ Done(c)

Spec == Init /\ [][Next]_vars

(* What a core has begun it goes on with: calls, functions of the application and   *)
(* bursts end.  It comes back to its internal queue and to the shared one, whatever *)
(* else it schedules in between (hence the strong fairness).                        *)
Fairness ==
  /\ \A c \in Cores : /\ WF_vars(Returns(c) \/ CallStep(c) \/ DispatchStep(c))
                      /\ SF_vars(Handle(c))
  /\ SF_vars(\E c \in Cores : Done(c))

FairSpec == Spec /\ Fairness
-----------------------------------------------------------------------------
(* Properties *)

\* How many elements q has: in the sched-queue, and taken by cores.
Places(q) == Cardinality({i \in 1..Len(schedQueue) : schedQueue[i] = q})
             + Cardinality({c \in Cores : elem[c] = q})

\* When the removal of a queue has been notified, nothing of it is left in the
\* scheduler: no element, no event, no core that runs it; and so its id and its ring
\* can serve another queue.  A queue that is not deleted has one element if its
\* sched_count says so.
DeletedIsIdle ==
  \A q \in Queues :
    /\ Places(q) = IF status[q] = "INVALID" THEN 0 ELSE schedCount[q]
    /\ q \in removed => content[ring[q]] = <<>> /\ Places(q) = 0

\* An event is free, in one ring or in one burst, however queues are deleted and their
\* rings used again.
OnePlace ==
  \A e \in Events :
    Cardinality({r \in 1..Len(content) : Contains(content[r], e)})
      + Cardinality({c \in Cores : Contains(burst[c], e)})
      + (IF e \in free THEN 1 ELSE 0) = 1

\* "This guarantees no core is accessing EO data during EO global stop function"
\* (em_intel.c:1791): while it runs no core is in a receive function of the EO or in
\* one of its local functions.
StopIsQuiet ==
  (\E c \in Cores : function[c] = "stop") =>
    \A c \in Cores : running[c] = None /\ function[c] \in {"none", "stop"}

\* The notification of a start comes when the local start function has returned on
\* every core, that of a stop when the local stop function has, on every core, and
\* after it the global one; also when the EO is stopped while it starts.
NotifiedInOrder ==
  StopLocal =>
    /\ life = "started" => started = Cores
    /\ life = "stopped" => started = {} /\ \A c \in Cores : function[c] = "none"

\* A stop is completed.
StopCompletes == life = "stopping" ~> life # "stopping"
=============================================================================
