----------------------------- MODULE QueueGroup -----------------------------
(***************************************************************************)
(* An EM queue group and the scheduling masks of the cores.                *)
(*                                                                         *)
(* The group is created and deleted, and its place in the table used again. *)
(* The group's core mask changes in phases: em_queue_group_modify sends an *)
(* internal event to every core that enters or leaves the group; each core *)
(* changes its own scheduling masks when it gets to the event, and the     *)
(* last one has a 'done' event sent that stores the new mask.  Meanwhile   *)
(* queues of the group are enabled and disabled, which changes the masks   *)
(* of all its cores from the calling core.  A core polls a sched-queue of  *)
(* the group (the one of a qidx) when both of its masks allow it; counts   *)
(* of the enabled queues behind every mask bit say when to clear it.       *)
(*                                                                         *)
(* The queues are of one type (every type has masks and counts of its own, *)
(* treated alike) and belong to an EO (ExecutionObject): their status is   *)
(* BIND or READY, or INVALID before they are created and once deleted; a   *)
(* core goes from one sched-queue to another as PollCursor has it.  The    *)
(* internal events go through event groups (EventGroup) and atomic queues  *)
(* (AtomicQueue), whose properties are used here.                          *)
(***************************************************************************)
EXTENDS Integers, Sequences, FiniteSets

CONSTANTS
  Cores,   \* running EM cores
  Queues,  \* the EM queues of the group
  Idx,     \* [Queues -> Nat]: the queue's sched-queue (queue & queue_mask)
  Notified, \* the queues whose disables ask for a notification
  Repeats, \* TRUE: a queue that is not enabled may be disabled (em_eo_stop does)
  Contends, \* TRUE: the application uses a group that it is deleting on another core
  None     \* no queue

ASSUME ConstantsAssumption ==
  /\ IsFiniteSet(Cores)
  /\ IsFiniteSet(Queues)
  /\ Idx \in [Queues -> Nat]
  /\ Notified \subseteq Queues
  /\ {Repeats, Contends} \subseteq BOOLEAN
  /\ None \notin Queues
  /\ {"ADD", "REM", "MODIFY"} \cap Queues = {}

VARIABLES
  allocated, \* em_queue_group[group].allocated
  list,     \* em_queue_group[group].list_head: a subset of Queues
  mask,     \* em_queue_group[group].mask
  pending,  \* em_queue_group[group].pending_modify
  newMask,  \* new_mask in the arguments of the modify's 'done' callback
  status,   \* [Queues -> {"INVALID", "BIND", "READY"}]
  qidxCnt,  \* [Cores -> [Idxs -> Nat]]: add_count...qidx_cnt
  grpCnt,   \* [Cores -> Nat]: add_count...q_grp_cnt
  qidxMask, \* [Cores -> SUBSET Idxs]: qidx_mask[group]
  grpMask,  \* cores with the group's bit in q_grp_mask
  member,   \* cores with the group's bit in current_group_mask (direct dispatch)
  inbox,    \* [Cores -> Seq(Requests)]: the core's internal queue
  left,     \* [Operations -> Nat]: count of the operation's event group
  done,     \* Seq(Operations): the 'done' events in the shared internal queue
  pc,       \* [Cores -> ControlPoints]: the API call the core is in
  arg,      \* [Cores -> Queues \cup {None}]: the queue it enables or disables
  toSend,   \* [Cores -> SUBSET (Cores \X Requests)]: internal events to send
  cursor,   \* [Cores -> Idxs \cup {None}]: the sched-queue of the group it is at
  running,  \* [Cores -> Queues \cup {None}]: receive function it is in
  asked,    \* queues disabled with a notification, and not enabled since
  quiet     \* those of them whose notification has been sent

tableVars == <<allocated, list>>
groupVars == <<tableVars, mask, pending, newMask>>
maskVars == <<qidxCnt, grpCnt, qidxMask, grpMask, member>>
eventVars == <<inbox, left, done>>
callVars == <<arg, toSend>>
coreVars == <<cursor, running>>
ruleVars == <<asked, quiet>>
vars == <<groupVars, status, maskVars, eventVars, pc, callVars, coreVars, ruleVars>>

Idxs == {Idx[q] : q \in Queues}

\* An internal event: QUEUE_GROUP_ADD_REQ, QUEUE_GROUP_REM_REQ or, with the queue,
\* EM_QUEUE_DISABLE.
Requests == {"ADD", "REM"} \cup Queues

\* What internal events are sent for: the modify of the group, or a disable.
Operations == {"MODIFY"} \cup Queues
OperationOf(r) == IF r \in Queues THEN r ELSE "MODIFY"

ControlPoints == {"idle", "add", "rem", "send", "delete"}

\* A free place in the table of groups, which no core's masks know.
InitGroup ==
  /\ allocated = FALSE /\ list = {}
  /\ mask = {} /\ pending = FALSE /\ newMask = {}
  /\ qidxCnt = [c \in Cores |-> [i \in Idxs |-> 0]]
  /\ grpCnt = [c \in Cores |-> 0]
  /\ qidxMask = [c \in Cores |-> {}]
  /\ grpMask = {}

\* The shared internal queue in the default group, and for every core one in a group of
\* its own: they are enabled at startup and stay so.
InitInternalQueues ==
  /\ inbox = [c \in Cores |-> <<>>]
  /\ done = <<>>

\* A core's group mask has its own group and the default one only.
InitLocal == member = {}

Init ==
  /\ InitGroup /\ InitInternalQueues /\ InitLocal
  /\ status = [q \in Queues |-> "INVALID"]
  /\ left = [o \in Operations |-> 0]
  /\ pc = [c \in Cores |-> "idle"]
  /\ arg = [c \in Cores |-> None]
  /\ toSend = [c \in Cores |-> {}]
  /\ cursor = [c \in Cores |-> None]
  /\ running = [c \in Cores |-> None]
  /\ asked = {} /\ quiet = {}

Goto(c, point) == pc' = [pc EXCEPT ![c] = point]

\* The application calls the API from a receive function, or between schedulings.
MayCall(c) == pc[c] = "idle"

\* The dispatcher of core c is about to call em_schedule.
AtSchedule(c) == pc[c] = "idle" /\ running[c] = None

\* A call that enables or disables a queue is reading or changing the masks.
Changing(c) == pc[c] \in {"add", "rem"}

\* em_queue_group_mask fails, fatally, while a modify is pending.  So the application
\* enables and disables queues at other times, as the documentation asks
\* (em_intel_queue_group.c:325 and 738); the mask is copied under a lock and used later.
MaskReadable == allocated /\ ~pending

\* The application's rule for a group that a core is deleting: it is left alone.
LeftAlone == Contends \/ \A d \in Cores : pc[d] # "delete"

\* The operation still waits for cores, or for its 'done' event.
UnderWay(o) == left[o] > 0 \/ \E i \in 1..Len(done) : done[i] = o

-----------------------------------------------------------------------------
(* em_queue_group_modify *)

\* The request for every core that enters or leaves the group.
Changes(old, new) ==
  {<<d, "REM">> : d \in old \ new} \cup {<<d, "ADD">> : d \in new \ old}

\* queue_group_modify up to em_internal_done_w_notif_req, for a new mask that is not the
\* old one.  (Bound: the requests of one modify at a time.)
Modify(c, old, new) ==
  /\ ~UnderWay("MODIFY")
  /\ pending' = TRUE
  /\ newMask' = new
  /\ toSend' = [toSend EXCEPT ![c] = Changes(old, new)]
  /\ left' = [left EXCEPT !["MODIFY"] = Cardinality(Changes(old, new))]
  /\ Goto(c, "send")
  /\ UNCHANGED <<status, maskVars, inbox, done, arg, coreVars, ruleVars>>

\* em_queue_group_modify: refused while a modify is pending; the same mask again changes
\* nothing.
ModifyGroup(c, new) ==
  /\ MayCall(c)
  /\ \A d \in Cores : ~Changing(d)
  /\ LeftAlone
  /\ allocated /\ ~pending
  /\ new # mask
  /\ Modify(c, mask, new)
  /\ UNCHANGED <<tableVars, mask>>

\* em_queue_group_create: a group without cores and queues, which is then modified unless
\* it is to have none.  (The application knows the group when the call returns: no other
\* call gets between.)
CreateGroup(c, new) ==
  /\ MayCall(c)
  /\ ~allocated
  /\ allocated' = TRUE /\ list' = {} /\ mask' = {}
  /\ \/ new # {} /\ Modify(c, {}, new)
     \/ /\ new = {} /\ pending' = FALSE
        /\ UNCHANGED <<newMask, status, maskVars, eventVars, pc, callVars, coreVars, ruleVars>>

\* em_queue_group_delete up to the first unlock: refused while a modify is pending.  The
\* group has no cores left: "Application must remove cores from the group ... before
\* calling the delete" (em_intel_queue_group.c:779), and no queues.  The mask is the one
\* asked for already: no modify is marked as pending.
DeleteGroup(c) ==
  /\ MayCall(c)
  /\ LeftAlone
  /\ allocated /\ ~pending
  /\ mask = {} /\ list = {}
  /\ Goto(c, "delete")
  /\ UNCHANGED <<groupVars, status, maskVars, eventVars, callVars, coreVars, ruleVars>>

\* q_grp_delete_done, under the lock again: the group's place in the table is cleared.
\* (A group that has cores or queues by now is a fatal error.)
DeleteDone(c) ==
  /\ pc[c] = "delete"
  /\ mask = {} /\ list = {}
  /\ allocated' = FALSE /\ pending' = FALSE
  /\ Goto(c, "idle")
  /\ UNCHANGED <<list, mask, newMask, status, maskVars, eventVars, callVars, coreVars, ruleVars>>

\* queue_group_add_queue_list: a queue is created in the group, and added to an EO.
CreateQueue(c, q) ==
  /\ MayCall(c)
  /\ allocated /\ LeftAlone
  /\ status[q] = "INVALID"
  /\ status' = [status EXCEPT ![q] = "BIND"]
  /\ list' = list \cup {q}
  /\ UNCHANGED <<allocated, mask, pending, newMask, maskVars, eventVars, pc, callVars,
                 coreVars, ruleVars>>

\* queue_group_rem_queue_list: a queue is deleted, after its removal from the EO has been
\* completed on all cores (ExecutionObject).
DeleteQueue(c, q) ==
  /\ MayCall(c)
  /\ status[q] = "BIND" /\ ~UnderWay(q)
  /\ \A d \in Cores : arg[d] # q /\ \A r \in toSend[d] : r[2] # q
  /\ status' = [status EXCEPT ![q] = "INVALID"]
  /\ list' = list \ {q}
  /\ asked' = asked \ {q} /\ quiet' = quiet \ {q}
  /\ UNCHANGED <<allocated, mask, pending, newMask, maskVars, eventVars, pc, callVars, coreVars>>

\* em_send_group of one internal event: those that remove come first.  (Within a
\* kind the code goes by core number; each event goes to a queue of its own.)
SendRequest(c) ==
  /\ pc[c] = "send"
  /\ \E r \in toSend[c] :
       /\ r[2] = "ADD" => \A s \in toSend[c] : s[2] = "ADD"
       /\ inbox' = [inbox EXCEPT ![r[1]] = Append(@, r[2])]
       /\ toSend' = [toSend EXCEPT ![c] = @ \ {r}]
       /\ Goto(c, IF toSend[c] = {r} THEN "idle" ELSE "send")
  /\ UNCHANGED <<groupVars, status, maskVars, left, done, arg, coreVars, ruleVars>>

-----------------------------------------------------------------------------
(* Internal events *)

EnabledHere(i) == {q \in list : status[q] = "READY" /\ Idx[q] = i}
EnabledListed == {q \in list : status[q] = "READY"}

\* sched_masks_add_queue_group__local: count the enabled queues of the group's list.
AddGroup(d) ==
  /\ qidxCnt' = [qidxCnt EXCEPT ![d] = [i \in Idxs |-> @[i] + Cardinality(EnabledHere(i))]]
  /\ grpCnt' = [grpCnt EXCEPT ![d] = @ + Cardinality(EnabledListed)]
  /\ qidxMask' = [qidxMask EXCEPT ![d] = @ \cup {Idx[q] : q \in EnabledListed}]
  /\ grpMask' = IF EnabledListed # {} THEN grpMask \cup {d} ELSE grpMask

\* Mutant: the counts are not reset.
RemoveGroupKeepsCounts(d) ==
  /\ qidxMask' = [qidxMask EXCEPT ![d] = {}]
  /\ grpMask' = grpMask \ {d}
  /\ UNCHANGED <<qidxCnt, grpCnt>>

\* sched_masks_rem_queue_group__local
RemoveGroup(d) ==
  /\ qidxCnt' = [qidxCnt EXCEPT ![d] = [i \in Idxs |-> 0]]
  /\ grpCnt' = [grpCnt EXCEPT ![d] = 0]
  /\ qidxMask' = [qidxMask EXCEPT ![d] = {}]
  /\ grpMask' = grpMask \ {d}

\* Mutant: the last event but one already has the 'done' event sent.
CountDownEarly(o) ==
  /\ left' = [left EXCEPT ![o] = @ - 1]
  /\ done' = IF left[o] \in {1, 2} THEN Append(done, o) ELSE done

\* Mutant: the 'done' event is not sent.
CountDownOnly(o) ==
  /\ left' = [left EXCEPT ![o] = @ - 1]
  /\ UNCHANGED done

\* The event group of operation o counts one event; after the last one the 'done'
\* event goes to the shared internal queue (EventGroup: exactly once).
CountDown(o) ==
  /\ left' = [left EXCEPT ![o] = @ - 1]
  /\ done' = IF left[o] = 1 THEN Append(done, o) ELSE done

\* Core d receives an internal event: nothing else runs on it meanwhile.
Handle(d) ==
  /\ AtSchedule(d)
  /\ inbox[d] # <<>>
  /\ LET r == Head(inbox[d]) IN
       /\ \/ r = "ADD" /\ AddGroup(d) /\ member' = member \cup {d}
          \/ r = "REM" /\ RemoveGroup(d) /\ member' = member \ {d}
          \/ r \in Queues /\ UNCHANGED maskVars
       /\ CountDown(OperationOf(r))
  /\ inbox' = [inbox EXCEPT ![d] = Tail(@)]
  /\ UNCHANGED <<groupVars, status, pc, callVars, coreVars, ruleVars>>

\* The 'done' event of operation o is the first in the shared internal queue.
NextDone(o) == done # <<>> /\ Head(done) = o /\ done' = Tail(done)

\* q_grp_modify_done_callback: the new mask becomes the group's.
ModifyDone(d) ==
  /\ AtSchedule(d)
  /\ NextDone("MODIFY")
  /\ mask' = newMask
  /\ pending' = FALSE
  /\ UNCHANGED <<tableVars, newMask, status, maskVars, inbox, left, pc, callVars, coreVars, ruleVars>>

\* i_event__em_internal_done of a disable: the notifications are sent.
DisableDone(d, q) ==
  /\ AtSchedule(d)
  /\ NextDone(q)
  /\ quiet' = quiet \cup ({q} \cap asked)
  /\ UNCHANGED <<groupVars, status, maskVars, inbox, left, pc, callVars, coreVars, asked>>

-----------------------------------------------------------------------------
(* em_queue_enable and em_queue_disable *)

\* queue_state_change to READY: the status comes first, the masks after it.
Enable(c, q) ==
  /\ MayCall(c)
  /\ MaskReadable
  /\ \A d \in Cores : arg[d] # q
  /\ status[q] = "BIND"
  /\ status' = [status EXCEPT ![q] = "READY"]
  /\ arg' = [arg EXCEPT ![c] = q]
  /\ Goto(c, "add")
  /\ asked' = asked \ {q} /\ quiet' = quiet \ {q}
  /\ UNCHANGED <<groupVars, maskVars, eventVars, toSend, coreVars>>

\* queue_state_change to BIND.  (Bound: one notified disable of a queue at a time.)
Disable(c, q) ==
  /\ MayCall(c)
  /\ MaskReadable
  /\ \A d \in Cores : arg[d] # q
  /\ status[q] = "READY" \/ (Repeats /\ status[q] = "BIND")
  /\ ~UnderWay(q)
  /\ status' = [status EXCEPT ![q] = "BIND"]
  /\ arg' = [arg EXCEPT ![c] = q]
  /\ asked' = asked \cup ({q} \cap Notified)
  /\ Goto(c, "rem")
  /\ UNCHANGED <<groupVars, maskVars, eventVars, toSend, coreVars, quiet>>

\* sched_masks_add_queue under sched_add_counts_lock.  A mask bit is set when its
\* count was zero.  A group without cores is an error, and the queue stays READY.  (The
\* call reads the group's mask twice before this step: no modify begins meanwhile.)
AddQueue(c) ==
  LET i == Idx[arg[c]] IN
  /\ pc[c] = "add"
  /\ qidxCnt' = [d \in Cores |-> IF d \in mask THEN [qidxCnt[d] EXCEPT ![i] = @ + 1]
                                 ELSE qidxCnt[d]]
  /\ grpCnt' = [d \in Cores |-> IF d \in mask THEN grpCnt[d] + 1 ELSE grpCnt[d]]
  /\ qidxMask' = [d \in Cores |-> IF d \in mask /\ qidxCnt[d][i] = 0
                                  THEN qidxMask[d] \cup {i} ELSE qidxMask[d]]
  /\ grpMask' = grpMask \cup {d \in mask : grpCnt[d] = 0}
  /\ Goto(c, "idle")
  /\ arg' = [arg EXCEPT ![c] = None]
  /\ UNCHANGED <<groupVars, status, member, eventVars, toSend, coreVars, ruleVars>>

\* sched_masks_rem_queue takes a group without cores for one of all cores.
CoresToChange == IF mask = {} THEN Cores ELSE mask

Less(n) == IF n > 0 THEN n - 1 ELSE 0

\* Mutant: the bits are cleared whatever the counts.
UncountClears(i) ==
  /\ qidxCnt' = [d \in Cores |-> IF d \in CoresToChange THEN [qidxCnt[d] EXCEPT ![i] = Less(@)]
                                 ELSE qidxCnt[d]]
  /\ grpCnt' = [d \in Cores |-> IF d \in CoresToChange THEN Less(grpCnt[d]) ELSE grpCnt[d]]
  /\ qidxMask' = [d \in Cores |-> IF d \in CoresToChange THEN qidxMask[d] \ {i} ELSE qidxMask[d]]
  /\ grpMask' = grpMask \ CoresToChange
  /\ UNCHANGED member

\* Under sched_add_counts_lock: counts go down, but not below zero; a bit is
\* cleared when its count was one.
Uncount(i) ==
  /\ qidxCnt' = [d \in Cores |-> IF d \in CoresToChange THEN [qidxCnt[d] EXCEPT ![i] = Less(@)]
                                 ELSE qidxCnt[d]]
  /\ grpCnt' = [d \in Cores |-> IF d \in CoresToChange THEN Less(grpCnt[d]) ELSE grpCnt[d]]
  /\ qidxMask' = [d \in Cores |-> IF d \in CoresToChange /\ qidxCnt[d][i] = 1
                                  THEN qidxMask[d] \ {i} ELSE qidxMask[d]]
  /\ grpMask' = grpMask \ {d \in CoresToChange : grpCnt[d] = 1}
  /\ UNCHANGED member

\* The internal events of a disable of q for the cores ds; the notification waits
\* for n of them.
WaitFor(c, q, ds, n) ==
  /\ toSend' = [toSend EXCEPT ![c] = ds \X {q}]
  /\ left' = [left EXCEPT ![q] = n]
  /\ Goto(c, IF ds = {} THEN "idle" ELSE "send")
  /\ arg' = [arg EXCEPT ![c] = None]

\* Whom the notification of a disable of q waits for: the cores of the group.
CoresToNotify(q) == IF q \in Notified THEN mask ELSE {}

\* Mutant: the calling core is not waited for.
NotifyOthers(c, q) ==
  LET others == CoresToNotify(q) \ {c} IN WaitFor(c, q, others, Cardinality(others))

\* Mutant: all cores are waited for, those of the group get an event.
NotifyCoresCountAll(c, q) ==
  WaitFor(c, q, CoresToNotify(q), IF CoresToNotify(q) = {} THEN 0 ELSE Cardinality(Cores))

\* em_internal_notif: an internal event for every core of the group.  (For a group
\* without cores nothing is ever notified.)
NotifyCores(c, q) == WaitFor(c, q, CoresToNotify(q), Cardinality(CoresToNotify(q)))

\* sched_masks_rem_queue, and the notification of em_queue_disable.
RemoveQueue(c) ==
  /\ pc[c] = "rem"
  /\ Uncount(Idx[arg[c]])
  /\ NotifyCores(c, arg[c])
  /\ UNCHANGED <<groupVars, status, inbox, done, coreVars, ruleVars>>

-----------------------------------------------------------------------------
(* Scheduling *)

\* Core d's masks have the sched-queue of the group and index i.
Polls(d, i) == d \in grpMask /\ i \in qidxMask[d]

\* The core's cursor goes to a sched-queue in its masks, or to one of another group; what
\* leaves the masks does not move it.
MoveCursor(d) ==
  /\ AtSchedule(d)
  /\ \E i \in {j \in Idxs : Polls(d, j)} \cup {None} :
       i # cursor[d] /\ cursor' = [cursor EXCEPT ![d] = i]
  /\ UNCHANGED <<groupVars, status, maskVars, eventVars, pc, callVars, running, ruleVars>>

\* em_schedule has found events of q in the sched-queue it is at, and dispatch_event
\* calls the receive function.  (The events of a queue that is not ready are dropped,
\* which changes nothing here; a burst is so many of these steps.)
Dispatch(d, q) ==
  /\ AtSchedule(d)
  /\ cursor[d] = Idx[q]
  /\ status[q] = "READY"
  /\ running' = [running EXCEPT ![d] = q]
  /\ UNCHANGED <<groupVars, status, maskVars, eventVars, pc, callVars, cursor, ruleVars>>

\* em_direct_dispatch: a packet for q has arrived on core d, which is in q's group.
DirectDispatch(d, q) ==
  /\ AtSchedule(d)
  /\ d \in member
  /\ status[q] = "READY"
  /\ running' = [running EXCEPT ![d] = q]
  /\ UNCHANGED <<groupVars, status, maskVars, eventVars, pc, callVars, cursor, ruleVars>>

\* The receive function returns.
ReceiveReturns(d) ==
  /\ pc[d] = "idle"
  /\ running[d] # None
  /\ running' = [running EXCEPT ![d] = None]
  /\ UNCHANGED <<groupVars, status, maskVars, eventVars, pc, callVars, cursor, ruleVars>>

-----------------------------------------------------------------------------

AppStep(c) ==
  \/ DeleteGroup(c)
  \/ \E new \in SUBSET Cores : CreateGroup(c, new) \/ ModifyGroup(c, new)
  \/ \E q \in Queues : CreateQueue(c, q) \/ DeleteQueue(c, q) \/ Enable(c, q) \/ Disable(c, q)

\* The steps of a call once begun.
CallStep(c) == SendRequest(c) \/ DeleteDone(c) \/ AddQueue(c) \/ RemoveQueue(c)

\* A core takes an event of the shared internal queue.
TakeDone(c) == ModifyDone(c) \/ \E q \in Queues : DisableDone(c, q)

Next ==
  \E c \in Cores :
    \/ AppStep(c) \/ CallStep(c) \/ Handle(c) \/ TakeDone(c)
    \/ MoveCursor(c) \/ ReceiveReturns(c)
    \/ \E q \in Queues : Dispatch(c, q) \/ DirectDispatch(c, q)

Spec == Init /\ [][Next]_vars

(* A running core takes its next step: calls and receive functions return.  A   *)
(* core polls its own internal queue and the shared one for ever, but the       *)
(* application may call the API and receive events between two rounds: hence    *)
(* the strong fairness.                                                         *)
Fairness ==
  /\ \A c \in Cores : /\ WF_vars(CallStep(c))
                      /\ SF_vars(Handle(c))
                      /\ SF_vars(ReceiveReturns(c))
  /\ SF_vars(\E c \in Cores : TakeDone(c))

FairSpec == Spec /\ Fairness
-----------------------------------------------------------------------------
(* Properties *)

\* The cores that are in the group whatever phase a modify is in.
Staying == IF pending THEN mask \cap newMask ELSE mask

\* The queues whose status no call is changing.
Settled == {q \in Queues : \A c \in Cores : arg[c] # q}

\* An enabled queue is scheduled: each core of the group polls it, and goes on to
\* while other queues come and go and cores enter and leave.  ("It doesn't matter
\* if some of the queues are already disabled", em_intel.c:1824, for others.)
EnabledIsPolled ==
  \A q \in Settled : status[q] = "READY" => \A c \in Staying : Polls(c, Idx[q])

\* The counts behind the mask bits are those of the enabled queues, on every core
\* of the group, and zero on every other: however they came about, from the calls
\* of other cores or from the core's own count when it entered the group.
CountsExact ==
  Settled = Queues /\ ~pending =>
    \A c \in Cores :
      LET counted(i) == {q \in Queues : c \in mask /\ status[q] = "READY" /\ Idx[q] = i} IN
      /\ \A i \in Idxs : qidxCnt[c][i] = Cardinality(counted(i))
      /\ grpCnt[c] = Cardinality(UNION {counted(i) : i \in Idxs})

\* "The new core mask is visible through em_queue_group_mask() only after the modify
\* operation is complete" (em_intel_queue_group.c:438): when no modify is pending,
\* the cores of the mask, and no others, are in the group; and no core is when the group
\* is free, so that the next one in its place begins with its own cores.  (As long as a
\* group is left alone while it is deleted.)
MaskIsTrue ==
  /\ ~pending => member = mask
  /\ ~allocated => ~pending /\ mask = {}

\* After the notification of a disable no core of the group is in the queue's receive
\* function, until the queue is enabled again: whichever cores entered and left meanwhile.
MembersAreQuiet == \A q \in quiet : \A c \in member : running[c] # q

\* A modify completes.
ModifyCompletes == pending ~> ~pending

\* A disable that waits for cores is notified.
DisableNotified == \A q \in Notified : UnderWay(q) ~> ~UnderWay(q)
=============================================================================
