----------------------------- MODULE AtomicQueue -----------------------------
(***************************************************************************)
(* Atomic EM queues with the lockless counters (LOCKLESS_ATOMIC_QUEUES=1). *)
(*                                                                         *)
(* An atomic queue is an event ring (q_elem->rte_ring) and two counters    *)
(* packed in one 64-bit word: event_count and sched_count.  The queue      *)
(* element itself is passed through a scheduling queue (a multiring); the  *)
(* core that dequeues it owns the queue's atomic context until it either   *)
(* enqueues the element again or clears the word by compare-and-set.       *)
(*                                                                         *)
(* Every memory operation that another core can observe is a step of its   *)
(* own: the ring enqueue, the fetch-and-add of event_count, the            *)
(* test-and-set of sched_count and the sched-queue enqueue of a sender;    *)
(* the sched-queue dequeue, the read of event_count, the bulk dequeue,     *)
(* each dispatch, the subtraction, the compare-and-set and the re-enqueue  *)
(* of a dispatcher.  (An event's own header is touched only by its owner.) *)
(***************************************************************************)
EXTENDS Integers, Sequences, FiniteSets

CONSTANTS
  Cores,          \* EM cores
  Queues,         \* atomic EM queues that share one sched-queue and priority
  Events,         \* event buffers of the pool
  NoQueue,        \* the NULL q_elem pointer
  RingCap,        \* usable size of an event ring (rte_ring)
  SchedQCap,      \* usable size of the sched-queue (multiring)
  MaxQBulk,       \* MAX_Q_BULK_ATOMIC: q_elems taken in one burst
  MaxEBulk,       \* MAX_E_BULK_ATOMIC: events taken from one queue at a time
  Disableable,    \* the queues whose status the application toggles
  DirectDispatch, \* RX_DIRECT_DISPATCH: receive a packet on the Rx core itself
  Disciplined     \* TRUE: the application sends an event whose header still
                  \* names queue q to q only from within q's own context

ASSUME ConstantsAssumption ==
  /\ NoQueue \notin Queues /\ NoQueue \notin Cores
  /\ RingCap \in Nat \ {0}
  /\ SchedQCap \in Nat \ {0}
  /\ MaxQBulk \in Nat \ {0}
  /\ MaxEBulk \in Nat \ {0}
  /\ Disableable \subseteq Queues
  /\ DirectDispatch \in BOOLEAN
  /\ Disciplined \in BOOLEAN

VARIABLES
  ring,        \* [Queues -> Seq(Events)]: q_elem->rte_ring
  eventCount,  \* [Queues -> Nat]: u.atomic.event_count
  schedCount,  \* [Queues -> {0,1}]: u.atomic.sched_count
  schedQ,      \* Seq(Queues): the sched-queue, oldest first
  status,      \* [Queues -> {"READY","BIND"}]: q_elem->status
  counted,     \* the queues that the cores' masks have: qidx_cnt, qidx_mask
  hdrQ,        \* [Events -> Queues \cup {NoQueue}]: ev_hdr->q_elem
  app,         \* events owned by the application (received or allocated)
  free,        \* events in the pool
  pc,          \* [Cores -> ControlPoints]
  held,        \* [Cores -> Seq(Queues)]: q_ptr[j..], current element first
  batch,       \* [Cores -> Seq(Events)]: e_ptr[i..], events still to dispatch
  taken,       \* [Cores -> Nat]: e_count
  current,     \* [Cores -> Queues \cup {NoQueue}]: em_core_local.current_q_elem
  dstQ,        \* [Cores -> Queues \cup {NoQueue}]: q_elem of the send in progress
  srcQ         \* [Cores -> Queues \cup {NoQueue}]: its src_q_elem

ringVars  == <<ring, hdrQ, app, free>>
countVars == <<eventCount, schedCount>>
stateVars == <<status, counted>>
coreVars  == <<held, batch, taken, current>>
sendVars  == <<dstQ, srcQ>>
vars == <<ringVars, countVars, schedQ, stateVars, pc, coreVars, sendVars>>

ControlPoints ==
  {"idle", "count", "take", "loop", "recv", "cas", "resched",  \* em_schedule_atomic
   "add", "tas", "push",                                       \* em_send_atomic
   "grab"}                                                     \* direct dispatch

Init ==
  /\ ring = [q \in Queues |-> <<>>]
  /\ eventCount = [q \in Queues |-> 0]
  /\ schedCount = [q \in Queues |-> 0]
  /\ schedQ = <<>>
  /\ status = [q \in Queues |-> "READY"]
  /\ counted = Queues
  /\ hdrQ = [e \in Events |-> NoQueue]
  /\ app = {}
  /\ free = Events
  /\ pc = [c \in Cores |-> "idle"]
  /\ held = [c \in Cores |-> <<>>]
  /\ batch = [c \in Cores |-> <<>>]
  /\ taken = [c \in Cores |-> 0]
  /\ current = [c \in Cores |-> NoQueue]
  /\ dstQ = [c \in Cores |-> NoQueue]
  /\ srcQ = [c \in Cores |-> NoQueue]

Goto(c, point) == pc' = [pc EXCEPT ![c] = point]

\* Application code runs on c: in a receive function, or between schedulings
\* (timer callbacks, start functions, events of other queue types).
AppRuns(c) == pc[c] \in {"idle", "recv"}

\* em_send_atomic returns to its caller.
SendReturns(c) ==
  /\ Goto(c, IF current[c] # NoQueue THEN "recv" ELSE "idle")
  /\ dstQ' = [dstQ EXCEPT ![c] = NoQueue]

\* mring_enqueue: a full sched-queue takes nothing.  (The default error handler
\* then aborts the program; this is what an application's own handler sees.)
SchedEnqueue(q) ==
  schedQ' = IF Len(schedQ) < SchedQCap THEN Append(schedQ, q) ELSE schedQ

-----------------------------------------------------------------------------
(* Events of the application *)

\* em_alloc stamps the header with the queue being processed (or NULL).
Alloc(c, e) ==
  /\ AppRuns(c)
  /\ e \in free
  /\ hdrQ' = [hdrQ EXCEPT ![e] = current[c]]
  /\ free' = free \ {e}
  /\ app' = app \cup {e}
  /\ UNCHANGED <<ring, countVars, schedQ, stateVars, pc, coreVars, sendVars>>

\* intel_free.  The header of a pooled buffer means nothing (em_alloc and
\* packet_enqueue write it again), so it is not kept.
PoolPut(e) ==
  /\ free' = free \cup {e}
  /\ hdrQ' = [hdrQ EXCEPT ![e] = NoQueue]

\* em_free of an event that did not come from a parallel-ordered queue.
Free(c, e) ==
  /\ AppRuns(c)
  /\ e \in app
  /\ app' = app \ {e}
  /\ PoolPut(e)
  /\ UNCHANGED <<ring, countVars, schedQ, stateVars, pc, coreVars, sendVars>>

\* queue_state_change, of em_queue_enable and em_queue_disable: the status comes first.
\* (The application makes one change of a queue after the other.)
ToggleStatus(q) ==
  /\ q \in Disableable
  /\ status[q] = "READY" <=> q \in counted
  /\ status' = [status EXCEPT ![q] = IF @ = "READY" THEN "BIND" ELSE "READY"]
  /\ UNCHANGED <<ringVars, countVars, schedQ, counted, pc, coreVars, sendVars>>

\* sched_masks_add_queue or sched_masks_rem_queue, under sched_add_counts_lock: then come
\* the masks of the cores (QueueGroup has them one by one).
ChangeMasks(q) ==
  /\ (status[q] = "READY") # (q \in counted)
  /\ counted' = IF status[q] = "READY" THEN counted \cup {q} ELSE counted \ {q}
  /\ UNCHANGED <<ringVars, countVars, schedQ, status, pc, coreVars, sendVars>>

\* The bit of the sched-queue is set in the masks: one of its queues is counted.
Polled == counted # {}

-----------------------------------------------------------------------------
(* em_send_atomic *)

\* The part of em_send_atomic up to and including rte_ring_enqueue: e goes into
\* q's ring and the old header value is kept as the source queue.
RingEnqueue(c, e, q, src) ==
  /\ Len(ring[q]) < RingCap
  /\ ring' = [ring EXCEPT ![q] = Append(@, e)]
  /\ hdrQ' = [hdrQ EXCEPT ![e] = q]
  /\ dstQ' = [dstQ EXCEPT ![c] = q]
  /\ srcQ' = [srcQ EXCEPT ![c] = src]
  /\ Goto(c, "add")

\* The application's rule: an event whose header names queue q is sent to q only from q's
\* context.  (em_send does not check it.)
KeepsRule(c, e, q) == Disciplined /\ hdrQ[e] = q => current[c] = q

\* em_send to an atomic queue.
Send(c, e, q) ==
  /\ AppRuns(c)
  /\ e \in app /\ KeepsRule(c, e, q)
  /\ RingEnqueue(c, e, q, hdrQ[e])
  /\ app' = app \ {e}
  /\ UNCHANGED <<free, countVars, schedQ, stateVars, coreVars>>

\* Mutant: the event of a failed send is freed, and the caller keeps it.
SendFailsFrees(c, e, q) ==
  /\ AppRuns(c)
  /\ e \in app /\ KeepsRule(c, e, q)
  /\ Len(ring[q]) = RingCap
  /\ hdrQ' = [hdrQ EXCEPT ![e] = q]
  /\ free' = free \cup {e}
  /\ UNCHANGED <<ring, app, countVars, schedQ, stateVars, pc, coreVars, sendVars>>

\* em_send to a full queue fails: the caller keeps the event, but the header
\* has been stamped with the destination already.
SendFails(c, e, q) ==
  /\ AppRuns(c)
  /\ e \in app /\ KeepsRule(c, e, q)
  /\ Len(ring[q]) = RingCap
  /\ hdrQ' = [hdrQ EXCEPT ![e] = q]
  /\ UNCHANGED <<ring, app, free, countVars, schedQ, stateVars, pc, coreVars, sendVars>>

\* __sync_fetch_and_add(&event_count, 1): only the sender that finds zero, and
\* whose event does not come from the queue itself, looks at sched_count.
CountEvent(c) ==
  LET q == dstQ[c] IN
  /\ pc[c] = "add"
  /\ eventCount' = [eventCount EXCEPT ![q] = @ + 1]
  /\ srcQ' = [srcQ EXCEPT ![c] = NoQueue]
  /\ IF eventCount[q] = 0 /\ srcQ[c] # q
     THEN Goto(c, "tas") /\ UNCHANGED dstQ
     ELSE SendReturns(c)
  /\ UNCHANGED <<ringVars, schedCount, schedQ, stateVars, coreVars>>

\* Mutant: the old value of sched_count is not looked at.
TestAndSetIgnored(c) ==
  /\ pc[c] = "tas"
  /\ schedCount' = [schedCount EXCEPT ![dstQ[c]] = 1]
  /\ Goto(c, "push")
  /\ UNCHANGED <<ringVars, eventCount, schedQ, stateVars, coreVars, sendVars>>

\* __sync_lock_test_and_set(&sched_count, 1)
TestAndSet(c) ==
  LET q == dstQ[c] IN
  /\ pc[c] = "tas"
  /\ schedCount' = [schedCount EXCEPT ![q] = 1]
  /\ IF schedCount[q] = 0
     THEN Goto(c, "push") /\ UNCHANGED dstQ
     ELSE SendReturns(c)
  /\ UNCHANGED <<ringVars, eventCount, schedQ, stateVars, coreVars, srcQ>>

\* The sender that set sched_count enqueues the queue for scheduling.
Push(c) ==
  /\ pc[c] = "push"
  /\ SchedEnqueue(dstQ[c])
  /\ SendReturns(c)
  /\ UNCHANGED <<ringVars, countVars, stateVars, coreVars, srcQ>>

-----------------------------------------------------------------------------
(* Packet reception: packet_enqueue, and em_direct_dispatch__atomic *)

\* A frame in a fresh buffer with a NULL header queue is sent the normal way:
\* always without RX_DIRECT_DISPATCH; with it when the queue has events or its
\* queue group is not on this core.
Receive(c, e, q) ==
  /\ pc[c] = "idle"
  /\ e \in free
  /\ RingEnqueue(c, e, q, NoQueue)
  /\ free' = free \ {e}
  /\ UNCHANGED <<app, countVars, schedQ, stateVars, coreVars>>

\* The queue looks empty: go and try to take its sched_count directly.
ReceiveDirect(c, e, q) ==
  /\ DirectDispatch
  /\ pc[c] = "idle"
  /\ e \in free
  /\ eventCount[q] = 0
  /\ free' = free \ {e}
  /\ hdrQ' = [hdrQ EXCEPT ![e] = NoQueue]
  /\ batch' = [batch EXCEPT ![c] = <<e>>]
  /\ dstQ' = [dstQ EXCEPT ![c] = q]
  /\ Goto(c, "grab")
  /\ UNCHANGED <<ring, app, countVars, schedQ, stateVars, held, taken, current, srcQ>>

\* Mutant: the old value of sched_count is not looked at.
GrabContextIgnored(c) ==
  LET q == dstQ[c] IN
  /\ pc[c] = "grab"
  /\ schedCount' = [schedCount EXCEPT ![q] = 1]
  /\ hdrQ' = [hdrQ EXCEPT ![Head(batch[c])] = q]
  /\ held' = [held EXCEPT ![c] = <<q>>]
  /\ dstQ' = [dstQ EXCEPT ![c] = NoQueue]
  /\ Goto(c, "loop")
  /\ UNCHANGED <<ring, app, free, eventCount, schedQ, stateVars, batch, taken, current, srcQ>>

\* The test-and-set succeeds: the core owns the context with no event counted.
GrabContext(c) ==
  LET q == dstQ[c] IN
  /\ pc[c] = "grab"
  /\ schedCount[q] = 0
  /\ schedCount' = [schedCount EXCEPT ![q] = 1]
  /\ hdrQ' = [hdrQ EXCEPT ![Head(batch[c])] = q]
  /\ held' = [held EXCEPT ![c] = <<q>>]
  /\ dstQ' = [dstQ EXCEPT ![c] = NoQueue]
  /\ Goto(c, "loop")
  /\ UNCHANGED <<ring, app, free, eventCount, schedQ, stateVars, batch, taken, current, srcQ>>

\* The test-and-set finds the queue scheduled: send normally, or drop the frame
\* when the ring is full.
GrabFails(c) ==
  LET q == dstQ[c]
      e == Head(batch[c]) IN
  /\ pc[c] = "grab"
  /\ schedCount[q] # 0
  /\ batch' = [batch EXCEPT ![c] = <<>>]
  /\ \/ /\ RingEnqueue(c, e, q, NoQueue)
        /\ UNCHANGED free
     \/ /\ Len(ring[q]) = RingCap
        /\ PoolPut(e)
        /\ SendReturns(c)
        /\ UNCHANGED <<ring, srcQ>>
  /\ UNCHANGED <<app, countVars, schedQ, stateVars, held, taken, current>>

-----------------------------------------------------------------------------
(* em_schedule_atomic *)

\* mring_dequeue_mp_burst: take up to MaxQBulk queue elements, oldest first.  (A core
\* whose cursor is here polls once more when the mask has lost the bit: PollCursor.)
Schedule(c) ==
  /\ pc[c] = "idle"
  /\ schedQ # <<>>
  /\ LET n == IF Len(schedQ) < MaxQBulk THEN Len(schedQ) ELSE MaxQBulk IN
       /\ held' = [held EXCEPT ![c] = SubSeq(schedQ, 1, n)]
       /\ schedQ' = SubSeq(schedQ, n + 1, Len(schedQ))
  /\ Goto(c, "count")
  /\ UNCHANGED <<ringVars, countVars, stateVars, batch, taken, current, sendVars>>

\* Mutant: a full burst whatever event_count says.
ReadCountIgnored(c) ==
  /\ pc[c] = "count"
  /\ taken' = [taken EXCEPT ![c] = MaxEBulk]
  /\ Goto(c, "take")
  /\ UNCHANGED <<ringVars, countVars, schedQ, stateVars, held, batch, current, sendVars>>

\* e_count = min(event_count, MAX_E_BULK_ATOMIC)
ReadCount(c) ==
  LET n == eventCount[Head(held[c])] IN
  /\ pc[c] = "count"
  /\ taken' = [taken EXCEPT ![c] = IF n < MaxEBulk THEN n ELSE MaxEBulk]
  /\ Goto(c, "take")
  /\ UNCHANGED <<ringVars, countVars, schedQ, stateVars, held, batch, current, sendVars>>

\* Mutant: the newest events of the ring are taken.
TakeNewest(c) ==
  LET q == Head(held[c])
      rest == Len(ring[q]) - taken[c] IN
  /\ pc[c] = "take"
  /\ rest >= 0
  /\ batch' = [batch EXCEPT ![c] = SubSeq(ring[q], rest + 1, Len(ring[q]))]
  /\ ring' = [ring EXCEPT ![q] = SubSeq(@, 1, rest)]
  /\ Goto(c, "loop")
  /\ UNCHANGED <<hdrQ, app, free, countVars, schedQ, stateVars, held, taken, current, sendVars>>

\* rte_ring_dequeue_bulk takes exactly e_count events or fails; CountCovered
\* says it cannot fail.
TakeEvents(c) ==
  LET q == Head(held[c]) IN
  /\ pc[c] = "take"
  /\ Len(ring[q]) >= taken[c]
  /\ batch' = [batch EXCEPT ![c] = SubSeq(ring[q], 1, taken[c])]
  /\ ring' = [ring EXCEPT ![q] = SubSeq(@, taken[c] + 1, Len(@))]
  /\ Goto(c, "loop")
  /\ UNCHANGED <<hdrQ, app, free, countVars, schedQ, stateVars, held, taken, current, sendVars>>

\* dispatch_event on a ready queue: call the receive function with the event.
Dispatch(c) ==
  LET q == Head(held[c])
      e == Head(batch[c]) IN
  /\ pc[c] = "loop"
  /\ batch[c] # <<>>
  /\ status[q] = "READY"
  /\ batch' = [batch EXCEPT ![c] = Tail(@)]
  /\ app' = app \cup {e}
  /\ current' = [current EXCEPT ![c] = q]
  /\ Goto(c, "recv")
  /\ UNCHANGED <<ring, hdrQ, free, countVars, schedQ, stateVars, held, taken, sendVars>>

\* dispatch_event on a queue that is not ready: drop the event.
DropEvent(c) ==
  /\ pc[c] = "loop"
  /\ batch[c] # <<>>
  /\ status[Head(held[c])] # "READY"
  /\ batch' = [batch EXCEPT ![c] = Tail(@)]
  /\ PoolPut(Head(batch[c]))
  /\ UNCHANGED <<ring, app, countVars, schedQ, stateVars, pc, held, taken, current, sendVars>>

\* The receive function returns to dispatch_event.
ReceiveReturns(c) ==
  /\ pc[c] = "recv"
  /\ current' = [current EXCEPT ![c] = NoQueue]
  /\ Goto(c, "loop")
  /\ UNCHANGED <<ringVars, countVars, schedQ, stateVars, held, batch, taken, sendVars>>

\* __sync_sub_and_fetch(&event_count, e_count) after the last event.  (After a
\* direct dispatch taken is 0 and the code just reads event_count.)
Subtract(c) ==
  LET q == Head(held[c])
      n == eventCount[q] - taken[c] IN
  /\ pc[c] = "loop"
  /\ batch[c] = <<>>
  /\ eventCount' = [eventCount EXCEPT ![q] = n]
  /\ taken' = [taken EXCEPT ![c] = 0]
  /\ Goto(c, IF n > 0 THEN "resched" ELSE "cas")
  /\ UNCHANGED <<ringVars, schedCount, schedQ, stateVars, held, batch, current, sendVars>>

\* The next queue element of the burst, if any.
NextElement(c) ==
  /\ held' = [held EXCEPT ![c] = Tail(@)]
  /\ Goto(c, IF Len(held[c]) > 1 THEN "count" ELSE "idle")

\* Mutant: only sched_count is compared and cleared.
ReleaseBlindly(c) ==
  LET q == Head(held[c]) IN
  /\ pc[c] = "cas"
  /\ schedCount[q] = 1
  /\ schedCount' = [schedCount EXCEPT ![q] = 0]
  /\ NextElement(c)
  /\ UNCHANGED <<ringVars, eventCount, schedQ, stateVars, batch, taken, current, sendVars>>

\* rte_atomic64_cmpset of (sched_count 1, event_count 0) to zero succeeds.
Release(c) ==
  LET q == Head(held[c]) IN
  /\ pc[c] = "cas"
  /\ schedCount[q] = 1 /\ eventCount[q] = 0
  /\ schedCount' = [schedCount EXCEPT ![q] = 0]
  /\ NextElement(c)
  /\ UNCHANGED <<ringVars, eventCount, schedQ, stateVars, batch, taken, current, sendVars>>

\* Mutant: after a failed compare-and-set the element is not enqueued again.
ReleaseGivesUp(c) ==
  LET q == Head(held[c]) IN
  /\ pc[c] = "cas"
  /\ ~(schedCount[q] = 1 /\ eventCount[q] = 0)
  /\ NextElement(c)
  /\ UNCHANGED <<ringVars, countVars, schedQ, stateVars, batch, taken, current, sendVars>>

\* The compare-and-set fails: an event arrived meanwhile.
ReleaseFails(c) ==
  LET q == Head(held[c]) IN
  /\ pc[c] = "cas"
  /\ ~(schedCount[q] = 1 /\ eventCount[q] = 0)
  /\ Goto(c, "resched")
  /\ UNCHANGED <<ringVars, countVars, schedQ, stateVars, coreVars, sendVars>>

\* Enqueue the element again.  The atomic context is lost here.
Reschedule(c) ==
  /\ pc[c] = "resched"
  /\ SchedEnqueue(Head(held[c]))
  /\ NextElement(c)
  /\ UNCHANGED <<ringVars, countVars, stateVars, batch, taken, current, sendVars>>

-----------------------------------------------------------------------------

\* The application's choices.
AppStep(c) ==
  \E e \in Events :
    \/ Alloc(c, e)
    \/ Free(c, e)
    \/ \E q \in Queues : \/ Send(c, e, q)
                         \/ SendFails(c, e, q)
                         \/ Receive(c, e, q)
                         \/ ReceiveDirect(c, e, q)

\* The steps EM takes once started.
EMStep(c) ==
  \/ CountEvent(c) \/ TestAndSet(c) \/ Push(c)
  \/ GrabContext(c) \/ GrabFails(c)
  \/ ReadCount(c) \/ TakeEvents(c) \/ Dispatch(c) \/ DropEvent(c)
  \/ Subtract(c) \/ Release(c) \/ ReleaseFails(c) \/ Reschedule(c)

Next ==
  \/ \E c \in Cores : AppStep(c) \/ EMStep(c) \/ Schedule(c) \/ ReceiveReturns(c)
  \/ \E q \in Queues : ToggleStatus(q) \/ ChangeMasks(q)

Spec == Init /\ [][Next]_vars

(* A running core takes its next step.  Between the events an application      *)
(* callback may send, em_dispatch calls em_schedule in every round, which gets *)
(* to the sched-queue as long as its bit is set (CoreLoop), and a receive      *)
(* function returns: neither is put off for ever by further sends, hence the   *)
(* strong fairness.                                                            *)
Fairness ==
  \A c \in Cores : /\ WF_vars(EMStep(c))
                   /\ SF_vars(Polled /\ Schedule(c))
                   /\ SF_vars(ReceiveReturns(c))

FairSpec == Spec /\ Fairness
-----------------------------------------------------------------------------
(* Properties *)

\* Types of the state.
TypeOK ==
  /\ ring \in [Queues -> Seq(Events)]
  /\ eventCount \in [Queues -> Nat]
  /\ schedCount \in [Queues -> {0, 1}]
  /\ schedQ \in Seq(Queues)
  /\ status \in [Queues -> {"READY", "BIND"}]
  /\ counted \subseteq Queues
  /\ hdrQ \in [Events -> Queues \cup {NoQueue}]
  /\ app \subseteq Events /\ free \subseteq Events
  /\ pc \in [Cores -> ControlPoints]
  /\ held \in [Cores -> Seq(Queues)]
  /\ batch \in [Cores -> Seq(Events)]
  /\ taken \in [Cores -> Nat]
  /\ current \in [Cores -> Queues \cup {NoQueue}]
  /\ dstQ \in [Cores -> Queues \cup {NoQueue}]
  /\ srcQ \in [Cores -> Queues \cup {NoQueue}]

\* q's element is in the sched-queue.
Scheduled(q) == \E i \in 1..Len(schedQ) : schedQ[i] = q

\* Core c has q's element: dequeued for dispatch, or about to be enqueued.
Owns(c, q) ==
  \/ \E i \in 1..Len(held[c]) : held[c][i] = q
  \/ pc[c] = "push" /\ dstQ[c] = q

\* There is never a second copy of a queue element: not twice in the sched-queue
\* ("there's max one event queue pointer in sched queue", em_intel.c:501), not in
\* the sched-queue and with a core, not twice with a core and not with two cores.
OneElement ==
  /\ \A i, j \in 1..Len(schedQ) : schedQ[i] = schedQ[j] => i = j
  /\ \A c \in Cores : \A i, j \in 1..Len(held[c]) : held[c][i] = held[c][j] => i = j
  /\ \A c \in Cores : pc[c] = "push" =>
       \A i \in 1..Len(held[c]) : held[c][i] # dstQ[c]
  /\ \A c, d \in Cores : \A q \in Queues : Owns(c, q) /\ Owns(d, q) => c = d
  /\ \A c \in Cores : \A q \in Queues : Owns(c, q) => ~Scheduled(q)

\* Two cores are never in the receive function of the same atomic queue.
MutualExclusion ==
  \A c, d \in Cores : current[c] = current[d] /\ current[c] # NoQueue => c = d

\* A counted event has its queue scheduled, or its sender is about to do so.
NoLostWakeup ==
  \A q \in Queues :
    \/ eventCount[q] = 0
    \/ Scheduled(q)
    \/ \E c \in Cores : Owns(c, q)
    \/ \E c \in Cores : pc[c] = "tas" /\ dstQ[c] = q

\* The events a dispatcher is about to take are in the ring: rte_ring_dequeue_bulk
\* never fails ("Schedulable ATOMIC queue found but NO EVENTS in queue",
\* em_intel_sched.c:717-721, would leave the queue out of scheduling for good).
CountCovered ==
  \A c \in Cores : pc[c] = "take" => Len(ring[Head(held[c])]) >= taken[c]

\* A buffer is in one place: the pool, the application, one slot of one ring, or
\* one slot of one core's batch.  None is lost, duplicated or received twice.
Places(e) ==
  {<<"pool", 0, 0>> : x \in free \cap {e}}
  \cup {<<"app", 0, 0>> : x \in app \cap {e}}
  \cup (UNION {{<<"ring", q, i>> : i \in {j \in 1..Len(ring[q]) : ring[q][j] = e}} : q \in Queues})
  \cup (UNION {{<<"batch", c, i>> : i \in {j \in 1..Len(batch[c]) : batch[c][j] = e}} : c \in Cores})
OnePlace == \A e \in Events : Cardinality(Places(e)) = 1

\* Every event that a core has taken is received or dropped, and so is every event in a
\* queue while the sched-queue is polled.  (When all of its queues are disabled no core
\* looks, and the events are held until one is enabled.)
InRing(e) == \E q \in Queues : \E i \in 1..Len(ring[q]) : ring[q][i] = e
InBatch(e) == \E c \in Cores : \E i \in 1..Len(batch[c]) : batch[c][i] = e
EventuallyServed ==
  \A e \in Events : /\ InBatch(e) ~> ~InBatch(e)
                    /\ InRing(e) ~> ~InRing(e) \/ ~Polled

-----------------------------------------------------------------------------
(* The promise of an atomic queue.  Accepted events are those still to be      *)
(* dispatched by the core in the queue's context followed by those in the ring *)

InContext(c, q) == held[c] # <<>> /\ Head(held[c]) = q /\ pc[c] # "count"

Pending(q) ==
  (IF \E c \in Cores : InContext(c, q)
   THEN batch[CHOOSE c \in Cores : InContext(c, q)] ELSE <<>>) \o ring[q]

Receiver(q) ==
  IF \E c \in Cores : current[c] = q
  THEN CHOOSE c \in Cores : current[c] = q ELSE NoQueue

Promise ==
  INSTANCE ExclusiveQueue
  WITH queue <- [q \in Queues |-> Pending(q)],
       receiver <- [q \in Queues |-> Receiver(q)],
       ready <- {q \in Queues : status[q] = "READY"},
       NoCore <- NoQueue, MayOvertake <- DirectDispatch

\* The counters and the sched-queue implement an exclusive FIFO queue.
ImplementsExclusiveQueue == Promise!Spec
==============================================================================
