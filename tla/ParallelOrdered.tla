--------------------------- MODULE ParallelOrdered ---------------------------
(***************************************************************************)
(* Parallel-ordered EM queues.  Their events wait in a scheduling queue    *)
(* (a multiring).  The core that takes some of them, under the lock of the *)
(* scheduling queue, records their order in each queue's order-queue       *)
(* (order_first and rte_ring, under q_elem->lock) before it dispatches     *)
(* them.  An event that is sent, transmitted or freed before its turn is   *)
(* marked and waits; the core that finishes the first event in order       *)
(* performs its operation and those of all finished events behind it.      *)
(*                                                                         *)
(* Modelled is the default build, PARALLEL_ORDERED__USE_SCHED_Q_LOCKS 0:   *)
(* each event names the lock of its queue.  Steps between taking and       *)
(* releasing a lock that touch nothing but what it protects are one step.  *)
(***************************************************************************)
EXTENDS Integers, Sequences, FiniteSets

CONSTANTS
  Cores,          \* EM cores
  Queues,         \* parallel-ordered EM queues that share one sched-queue
  Events,         \* event buffers of the pool
  None,           \* NULL, and the holder of a free lock
  Free, Out,      \* the operations other than a send to one of Queues:
                  \* OPERATION_MARK_FREE, and a send elsewhere (OPERATION_ETH_TX
                  \* is one or the other: eth_tx_packet__ordered frees a packet
                  \* its full ring refuses, and reports nothing)
  SchedQCap,      \* usable size of the sched-queue (multiring)
  OrderCap,       \* usable size of an order-queue (rte_ring)
  OutCap,         \* room at the destination Out
  MaxBulk,        \* MAX_E_BULK_PARALLEL_ORD
  Disableable,    \* the queues whose status the application toggles
  DirectDispatch  \* RX_DIRECT_DISPATCH: receive a packet on the Rx core itself

ASSUME ConstantsAssumption ==
  /\ None \notin Queues \cup Cores \cup Events
  /\ Free # Out /\ {Free, Out} \cap Queues = {}
  /\ {SchedQCap, OrderCap, OutCap, MaxBulk} \subseteq Nat \ {0}
  /\ Disableable \subseteq Queues
  /\ DirectDispatch \in BOOLEAN

VARIABLES
  schedQ,      \* Seq(Events): the sched-queue, oldest first
  schedLock,   \* [the lock of the sched-queue]: the core that holds it
  orderFirst,  \* [Queues -> Events \cup {None}]: u.parallel_ord.order_first
  orderQ,      \* [Queues -> Seq(Events)]: q_elem->rte_ring, the order-queue
  lock,        \* [Queues -> Cores \cup {None}]: q_elem->lock
  status,      \* [Queues -> {"READY", "BIND"}]: q_elem->status
  counted,     \* the queues that the cores' masks have: qidx_cnt, qidx_mask
  hdrQ,        \* [Events -> Queues \cup {None}]: ev_hdr->q_elem
  ordered,     \* events with src_q_type PARALLEL_ORDERED: they have an order
  done,        \* events with processing_done set, waiting for their turn
  op,          \* [Events -> Ends]: ev_hdr->operation and dst_q_elem, while done
  app,         \* events owned by the application
  free,        \* events in the pool
  out,         \* Seq(Events): what has been sent to Out
  pc,          \* [Cores -> ControlPoints]
  bulk,        \* [Cores -> Seq(Events)]: ev_hdr_ptr, not yet in the order-queue
  batch,       \* [Cores -> Seq(Events)]: ev_hdr_ptr, still to dispatch
  running,     \* [Cores -> BOOLEAN]: in a receive function
  emit,        \* [Cores -> Events \cup {None}]: tmp_hdr, whose turn it is
  input        \* [Cores -> Events \cup {None}]: ev_hdr, still to report on

orderVars == <<orderFirst, orderQ, lock>>
hdrVars   == <<hdrQ, ordered, done, op>>
ownVars   == <<app, free, out>>
stateVars == <<status, counted>>
coreVars  == <<bulk, batch, running>>
emitVars  == <<emit, input>>
vars == <<schedQ, schedLock, orderVars, stateVars, hdrVars, ownVars, pc, coreVars,
          emitVars>>

ControlPoints == {"idle", "order", "loop", "recv", "emit"}

Ends == Queues \cup {Free, Out}

Init ==
  /\ schedQ = <<>>
  /\ schedLock = None
  /\ orderFirst = [q \in Queues |-> None]
  /\ orderQ = [q \in Queues |-> <<>>]
  /\ lock = [q \in Queues |-> None]
  /\ status = [q \in Queues |-> "READY"]
  /\ counted = Queues
  /\ hdrQ = [e \in Events |-> None]
  /\ ordered = {}
  /\ done = {}
  /\ op = [e \in Events |-> Free]
  /\ app = {}
  /\ free = Events
  /\ out = <<>>
  /\ pc = [c \in Cores |-> "idle"]
  /\ bulk = [c \in Cores |-> <<>>]
  /\ batch = [c \in Cores |-> <<>>]
  /\ running = [c \in Cores |-> FALSE]
  /\ emit = [c \in Cores |-> None]
  /\ input = [c \in Cores |-> None]

Goto(c, point) == pc' = [pc EXCEPT ![c] = point]

\* Application code runs on c: in a receive function or between schedulings.
AppRuns(c) == pc[c] \in {"idle", "recv"}

\* Back in the receive function, the dispatch loop or em_dispatch.
Resume(c) ==
  Goto(c, IF running[c] THEN "recv" ELSE IF batch[c] # <<>> THEN "loop" ELSE "idle")

-----------------------------------------------------------------------------
(* Sending *)

HasRoom(d) ==
  CASE d \in Queues -> Len(schedQ) < SchedQCap
    [] d = Out      -> Len(out) < OutCap
    [] OTHER        -> TRUE

\* em_send_parallel_ordered: the header names the new queue, also when the sched-queue
\* has no room and takes nothing.
SendParallelOrdered(e, q) ==
  /\ hdrQ' = [hdrQ EXCEPT ![e] = q]
  /\ schedQ' = IF HasRoom(q) THEN Append(schedQ, e) ELSE schedQ

\* em_send_switch: to the queue by its type, or elsewhere.
SendSwitch(e, d) ==
  /\ IF d \in Queues THEN SendParallelOrdered(e, d)
     ELSE hdrQ' = [hdrQ EXCEPT ![e] = None] /\ UNCHANGED schedQ
  /\ out' = IF d = Out /\ HasRoom(d) THEN Append(out, e) ELSE out

Alloc(c, e) ==
  /\ AppRuns(c)
  /\ e \in free
  /\ free' = free \ {e}
  /\ app' = app \cup {e}
  /\ UNCHANGED <<schedQ, schedLock, orderVars, stateVars, hdrVars, out, pc, coreVars, emitVars>>

\* em_free and em_send of an event that has no order to keep: at once.
SendPlain(c, e, d) ==
  /\ AppRuns(c)
  /\ e \in app \ ordered
  /\ SendSwitch(e, d)
  /\ app' = IF HasRoom(d) THEN app \ {e} ELSE app
  /\ free' = IF d = Free THEN free \cup {e} ELSE free
  /\ UNCHANGED <<schedLock, orderVars, stateVars, ordered, done, op, pc, coreVars, emitVars>>

\* Packet reception the normal way, in a fresh buffer: a frame is dropped when
\* there is no room.
Receive(c, e, q) ==
  /\ pc[c] = "idle"
  /\ e \in free
  /\ HasRoom(q)
  /\ SendSwitch(e, q)
  /\ free' = free \ {e}
  /\ UNCHANGED <<schedLock, orderVars, stateVars, ordered, done, op, app, pc, coreVars, emitVars>>

\* em_send_from_parallel_ord_q up to the look at order_first: note what is to be
\* done with e, and start doing it if e is the first in order.
Complete(c, e, d) ==
  LET q == hdrQ[e] IN
  /\ lock[q] = None
  /\ ordered' = ordered \ {e}
  /\ done' = done \cup {e}
  /\ op' = [op EXCEPT ![e] = d]
  /\ IF orderFirst[q] = e
     THEN /\ orderFirst' = [orderFirst EXCEPT ![q] = None]
          /\ lock' = [lock EXCEPT ![q] = c]
          /\ emit' = [emit EXCEPT ![c] = e]
          /\ input' = [input EXCEPT ![c] = e]
     ELSE UNCHANGED <<orderFirst, lock, emitVars>>
  /\ UNCHANGED <<schedQ, schedLock, orderQ, stateVars, hdrQ, free, out, bulk, running>>

\* em_send, em_free or em_eth_tx_packet of an event with an order to keep.
SendOrdered(c, e, d) ==
  /\ AppRuns(c)
  /\ e \in app \cap ordered
  /\ Complete(c, e, d)
  /\ app' = app \ {e}
  /\ IF orderFirst[hdrQ[e]] = e THEN Goto(c, "emit") ELSE UNCHANGED pc
  /\ UNCHANGED batch

\* Mutant: the event given to em_send is freed like the others when refused.
EmitFreesRefused(c) ==
  LET e == emit[c]
      q == hdrQ[e]
      d == op[e]
      mine == e = input[c]
      fails == ~HasRoom(d)
      ready == orderQ[q] # <<>> /\ Head(orderQ[q]) \in done
      refused == IF mine THEN (IF fails THEN {e} ELSE {}) ELSE {input[c]} \ {None} IN
  /\ pc[c] = "emit"
  /\ done' = done \ {e}
  /\ op' = [op EXCEPT ![e] = Free]
  /\ SendSwitch(e, d)
  /\ free' = IF d = Free \/ fails THEN free \cup {e} ELSE free
  /\ orderQ' = IF orderQ[q] = <<>> THEN orderQ ELSE [orderQ EXCEPT ![q] = Tail(@)]
  /\ IF ready
     THEN /\ emit' = [emit EXCEPT ![c] = Head(orderQ[q])]
          /\ input' = [input EXCEPT ![c] = IF mine /\ ~fails THEN None ELSE @]
          /\ UNCHANGED <<orderFirst, lock, app, pc>>
     ELSE /\ orderFirst' =
               [orderFirst EXCEPT ![q] = IF orderQ[q] = <<>> THEN None ELSE Head(orderQ[q])]
          /\ lock' = [lock EXCEPT ![q] = None]
          /\ emit' = [emit EXCEPT ![c] = None]
          /\ input' = [input EXCEPT ![c] = None]
          /\ app' = app \cup refused
          /\ Resume(c)
  /\ UNCHANGED <<schedLock, stateVars, ordered, coreVars>>

\* Mutant: the events that wait behind the first one are not looked at.
EmitStops(c) ==
  LET e == emit[c]
      q == hdrQ[e]
      d == op[e]
      mine == e = input[c]
      fails == ~HasRoom(d)
      ready == FALSE
      refused == IF mine THEN (IF fails THEN {e} ELSE {}) ELSE {input[c]} \ {None} IN
  /\ pc[c] = "emit"
  /\ done' = done \ {e}
  /\ op' = [op EXCEPT ![e] = Free]
  /\ SendSwitch(e, d)
  /\ free' = IF d = Free \/ (fails /\ ~mine) THEN free \cup {e} ELSE free
  /\ orderQ' = IF orderQ[q] = <<>> THEN orderQ ELSE [orderQ EXCEPT ![q] = Tail(@)]
  /\ IF ready
     THEN /\ emit' = [emit EXCEPT ![c] = Head(orderQ[q])]
          /\ input' = [input EXCEPT ![c] = IF mine /\ ~fails THEN None ELSE @]
          /\ UNCHANGED <<orderFirst, lock, app, pc>>
     ELSE /\ orderFirst' =
               [orderFirst EXCEPT ![q] = IF orderQ[q] = <<>> THEN None ELSE Head(orderQ[q])]
          /\ lock' = [lock EXCEPT ![q] = None]
          /\ emit' = [emit EXCEPT ![c] = None]
          /\ input' = [input EXCEPT ![c] = None]
          /\ app' = app \cup refused
          /\ Resume(c)
  /\ UNCHANGED <<schedLock, stateVars, ordered, coreVars>>

\* One round of the loop in em_send_from_parallel_ord_q: the operation of the
\* event whose turn it is, then a look at the next one in order.  When its
\* operation fails the event given to em_send stays with the caller; others
\* are freed.
Emit(c) ==
  LET e == emit[c]
      q == hdrQ[e]
      d == op[e]
      mine == e = input[c]
      fails == ~HasRoom(d)
      ready == orderQ[q] # <<>> /\ Head(orderQ[q]) \in done
      refused == IF mine THEN (IF fails THEN {e} ELSE {}) ELSE {input[c]} \ {None} IN
  /\ pc[c] = "emit"
  /\ done' = done \ {e}
  /\ op' = [op EXCEPT ![e] = Free]
  /\ SendSwitch(e, d)
  /\ free' = IF d = Free \/ (fails /\ ~mine) THEN free \cup {e} ELSE free
  /\ orderQ' = IF orderQ[q] = <<>> THEN orderQ ELSE [orderQ EXCEPT ![q] = Tail(@)]
  /\ IF ready
     THEN /\ emit' = [emit EXCEPT ![c] = Head(orderQ[q])]
          /\ input' = [input EXCEPT ![c] = IF mine /\ ~fails THEN None ELSE @]
          /\ UNCHANGED <<orderFirst, lock, app, pc>>
     ELSE /\ orderFirst' =
               [orderFirst EXCEPT ![q] = IF orderQ[q] = <<>> THEN None ELSE Head(orderQ[q])]
          /\ lock' = [lock EXCEPT ![q] = None]
          /\ emit' = [emit EXCEPT ![c] = None]
          /\ input' = [input EXCEPT ![c] = None]
          /\ app' = app \cup refused
          /\ Resume(c)
  /\ UNCHANGED <<schedLock, stateVars, ordered, coreVars>>

-----------------------------------------------------------------------------
(* Scheduling *)

\* Mutant: an event without a place in the order-queue still has an order.
MaintainOrderStuck(e, q) ==
  /\ orderFirst' = [orderFirst EXCEPT ![q] = IF @ = None THEN e ELSE @]
  /\ orderQ' = IF orderFirst[q] # None /\ Len(orderQ[q]) < OrderCap
               THEN [orderQ EXCEPT ![q] = Append(@, e)] ELSE orderQ
  /\ ordered' = ordered \cup {e}

\* parallel_ordered_maintain_order: e is the first, joins the order-queue, or,
\* when that is full, is dispatched without an order.
MaintainOrder(e, q) ==
  /\ orderFirst' = [orderFirst EXCEPT ![q] = IF @ = None THEN e ELSE @]
  /\ orderQ' = IF orderFirst[q] # None /\ Len(orderQ[q]) < OrderCap
               THEN [orderQ EXCEPT ![q] = Append(@, e)] ELSE orderQ
  /\ ordered' = IF orderFirst[q] # None /\ Len(orderQ[q]) = OrderCap
                THEN ordered ELSE ordered \cup {e}

\* Packet reception on the core itself: the order is recorded and the packet
\* dispatched; an unordered one is sent the normal way, or dropped.
ReceiveDirect(c, e, q) ==
  /\ DirectDispatch
  /\ pc[c] = "idle"
  /\ e \in free
  /\ lock[q] = None
  /\ MaintainOrder(e, q)
  /\ IF e \in ordered'
     THEN /\ hdrQ' = [hdrQ EXCEPT ![e] = q]
          /\ batch' = [batch EXCEPT ![c] = <<e>>]
          /\ Goto(c, "loop")
          /\ free' = free \ {e}
          /\ UNCHANGED <<schedQ, out>>
     ELSE /\ SendSwitch(e, q)
          /\ free' = IF HasRoom(q) THEN free \ {e} ELSE free
          /\ UNCHANGED <<batch, pc>>
  /\ UNCHANGED <<schedLock, lock, stateVars, done, op, app, bulk, running, emitVars>>

\* Mutant: the sched-queue lock is not waited for.
ScheduleUnlocked(c) ==
  /\ pc[c] = "idle"
  /\ schedQ # <<>>
  /\ LET n == IF Len(schedQ) < MaxBulk THEN Len(schedQ) ELSE MaxBulk IN
       /\ bulk' = [bulk EXCEPT ![c] = SubSeq(schedQ, 1, n)]
       /\ schedQ' = SubSeq(schedQ, n + 1, Len(schedQ))
  /\ schedLock' = c
  /\ Goto(c, "order")
  /\ UNCHANGED <<orderVars, stateVars, hdrVars, ownVars, batch, running, emitVars>>

\* em_schedule_parallel_ordered: try the lock, take up to MaxBulk events.
Schedule(c) ==
  /\ pc[c] = "idle"
  /\ schedLock = None
  /\ schedQ # <<>>
  /\ LET n == IF Len(schedQ) < MaxBulk THEN Len(schedQ) ELSE MaxBulk IN
       /\ bulk' = [bulk EXCEPT ![c] = SubSeq(schedQ, 1, n)]
       /\ schedQ' = SubSeq(schedQ, n + 1, Len(schedQ))
  /\ schedLock' = c
  /\ Goto(c, "order")
  /\ UNCHANGED <<orderVars, stateVars, hdrVars, ownVars, batch, running, emitVars>>

\* Record the order of the next event.  The queue's lock is kept when the event
\* after it belongs to the same queue; after the last one both locks are freed.
Order(c) ==
  LET e == Head(bulk[c])
      q == hdrQ[e]
      rest == Tail(bulk[c]) IN
  /\ pc[c] = "order"
  /\ lock[q] \in {None, c}
  /\ MaintainOrder(e, q)
  /\ lock' = [lock EXCEPT ![q] = IF rest # <<>> /\ hdrQ[Head(rest)] = q THEN c ELSE None]
  /\ bulk' = [bulk EXCEPT ![c] = rest]
  /\ batch' = [batch EXCEPT ![c] = Append(@, e)]
  /\ IF rest = <<>>
     THEN schedLock' = None /\ Goto(c, "loop")
     ELSE UNCHANGED <<schedLock, pc>>
  /\ UNCHANGED <<schedQ, stateVars, hdrQ, done, op, ownVars, running, emitVars>>

\* dispatch_event on a ready queue: call the receive function.
Dispatch(c) ==
  LET e == Head(batch[c]) IN
  /\ pc[c] = "loop"
  /\ status[hdrQ[e]] = "READY"
  /\ batch' = [batch EXCEPT ![c] = Tail(@)]
  /\ app' = app \cup {e}
  /\ running' = [running EXCEPT ![c] = TRUE]
  /\ Goto(c, "recv")
  /\ UNCHANGED <<schedQ, schedLock, orderVars, stateVars, hdrVars, free, out, bulk, emitVars>>

ReceiveReturns(c) ==
  /\ pc[c] = "recv"
  /\ running' = [running EXCEPT ![c] = FALSE]
  /\ Goto(c, IF batch[c] # <<>> THEN "loop" ELSE "idle")
  /\ UNCHANGED <<schedQ, schedLock, orderVars, stateVars, hdrVars, ownVars, bulk, batch, emitVars>>

\* dispatch_event on a queue that is not ready: em_free, in order if it has one.
DropEvent(c) ==
  LET e == Head(batch[c])
      q == hdrQ[e]
      next == IF Len(batch[c]) > 1 THEN "loop" ELSE "idle" IN
  /\ pc[c] = "loop"
  /\ status[q] # "READY"
  /\ batch' = [batch EXCEPT ![c] = Tail(@)]
  /\ \/ /\ e \in ordered
        /\ Complete(c, e, Free)
        /\ Goto(c, IF orderFirst[q] = e THEN "emit" ELSE next)
        /\ UNCHANGED app
     \/ /\ e \notin ordered
        /\ SendSwitch(e, Free)
        /\ free' = free \cup {e}
        /\ Goto(c, next)
        /\ UNCHANGED <<schedLock, orderVars, stateVars, ordered, done, op, app, bulk, running, emitVars>>

\* queue_state_change, of em_queue_enable and em_queue_disable: the status comes first.
\* (The application makes one change of a queue after the other.)
ToggleStatus(q) ==
  /\ q \in Disableable
  /\ status[q] = "READY" <=> q \in counted
  /\ status' = [status EXCEPT ![q] = IF @ = "READY" THEN "BIND" ELSE "READY"]
  /\ UNCHANGED <<schedQ, schedLock, orderVars, counted, hdrVars, ownVars, pc, coreVars, emitVars>>

\* sched_masks_add_queue or sched_masks_rem_queue, under sched_add_counts_lock: then come
\* the masks of the cores (QueueGroup has them one by one).
ChangeMasks(q) ==
  /\ (status[q] = "READY") # (q \in counted)
  /\ counted' = IF status[q] = "READY" THEN counted \cup {q} ELSE counted \ {q}
  /\ UNCHANGED <<schedQ, schedLock, orderVars, status, hdrVars, ownVars, pc, coreVars, emitVars>>

\* The bit of the sched-queue is set in the masks: one of its queues is counted.
Polled == counted # {}

\* Whoever serves the destination Out: the buffer returns to the pool.
Consume ==
  /\ out # <<>>
  /\ out' = Tail(out)
  /\ free' = free \cup {Head(out)}
  /\ UNCHANGED <<schedQ, schedLock, orderVars, stateVars, hdrVars, app, pc, coreVars, emitVars>>

-----------------------------------------------------------------------------

AppStep(c) ==
  \E e \in Events :
    \/ Alloc(c, e)
    \/ \E d \in Ends : SendPlain(c, e, d) \/ SendOrdered(c, e, d)
    \/ \E q \in Queues : Receive(c, e, q) \/ ReceiveDirect(c, e, q)

EMStep(c) == Order(c) \/ Dispatch(c) \/ DropEvent(c) \/ Emit(c)

Next ==
  \/ \E c \in Cores : AppStep(c) \/ EMStep(c) \/ Schedule(c) \/ ReceiveReturns(c)
  \/ \E q \in Queues : ToggleStatus(q) \/ ChangeMasks(q)
  \/ Consume

Spec == Init /\ [][Next]_vars

(* A running core takes its next step and a receive function returns.  A       *)
(* spinlock is held for a bounded number of steps but nothing queues those who *)
(* spin on it: that each of them gets it in the end is the strong part of the  *)
(* assumption.  (A step of EMStep changes a burst or what the core emits.)     *)
Fairness ==
  \A c \in Cores : SF_<<coreVars, emitVars>>(EMStep(c)) /\ SF_running(ReceiveReturns(c))

FairSpec == Spec /\ Fairness
-----------------------------------------------------------------------------
(* Properties *)

\* Types of the state.
TypeOK ==
  /\ schedQ \in Seq(Events)
  /\ schedLock \in Cores \cup {None}
  /\ orderFirst \in [Queues -> Events \cup {None}]
  /\ orderQ \in [Queues -> Seq(Events)]
  /\ lock \in [Queues -> Cores \cup {None}]
  /\ status \in [Queues -> {"READY", "BIND"}]
  /\ counted \subseteq Queues
  /\ hdrQ \in [Events -> Queues \cup {None}]
  /\ ordered \subseteq Events /\ done \subseteq Events
  /\ op \in [Events -> Ends]
  /\ app \subseteq Events /\ free \subseteq Events
  /\ out \in Seq(Events)
  /\ pc \in [Cores -> ControlPoints]
  /\ bulk \in [Cores -> Seq(Events)]
  /\ batch \in [Cores -> Seq(Events)]
  /\ running \in [Cores -> BOOLEAN]
  /\ emit \in [Cores -> Events \cup {None}]
  /\ input \in [Cores -> Events \cup {None}]

\* The events of q in order: the first one, or the one that is leaving, and the
\* order-queue behind it.
InOrder(q) ==
  (IF orderFirst[q] # None THEN <<orderFirst[q]>>
   ELSE IF \E c \in Cores : emit[c] # None /\ hdrQ[emit[c]] = q
   THEN <<emit[CHOOSE c \in Cores : emit[c] # None /\ hdrQ[emit[c]] = q]>> ELSE <<>>)
  \o orderQ[q]

\* Nobody waits for a turn that does not come: an event that has an order is in
\* the order of its queue ("to avoid never being sent", em_intel_sched.c:1040),
\* and unless a core is emitting for the queue, the first event in order is one
\* the application still has to finish, and there is a first one if there is any.
TurnsCome ==
  /\ \A e \in ordered \cup done :
       \E i \in 1..Len(InOrder(hdrQ[e])) : InOrder(hdrQ[e])[i] = e
  /\ \A q \in Queues :
       (\A c \in Cores : pc[c] = "emit" => hdrQ[emit[c]] # q) =>
         /\ orderFirst[q] = None => orderQ[q] = <<>>
         /\ orderFirst[q] \notin done

\* A buffer is in one place, and what waits for its turn is no longer owned by
\* the application: nothing is sent twice, freed twice or lost.
Places(e) ==
  {<<"pool", 0, 0>> : x \in free \cap {e}}
  \cup {<<"app", 0, 0>> : x \in app \cap {e}}
  \cup {<<"waiting", 0, 0>> : x \in done \cap {e}}
  \cup {<<"refused", c, 0>> : c \in {x \in Cores : input[x] = e /\ emit[x] # e}}
  \cup {<<"sched", i, 0>> : i \in {j \in 1..Len(schedQ) : schedQ[j] = e}}
  \cup {<<"out", i, 0>> : i \in {j \in 1..Len(out) : out[j] = e}}
  \cup (UNION {{<<"bulk", c, i>> : i \in {j \in 1..Len(bulk[c]) : bulk[c][j] = e}} : c \in Cores})
  \cup (UNION {{<<"batch", c, i>> : i \in {j \in 1..Len(batch[c]) : batch[c][j] = e}} : c \in Cores})
OnePlace == \A e \in Events : Cardinality(Places(e)) = 1

\* Nothing gets stuck in EM: an event in a burst reaches the application, and one whose
\* turn has come, because it and all before it are finished, leaves.
InBurst(e) == \E c \in Cores : \E i \in 1..Len(bulk[c] \o batch[c]) : (bulk[c] \o batch[c])[i] = e
Due(e) ==
  \E q \in Queues : \E i \in 1..Len(InOrder(q)) :
    /\ InOrder(q)[i] = e
    /\ \A j \in 1..i : InOrder(q)[j] \in done
Moving(e) == InBurst(e) \/ Due(e)

\* An event in the sched-queue is taken from it if the cores come back to this
\* sched-queue as long as one of its queues is enabled: that they do is a hypothesis, as
\* the cursor of ordered sched-queues may pass it over (CoreLoop's OrderedServed).
InSchedQ(e) == \E i \in 1..Len(schedQ) : schedQ[i] = e
ComeBack == \A c \in Cores : SF_bulk(Polled /\ Schedule(c))
NothingStuck ==
  /\ \A e \in Events : Moving(e) ~> ~Moving(e)
  /\ ComeBack => \A e \in Events : InSchedQ(e) ~> ~InSchedQ(e) \/ ~Polled

\* The events that are accepted and not handed out, with their queues: those a core is
\* about to order and those in the sched-queue.
Accepted ==
  LET s == (IF schedLock = None THEN <<>> ELSE bulk[schedLock]) \o schedQ
  IN  [i \in 1..Len(s) |-> <<s[i], hdrQ[s[i]]>>]

Promise ==
  INSTANCE OrderedQueue
  WITH accepted <- Accepted,
       inOrder <- [q \in Queues |-> InOrder(q)],
       finished <- {<<e, op[e]>> : e \in done},
       Window <- OrderCap + 1, DirectRx <- DirectDispatch

\* The sched-queue, the bursts taken from it, order-queues and locks implement ordered queues.
ImplementsOrderedQueue == Promise!Spec
==============================================================================
