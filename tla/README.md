# Open Event Machine: TLA+ models, model checking and proofs

Open Event Machine (EM) dispatches events from queues to the receive functions
of execution objects (EOs) on many cores. This implementation, for Intel DPDK,
is C: `src/event_machine` is the API and `src/event_machine/intel` its
implementation; `src/event_timer` adds timeouts, `src/misc` rings, lists and
wrappers of the environment. Every core runs `em_dispatch` in a loop; cores
share all state through memory, and what keeps them apart is compare-and-set,
spinlocks and internal events sent from core to core.

`PROJECT.json` holds, for every definition, the source lines it models (`map`),
the parts of the system (`components`), what can go wrong in them (`hazards`),
the runs, and the mutant of the code that each checked property refutes.

## 1. The system and what is modelled

| Part | Its state | Its operations | Module |
|---|---|---|---|
| Atomic queues | event ring, `event_count`/`sched_count` in one word, sched-queue | send, schedule, dispatch, direct dispatch | `AtomicQueue` |
| Parallel-ordered queues | `order_first`, order-queue, lock, header operation | schedule, complete (send, free, Tx), emit, direct dispatch | `ParallelOrdered` |
| Parallel queues | nothing but a multiring | send, schedule | `CoreLoop` (schedule), `PacketIO` (send) |
| Polling cursors | per core and type: group, index in each group, burst count | the rounds of `em_schedule` | `PollCursor`, `CoreLoop` |
| Multirings | four rings' prod and cons indexes, slots | enqueue (many producers), weighted burst (many consumers) | `Multiring` |
| Scheduling masks | per core: counts of enabled queues, `qidx_mask`, `q_grp_mask` | add/remove a queue on all cores, add/remove a group on this core | `QueueGroup` |
| Queue groups | mask, pending flag, queue list | create, modify (three phases), mask, delete | `QueueGroup` |
| Internal events | one queue per core, one shared, the *done* event | `em_internal_notif`, receive, local functions, done and callback | `QueueGroup`, `ExecutionObject` |
| Queue lifecycle | queue elements, pools of ids and of rings | create, create static, delete, enable, disable, one or all | `ExecutionObject`, `QueueGroup` |
| EOs | queue list, start and stop functions | create, delete, start, stop, add/remove queue | `ExecutionObject` |
| Event groups | count, notifications, allocation | create, apply, increment, counted send, count-down, notify, delete | `EventGroup` |
| Event timer | pending timeouts | request, expiry | `EventTimer`, `CoreLoop` |
| Packet reception | NIC queues and their tokens, hash table and queue table | poll, look up, enqueue; add and remove a flow | `PacketIO` |
| Transmission | a table per port, ring and try-lock; or the core's own | send, drain | `EthTx` (in order), `PacketIO` (without) |
| Errors, start-up, core masks, examples | | | no (section 7) |

### How the parts interact

A send puts an event (parallel, ordered) or a queue element (atomic) into a
*sched-queue*, a multiring chosen by queue group and `qidx`. `em_schedule` polls
the sched-queues its core's masks allow, where its cursors are, and takes a burst;
`dispatch_event` calls the receive function, which calls the API again. When the
event belonged to an event group, the dispatcher then counts it, and the core that
reaches zero sends the group's notifications. `em_send`, `em_free` and the Tx
functions look first whether the event came from a parallel-ordered queue; if so
they only note what is to be done until the event's turn has come. A queue group is
modified, an EO started and stopped, and the completion of a disable detected, with
internal events that are themselves sent through atomic queues and counted by an
event group. Packets and timeouts enter between two rounds of the scheduling.

The modules take each other's promises over: `AtomicQueue` and `ParallelOrdered`
use FIFO sched-queues (what `Multiring` promises, `PriorityFifos`); `EventGroup`
uses that queues serve every event (`EventuallyServed` of `AtomicQueue`);
`QueueGroup` and `ExecutionObject` use FIFO internal queues (`ExclusiveQueue`) and a
*done* event that is sent once (`NotifiedAtEnd` and `EventuallyNotified` of
`EventGroup`); `PollCursor` is told by the masks of `QueueGroup` where to poll, and
that a core comes back to receiving packets, which `PacketIO` needs, is `RxNotStarved`
of `CoreLoop`.

### What makes each part hard, and what makes it right

* **Atomic queues.** A queue's element must exist once: a second copy breaks
  atomicity, none leaves the queue unscheduled for ever. Senders and the
  dispatcher decide about it with one word and no lock. Right: `OneElement`,
  `MutualExclusion`, `NoLostWakeup`, `CountCovered`, FIFO (`ExclusiveQueue`).
* **Parallel-ordered queues.** Events finish in any order but leave in the order
  they were handed out, and whichever core finishes the first emits for others.
  Right: everybody's turn comes (`TurnsCome`, `NothingStuck`), the output order
  (`OrderedQueue`), no buffer sent or freed twice (`OnePlace`).
* **Cursors.** A burst keeps the cursor where it is, masks change under it, locked
  sched-queues are passed by. Right: nothing starves (`PolledWithinBound`,
  `OrderedServed`, `TimeoutsFire`, `RxNotStarved`).
* **Multiring.** Producers and consumers reserve with compare-and-set and publish
  in turn; a consumer holds up to four priorities at once. Right: FIFO per priority
  (`PriorityFifos`), `FairShare`, no refusal with room left, no circular wait.
* **Event groups.** Count-down races with increments and with the next apply.
  Right: the count is what is outstanding; notifications at the end, and for certain.
* **Queue groups and masks.** Masks of a core are written by other cores (enable,
  disable) and by itself (entering or leaving a group). Right: `EnabledIsPolled`,
  `CountsExact`, `MaskIsTrue`, `MembersAreQuiet`, completion.
* **Queues and EOs.** Elements and events of a queue are all over the system when it
  is disabled, removed and deleted, and its id and its ring serve again. Right:
  nothing of a deleted queue is left (`DeletedIsIdle`), no event lost with its ring
  (`OnePlace`), a stopped EO is quiet (`StopIsQuiet`), functions and notifications come
  in order (`NotifiedInOrder`), stops end.
* **Packets.** Cores take turns at a receive queue; a flow's queue changes between
  the two halves of its lookup. Right: one place, arrival order, everyone's turn.
* **Ordered Tx.** A try-lock whose losers leave their packet to the winner. Right:
  one consumer, nothing sent twice, flow order, the ring is drained.

## 2. The modules and the code

In every module a step is what another core can observe: one shared-memory
operation, or a section under a lock. `pc` (or `at`) says where a core is between
two of them; the actions whose `pc` is `"idle"` or `"recv"` are API calls of the
application.

**AtomicQueue** (`em_intel_sched.c`: `em_send_atomic`, `em_schedule_atomic`,
`dispatch_event`, `em_direct_dispatch__atomic`), default build
`LOCKLESS_ATOMIC_QUEUES=1`. A sender does `Send` (ring enqueue), `CountEvent`
(fetch-and-add), `TestAndSet` and `Push` (into the sched-queue). A dispatcher
does `Schedule` (a burst of elements), `ReadCount`, `TakeEvents`, `Dispatch` and
`ReceiveReturns` for each event, `Subtract`, then `Release` (the compare-and-set
that clears both counters) or `Reschedule`. `GrabContext` is direct dispatch of a
received packet. `DropEvent`: the queue is not ready. `ToggleStatus` and `ChangeMasks`
are the two halves of an enable or a disable: the status, and then the queue in the
cores' masks (`counted`, for all cores at once; `QueueGroup` has them one by one). When
no queue of the sched-queue is counted, no core need poll it (`Polled`) and its events
wait in their rings.

**ExclusiveQueue** is what an atomic queue promises: events accepted, received
in that order, by one core at a time, or dropped, but only while the queue is disabled.
`AtomicQueue` implements it (`ImplementsExclusiveQueue`): the accepted events are those
of the batch of the core in the queue's context followed by the ring.

**ParallelOrdered** (`em_schedule_parallel_ordered`, `parallel_ordered_maintain_order`,
`em_send_from_parallel_ord_q`, the ordered branch of `em_free`, direct dispatch).
`Schedule` dequeues under the sched-queue's lock, `Order` gives an event its place,
`Complete` notes what is to be done and, for the first in order, starts the loop whose
rounds are `Emit`. The last round releases the turn to the next event in order.
`ToggleStatus`, `ChangeMasks` and `Polled` are as in `AtomicQueue`.
**OrderedQueue** is its promise for the queues that share a sched-queue: one sequence
of accepted events, from which they are handed out in order, and for each queue the
order in which they leave. `ParallelOrdered` implements it (`ImplementsOrderedQueue`):
accepted is what a core has still to put in order, followed by the sched-queue.

**Multiring** (`src/misc/intel/multiring.h`: `__mring_mp_do_enqueue`,
`mring_dequeue_mp_burst`). Each read of an index, each compare-and-set, each slot
written or copied is a step. `Weigh` is the loop that trims the burst to the
quotas. **PriorityFifos** is its promise. The model fixes the order in which
memory operations take effect to the program's, as the code's barriers on x86 do.

**EventGroup** (`em_intel_event_group.c`, `em_send_group`, `dispatch_event`).
`em_event_group_apply` writes three fields without a lock: `SetCount`, `SetNum`,
`SetTbl`. `Update` is the compare-and-set count-down, each round of the
notification loop a `Notify`, which reads the entry again as the code does.

**QueueGroup** (`em_intel_queue_group.c`, the four `sched_masks_*` functions of
`em_intel_sched.c`, `em_queue_enable` and `em_queue_disable` in `em_intel.c`,
`em_internal_event.c`). `CreateGroup` and `ModifyGroup` set the pending flag
(`Modify`) and `SendRequest` sends the requests; a group created without cores needs
none. A deletion is two sections under the lock: `DeleteGroup` looks at the group and
asks for a modify that changes nothing, which does not set the flag, and `DeleteDone`
clears the entry. `Handle` is a core taking a request
(`AddGroup`, `RemoveGroup`), `ModifyDone` the *done* callback that stores the mask.
`Enable` and `Disable` write the status, `AddQueue` and `RemoveQueue` count under the
lock; `NotifyCores` and `DisableDone` are the notification of a disable. The
`cursor` stays where it was when the masks change: a core polls a sched-queue once
more after it has left the group. `DirectDispatch` goes by the core's group mask.

**ExecutionObject** (`em_intel.c`, `em_internal_event.c`). `CreateQueue`,
`CreateStaticQueue` and `DeleteQueue` with the pools of ids and rings; `AddQueue`,
`EnableQueue`, `RemoveQueue`; `EoCreate`, `EoStart`, `EoStop`, `EoDelete`, `EnableAll`
and `DisableAll`, whose walk over the list is `ChangeNext` and `ChangeEnds`. `Request`
sends an internal event to every core, `Handle` calls a local function or counts,
`Done` is the *done* event with its callback, which runs the global stop function.
A send, the release of an element and the change of the masks are one step each
here; `Take`, `Dispatch`, `DropEvent` and `PutBack` keep the elements and bursts of
queues that are being disabled under way. `Take` does not ask for the core's masks, which
its cursor may not have looked at again; `QueueGroup` has them. A queue that was removed
can be added again.

**PollCursor** (`sched_q_get_next_idx`, `sched_q_get_next_qidx` and the cursor part of
the three `em_schedule_*` functions) says where a core polls: `Poll` for the atomic and
the parallel type, `StartLook`, `PassBy`, `FindEmpty` and `TakeBurst` for the ordered
one. `BitsFrom` is the shift of a 32-bit `int` that the code does to a 64-bit mask.
**EventTimer** is the pending timeouts of a core. **CoreLoop** is `em_schedule`: it
extends both and says when packets are received, timers run and each type is
scheduled, and when the loop around them ends (`Decide`).

**PacketIO** (`em_intel_packet.c`: `em_eth_rx_packets`, `em_packet_lookup_enqueue`,
`packet_enqueue`, `em_packet_add_io_queue`, `em_packet_rem_io_queue`, the Tx path
without order). `TakeToken` to `GiveBack` is one call of `em_eth_rx_packets`; `Lookup`
finds the position of one packet, as `rte_hash_lookup_multi` goes through its keys.
`AddKey` (also for a flow that has a queue) and `SetQueue`, `RemoveKey` and `ClearQueue`
are the halves of a change that other cores can see between. The default queue is read
twice (`FindDefault`, `ReadDefault`) and `DefaultQueue` changes it at any time. A packet
for an undefined queue is refused and freed: the code reads in front of
`em_queue_element_tbl` and finds no type of queue there in the 64-bit build with the
default options, the only build modelled. `flow` is the flow that the header of a packet names;
`earlier`, the packets of the flow that came before it, is history that no step reads.

**EthTx** (`em_intel_packet.c`: `intel_eth_init_local`, `eth_tx_packet__ordered`,
`eth_tx_packets_timed__ordered`). `Send` to `Enqueue` is one packet; `Drain` the
timed flush by the cores that `Deals` gives the table: the one it was dealt to, and for
table 0 those that were dealt none, whose list of tables holds only zeroes. The port is
one whose link was up at startup; others are never drained (`em_intel_packet.c:1058`). A
lock that is taken only to find the ring empty is left out.

`AtomicQueueProofs`, `ParallelOrderedProofs`, `QueueGroupProofs`, `ExecutionObjectProofs`,
`EventGroupProofs`, `EthTxProofs`, `MultiringProofs` and `PacketIOProofs` hold the proofs,
each with the lemmas on sequences that it needs; `MC*` modules and `.cfg` files give the
constants values for TLC.

## 3. The runs

| Run | Question | Instance |
|---|---|---|
| `atomic_two_queues` | One element, atomicity, no lost wakeup, no buffer lost, FIFO, with everything on | 2 cores, 2 queues, 3 events, ring 2, sched-queue 2, bursts 2x2, disable, direct dispatch; symmetry |
| `atomic_burst` | A burst is in the ring; every event is served | 2 cores, 1 queue, 3 events, burst 2 |
| `ordered_queue` | Turns come, order kept, no buffer lost, nothing stuck | 2 cores, 1 queue, 3 events, order-queue 1, destination 1, burst 2 |
| `multiring` | FIFO, refusal only when full, fair bursts, no circular wait, with indexes that wrap | 2 producers, 2 consumers, 2 priorities, 3 slots, 3 objects |
| `event_group` | Exact count, notified at the end, and for certain | 2 cores, 1 group, 2 events, 2 notifications |
| `queue_group` | Masks, counts and membership while the group and its queues come, change and go | 2 cores, 1 group, 2 queues with one `qidx` |
| `execution_object` | Deletion leaves nothing, the stop is quiet, functions and notifications in order, stops end | 2 cores, 1 EO, 2 queues (one static), 2 events, burst 2 |
| `core_loop` | No sched-queue, timeout or receive queue is starved by the loop | 1 core, groups 5 and 63, two sched-queues of each of two types, one switched on and off, bursts in a row limited to 2 |
| `packet_io` | Buffers in one place, arrival order, every receive queue served | 2 cores, 2 Rx queues, 2 flows, one of them added, 2 packets, bursts of 2, tokens used twice |
| `eth_tx` | One consumer, one place, what is left of order, drained | 2 cores, 1 table, 2 flows, 3 packets each, ring 2, burst 2 |
| `event_group_reapply` | *violated:* `NotifiedAtEnd` | rounds of 1 and of 2 notifications |
| `queue_group_repeats` | *violated:* `EnabledIsPolled` | as `queue_group`, disables repeated |

**Why the bounds are enough to be interesting.** Two cores give every race between
a sender and a dispatcher, between two dispatchers and between a caller and a core
that answers. Three events fill a ring of two and an order-queue of one, so that
each overflow branch is taken, and leave one event to race with a burst of two. Two
queues in one sched-queue make a dispatcher hold two elements at once, and two
with one `qidx` make counts behind a mask bit differ from the bit. Two positions of
a cursor in one group and one in another make it wrap in the group and among the
groups; 5 and 63 are a group of the application and the default one. One
flow that is added and removed and one that has only the default queue make a packet meet
every outcome of the two lookups (with one EM queue, flows that take over each other's
positions would show nothing more; the theorems have them). One Tx table for two cores makes the second core, which is dealt none, drain it too. The
multirings start at index 7 of 9, so that they
wrap; indexes are counted modulo 9 where the code has 2^32, and the number of objects
(at most 9 - 3) keeps a head that a core has read from coming round to the same
value: with 2^32 that needs four thousand million enqueues during one call.

**Which bounds are in the guards.** `MaxPackets` (packets of a flow), `MaxObjects`
(objects), `MaxCount` (events of a round), `MaxDispatched`, `MaxSent` and `MaxEnqueued`
(what the application does after one poll, and `events_enqueued`), one notified
disable of a queue at a time (`UnderWay`), static queues created after the dynamic
ones (`CreateStaticQueue`). Buffers are finite as in the code.

**Deadlock** is checked everywhere: in the models with a bounded input a
step that changes nothing is allowed when all is done (`Done` of `EthTx`) or the
program always has something to do.

**Symmetry** (cores, events) is used in `atomic_two_queues` alone, which has
no liveness property.

### Fairness

A core that is inside EM takes its next step (`WF`): nothing interrupts it
("A lcore must not be interrupted by another task that uses the same ring",
`multiring.h:84`). `em_dispatch` calls `em_schedule` in every round of its endless
loop and receive functions return, but a callback may send a bounded number
of events in between and the model does not bound it: hence `SF` for `Schedule`,
`ReceiveReturns`, `Handle`, `TakeDone`, `Done` and `Drain`. `Schedule` of `AtomicQueue`
is fair only while the sched-queue is polled, that is has a bit in the masks; its
`EventuallyServed` says that an event in a ring is served, or its sched-queue is not
polled. `ParallelOrdered` has no fairness for `Schedule` at all: the code does not
promise that a core comes back to an ordered sched-queue (number 8 in section 4). So
`NothingStuck` has two parts. What a core has taken, or whose turn it is, moves
on whatever the cursors do; an event in the sched-queue leaves it, or the sched-queue is
not polled, if the cores come back (`ComeBack`, a hypothesis of the property and not of
the run). For spinlocks
(`ParallelOrdered`) strong fairness of `EMStep` says that a core that keeps trying gets
the lock in the end; these locks do not queue, so it is an assumption. In `CoreLoop`, `EndLook`
says the same of the locks of ordered sched-queues, and a run of the timers finds an
expired timeout in the end. `OrderedServed` has its own, stronger hypothesis (each
ordered sched-queue is found empty again and again), because the code gives no
more: see section 4. Nothing is assumed of the application: it need not send, free or
enable anything.

### What the application must keep to

The models do not let the application do what the documentation forbids: change a
group and enable or disable its queues at the same time (`MaskReadable` and the guard of
`ModifyGroup` in `QueueGroup`; `em_intel_queue_group.c:325` and `738`; queues may be
created and deleted meanwhile), delete a group that has cores (779), delete a
queue before its removal is notified (`em_intel.c:897`), apply or delete an event group
that is in use (`AtRest` of `EventGroup`), use an event it does not own. More rules are
constants or guards because the code is wrong without them and no document states
them (section 4): `Disciplined` of `AtomicQueue` (`KeepsRule`), `Repeats` and `Contends` of
`QueueGroup` (`LeftAlone`: a group that one core is deleting is used by no other), and in
`ExecutionObject` `Drains` (a queue is removed only when its events have come back),
a queue is enabled once, and a static queue is not deleted.

## 4. Where code and documentation disagree

Shown by a run:

1. `event_group_reapply`. The notification loop reads `num_notif` from the entry
   in every round; if the receiver of the last notification applies the group with
   more notifications, the old loop sends the new round's at once.
2. `queue_group_repeats`. Disabling a queue that is already disabled lowers the
   counts of its sched-queue again; another enabled queue with the same `qidx` is no
   longer polled. `em_eo_stop` does so and says that it does not matter.

Met while modelling; the models can show those with a name, by the constant or guard
given:

3. Atomic queues: a sender that finds `event_count` zero does not schedule the queue
   when the event's header still names it, taking that for a send from the queue's own
   context (`em_intel_sched.c:1878`). An event that was kept and is sent back later
   from anywhere else is left in the ring and blocks the queue for ever
   (`NoLostWakeup` without `Disciplined`). EM itself resets the field before it sends
   events that it allocated (`em_internal_event.c:260`, `em_intel_queue_group.c:572`,
   `event_timer.c:207`), but not for the notifications of event groups
   (`em_intel_event_group.c:314`), where the field still names the queue in whose context
   the application allocated the notification event. So the rule binds the application
   for these too, and `NoLostWakeup` is for programs in which they keep it.
4. Ordered Tx: a sender that finds a full burst in the ring adds its own packet to the
   burst, ahead of earlier packets of its flow further back (`em_intel_packet.c:823`).
   `OnlyStraightOvertakes` says what order is left.
5. Deletion: nothing removes a deleted queue's element from its sched-queue. When the id
   is created again, `queue_init` clears the counters (`em_intel.c:460`) and the next
   send makes a second element (`DeletedIsIdle` without `Drains`).
6. A core that leaves a group does not reset its cursors
   (`em_intel_sched.c:1557-1585`), polls the group once more and may run a receive
   function after a disable was notified: only `MembersAreQuiet` holds, not the same for
   all cores.
7. `sched_q_get_next_idx` shifts an `int` (`em_intel_sched.c:1074`): with a group of
   number 30 or more, a core may never poll the default group (63) again
   (`PolledWithinBound` with such a group in `SchedQueues`).
8. Ordered cursors: `save_qidx` is stored only on the path of an empty sched-queue (895
   to 899, not 911 to 916), and a locked one is passed by without the cursor being moved.
   `NothingStuck` and `OrderedServed` are conditional for this reason.
9. `em_schedule` goes round while more events are sent to the core's own groups than
   it dispatches: `em_dispatch(rounds)` need not return and packets wait.
10. A flow's position is read before its queue: a flow removed in between has its
    packet sent to the undefined queue, for which the code reads in front of the table of
    queues (section 2, `PacketIO`), and one whose position is given away has it sent to the
    other flow's queue. The default queue is checked and read again (1277, 1280), with
    the same outcome when it is taken away in between.
11. `em_eo_stop` without a local stop function calls the global one at once
    (`em_intel.c:1847`), although 1786 to 1791 promise that no core is accessing EO data
    (`StopIsQuiet` with `StopLocal` false). It also ignores an error of
    `em_queue_disable_all`. Queues are never "enabled automatically" (1520), and
    `em_eo_delete` checks nothing (1441).
12. `em_queue_create_static` leaves the queue off its group's list: cores that enter
    the group later do not poll it, and `em_queue_delete` follows null pointers.
13. `evt_cancel_timeout` passes the address of the caller's variable as the timer.
14. As many notifications as an event group can hold are treated as none
    (`em_intel.c:1064` and four more places).
15. `em_queue_group_delete` goes through two sections under the lock, and the equal-mask
    modify in the first sets no pending flag (`em_intel_queue_group.c:512-548`); only the
    other branch does, "to catch contending modifies". A modify that begins before the second (918 to 942) is erased; its *done* callback later
    writes the mask of a group that is free, or somebody else's by then (`MaskIsTrue` with
    `Contends` true: TLC finds the trace in the instance of `queue_group`).
16. Disabling the last queue of a sched-queue takes it out of the masks, so that the
    events it still has are held until a queue of that sched-queue is enabled, while those
    of a disabled queue whose sched-queue is polled for others are dropped
    (`EventuallyServed` and `NothingStuck` without `~Polled`).

## 5. What is proved

TLAPS checks these for all constants that satisfy the assumptions in the modules.

`AtomicQueueProofs`, for any number of cores, queues and events, all ring and burst
sizes, with and without direct dispatch:

* `TypeCorrect`: `Spec => []TypeOK`; `event_count` never falls below zero.
* `OneElementAlways`: `Spec => []OneElement`.
* `Atomicity`: `Spec => []MutualExclusion`.
* `NoWakeupLost`: `Spec => []NoLostWakeup`, if the sched-queue has room for every queue
  (`QueuesFit`) and the application is `Disciplined`. Both hypotheses are needed:
  131072 queues share 16 sched-queues of 4095 slots, and for the second see
  number 3 above.

The argument. `OneElement` is not inductive: `Push` needs to know that nobody has the
element of a queue whose `sched_count` the sender has just set. `IInv` adds that:
whoever has an element has set the queue's `sched_count` (`ElementIsMarked`), so a
test-and-set that finds zero is alone. `Release` clears the mark with a
compare-and-set that succeeds only with zero events; that the core then still has the
element is `Shape`, and that it subtracted no more than it took is `TakenCounted`,
which keeps the count in the naturals. Each conjunct is preserved by one lemma
(`TypeStep`, `ShapeStep`, `TakenStep`, `ElementStep`), with one case per action.
For `NoWakeupLost`, `LiveInv` adds the converse: a mark is somebody's element
(`MarkIsElement`, for which the sched-queue must not refuse an element), a counted
event is marked or about to be (`CountedIsMarked`), and a sender that skips the
test-and-set is in the queue's context (`SentFromContext`).

* `DequeueNeverFails`: `Spec => []CountCovered`; the error branch at
  `em_intel_sched.c:717` is never taken.

The count is not the length of the ring at any moment at which somebody is at work on
the queue. `Balance` says what it is: the counted events and the senders between ring
and count (`Adding`, a finite set, by cardinality) are the events in the ring and
those that the one core in the queue's context has taken and not yet subtracted
(`Removes`). Steps are sorted by what they do to one queue (`Undisturbed`,
`EnqueueBalance`, `CountBalance`, `TakeBalance`, `SubtractBalance`).

* `EventsStayInOnePlace`: `Spec => []OnePlace`; no buffer is lost, doubled or received
  twice.

`OnePlace` counts places; `Placed` says the same without numbers (every sequence is
injective, no two places share an event, each event has one), which a step disturbs
for the one event it moves only (`OneMoves`). The bulk dequeue is the exception: it
moves the head of a ring into a burst that was empty.

* `Refinement`: `Spec => ImplementsExclusiveQueue`; atomic queues are FIFO queues with
  one receiver. It needs neither `Disciplined` nor `QueuesFit`: an element that is lost
  delays events, it does not reorder them.

The abstract queue is what the core in the queue's context still has to dispatch,
followed by the ring; a `CHOOSE` names that core and the receiver, and `ChoicesKnown`
derives from `OneElement` that there is no other to choose. `BatchShape` adds that a
core has no events in its hands outside a context. The bulk dequeue is then a stutter
(`TakeStutter`), an enqueue `Accept`, a direct dispatch `AcceptAhead` (`GrabStep`), the
call of the receive function `Begin`, its return `End`, a drop `Discard`.

`ParallelOrderedProofs`, for any number of cores, queues and events, any capacity of
the order-queues, the sched-queue and the destination, any burst:

* `TypeCorrect`: `Spec => []TypeOK`.
* `EventsStayInOnePlace`: `Spec => []OnePlace`.
* `TurnsAlwaysCome`: `Spec => []TurnsCome`.
* `Refinement`: `Spec => ImplementsOrderedQueue`; whatever cores finish the events of a
  queue, in whatever order, they leave in the order in which they were accepted.

An event has one of eight places (`Only`); a step moves one event and leaves the others
(`Stays`). The order of a queue is `OrderOf`: its order-queue, with the first event
aside, holds events that still keep this order or wait for their turn in it, each once.
While a core emits for the queue it has the lock and there is no first event; when
nobody does, there is a first event if there is any, and the application has not
finished it. `HasTurn` is the converse: an event that keeps an order is in it.

In the refinement the code keeps the order of a queue in two places: the order-queue
behind `order_first`, and, while a core emits, the event in that core's hands. `Leads`
says which event is first, and `InOrderSame` that a step that changes neither it nor the
order-queue changes nothing of the abstract order. The accepted events are those a core
took from the sched-queue and has yet to put in order, followed by the sched-queue
(`Pending`); the lock of the sched-queue leaves one such core, so that `Schedule`
moves events within this sequence and is a stutter (`SchedulePending`). `Order` is
`HandOut`, or `HandOutUnordered` when the order-queue is full (`OrderStep`), a packet
dispatched directly `HandOutPacket` (`DirectStep`), `Complete` is `Finish` (`FinishStep`),
a round of the emit loop `Leave` (`EmitStep`), and a send by which no order is kept `Send`
(`SendStep`).

`QueueGroupProofs`, for any number of cores, queues and `qidx`:

* `MaskStaysTrue`: `Spec => []MaskIsTrue`.
* `MembersStayQuiet`: `Spec => []MembersAreQuiet`.
* `CountsStayExact`: `Spec => []CountsExact`, and
  `EnabledStaysPolled`: `Spec => []EnabledIsPolled`, without repeated disables
  (`~Repeats`): with them both are false, number 2 above.

All four are for applications that leave a group alone while it is being deleted
(`~Contends`): otherwise a modify is erased and `MaskIsTrue` is false, number 15 above.
What carries this through the proof is that no modify is pending or under way while a core
is between the two sections, and that the group then has no cores and no queues.

`Owing(o)` is the set of cores that have not handled their event of operation `o`, sent
or still to be sent. Each has one such event (`OneEvent`), the operation's event group
counts them (`LeftCounts`), and the *done* event comes after all of them
(`DoneIsLast`). From it follow where the cores are that a modify moves
(`MembersFollow`) and that a core still in a queue's receive function after the disable
began has the disable's event to come (`QuietFollows`). The counts are those of the
queues that are enabled and added, or disabled and not yet removed (`Counted`), on the
cores of the group, at every step of a call (`CountsFollow`).

`ExecutionObjectProofs`, for any number of cores, queues and events:

* `StopStaysQuiet`: `Spec => []StopIsQuiet` for an EO with local functions
  (`StopLocal`; number 11 above says why).
* `NotificationsStayInOrder`: `Spec => []NotifiedInOrder`.
* `DeletedStaysIdle`: `Spec => []DeletedIsIdle`, and
  `EventsStayInOnePlace`: `Spec => []OnePlace`, if a queue is drained before it is
  removed (`Drains`; number 5 above).

The first two use `Owing` again, here with the local functions that still run, and the
phases of a start and a stop (`StartPhases`, `StopPhases`): a core handles the start
before the stop, so a core that owes nothing to the stop is in no function of the EO.
For the other two, `EInv` follows elements and rings: a ring serves one queue or is in
the pool (`RingsApart`), a queue with `sched_count` 1 has one element (`OneElement`),
`event_count` is what the ring holds and the element's core has taken (`CountsTrue`),
and a queue under removal has nothing but what the cores that owe the removal still
have in hand (`RemovedIsIdle`).

`EventGroupProofs`, for any number of cores, groups, events and notifications:

* `TypeCorrect`: `Spec => []TypeOK`.
* `CountStaysExact`: `Spec => []CountExact`, if all rounds have equally many
  notifications (`OneSize`) or no event is lost (`~Lossy`).
* `NotifiedOnlyAtEnd`: `Spec => []NotifiedAtEnd`, if all rounds have equally many.

`Balanced` is the count: for a group that counts it is what may still be sent, what
waits or is being processed, and what was lost; for one at zero there is nothing left
that could count; and while a core applies the group it is what the core has set.
`CountExact` says nothing of a group at zero, and that is where the trouble is: the core
that counted down to zero goes through the table while the receiver of its last
notification may already apply the group again. So `Rounds` follows the notifications:
those of an applied group are in nobody's queue (`Applied`, `Counting`), each that a core
has still to send is awaited and sent by that core alone (`Sending`), and a loop of an
earlier round has come to the end of the table. The last part needs `OneSize`: with a
larger next round the old loop is no longer at its end (number 1 above). `Losing` says
that a group that has lost something never comes to rest, which is why the account of
losses is zero when it is applied again; this rests on the same, hence the hypothesis of
`CountStaysExact`. For the size of a round the code has no bound but
`EM_EVENT_GROUP_MAX_NOTIF`, and rounds of one size are the usual use of a group.

`EthTxProofs`, for any number of cores, tables, flows and packets, any ring and burst:

* `TypeCorrect`: `Spec => []TypeOK`; the ring never holds more than it can.
* `OneConsumerAlways`: `Spec => []OneConsumer`.
* `RingKeepsOrder`: `Spec => []OnlyStraightOvertakes`.
* `PacketsStayInOnePlace`: `Spec => []OnePlace`; no packet is sent twice, or freed and
  sent.
* `EveryTableIsDealt`: the startup loop gives every Tx table a core that drains it.

The argument for order: nothing can be said about the wire alone, because a burst is
taken now and transmitted later. `IInv` orders the whole way: wire, burst and ring,
one behind the other, are in order up to straight packets (`Sorted`, `Across`), only
one core has a burst (`LockIsHeld`), and a packet in a sender's hands is the flow's
latest (`OwnIsLatest`), so it may follow everything handed over before
(`LatestIsLast`). One lemma per action that moves packets (`SendOrder`, `BulkOrder`,
`TransmitOrder`, `EnqueueOrder`, `DrainOrder`).

`MultiringProofs`, for any quotas, ring size, index width, first index and number of
cores:

* `Refinement`: `Spec => ImplementsPriorityFifos`. No slot is read before it is written
  or overwritten before it is read, and a dequeue returns exactly what its compare-and-set
  reserved, however cores are delayed between that, their slots and their tails.
* `RefusedOnlyByAFullRing`: `Spec => RefusedOnlyWhenFull`.
* `NeverOverrun`: the four ends of a ring follow each other, at most a ring apart.
* `WeighIsFair`: whatever the priorities hold, the trimming loop leaves a burst as large
  as can be and every priority its quota or all it has.
* `BurstsAreFair`: `Spec => FairShare`.
* `TypeCorrect`: `Spec => []TypeOK`.

The indexes wrap, so they cannot be compared; the proof counts. The *position* of an
index is how many objects it is past the first one (`Pos`). There are too few objects for
an index to come round to its old value during a call (`MaxObjects`; in the code a core
would have to sleep for 2^32 - `RING_SIZE` objects of one priority), hence positions are
ordered naturals, and `PlusPos`, `MinusPos`, `FreePos` and `SlotPos` show that the unsigned
arithmetic of the code is arithmetic on them. `Numbered` bounds the positions: every one
is an object that was given to `mring_enqueue`, the producers not yet at their slot not
counted.

`Window` is the heart: cons.tail, cons.head, prod.tail and prod.head follow each other,
and the last is at most `RingSize - 1` past the first. A producer read prod.head long
before cons.tail; its guard is still enough, because its head is not ahead of the ring's
(`Produces`) and cons.tail only moves forward, and the compare-and-set fails unless the
head is the newest. Conversely, `FreeEntries` is exact for an old head: when it says 0
for it, the newest head is exactly `RingSize - 1` ahead of cons.tail. A producer between
its compare-and-set and its tail has a position of its own in prod.tail..prod.head
(`ProducersApart`), a consumer bursts of its own in cons.tail..cons.head
(`ConsumersApart`), and positions less than a ring apart have different slots
(`SlotsApart`), from which it follows that a write touches nothing that the promise sees
(`WriteUnseen`). Of the steps that remain, publishing is `Put`, a successful
compare-and-set of the heads `Take`, and the release of the last priority `Deliver`; a
copy moves an object from the rest of a burst to what is copied, which is the same
sequence (`JoinMoves`).

`PacketIOProofs`, for any number of cores, receive queues, flows, positions and packets,
any burst, any use of a token:

* `TypeCorrect`: `Spec => []TypeOK`.
* `PacketsStayInOnePlace`: `Spec => []OnePlace`; no buffer is freed or kept twice, and no
  receive queue loses its token or is polled by two cores.
* `FlowsStayInOrder`: `Spec => []FlowOrder`.

Order rests on the tokens: who has the token of a receive queue is alone with its
packets (`Tokens`), and the packets in a core's tables came in on the receive queue whose
token it has (`Steered`), so those of one flow are with one core. A core that gives its
token back has empty tables (`Shape`). On its way a packet moves from the receive queue to
the burst, the pairs and an EM queue: what is ahead on this way came before (`Across`),
and each of these sequences is in order of arrival (`AllSorted`). A change of the flow's
queue between the halves of a lookup sends packets elsewhere, it does not put one ahead
of another. `Placed` and `Injective` are `OnePlace` without numbers, as for atomic queues;
a step moves a set of packets from one place to another (`Moved`, `From`, `Ahead`), and
one lemma about such a move serves all actions.

**Model-checked only.**

* Liveness (TLAPS cannot prove it from fairness here, nor reason about `ENABLED`):
  every property checked under a `FairSpec`.
* `PolledWithinBound` of `CoreLoop`, a bound on the number of polls between two of the
  same sched-queue. It is false for a group with a number of 30 or more beside the
  default one (number 7 in section 4), so a theorem would be about groups with smaller
  numbers. The inductive invariant would be a measure: the distance of the cursors from
  each sched-queue, cyclic in the group and among the groups.

Facts that need induction over data (what a recursive definition computes) are out of
the prover's reach; no module declares a `RECURSIVE` operator, so that all of them stay
open to proof.

## 6. What is abstracted

* Events carry no payload; what the code does with them depends on the header's
  queue, group and operation only.
* The three queue types have masks of their own with identical code: `QueueGroup`
  has one. Priorities matter in `Multiring` only; the queue modules have one.
* Memory order: operations take effect in program order. The code relies on x86 and
  full barriers, and marks shared fields `volatile`.
* Failed allocations are left out, except the ones that are a full ring.
* Fatal errors (`EM_FATAL`) end the program and are not steps.
* `rte_hash`, `rte_timer`, `rte_ring` and the NIC are external: the models say what the
  code relies on. A timeout whose queue refuses it is not followed (the code leaks it).
* `PacketIO` enqueues to a parallel queue in one step; what the steps of an atomic or
  ordered queue look like is in `AtomicQueue` and `ParallelOrdered` (`Receive`).
* `CoreLoop` is one core: the others appear as what its polls find and as changes of
  its masks.

## 7. Not modelled, and why

* **Error handling** (`em_error.c`): a call of a registered function and formatting of
  text. An EO's handler is read twice without a lock while it may be unregistered: a
  race of two reads with nothing else to it.
* **Initialization and environment** (`em_init.c`, `intel_hw_init.c`, DPDK, shared
  memory): runs before any event. What later behaviour depends on, the initial state
  of each component and the dealing of Tx tables, is in the `Init`s and in `Deals`.
* **`LOCKLESS_ATOMIC_QUEUES=0`** and the build options that are off by default; and
  `em_atomic_processing_end`, which does nothing in this code.
* **Multiring variants** that the scheduler does not call, getters, names, contexts,
  parsing of packet headers, printing.
* **Core masks**: sets in the models.
* **Example applications**: users of the API.

## 8. What would come next

1. The proof of `PolledWithinBound` of `CoreLoop`, for groups with numbers below 30.
2. `CoreLoop` for several cores over one set of sched-queues, so that what a poll finds
   is what the others left.
