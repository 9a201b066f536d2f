------------------------------ MODULE CoreLoop ------------------------------
(***************************************************************************)
(* em_schedule: what one core does for ever.                               *)
(*                                                                         *)
(* It receives packets once, and then runs its timers, polls a sched-queue *)
(* of each type, dispatches what it got and sends overdue packets, again   *)
(* and again while it seems to have sent more events to itself than it has *)
(* dispatched.  The cursors (PollCursor) and the timers (EventTimer) are   *)
(* the core's own; the other cores change its masks and decide, with it,   *)
(* what its polls find.                                                    *)
(***************************************************************************)
EXTENDS PollCursor, EventTimer

CONSTANTS
  MaxDispatched,  \* bound: events dispatched after one poll
  MaxSent,        \* bound: events sent after one poll, to groups the core is in
  MaxEnqueued     \* bound: events_enqueued

ASSUME LoopAssumption == {MaxDispatched, MaxSent, MaxEnqueued} \subseteq Nat

VARIABLES
  at,          \* where in em_schedule the core is
  enqueued,    \* events_enqueued: 0..MaxEnqueued, or below zero
  dispatched,  \* events_dispatched in this round
  quiet        \* the application will send and ask for no more

loopVars == <<at, enqueued, dispatched, quiet>>
vars == <<cursorVars, pending, loopVars>>

Init ==
  /\ CursorInit /\ TimerInit
  /\ at = "rx" /\ dispatched = 0
  /\ enqueued = 0
  /\ quiet = FALSE

\* em_eth_rx_packets (module PacketIO) sends what it has received.
Rx ==
  /\ at = "rx" /\ at' = "timer"
  /\ \E n \in 0..MaxSent : enqueued + n <= MaxEnqueued /\ enqueued' = enqueued + n
  /\ UNCHANGED <<cursorVars, pending, dispatched, quiet>>

\* evt_timer_manage: each event may go to one of the core's groups, or not, or be refused.
Timer(expired) ==
  /\ at = "timer" /\ at' = "atomic"
  /\ ManageTimers(expired)
  /\ \E own \in SUBSET expired : enqueued + Cardinality(own) <= MaxEnqueued
                               /\ enqueued' = enqueued + Cardinality(own)
  /\ UNCHANGED <<cursorVars, dispatched, quiet>>

\* The application receives n events, sends events and asks for timeouts.
Application(n) ==
  /\ dispatched' = dispatched + n
  /\ \E s \in 0..(IF quiet \/ n = 0 THEN 0 ELSE MaxSent) :
       enqueued + s <= MaxEnqueued /\ enqueued' = enqueued + s
  /\ \E ts \in SUBSET (IF quiet \/ n = 0 THEN {} ELSE Timeouts \ pending) : RequestTimeouts(ts)
  /\ UNCHANGED quiet

\* A burst that is not full may be empty.
Found(full) == IF full THEN 1..MaxDispatched ELSE 0..MaxDispatched

\* No group of this core has a queue of the type.
Nothing(t) == enabled[t] = {} /\ UNCHANGED <<cursorVars, pending, enqueued, dispatched, quiet>>

\* The type that is scheduled after t.
After(t) == IF t = "atomic" THEN "parallel" ELSE "ordered"

\* em_schedule_queues: the atomic type, then the parallel one, ...
Schedule(t) ==
  /\ t # "ordered" /\ at = t /\ at' = After(t)
  /\ \/ Nothing(t)
     \/ /\ enabled[t] # {}
        /\ \E full \in BOOLEAN : Poll(t, full) /\ \E n \in Found(full) : Application(n)

\* ... and the parallel-ordered type: the core may look at several sched-queues.
StartOrdered ==
  /\ at = "ordered"
  /\ \/ Nothing("ordered") /\ at' = "decide"
     \/ /\ enabled["ordered"] # {} /\ at' = "look"
        /\ StartLook
        /\ UNCHANGED <<pending, enqueued, dispatched, quiet>>

LookOn ==
  /\ at = "look" /\ PassBy
  /\ UNCHANGED <<pending, loopVars>>

EndLook ==
  /\ at = "look" /\ at' = "decide"
  /\ \/ FindEmpty /\ Application(0)
     \/ \E full \in BOOLEAN : TakeBurst(full) /\ \E n \in Found(full) : Application(n)

\* Mutant: further rounds begin behind the timers.
DecideSkipsTimers ==
  /\ at = "decide"
  /\ dispatched' = 0
  /\ LET rest == enqueued - dispatched IN
     IF dispatched # 0 /\ rest > 0 THEN at' = "atomic" /\ enqueued' = rest
                                   ELSE at' = "rx" /\ enqueued' = 0
  /\ UNCHANGED <<cursorVars, pending, quiet>>

\* Mutant: the events dispatched are not subtracted.
DecideKeepsCount ==
  /\ at = "decide"
  /\ dispatched' = 0
  /\ IF dispatched # 0 /\ enqueued > 0 THEN at' = "timer" /\ UNCHANGED enqueued
                                       ELSE at' = "rx" /\ enqueued' = 0
  /\ UNCHANGED <<cursorVars, pending, quiet>>

\* After em_eth_tx_packets_timed (module EthTx).
Decide ==
  /\ at = "decide"
  /\ dispatched' = 0
  /\ LET rest == enqueued - dispatched IN
     IF dispatched # 0 /\ rest > 0 THEN at' = "timer" /\ enqueued' = rest
                                   ELSE at' = "rx" /\ enqueued' = 0
  /\ UNCHANGED <<cursorVars, pending, quiet>>

CoreStep ==
  \/ Rx \/ StartOrdered \/ LookOn \/ EndLook \/ Decide
  \/ \E expired \in SUBSET pending : Timer(expired)
  \/ \E t \in Types : Schedule(t)

BecomeQuiet ==
  /\ ~quiet /\ quiet' = TRUE
  /\ UNCHANGED <<cursorVars, pending, at, enqueued, dispatched>>

Masks == SwitchMask /\ UNCHANGED <<pending, loopVars>>

Next == CoreStep \/ Masks \/ BecomeQuiet

Spec == Init /\ [][Next]_vars

\* The core does not stop, and does not find locked sched-queues only (their locks are
\* held for the time of a dequeue); a timeout expires, and a run of the timers finds it so.
FairSpec ==
  /\ Spec
  /\ WF_vars(CoreStep)
  /\ WF_vars(EndLook)
  /\ \A t \in Timeouts : SF_vars(\E expired \in SUBSET pending : t \in expired /\ Timer(expired))
-----------------------------------------------------------------------------
\* An enabled sched-queue of the atomic or the parallel type is polled again before the
\* core has gone twice round all others, whatever the polls find, and whichever masks
\* change: a masked bit that the cursor jumps over, a turn that is not limited, or a
\* stored position that is not moved on would let it wait for ever.
PolledWithinBound ==
  \A t \in {"atomic", "parallel"} : \A p \in SchedQueues[t] : waited[t][p] <= 2 * OneRound(t)

\* Every sched-queue of the parallel-ordered type is looked at again and again, as long as
\* each that is looked at is now and then found empty.  (The code promises no more: the
\* next position in a group is saved only where a sched-queue is found empty, and one
\* that is locked is passed by without the cursor being moved.)
LooksAt(p) == at = "look" /\ look.idx = p[1] /\ look.qidx = p[2]

EmptiesOut(p) == LooksAt(p) /\ FindEmpty /\ at' = "decide" /\ Application(0)

OrderedServed ==
  (\A p \in SchedQueues["ordered"] : SF_vars(EmptiesOut(p)))
    => \A p \in SchedQueues["ordered"] : []<>LooksAt(p)

\* A timeout's event is sent, also when the loop around the scheduling never ends.
TimeoutsFire == \A t \in Timeouts : t \in pending ~> t \notin pending

\* A core whose application has stopped sending to the core's groups receives packets
\* again, however many events the other cores still send it.
RxNotStarved == quiet ~> at = "rx"
=============================================================================
