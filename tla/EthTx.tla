-------------------------------- MODULE EthTx --------------------------------
(***************************************************************************)
(* Transmission of packets from ordered queues: one Tx table               *)
(* (eth_tx_mbuf_table_t: a ring with many producers and a spinlock for its *)
(* single consumer) of one port, shared by every EM queue whose id maps to *)
(* it.  A sender that finds a burst's worth of packets in the ring and the *)
(* lock free transmits the burst with its own packet at the end; any other *)
(* sender appends its packet.  One core or more also drain the ring from time to  *)
(* time: the tables are dealt out to the cores at startup.  The port's     *)
(* link was up then; a port whose link was down is never drained.          *)
(*                                                                         *)
(* A flow stands for an atomic or parallel-ordered source queue: its       *)
(* packets are sent one after the other, from within the queue's context   *)
(* or under its order lock, though not all by the same core.               *)
(***************************************************************************)
EXTENDS Integers, Sequences, FiniteSets

CONSTANTS
  NumCores,   \* em_core_count
  Tables,     \* MAX_ETH_TX_MBUF_TABLES
  Table,      \* the number of this table
  Flows,      \* source queues with the same EM_QUEUE_TO_MBUF_TBL
  None,       \* no packet, no core
  TxBurst,    \* MAX_TX_PKT_BURST
  RingCap,    \* usable size of m_burst
  MaxPackets  \* bound: packets of a flow

Cores == 0..NumCores - 1

\* The n-th packet of a flow; straight is noted when it did not go through the ring.
Packet == [flow : Flows, n : 1..MaxPackets, straight : BOOLEAN]

ASSUME ConstantsAssumption ==
  /\ NumCores \in Nat \ {0}
  /\ Tables \in Nat /\ Table \in 0..Tables - 1
  /\ None \notin Cores \cup Packet
  /\ TxBurst \in Nat /\ TxBurst > 1
  /\ RingCap \in Nat /\ RingCap >= TxBurst
  /\ MaxPackets \in Nat

VARIABLES
  ring,   \* Seq(Packet): tx_mbuf_table->m_burst
  lock,   \* tx_mbuf_table->lock: the core that holds it, or None
  wire,   \* Seq(Packet): what the port has transmitted
  lost,   \* packets dropped: full ring, or not taken by the port
  sent,   \* [Flows -> Nat]: packets the flow has handed over
  pc,     \* [Cores -> ControlPoints]
  own,    \* [Cores -> Packet or None]: mbuf, the packet being sent
  burst   \* [Cores -> Seq(Packet)]: tx_burst_m_table

vars == <<ring, lock, wire, lost, sent, pc, own, burst>>

ControlPoints == {"idle", "count", "trylock", "bulk", "enqueue", "burst"}

Init ==
  /\ ring = <<>>
  /\ lock = None
  /\ wire = <<>>
  /\ lost = {}
  /\ sent = [f \in Flows |-> 0]
  /\ pc = [c \in Cores |-> "idle"]
  /\ own = [c \in Cores |-> None]
  /\ burst = [c \in Cores |-> <<>>]

Goto(c, point) == pc' = [pc EXCEPT ![c] = point]

Shorter(m, n) == IF m < n THEN m ELSE n

\* em_eth_tx_packet, with the flow's previous packet out of the sender's hands.
Send(c, f) ==
  /\ pc[c] = "idle"
  /\ sent[f] < MaxPackets
  /\ \A d \in Cores : own[d] # None => own[d].flow # f
  /\ sent' = [sent EXCEPT ![f] = @ + 1]
  /\ own' = [own EXCEPT ![c] = [flow |-> f, n |-> sent[f] + 1, straight |-> FALSE]]
  /\ Goto(c, "count")
  /\ UNCHANGED <<ring, lock, wire, lost, burst>>

\* rte_ring_count: is there a burst's worth?
Count(c) ==
  /\ pc[c] = "count"
  /\ Goto(c, IF Len(ring) >= TxBurst - 1 THEN "trylock" ELSE "enqueue")
  /\ UNCHANGED <<ring, lock, wire, lost, sent, own, burst>>

\* Mutant: the lock is not looked at.
TryLockIgnored(c) ==
  /\ pc[c] = "trylock"
  /\ lock' = c
  /\ Goto(c, "bulk")
  /\ UNCHANGED <<ring, wire, lost, sent, own, burst>>

\* env_spinlock_is_locked and env_spinlock_trylock.
TryLock(c) ==
  /\ pc[c] = "trylock"
  /\ lock' = IF lock = None THEN c ELSE lock
  /\ Goto(c, IF lock = None THEN "bulk" ELSE "enqueue")
  /\ UNCHANGED <<ring, wire, lost, sent, own, burst>>

\* Mutant: the packet joins the burst and is enqueued as well.
DequeueBulkTwice(c) ==
  /\ pc[c] = "bulk"
  /\ IF Len(ring) >= TxBurst - 1
     THEN /\ burst' = [burst EXCEPT ![c] =
                         Append(SubSeq(ring, 1, TxBurst - 1), [own[c] EXCEPT !.straight = TRUE])]
          /\ ring' = Append(SubSeq(ring, TxBurst, Len(ring)), own[c])
          /\ own' = [own EXCEPT ![c] = None]
          /\ Goto(c, "burst")
          /\ UNCHANGED lock
     ELSE /\ lock' = None
          /\ Goto(c, "enqueue")
          /\ UNCHANGED <<ring, own, burst>>
  /\ UNCHANGED <<wire, lost, sent>>

\* rte_ring_sc_dequeue_bulk of TxBurst - 1 packets or none; the sender's own
\* packet becomes the last of the burst.
DequeueBulk(c) ==
  /\ pc[c] = "bulk"
  /\ IF Len(ring) >= TxBurst - 1
     THEN /\ burst' = [burst EXCEPT ![c] =
                         Append(SubSeq(ring, 1, TxBurst - 1), [own[c] EXCEPT !.straight = TRUE])]
          /\ ring' = SubSeq(ring, TxBurst, Len(ring))
          /\ Goto(c, "burst")
          /\ UNCHANGED lock
     ELSE /\ lock' = None
          /\ Goto(c, "enqueue")
          /\ UNCHANGED <<ring, burst>>
  /\ UNCHANGED <<wire, lost, sent, own>>

\* Mutant: a burst is put on the wire with its last packet first.
TransmitRotated(c) ==
  /\ pc[c] = "burst"
  /\ wire' = wire \o <<burst[c][Len(burst[c])]>> \o SubSeq(burst[c], 1, Len(burst[c]) - 1)
  /\ lock' = None
  /\ burst' = [burst EXCEPT ![c] = <<>>]
  /\ own' = [own EXCEPT ![c] = None]
  /\ Goto(c, "idle")
  /\ UNCHANGED <<ring, lost, sent>>

\* eth_tx_packet_burst: the port takes the first packets of the burst, the others
\* are freed; then the lock is released.
Transmit(c) ==
  /\ pc[c] = "burst"
  /\ \E k \in 0..Len(burst[c]) :
       /\ wire' = wire \o SubSeq(burst[c], 1, k)
       /\ lost' = lost \cup {burst[c][i] : i \in k+1..Len(burst[c])}
  /\ lock' = None
  /\ burst' = [burst EXCEPT ![c] = <<>>]
  /\ own' = [own EXCEPT ![c] = None]
  /\ Goto(c, "idle")
  /\ UNCHANGED <<ring, sent>>

\* rte_ring_enqueue; a full ring drops the packet.
Enqueue(c) ==
  /\ pc[c] = "enqueue"
  /\ IF Len(ring) < RingCap
     THEN ring' = Append(ring, own[c]) /\ UNCHANGED lost
     ELSE lost' = lost \cup {own[c]} /\ UNCHANGED ring
  /\ own' = [own EXCEPT ![c] = None]
  /\ Goto(c, "idle")
  /\ UNCHANGED <<lock, wire, sent, burst>>

Dealt(t, c) == \E i \in 0..Tables - 1 : t = i * NumCores + c

\* Mutant: the first table of each core is left out, and with it what a core without
\* tables drains.
DealsSkipsFirst(c) == \E i \in 1..Tables - 1 : Table = i * NumCores + c

\* intel_eth_init_local: the tables are dealt out to the cores; a core that gets none
\* has only zeroes in its list, and drains table 0.
Deals(c) ==
  \/ Dealt(Table, c)
  \/ Table = 0 /\ \A t \in 0..Tables - 1 : ~Dealt(t, c)

\* eth_tx_packets_timed__ordered, when the turn of this table among those of the core has
\* come: take what there is, up to a burst, when the lock is free.  (When another core
\* has emptied the ring since it was looked at, the lock is taken and given back.)
Drain(c) ==
  /\ Deals(c)
  /\ pc[c] = "idle"
  /\ ring # <<>>
  /\ lock = None
  /\ LET n == Shorter(Len(ring), TxBurst) IN
       /\ burst' = [burst EXCEPT ![c] = SubSeq(ring, 1, n)]
       /\ ring' = SubSeq(ring, n + 1, Len(ring))
  /\ lock' = c
  /\ Goto(c, "burst")
  /\ UNCHANGED <<wire, lost, sent, own>>

-----------------------------------------------------------------------------

\* The steps of eth_tx_packet__ordered and of a drain once started.
TxStep(c) ==
  \/ Count(c) \/ TryLock(c) \/ DequeueBulk(c) \/ Transmit(c) \/ Enqueue(c)

Done ==
  /\ sent = [f \in Flows |-> MaxPackets]
  /\ ring = <<>> /\ \A c \in Cores : pc[c] = "idle"

Next ==
  \/ \E c \in Cores : TxStep(c) \/ Drain(c) \/ \E f \in Flows : Send(c, f)
  \/ Done /\ UNCHANGED vars

Spec == Init /\ [][Next]_vars

(* A running core takes its next step, and em_dispatch drains the tables every *)
(* BURST_TX_DRAIN ticks; the application may send between two drains, and the  *)
(* lock may be taken when the core tries it, hence the strong fairness.        *)
FairSpec == Spec /\ \A c \in Cores : WF_vars(TxStep(c)) /\ SF_vars(Drain(c))
-----------------------------------------------------------------------------
(* Properties *)

\* Types of the state.
TypeOK ==
  /\ ring \in Seq(Packet) /\ Len(ring) <= RingCap
  /\ lock \in Cores \cup {None}
  /\ wire \in Seq(Packet)
  /\ lost \subseteq Packet
  /\ sent \in [Flows -> 0..MaxPackets]
  /\ pc \in [Cores -> ControlPoints]
  /\ own \in [Cores -> Packet \cup {None}]
  /\ burst \in [Cores -> Seq(Packet)]

\* The ring has one consumer at a time (RING_F_SC_DEQ), and that core alone
\* transmits on the table's hardware queue.
OneConsumer ==
  \A c, d \in Cores : pc[c] \in {"bulk", "burst"} /\ pc[d] \in {"bulk", "burst"} => c = d

\* Every packet handed over is in one place: on the wire once, dropped, or under
\* way; an mbuf is neither transmitted twice nor freed and transmitted.
IsPacket(p, f, n) == p.flow = f /\ p.n = n
Places(f, n) ==
  {<<"wire", 0, i>> : i \in {j \in 1..Len(wire) : IsPacket(wire[j], f, n)}}
  \cup {<<"ring", 0, i>> : i \in {j \in 1..Len(ring) : IsPacket(ring[j], f, n)}}
  \cup {<<"lost", 0, p.straight>> : p \in {x \in lost : IsPacket(x, f, n)}}
  \cup {<<"core", c, 0>> : c \in
         {d \in Cores : pc[d] # "burst" /\ own[d] # None /\ IsPacket(own[d], f, n)}}
  \cup (UNION {{<<"burst", c, i>> : i \in {j \in 1..Len(burst[c]) : IsPacket(burst[c][j], f, n)}}
                 : c \in Cores})
OnePlace ==
  \A f \in Flows : \A n \in 1..MaxPackets :
    Cardinality(Places(f, n)) = IF n <= sent[f] THEN 1 ELSE 0

\* A packet that is transmitted before an earlier one of its flow.
Overtakes(i, j) == i < j /\ wire[i].flow = wire[j].flow /\ wire[i].n > wire[j].n

\* What is left of it: only the packet a sender adds to a burst itself can
\* overtake; the packets that go through the ring keep their order.
OnlyStraightOvertakes ==
  \A i, j \in 1..Len(wire) : Overtakes(i, j) => wire[i].straight /\ ~wire[j].straight

\* Every packet in the ring is transmitted or freed.
InRing(f, n) == \E i \in 1..Len(ring) : IsPacket(ring[i], f, n)
EventuallyDrained ==
  \A f \in Flows : \A n \in 1..MaxPackets : InRing(f, n) ~> ~InRing(f, n)
==============================================================================
