------------------------------ MODULE PacketIO ------------------------------
(***************************************************************************)
(* Packets on their way through a core: reception, the lookup of their EM  *)
(* queue, and transmission where their order does not matter (for order    *)
(* see EthTx).                                                             *)
(*                                                                         *)
(* The NIC spreads flows over its Rx queues.  For every Rx queue there is  *)
(* a token in a ring; a core polls the Rx queue whose token it holds.  A   *)
(* hash table, whose functions are external, gives the position of a flow, *)
(* and a table beside it the EM queue at that position; the application    *)
(* adds and removes flows while the cores receive.  EM queues are FIFOs    *)
(* here (modules AtomicQueue, ExclusiveQueue).                             *)
(***************************************************************************)
EXTENDS Integers, Sequences, FiniteSets, SequencesExt, FiniteSetsExt

CONSTANTS
  Cores,
  RxQueues,   \* the NICs' Rx queues
  Packets,    \* packet buffers
  Flows,      \* values of the hash key
  RxOf,       \* [Flows -> RxQueues]: RSS
  Added,      \* the flows for which the application adds a queue; the others have the default
  Positions,  \* positions of the hash table
  Queues,     \* EM queues
  Undef,      \* EM_QUEUE_UNDEF; no position, no Rx queue
  AccessMax,  \* ETH_RX_IDX_CNT_MAX
  RxBurst,    \* MAX_RX_PKT_BURST
  TxBurst     \* MAX_TX_PKT_BURST

ASSUME ConstantsAssumption ==
  /\ IsFiniteSet(RxQueues) /\ IsFiniteSet(Packets)
  /\ RxOf \in [Flows -> RxQueues] /\ Added \subseteq Flows
  /\ Undef \notin Queues \cup Positions \cup RxQueues \cup Flows
  /\ {AccessMax, RxBurst, TxBurst} \subseteq Nat \ {0}

VARIABLES
  free,      \* packet buffers in the pool
  nic,       \* [RxQueues -> Seq(Packets)]
  tokens,    \* eth_rx_queue_access: Seq(RxQueues)
  position,  \* the hash table: [Flows -> Positions \cup {Undef}]
  table,     \* packet_queues: [Positions -> Queues \cup {Undef}]
  change,    \* what the holder of packet_q_hash.lock is doing
  default,   \* em_default_queue: a member of Queues, or Undef
  at,        \* [Cores -> ControlPoints]
  current,   \* [Cores -> RxQueues \cup {Undef}]: current_info; Undef without its token
  access,    \* [Cores -> Nat]: access_cnt
  batch,     \* [Cores -> Seq([p : Packets, to : ...])]: rx_burst_m_table, positions
  looked,    \* [Cores -> Nat]: how many of the positions have been looked up
  pairs,     \* [Cores -> Seq([p : Packets, q : ...])]: rx_lookup_pairs
  count,     \* [Cores -> Nat]: nb_rx
  queue,     \* [Queues -> Seq(Packets)]
  tx,        \* [Cores -> Seq(Packets)]: eth_tx_mbuf_tables_local of one port
  flow,      \* [Packets -> Flows \cup {Undef}]: of the packet in a buffer
  earlier    \* (history) [Packets -> SUBSET Packets]: those of its flow, in use, that came before it

flowVars == <<flow, earlier>>
nicVars == <<free, nic, flowVars>>
hashVars == <<position, table, change, default>>
rxVars == <<tokens, at, current, access, batch, looked, pairs, count>>
outVars == <<queue, tx>>
vars == <<nicVars, hashVars, rxVars, outVars>>

ControlPoints == {"idle", "burst", "lookup", "read", "default", "enqueue", "done"}

NoChange == [f |-> Undef, q |-> Undef]

\* intel_eth_init: a token for every Rx queue of the ports whose link is up.
InitNic ==
  /\ free = Packets /\ nic = [r \in RxQueues |-> <<>>]
  /\ tokens = SetToSeq(RxQueues)

\* intel_init_packet_q_hash_global: no flow has a queue, and there is no default.
InitHash ==
  /\ position = [f \in Flows |-> Undef] /\ table = [i \in Positions |-> Undef]
  /\ change = NoChange /\ default = Undef

\* intel_eth_init_local
InitLocal ==
  /\ current = [c \in Cores |-> Undef] /\ access = [c \in Cores |-> 0]
  /\ tx = [c \in Cores |-> <<>>]

Init ==
  /\ InitNic /\ InitHash /\ InitLocal
  /\ flow = [p \in Packets |-> Undef] /\ earlier = [p \in Packets |-> {}]
  /\ at = [c \in Cores |-> "idle"]
  /\ batch = [c \in Cores |-> <<>>] /\ pairs = [c \in Cores |-> <<>>]
  /\ looked = [c \in Cores |-> 0]
  /\ count = [c \in Cores |-> 0]
  /\ queue = [q \in Queues |-> <<>>]

Goto(c, l) == at' = [at EXCEPT ![c] = l]

\* The packets of a table of packets that have a position or a queue beside them.
PacketsOf(s) == [i \in DOMAIN s |-> s[i].p]

\* The buffers in ps go back to the pool.
Free(ps) ==
  /\ free' = free \cup ps
  /\ flow' = [p \in Packets |-> IF p \in ps THEN Undef ELSE flow[p]]
  /\ earlier' = [p \in Packets |-> IF p \in ps THEN {} ELSE earlier[p] \ ps]

\* The NIC puts a packet of flow f into a buffer.
Arrive(p, f) ==
  /\ p \in free /\ free' = free \ {p}
  /\ nic' = [nic EXCEPT ![RxOf[f]] = Append(@, p)]
  /\ flow' = [flow EXCEPT ![p] = f]
  /\ earlier' = [earlier EXCEPT ![p] = {o \in Packets : flow[o] = f}]
  /\ UNCHANGED <<hashVars, rxVars, outVars>>

(***************************************************************************)
(* em_eth_rx_packets                                                       *)
(***************************************************************************)
\* Without a token the core takes the first one; it does nothing if there is none.
TakeToken(c) ==
  /\ at[c] = "idle" /\ Goto(c, "burst")
  /\ IF access[c] = 0
       THEN /\ tokens # <<>> /\ tokens' = Tail(tokens)
            /\ current' = [current EXCEPT ![c] = Head(tokens)]
       ELSE UNCHANGED <<tokens, current>>
  /\ UNCHANGED <<nicVars, hashVars, outVars, access, batch, looked, pairs, count>>

Receive(c) ==
  /\ at[c] = "burst"
  /\ LET r == current[c]
         n == Min({RxBurst, Len(nic[r])})
     IN
     /\ count' = [count EXCEPT ![c] = n]
     /\ nic' = [nic EXCEPT ![r] = SubSeq(@, n + 1, Len(@))]
     /\ batch' = [batch EXCEPT ![c] = [i \in 1..n |-> [p |-> nic[r][i], to |-> Undef]]]
     /\ Goto(c, IF n > 0 THEN "lookup" ELSE "done")
  /\ UNCHANGED <<free, flowVars, hashVars, outVars, tokens, current, access, looked, pairs>>

\* em_packet_lookup_enqueue: the positions are looked up first, without the lock: several
\* in a call of rte_hash_lookup_multi, which takes the keys one after the other, ...
Lookup(c) ==
  /\ at[c] = "lookup"
  /\ LET n == looked[c] + 1 IN
     /\ batch' = [batch EXCEPT ![c] = [i \in DOMAIN @ |->
          [p |-> @[i].p, to |-> IF i = n THEN position[flow[@[i].p]] ELSE @[i].to]]]
     /\ IF n < Len(batch[c])
          THEN looked' = [looked EXCEPT ![c] = n] /\ UNCHANGED at
          ELSE looked' = [looked EXCEPT ![c] = 0] /\ Goto(c, "read")
  /\ UNCHANGED <<nicVars, hashVars, outVars, tokens, current, access, pairs, count>>

\* ... or a call fails, and all packets of the burst are freed, ...
LookupFails(c) ==
  /\ at[c] = "lookup" /\ Goto(c, "done")
  /\ Free(ToSet(PacketsOf(batch[c])))
  /\ batch' = [batch EXCEPT ![c] = <<>>] /\ looked' = [looked EXCEPT ![c] = 0]
  /\ UNCHANGED <<nic, hashVars, outVars, tokens, current, access, pairs, count>>

NextPacket(c) ==
  /\ batch' = [batch EXCEPT ![c] = Tail(@)]
  /\ Goto(c, IF Len(batch[c]) > 1 THEN "read" ELSE "enqueue")

\* The first packet of the batch is to go to q.
AddPair(c, q) ==
  /\ NextPacket(c)
  /\ pairs' = [pairs EXCEPT ![c] = Append(@, [p |-> Head(batch[c]).p, q |-> q])]
  /\ UNCHANGED <<nicVars, hashVars, outVars, tokens, current, access, looked, count>>

\* ... then the queue at each position is read; ...
ReadQueue(c) ==
  /\ at[c] = "read" /\ Head(batch[c]).to # Undef
  /\ AddPair(c, table[Head(batch[c]).to])

\* ... a packet that has no position is freed if there is no default queue, ...
FreeUnknown(c) ==
  /\ at[c] = "read" /\ Head(batch[c]).to = Undef /\ default = Undef
  /\ NextPacket(c)
  /\ Free({Head(batch[c]).p})
  /\ UNCHANGED <<nic, hashVars, outVars, tokens, current, access, looked, pairs, count>>

\* ... and gets it if there is one: which is read again.
FindDefault(c) ==
  /\ at[c] = "read" /\ Head(batch[c]).to = Undef /\ default # Undef
  /\ Goto(c, "default")
  /\ UNCHANGED <<nicVars, hashVars, outVars, tokens, current, access, batch, looked, pairs, count>>

ReadDefault(c) == at[c] = "default" /\ AddPair(c, default)

\* em_send_parallel: the packet goes into the sched-queue of its EM queue.  (An atomic
\* queue has it go into the queue's own ring, with the same outcome: AtomicQueue.)
SendParallel(p, q) == queue' = [queue EXCEPT ![q] = Append(@, p)]

\* Mutant: a packet that its queue refuses is not freed.
EnqueueLeaks(c) ==
  /\ at[c] = "enqueue" /\ pairs[c] # <<>>
  /\ pairs' = [pairs EXCEPT ![c] = Tail(@)]
  /\ LET p == Head(pairs[c]).p
         q == Head(pairs[c]).q
     IN (q # Undef /\ SendParallel(p, q)) \/ UNCHANGED queue
  /\ UNCHANGED <<nicVars, hashVars, tokens, at, current, access, batch, looked, count, tx>>

\* ... and packet_enqueue sends each to its queue, and frees it if it is refused.  For an
\* undefined queue the code reads in front of em_queue_element_tbl, which in the 64-bit
\* build is the end of em_eo_pool; it finds half of a list pointer for the type of the
\* queue, which is none of the three, so that em_send_switch refuses the packet.
Enqueue(c) ==
  /\ at[c] = "enqueue" /\ pairs[c] # <<>>
  /\ pairs' = [pairs EXCEPT ![c] = Tail(@)]
  /\ LET p == Head(pairs[c]).p
         q == Head(pairs[c]).q
     IN \/ /\ q # Undef /\ SendParallel(p, q)
           /\ UNCHANGED <<free, flowVars>>
        \/ Free({p}) /\ UNCHANGED queue
  /\ UNCHANGED <<nic, hashVars, tokens, at, current, access, batch, looked, count, tx>>

EnqueueEnds(c) ==
  /\ at[c] = "enqueue" /\ pairs[c] = <<>> /\ Goto(c, "done")
  /\ UNCHANGED <<nicVars, hashVars, outVars, tokens, current, access, batch, looked, pairs, count>>

\* Mutant: the core goes on to poll the Rx queue whose token it has given back.
GiveBackGoesOn(c) ==
  /\ at[c] = "done" /\ Goto(c, "idle")
  /\ count' = [count EXCEPT ![c] = 0]
  /\ access' = [access EXCEPT ![c] = (@ + 1) % (AccessMax + 1)]
  /\ tokens' = IF access[c] + 1 = AccessMax \/ count[c] = 0 THEN Append(tokens, current[c])
               ELSE tokens
  /\ UNCHANGED <<nicVars, hashVars, outVars, current, batch, looked, pairs>>

\* Mutant: the token that was used last is the next to be taken.
GiveBackLast(c) ==
  /\ at[c] = "done" /\ Goto(c, "idle")
  /\ count' = [count EXCEPT ![c] = 0]
  /\ access' = [access EXCEPT ![c] = 0] /\ current' = [current EXCEPT ![c] = Undef]
  /\ tokens' = <<current[c]>> \o tokens
  /\ UNCHANGED <<nicVars, hashVars, outVars, batch, looked, pairs>>

\* The token goes back when it has been used often enough, or nothing was received.
GiveBack(c) ==
  /\ at[c] = "done" /\ Goto(c, "idle")
  /\ count' = [count EXCEPT ![c] = 0]
  /\ IF access[c] + 1 = AccessMax \/ count[c] = 0
       THEN /\ tokens' = Append(tokens, current[c]) /\ access' = [access EXCEPT ![c] = 0]
            /\ current' = [current EXCEPT ![c] = Undef]
       ELSE access' = [access EXCEPT ![c] = @ + 1] /\ UNCHANGED <<tokens, current>>
  /\ UNCHANGED <<nicVars, hashVars, outVars, batch, looked, pairs>>

RxStep(c) ==
  \/ TakeToken(c) \/ Receive(c) \/ Lookup(c) \/ LookupFails(c)
  \/ ReadQueue(c) \/ FreeUnknown(c) \/ FindDefault(c) \/ ReadDefault(c)
  \/ Enqueue(c) \/ EnqueueEnds(c) \/ GiveBack(c)

(***************************************************************************)
(* The application receives packets and sends them on; its flows change.   *)
(***************************************************************************)
\* eth_tx_packet_burst: what the NIC does not take is freed; the rest it frees itself.
TransmitAll(c, ps) == Free(ToSet(ps)) /\ tx' = [tx EXCEPT ![c] = <<>>]

\* A packet of an unordered queue: eth_tx_packet__no_order
Forward(c, q) ==
  /\ at[c] = "idle" /\ queue[q] # <<>>
  /\ queue' = [queue EXCEPT ![q] = Tail(@)]
  /\ LET ps == Append(tx[c], Head(queue[q])) IN
     IF Len(ps) = TxBurst THEN TransmitAll(c, ps)
     ELSE tx' = [tx EXCEPT ![c] = ps] /\ UNCHANGED <<free, flowVars>>
  /\ UNCHANGED <<nic, hashVars, rxVars>>

\* em_eth_tx_packets_timed: eth_tx_packets_timed__no_order
Drain(c) ==
  /\ at[c] = "idle" /\ tx[c] # <<>>
  /\ TransmitAll(c, tx[c])
  /\ UNCHANGED <<nic, hashVars, rxVars, queue>>

\* em_packet_add_io_queue: the key is in the hash table, where it may have been before,
\* and then the queue in the other.
AddKey(f, q) ==
  /\ change = NoChange
  /\ \E i \in Positions :
       /\ \A g \in Flows : position[g] = i => g = f
       /\ position[f] \in {Undef, i}
       /\ position' = [position EXCEPT ![f] = i]
  /\ change' = [f |-> f, q |-> q]
  /\ UNCHANGED <<nicVars, rxVars, outVars, table, default>>

SetQueue ==
  /\ change.q # Undef
  /\ table' = [table EXCEPT ![position[change.f]] = change.q]
  /\ change' = NoChange
  /\ UNCHANGED <<nicVars, rxVars, outVars, position, default>>

\* em_packet_rem_io_queue (which then clears the place in the table that the key had)
RemoveKey(f) ==
  /\ change = NoChange /\ position[f] # Undef
  /\ position' = [position EXCEPT ![f] = Undef]
  /\ change' = [f |-> position[f], q |-> Undef]
  /\ UNCHANGED <<nicVars, rxVars, outVars, table, default>>

ClearQueue ==
  /\ change # NoChange /\ change.q = Undef
  /\ table' = [table EXCEPT ![change.f] = Undef]
  /\ change' = NoChange
  /\ UNCHANGED <<nicVars, rxVars, outVars, position, default>>

\* em_packet_default_queue, which takes no lock and looks at nothing.
DefaultQueue(q) ==
  /\ default' = q
  /\ UNCHANGED <<nicVars, rxVars, outVars, position, table, change>>

AppStep(c) == Drain(c) \/ \E q \in Queues : Forward(c, q)

FlowStep ==
  \/ SetQueue \/ ClearQueue
  \/ \E f \in Added : RemoveKey(f) \/ \E q \in Queues : AddKey(f, q)
  \/ \E q \in (Queues \cup {Undef}) \ {default} : DefaultQueue(q)

Next ==
  \/ \E c \in Cores : RxStep(c) \/ AppStep(c)
  \/ FlowStep
  \/ \E p \in Packets, f \in Flows : Arrive(p, f)

Spec == Init /\ [][Next]_vars

\* Every core comes back to em_eth_rx_packets (CoreLoop's RxNotStarved).  Each of its steps
\* changes one of rxVars.
FairSpec == Spec /\ \A c \in Cores : WF_rxVars(RxStep(c))
-----------------------------------------------------------------------------
\* A token is in the ring or with one core that still has uses of it, and a packet is in
\* one place: a buffer that is freed and also sent, or kept by two, would be two packets.
TokenPlaces(r) ==
  {<<"ring", i>> : i \in {j \in DOMAIN tokens : tokens[j] = r}}
  \cup {<<"core", c>> : c \in {d \in Cores : current[d] = r}}

\* The places <<k, x, i>> of p in the sequences s[x], x \in X.
PlacesIn(k, X, s, p) ==
  UNION {{<<k, x, i>> : i \in {j \in DOMAIN s[x] : s[x][j] = p}} : x \in X}

Places(p) ==
  {<<"pool", Undef, 0>> : o \in free \cap {p}}
  \cup PlacesIn("nic", RxQueues, nic, p) \cup PlacesIn("queue", Queues, queue, p)
  \cup PlacesIn("batch", Cores, [c \in Cores |-> PacketsOf(batch[c])], p)
  \cup PlacesIn("pairs", Cores, [c \in Cores |-> PacketsOf(pairs[c])], p)
  \cup PlacesIn("tx", Cores, tx, p)

OnePlace ==
  /\ \A p \in Packets : Cardinality(Places(p)) = 1
  /\ \A r \in RxQueues : Cardinality(TokenPlaces(r)) = 1

\* The packets of a flow enter an EM queue in the order in which they arrived, on whichever
\* cores they were received and whenever the flow's queue was changed.
FlowOrder ==
  \A q \in Queues : \A i, j \in DOMAIN queue[q] :
    i < j /\ flow[queue[q][i]] = flow[queue[q][j]] => queue[q][i] \in earlier[queue[q][j]]

\* A packet that has arrived is received, however many go on to arrive on other Rx queues.
RxServed ==
  \A p \in Packets : (\E r \in RxQueues : Contains(nic[r], p)) ~> \A r \in RxQueues : ~Contains(nic[r], p)
=============================================================================
