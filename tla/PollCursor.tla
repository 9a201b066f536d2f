----------------------------- MODULE PollCursor -----------------------------
(***************************************************************************)
(* Which sched-queue a core polls next.                                    *)
(*                                                                         *)
(* There is one array of sched-queue objects for each type of EM queue, an *)
(* object for every queue group and in each object up to 16 sched-queues.  *)
(* A core has, for each type, a cursor: the group it is at, for every      *)
(* group the sched-queue to poll next there, and how often in a row it has *)
(* polled the same one.  Masks say which sched-queues it should poll; the  *)
(* other cores change them at any time (module QueueGroup).                *)
(*                                                                         *)
(* One core.  What a poll finds is the choice of the caller (CoreLoop).    *)
(***************************************************************************)
EXTENDS Integers, FiniteSets, FiniteSetsExt

CONSTANTS
  SCHED_QS,     \* sched-queue objects of a type: EM_MAX_QUEUE_GROUPS
  MaxQueues,    \* SCHED_Q_MAX_QUEUES: sched-queues of an object
  IntBits,      \* the width of an int
  CntMax,       \* SCHED_Q_ATOMIC_CNT_MAX and its two siblings
  SchedQueues,  \* [Types -> SUBSET (group, qidx)]: those that may ever be enabled
  Switched      \* [Types -> SUBSET (group, qidx)]: those that are switched on and off

Types == {"atomic", "parallel", "ordered"}

ASSUME CursorAssumption ==
  /\ {SCHED_QS, MaxQueues, IntBits, CntMax} \subseteq Nat \ {0}
  /\ \A t \in Types :
       /\ SchedQueues[t] \subseteq (0..SCHED_QS - 1) \X (0..MaxQueues - 1)
       /\ Switched[t] \subseteq SchedQueues[t]

VARIABLES
  enabled,  \* [Types -> SUBSET (group, qidx)]: the bits of q_grp_mask and qidx_mask
  idx,      \* [Types -> group]: sched_q_atomic_idx, ...
  qidx,     \* [Types -> [group -> qidx]]: atomic_qidx, ...
  cnt,      \* [Types -> 0..CntMax]: sched_q_atomic_cnt, ...
  look,     \* em_schedule_parallel_ordered's next_sched_idx, next_qidx and count
  waited    \* (history) polls of the type since a sched-queue had its turn

cursorVars == <<enabled, idx, qidx, cnt, look, waited>>

GroupMask(t) == {p[1] : p \in enabled[t]}
QidxMask(t, i) == {p[2] : p \in {e \in enabled[t] : e[1] = i}}

\* The groups a cursor can be at: 0 is where an empty mask sends it.
GroupsAt(t) == {0} \cup {p[1] : p \in SchedQueues[t]}

\* The bits that ~(((uint64_t)(1 << n)) - 1) leaves.  The shifted 1 is an int: past its
\* width the C language does not define the result, and the processor shifts by n modulo
\* the width; at its sign bit the conversion to 64 bits fills all higher bits as well.
BitsFrom(n) ==
  LET shift == n % IntBits IN
  IF shift = IntBits - 1 THEN {shift} ELSE {i \in 0..SCHED_QS - 1 : i >= shift}

\* The least bit (__builtin_ffsl, minus one) of those left, or of the whole mask.
FirstOf(above, mask) ==
  IF mask = {} THEN 0 ELSE Min(IF above = {} THEN mask ELSE above)

\* sched_q_get_next_idx
NextIdx(current, mask) ==
  FirstOf(mask \cap BitsFrom((current + 1) % SCHED_QS), mask)

\* sched_q_get_next_qidx: no more than 16 bits, the shift is right
NextQidx(current, mask) ==
  FirstOf({i \in mask : i >= (current + 1) % MaxQueues}, mask)

NoLook == [idx |-> 0, qidx |-> 0, cnt |-> 0]

\* sched_init_local, after memset: where a core that has groups already starts.
CursorInit ==
  /\ enabled = SchedQueues
  /\ idx = [t \in Types |-> NextIdx(SCHED_QS - 1, {p[1] : p \in SchedQueues[t]})]
  /\ qidx = [t \in Types |-> [i \in GroupsAt(t) |-> 0]]
  /\ cnt = [t \in Types |-> 0]
  /\ look = NoLook
  /\ waited = [t \in Types \ {"ordered"} |-> [p \in SchedQueues[t] |-> 0]]

\* (history) Sched-queue p has its turn at one more poll of type t.
Turn(t, p) ==
  [waited EXCEPT ![t] = [e \in SchedQueues[t] |->
                           IF e = p \/ e \notin enabled[t] THEN 0 ELSE waited[t][e] + 1]]

\* Mutant: the count of the full bursts is not reset when the cursor moves on.
PollKeepsCount(t, full) ==
  LET i    == idx[t]
      q    == qidx[t][i]
      next == NextQidx(q, QidxMask(t, i))
      stay == full /\ cnt[t] + 1 # CntMax
  IN
  /\ cnt' = [cnt EXCEPT ![t] = IF full THEN @ + 1 ELSE @]
  /\ qidx' = IF stay THEN qidx ELSE [qidx EXCEPT ![t][i] = next]
  /\ idx' = IF ~stay /\ next <= q THEN [idx EXCEPT ![t] = NextIdx(i, GroupMask(t))] ELSE idx
  /\ waited' = Turn(t, <<i, q>>)
  /\ UNCHANGED <<enabled, look>>

\* em_schedule_atomic, em_schedule_parallel: the burst is full or not; the cursor moves
\* before the events are dispatched.
Poll(t, full) ==
  LET i    == idx[t]
      q    == qidx[t][i]
      next == NextQidx(q, QidxMask(t, i))
      stay == full /\ cnt[t] + 1 # CntMax
  IN
  /\ cnt' = [cnt EXCEPT ![t] = IF stay THEN @ + 1 ELSE 0]
  /\ qidx' = IF stay THEN qidx ELSE [qidx EXCEPT ![t][i] = next]
  /\ idx' = IF ~stay /\ next <= q THEN [idx EXCEPT ![t] = NextIdx(i, GroupMask(t))] ELSE idx
  /\ waited' = Turn(t, <<i, q>>)
  /\ UNCHANGED <<enabled, look>>

(***************************************************************************)
(* em_schedule_parallel_ordered: a sched-queue whose lock another core     *)
(* holds is passed by; what is stored is the cursor behind the one polled. *)
(***************************************************************************)
StartLook ==
  /\ look' = [idx  |-> idx["ordered"], qidx |-> qidx["ordered"][idx["ordered"]],
              cnt  |-> cnt["ordered"]]
  /\ UNCHANGED <<enabled, idx, qidx, cnt, waited>>

\* The position behind the one looked at, and what to save of that one's group.
Behind ==
  LET i    == look.idx
      save == NextQidx(look.qidx, QidxMask("ordered", i))
      wrap == save <= look.qidx
      next == IF wrap THEN NextIdx(i, GroupMask("ordered")) ELSE i
  IN [idx |-> next, qidx |-> IF wrap THEN qidx["ordered"][next] ELSE save, save |-> save]

\* Its lock is taken: the loop goes on with the next one, and with a count of zero.
PassBy ==
  /\ look' = [idx |-> Behind.idx, qidx |-> Behind.qidx, cnt |-> 0]
  /\ cnt' = [cnt EXCEPT !["ordered"] = look.cnt]
  /\ UNCHANGED <<enabled, idx, qidx, waited>>

\* Mutant: the position is not saved here either.
FindEmptyUnsaved ==
  /\ idx' = [idx EXCEPT !["ordered"] = Behind.idx]
  /\ qidx' = [qidx EXCEPT !["ordered"][Behind.idx] = Behind.qidx]
  /\ cnt' = [cnt EXCEPT !["ordered"] = 0]
  /\ look' = NoLook
  /\ UNCHANGED <<enabled, waited>>

\* It is empty.
FindEmpty ==
  /\ idx' = [idx EXCEPT !["ordered"] = Behind.idx]
  /\ qidx' = [qidx EXCEPT !["ordered"] = [@ EXCEPT ![Behind.idx] = Behind.qidx,
                                                   ![look.idx] = Behind.save]]
  /\ cnt' = [cnt EXCEPT !["ordered"] = 0]
  /\ look' = NoLook
  /\ UNCHANGED <<enabled, waited>>

\* Its lock is got, and a burst, full or not, is taken.
TakeBurst(full) ==
  LET stay == full /\ look.cnt + 1 # CntMax IN
  /\ cnt' = [cnt EXCEPT !["ordered"] = IF stay THEN look.cnt + 1 ELSE 0]
  /\ idx' = IF stay THEN idx ELSE [idx EXCEPT !["ordered"] = Behind.idx]
  /\ qidx' = IF stay THEN qidx ELSE [qidx EXCEPT !["ordered"][Behind.idx] = Behind.qidx]
  /\ look' = NoLook
  /\ UNCHANGED <<enabled, waited>>

\* Another core (or an internal event on this one) enables or disables the queues behind
\* a sched-queue.
SwitchMask ==
  /\ \E t \in Types : \E p \in Switched[t] :
       /\ enabled' = [enabled EXCEPT ![t] = IF p \in @ THEN @ \ {p} ELSE @ \cup {p}]
       /\ waited' = IF t = "ordered" THEN waited ELSE [waited EXCEPT ![t][p] = 0]
  /\ UNCHANGED <<idx, qidx, cnt, look>>

-----------------------------------------------------------------------------
\* Where a cursor polls: at startup it begins with the first sched-queue of each group.
Positions(t) == SchedQueues[t] \cup {<<p[1], 0>> : p \in SchedQueues[t]}

\* What a core polls at most between two turns of a sched-queue that it goes round to.
OneRound(t) == CntMax * (Cardinality(Positions(t)) - 1)
=============================================================================
