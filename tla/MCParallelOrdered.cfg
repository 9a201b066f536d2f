\* One queue, bursts of two of three events, an order-queue and a destination
\* that overflow, packets received directly, a queue that is disabled and
\* enabled; what becomes of every event, under fairness.
CONSTANTS
  Cores = {c1, c2}
  Queues = {q1}
  Events = {e1, e2, e3}
  None = None
  Free = Free
  Out = Out
  SchedQCap = 2
  OrderCap = 1
  OutCap = 1
  MaxBulk = 2
  Disableable = {q1}
  DirectDispatch = TRUE
SPECIFICATION FairSpec
INVARIANTS
  TurnsCome
  OnePlace
PROPERTIES
  ImplementsOrderedQueue
  NothingStuck
