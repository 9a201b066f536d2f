\* Two queues in one sched-queue, bursts of two elements, packets received
\* directly, a queue that is disabled and enabled, full rings.
CONSTANTS
  Cores = {c1, c2}
  Queues = {q1, q2}
  Events = {e1, e2, e3}
  NoQueue = NoQueue
  RingCap = 2
  SchedQCap = 2
  MaxQBulk = 2
  MaxEBulk = 2
  Disableable = {q2}
  DirectDispatch = TRUE
  Disciplined = TRUE
SPECIFICATION Spec
SYMMETRY Symmetry
INVARIANTS
  OneElement
  MutualExclusion
  NoLostWakeup
  OnePlace
PROPERTY ImplementsExclusiveQueue
