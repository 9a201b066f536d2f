\* One queue, bursts of two of three events, the default build: what becomes of
\* every event, under fairness, while the queue is disabled and enabled.
CONSTANTS
  Cores = {c1, c2}
  Queues = {q1}
  Events = {e1, e2, e3}
  NoQueue = NoQueue
  RingCap = 2
  SchedQCap = 1
  MaxQBulk = 1
  MaxEBulk = 2
  Disableable = {q1}
  DirectDispatch = FALSE
  Disciplined = TRUE
SPECIFICATION FairSpec
INVARIANT CountCovered
PROPERTY EventuallyServed
