\* As MCQueueGroup, where a queue that is disabled already may be disabled again.
CONSTANTS
  Cores = {c1, c2}
  Queues = {q1, q2}
  Idx <- MCIdx
  Notified = {}
  Repeats = TRUE
  Contends = FALSE
  None = None
SPECIFICATION Spec
INVARIANT EnabledIsPolled
