\* One core configures the EO and its queues, both schedule and run local functions;
\* two queues,
\* one of them static, that are created, deleted and created again, two events.
CONSTANTS
  Cores = {c1, c2}
  Managers = {c1}
  Queues = {q1, q2}
  Static = {q2}
  Events = {e1, e2}
  Burst = 2
  StopLocal = TRUE
  Drains = TRUE
  None = None
SPECIFICATION FairSpec
INVARIANTS
  DeletedIsIdle
  OnePlace
  StopIsQuiet
  NotifiedInOrder
PROPERTY StopCompletes
