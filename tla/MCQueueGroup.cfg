\* Two cores that enter and leave the group, two queues that are enabled and
\* disabled, every disable once.
CONSTANTS
  Cores = {c1, c2}
  Queues = {q1, q2}
  Idx <- MCIdx
  Notified = {q2}
  Repeats = FALSE
  Contends = FALSE
  None = None
SPECIFICATION FairSpec
INVARIANTS
  EnabledIsPolled
  CountsExact
  MaskIsTrue
  MembersAreQuiet
PROPERTIES
  ModifyCompletes
  DisableNotified
