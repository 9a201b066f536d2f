SPECIFICATION FairSpec
CONSTANTS
  SCHED_QS = 64
  MaxQueues = 16
  IntBits = 32
  CntMax = 2
  SchedQueues <- MCSchedQueues
  Switched <- MCSwitched
  Timeouts = {t1}
  MaxDispatched = 1
  MaxSent = 1
  MaxEnqueued = 2
INVARIANT PolledWithinBound
PROPERTY TimeoutsFire
PROPERTY OrderedServed
PROPERTY RxNotStarved
