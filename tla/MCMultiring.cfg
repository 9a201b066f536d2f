\* Two producers and two consumers, two priorities of a ring of three slots, indexes that
\* wrap, bursts of two that the priorities share.
SPECIFICATION FairSpec
CONSTANTS
  Producers = {p1, p2}
  Consumers = {c1, c2}
  None = None
  RingSize = 3
  IndexMod = 9
  MaxBurst = 2
  Quota <- MCQuota
  Start = 7
  UsedPrios = {0, 3}
  MaxObjects = 3
PROPERTIES
  RefusedOnlyWhenFull
  FairShare
  ImplementsPriorityFifos
  CommittedEnds
