SPECIFICATION FairSpec
CONSTANTS
  Cores = {c1, c2}
  RxQueues = {"rx0", "rx1"}
  Packets = {p1, p2}
  Flows = {"web", "dns"}
  RxOf <- MCRxOf
  Added = {"web"}
  Positions = {"first"}
  Queues = {q1}
  Undef = Undef
  AccessMax = 2
  RxBurst = 2
  TxBurst = 2
INVARIANT OnePlace
INVARIANT FlowOrder
PROPERTY RxServed
