\* Two flows on the only Tx table, which both cores drain: the first is dealt it, the
\* second is dealt none.  Bursts of two packets, a ring that overflows.
CONSTANTS
  NumCores = 2
  Tables = 1
  Table = 0
  Flows = {f1, f2}
  None = None
  TxBurst = 2
  RingCap = 2
  MaxPackets = 3
SPECIFICATION FairSpec
INVARIANTS
  OneConsumer
  OnePlace
  OnlyStraightOvertakes
PROPERTY EventuallyDrained
