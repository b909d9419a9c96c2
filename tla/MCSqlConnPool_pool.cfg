CONSTANTS
  Workers = {w1, w2}
  PoolSize = 4
  MaxDrops = 2
SPECIFICATION FairSpec
CHECK_DEADLOCK FALSE
INVARIANTS
  TypeOK
  PermitsMatchQueue
  PopNeverEmpty
  PermitBound
  ConnExclusive
  CapacityLossExplained
  WedgeOnlyWhenShort
PROPERTIES
  SomeWorkerFree
