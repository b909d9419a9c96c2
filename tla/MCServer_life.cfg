CONSTANTS
  Workers = {w1, w2}
  Producers = {p1, p2}
  MaxTasks = 3
  MaxConns = 1
SPECIFICATION FairSpec
CHECK_DEADLOCK FALSE
INVARIANTS
  TypeOK
  NoLostWakeup
  TaskOnce
  NeverRefused
  MisuseOnlyAfterSignal
PROPERTIES
  ImplementsTaskQueue
  EveryTaskEnds
  SignalEnds
