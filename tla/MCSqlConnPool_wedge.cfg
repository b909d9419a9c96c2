SPECIFICATION StrongFairSpec
CONSTANTS
  Workers = {w1, w2}
  PoolSize = 2
  MaxDrops = 0
PROPERTY GroupMessageCompletes
CHECK_DEADLOCK FALSE
