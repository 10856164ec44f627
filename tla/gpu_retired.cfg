SPECIFICATION Spec
CONSTANTS
  t1 = t1
  t2 = t2
  Threads = {t1}
  Devices = {1, 2}
  Total <- MCTotal
  Sizes = {2}
  PoolSize = 2
  PoolNeed = 1
  PoolDevices <- MCPoolDevices
  MaxTokens = 4
INVARIANTS
  PoolSizeCounts
