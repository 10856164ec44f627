SPECIFICATION MCSpec
CONSTANTS
  t1 = t1
  t2 = t2
  Threads = {t1, t2}
  Devices = {1, 2}
  Total <- MCTotal
  Sizes = {1, 2}
  PoolSize = 2
  PoolNeed = 1
  PoolDevices <- MCPoolDevices
  MaxTokens = 5
INVARIANTS
  WithinCapacity
  LedgerExact
  HandleInOnePlace
  PoolNeverShrinks
PROPERTIES
  ImplementsReservations
SYMMETRY ThreadSymmetry
