SPECIFICATION NoCrashSpec
CONSTANTS
  c1 = c1
  c2 = c2
  engine = engine
  None = None
  Callers = {c1, c2}
  Keys = {1, 2, 3}
  Results = {1, 2, 3, 4, 5, 6, 7, 8, 9}
  Hosts = {engine}
  HostOf <- MCHostOf
  SnapshotEvery = 2
  MaxForeign = 1
  MaxCrashes = 2
  MaxCount = 4
PROPERTIES
  RecoveryIsExact
CHECK_DEADLOCK FALSE
