SPECIFICATION FairGuardSpec
CONSTANTS
  c1 = c1
  c2 = c2
  c3 = c3
  h1 = h1
  h2 = h2
  k1 = k1
  None = None
  Callers = {c1, c2, c3}
  Keys = {k1}
  Results = {1, 2}
  Hosts = {h1, h2}
  HostOf <- MCHostOf
INVARIANTS
  AtMostOnce
PROPERTIES
  EveryCallEnds
  ImplementsOnce
