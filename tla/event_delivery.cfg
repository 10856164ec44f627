SPECIFICATION MCFairSpec
CONSTANTS
  w1 = w1
  w2 = w2
  w3 = w3
  g1 = g1
  g2 = g2
  e1 = e1
  e2 = e2
  bad = bad
  Groups = {g1, g2}
  Workers = {w1, w2, w3}
  GroupOf <- MCGroupOf
  Events = {e1, e2, bad}
  Undecodable = {bad}
  NHandlers = 2
  MaxAttempts = 2
  BatchSize = 2
  MaxEntries = 2
  MaxStops = 1
INVARIANTS
  HandledByOne
  NothingDropped
PROPERTIES
  ImplementsEventLife
  OrphansStayPending
  AcknowledgedOrLeft
CHECK_DEADLOCK FALSE
