SPECIFICATION MCSpec
CONSTANTS
    a1 = a1
    a2 = a2
    b1 = b1
    mA = mA
    mB = mB
    Clients = {a1, a2, b1}
    Owner <- MCOwner
    MaxResets = 1
    None = None
    c1 = c1
    c2 = c2
    c3 = c3
    Callers = {c1, c2, c3}
    Threshold = 2
    MaxPeriods = 4
    Appenders = {c1, c2, c3}
    MaxRows = 4
    Hooks = {h1, h2}
    DomainEvents = {e1}
    Dispatchers = {a1, a2}
    MAX_ATTEMPTS = 2
    MaxHandled = 3
SYMMETRY ActorSymmetry
INVARIANTS
    FencingOrdersWrites
    RunsOnce
    OverlapNeedsExpiry
    HalfOpenHasItsProbe
    VerifiesUnlessOverlapped
    DeliveriesAreAccounted
PROPERTIES
    ImplementsClaimedRun
    ImplementsClaimedDispatch
CHECK_DEADLOCK FALSE
