SPECIFICATION MCSpec
CONSTANTS
    e1 = e1
    e2 = e2
    Events = {e1, e2}
    Generations = {g1, g2, g3}
    Checkers = {c1, c2}
    Periods <- MCPeriods
    LastHour = 2
    Limit = 3
    MaxQuantity = 2
    MaxPermitted = 4
    None = None
    Admins = {a1, a2}
    MaxKeys = 3
    Editors = {d1, d2, d3}
    k1 = k1
    k2 = k2
    s1 = s1
    s2 = s2
    s3 = s3
    Customers = {p1, p2}
    Campaigns = {k1, k2}
    Selections = {s1, s2, s3}
    CampaignOf <- MCCampaignOf
    Nobody = nobody
    Settlements = {k1, k2}
    OverThreshold = {k1}
    Clerks = {c1, c2}
    NoOne = NoOne
    i1 = i1
    i2 = i2
    Items = {i1, i2}
    Turn <- MCTurn
    Supervisors = {c1, c2}
    v1 = v1
    v2 = v2
    v3 = v3
    n1 = n1
    n2 = n2
    Invites = {v1, v2, v3}
    Emails = {n1, n2}
    EmailOf <- MCEmailOf
    Browsers = {c1, c2}
    x1 = x1
    p1 = p1
    r1 = r1
    r2 = r2
    CustomerData = {x1, p1, r1, r2}
    Kind <- MCKind
    Jobs = {c1, c2}
SYMMETRY Symmetry
INVARIANTS
    DoubleBillingNeedsOverlap
    OverrunIsBounded
    DeletionIsFinal
    CampaignStartsProperly
    OneCampaignEach
    DisbursedProperly
    CertifiedIsGone
PROPERTIES
    OneReviewerUnlessLate
    StrandedForEver
CHECK_DEADLOCK FALSE
