SPECIFICATION MCSpec
CONSTANTS
    MaxConceal = 1
    BufferDepth = 4
    Modulus = 7
    Frames = 10
    MaxArrivals = 7
    a1 = a1
    a2 = a2
    a3 = a3
    a4 = a4
    r1 = r1
    r2 = r2
    c1 = c1
    c2 = c2
    c3 = c3
    Attempts = {a1, a2, a3, a4}
    Releases = {r1, r2}
    Calls = {c1, c2, c3}
    NoAttempt = none
    CallOf <- MCCallOf
    TenantOf <- MCTenantOf
    MaxPerTenant = 2
    QueueDepth = 3
    Turns = 2
    MaxChunks = 2
    MaxClauses = 2
    MaxPieces = 2
    StartMs = 100
    EndMs = 600
    MaxEndMs = 1200
    RequiredMs = 200
    MaxFillerMs = 800
    MaxWindows = 40
    t1 = t1
    t2 = t2
    t3 = t3
    t4 = t4
    Tasks = {t1, t2, t3, t4}
    Importance <- MCImportance
    Workers = {w1, w2}
    NoTask = NoTask
    MaxShutdowns = 1
INVARIANTS
    SilenceNeedsAJump
    BooksAgree
    StaleAudioNeedsEarlyClear
    NoFillerIsRecognised
PROPERTIES
    ImplementsPlayout
    QueuedIsSettled
CHECK_DEADLOCK FALSE
