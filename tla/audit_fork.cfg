SPECIFICATION AuditSpec
CONSTANTS
    Appenders = {a1, a2}
    MaxRows = 4
INVARIANT NoForkAfterTheFirst
CHECK_DEADLOCK FALSE
