SPECIFICATION AuditSpec
CONSTANTS
    Logged = {l, m, n}
    Crashing = {l}
    Minute = 2
    Every = 1
    TailCells = 2
    MaxTime = 3
INVARIANT
    EveryCrashCounted
CHECK_DEADLOCK FALSE
