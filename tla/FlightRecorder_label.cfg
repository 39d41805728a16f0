SPECIFICATION Spec
CONSTANTS
    None = None
    t1 = t1
    t2 = t2
    Threads = {t1, t2}
    Capacity = 2
    ShutdownEvents = 1
    MaxEvents = 1
    MaxAttempts = 1
INVARIANTS
    CrashIsPublished
CHECK_DEADLOCK FALSE
