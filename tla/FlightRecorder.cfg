SPECIFICATION LiveSpec
CONSTANTS
    None = None
    t1 = t1
    t2 = t2
    Threads = {t1, t2}
    Capacity = 2
    ShutdownEvents = 1
    MaxEvents = 2
    MaxAttempts = 2
INVARIANTS
    TypeOK
    DecodedExact
    CompletedAreDecoded
    CrashedHasDetails
PROPERTIES
    CrashStaysCrashed
    CollectorFinishes
CHECK_DEADLOCK FALSE
