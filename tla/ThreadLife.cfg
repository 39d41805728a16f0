SPECIFICATION LiveSpec
CONSTANTS
    None = None
    m = m
    a = a
    b = b
    Threads = {m, a, b}
    Main = m
    Objects = {1, 2, 3}
    GcThreshold = 1
    Program <- Family
    Budget <- FewCalls
INVARIANTS
    TypeOK
    CollectedOnce
    KeptWhileUsed
PROPERTIES
    JoinReturns
CHECK_DEADLOCK FALSE
