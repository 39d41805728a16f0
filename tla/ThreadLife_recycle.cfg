SPECIFICATION Spec
CONSTANTS
    None = None
    m = m
    a = a
    b = b
    Threads = {m, a, b}
    Main = m
    Objects = {1, 2, 3}
    GcThreshold = 1
    Program <- CreateAndJoin
    Budget <- FewCalls
INVARIANTS
    ConstructedAlone
CHECK_DEADLOCK FALSE
