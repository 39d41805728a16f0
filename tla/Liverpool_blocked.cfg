SPECIFICATION Spec
CONSTANTS
    None = None
    g1 = g1
    g2 = g2
    Guests = {g1, g2}
    NumTotalQueues = 2
    U32 = 16
    Program <- Frames
    Budget <- FewCalls
INVARIANTS
    SubmissionsBlocked
CHECK_DEADLOCK FALSE
