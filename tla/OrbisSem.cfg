SPECIFICATION LiveSpec
CONSTANTS
    None = None
    w1 = w1
    w2 = w2
    w3 = w3
    s1 = s1
    Threads = {w1, w2, w3, s1}
    S32 = 5
    max_count = 2
    init_count = 1
    Needs = {0, 1, 3}
    Signals <- SignalCounts
    SetCounts <- CancelCounts
    is_fifo = FALSE
    prio <- Priorities
    Program <- WaitersAndSignaller
INVARIANTS
    TypeOK
    NoStrandedWaiter
    ListedUntilTold
    WokenOnce
    TokensAccounted

    
CHECK_DEADLOCK FALSE
