SPECIFICATION LiveSpec
CONSTANTS
    None = None
    w1 = w1
    w2 = w2
    p1 = p1
    Threads = {w1, w2, p1}
    Sems = {"sem"}
    InitialValue = 0
    SEM_VALUE_MAX = 2
    Program <- WaitersAndPoster
INVARIANTS
    TypeOK
    NoLostPost
    NoLostCancel
    WakeSemaphoreBound
PROPERTIES
    IsSemaphore
    IsFairSemaphore
CHECK_DEADLOCK FALSE
