SPECIFICATION LiveSpec
CONSTANTS
    None = None
    w1 = w1
    w2 = w2
    s1 = s1
    Threads = {w1, w2, s1}
    Bits = {"b0", "b1"}
    thread_mode = "Multi"
    queue_mode = "ThreadPrio"
    prio <- Priorities
    Program <- WaitersAndSetter
INVARIANTS
    TypeOK
    NoMissedSet
    ResultShowsWhy
    ListedWhileWaiting
    DestroyedAlone
PROPERTIES
    DeleteEnds
CHECK_DEADLOCK FALSE
