SPECIFICATION LiveSpec
CONSTANTS
    None = None
    w1 = w1
    w2 = w2
    s1 = s1
    m1 = m1
    c1 = c1
    Threads = {w1, w2, s1}
    Mutexes = {m1}
    MutexType <- AllErrorCheck
    MaxCount = 0
    Conds = {c1}
    Chains = {"chain"}
    SC_HASH <- OneChain
    MaxDeferWaiters = 1
    Program <- CancelledSignaller
PROPERTIES
    SignalledWakes
CHECK_DEADLOCK FALSE
