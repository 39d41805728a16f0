SPECIFICATION Spec
CONSTANTS
    None = None
    w1 = w1
    w2 = w2
    s1 = s1
    m1 = m1
    c1 = c1
    Threads = {w1, w2, s1}
    Mutexes = {m1}
    MutexType <- AllRecursive
    MaxCount = 1
    Conds = {c1}
    Chains = {"chain"}
    SC_HASH <- OneChain
    MaxDeferWaiters = 1
    Program <- SignalProgram
INVARIANTS
    TypeOK
    HeldAsCounted
    QueuesSound
    NoLostWakeup
    DeferredWillBePosted
    SignalDecidesOutcome
CHECK_DEADLOCK FALSE
