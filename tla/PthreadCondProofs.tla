------------------------- MODULE PthreadCondProofs -------------------------
(***************************************************************************)
(* What holds of PthreadCond for every set of threads, mutexes and         *)
(* condition variables.                                                    *)
(***************************************************************************)
EXTENDS PthreadCond, SequenceLemmas, SequenceTheorems, FiniteSetTheorems, TLAPS

-----------------------------------------------------------------------------
(***************************************************************************)
(* Mutual exclusion.  Only the variables below matter for it.              *)
(***************************************************************************)

\* The types the lock invariant rests on.
LockTypes ==
    /\ MutexTypeOK
    /\ pc \in [Threads -> PCs]
    /\ mutexArg \in [Threads -> Mutexes \cup {None}]
    /\ recurse \in [Threads -> Nat]
    /\ outcome \in [Threads -> {"lock", "wait", "cancel"}]
    /\ depth \in [Threads -> [Mutexes -> Nat]]

\* Where a thread is between taking the host lock and storing the owner, or
\* between clearing the owner and releasing the host lock.
HalfLocked == {"lock_owner", "unlock_host", "wait_unlock"}

\* Where a thread has released its mutex inside Wait and not yet retaken it.
Waiting(t) ==
    \/ pc[t] \in {"wait_unlock", "wait_clear", "wait_arm", "flush", "sleeping",
                  "wait_wake"}
    \/ pc[t] \in {"lock_host", "lock_owner"} /\ outcome[t] # "lock"

\* What m_lock, m_owner, m_count and the guest's own count say of thread t and
\* mutex m, by where t is.
LockState(t, m) ==
    /\ m_owner[m] = t => m_lock[m] = t
    /\ m_owner[m] = None => m_count[m] = 0
    /\ MutexType[m] = "ErrorCheck" => m_count[m] = 0
    /\ mutexArg[t] # m =>
          depth[t][m] = IF m_owner[m] = t THEN m_count[m] + 1 ELSE 0
    /\ mutexArg[t] = m =>
          /\ pc[t] \in HalfLocked => m_lock[m] = t /\ m_owner[m] = None
          /\ pc[t] = "wait_lock" =>
                m_owner[m] = t /\ depth[t][m] = m_count[m] + 1
          /\ pc[t] # "wait_lock" => m_owner[m] # t
          /\ Waiting(t) => depth[t][m] = recurse[t] + 1
          /\ pc[t] # "wait_lock" /\ ~Waiting(t) => depth[t][m] = 0
          /\ MutexType[m] = "ErrorCheck" /\ Waiting(t) => recurse[t] = 0

\* A thread has a mutex argument exactly inside lock, unlock and wait calls.
OutsideMutexCalls == {"run", "wake_all", "release", "drop", "dead"}
MutexArgState(t) == pc[t] \in OutsideMutexCalls <=> mutexArg[t] = None

LockInv ==
    /\ LockTypes
    /\ \A t \in Threads : MutexArgState(t)
    /\ \A t \in Threads, m \in Mutexes : LockState(t, m)

\* The lock invariant holds at the start.
LEMMA LockInit == Init => LockInv
  BY ThreadsAssumption, MutexAssumption
  DEF Init, LockInv, LockTypes, MutexInit, MutexTypeOK, LockState, Waiting,
      HalfLocked, PCs, MutexArgState, OutsideMutexCalls

\* Inside a mutex call the mutex argument is a mutex.
LEMMA ArgIsMutex ==
    ASSUME LockInv, NEW t \in Threads, pc[t] \notin OutsideMutexCalls
    PROVE  mutexArg[t] \in Mutexes
  BY MutexAssumption DEF LockInv, LockTypes, MutexArgState

\* Waking a thread changes no lock but for the Deferred flag.
LEMMA WakeKeepsLocks ==
    ASSUME LockTypes, NEW t \in Threads, NEW td, Wake(t, td)
    PROVE  /\ UNCHANGED <<m_owner, m_lock, m_count>>
           /\ m_deferred' \in [Mutexes -> BOOLEAN]
<1>1. CASE Deferrable(t, td)
  BY <1>1 DEF Wake, Defer, LockTypes, MutexTypeOK
<1>2. CASE ~Deferrable(t, td)
  BY <1>2 DEF Wake, PostLater, LockTypes, MutexTypeOK, mutexVars
<1> QED
  BY <1>1, <1>2

\* Every step preserves the lock invariant.
LEMMA LockNext == LockInv /\ [Next]_vars => LockInv'
<1> SUFFICES ASSUME LockInv, [Next]_vars PROVE LockInv'
  OBVIOUS
<1> USE ThreadsAssumption, MutexAssumption
        DEF LockInv, LockTypes, MutexTypeOK, LockState, Waiting, HalfLocked, PCs,
            MutexArgState, OutsideMutexCalls, GoTo, mutexVars, sleepqVars, queueVars, frameVars, wakeVars,
            cancelVars, condVars, historyVars
<1>1. ASSUME NEW t \in Threads, NEW m \in Mutexes, LockEnter(t, m) PROVE LockInv'
  BY <1>1 DEF LockEnter, Calling, Owns
<1>2. ASSUME NEW t \in Threads, NEW m \in Mutexes, LockSelf(t, m) PROVE LockInv'
  BY <1>2 DEF LockSelf, SelfLock, Calling, Owns
<1>3. ASSUME NEW t \in Threads, LockHost(t) PROVE LockInv'
  <2>0. mutexArg[t] \in Mutexes
    BY <1>3, ArgIsMutex DEF LockHost
  <2>4. m_owner[mutexArg[t]] = None
    BY <1>3, <2>0 DEF LockHost, HostLock
  <2>1. LockTypes'
    BY <1>3, <2>0 DEF LockHost, HostLock
  <2>2. ASSUME NEW u \in Threads PROVE MutexArgState(u)'
    BY <1>3 DEF LockHost, HostLock
  <2>3. ASSUME NEW u \in Threads, NEW n \in Mutexes PROVE LockState(u, n)'
    <3>2. LockState(u, n) /\ LockState(t, n) /\ LockState(t, mutexArg[t])
          /\ LockState(u, mutexArg[t]) /\ MutexArgState(u)
      BY <2>0
    <3> HIDE DEF LockInv
    <3>3. LockTypes
      BY DEF LockInv
    <3>4. CASE u = t /\ n = mutexArg[t]
      BY <1>3, <2>0, <2>4, <3>2, <3>3, <3>4 DEF LockHost, HostLock
    <3>5. CASE u = t /\ n # mutexArg[t]
      BY <1>3, <2>0, <3>2, <3>3, <3>5 DEF LockHost, HostLock
    <3>6. CASE u # t /\ n = mutexArg[t]
      BY <1>3, <2>0, <3>2, <3>3, <3>6 DEF LockHost, HostLock
    <3>7. CASE u # t /\ n # mutexArg[t]
      BY <1>3, <2>0, <3>2, <3>3, <3>7 DEF LockHost, HostLock
    <3> QED
      BY <3>4, <3>5, <3>6, <3>7
  <2> QED
    BY <2>1, <2>2, <2>3
<1>4. ASSUME NEW t \in Threads, LockTimeout(t) PROVE LockInv'
  BY <1>4 DEF LockTimeout
<1>5. ASSUME NEW t \in Threads, LockOwner(t) PROVE LockInv'
  <2>0. mutexArg[t] \in Mutexes
    BY <1>5, ArgIsMutex DEF LockOwner
  <2>1. LockTypes'
    BY <1>5, <2>0 DEF LockOwner, StoreOwner, CountAfterLock
  <2>2. ASSUME NEW u \in Threads PROVE MutexArgState(u)'
    BY <1>5 DEF LockOwner, StoreOwner, CountAfterLock
  <2>3. ASSUME NEW u \in Threads, NEW n \in Mutexes PROVE LockState(u, n)'
    <3>2. LockState(u, n) /\ LockState(t, n) /\ LockState(t, mutexArg[t])
          /\ LockState(u, mutexArg[t]) /\ MutexArgState(u)
      BY <2>0
    <3> HIDE DEF LockInv
    <3>3. LockTypes
      BY DEF LockInv
    <3>4. CASE u = t /\ n = mutexArg[t]
      BY <1>5, <2>0, <3>2, <3>3, <3>4 DEF LockOwner, StoreOwner, CountAfterLock
    <3>5. CASE u = t /\ n # mutexArg[t]
      BY <1>5, <2>0, <3>2, <3>3, <3>5 DEF LockOwner, StoreOwner, CountAfterLock
    <3>6. CASE u # t /\ n = mutexArg[t]
      BY <1>5, <2>0, <3>2, <3>3, <3>6 DEF LockOwner, StoreOwner, CountAfterLock
    <3>7. CASE u # t /\ n # mutexArg[t]
      BY <1>5, <2>0, <3>2, <3>3, <3>7 DEF LockOwner, StoreOwner, CountAfterLock
    <3> QED
      BY <3>4, <3>5, <3>6, <3>7
  <2> QED
    BY <2>1, <2>2, <2>3
<1>6. ASSUME NEW t \in Threads, NEW m \in Mutexes, UnlockLevel(t, m) PROVE LockInv'
  <2>1. LockTypes'
    BY SMTT(30), <1>6 DEF UnlockLevel, UnlockCount, Owns
  <2>2. \A u \in Threads : MutexArgState(u)'
    BY <1>6 DEF UnlockLevel, UnlockCount, Owns
  <2>3. ASSUME NEW u \in Threads, NEW n \in Mutexes PROVE LockState(u, n)'
    <3>1. CASE n # m
      BY <1>6, <3>1 DEF UnlockLevel, UnlockCount, Owns
    <3>2. CASE n = m /\ u = t
      BY <1>6, <3>2 DEF UnlockLevel, UnlockCount, Owns
    <3>3. CASE n = m /\ u # t
      BY <1>6, <3>3 DEF UnlockLevel, UnlockCount, Owns
    <3> QED
      BY <3>1, <3>2, <3>3
  <2> QED
    BY <2>1, <2>2, <2>3
<1>7. ASSUME NEW t \in Threads, NEW m \in Mutexes, UnlockOwner(t, m) PROVE LockInv'
  BY <1>7 DEF UnlockOwner, ClearOwner, Owns
<1>8. ASSUME NEW t \in Threads, UnlockHost(t) PROVE LockInv'
  <2>0. mutexArg[t] \in Mutexes
    BY <1>8, ArgIsMutex DEF UnlockHost
  <2>1. LockTypes'
    BY <1>8, <2>0 DEF UnlockHost, HostUnlock
  <2>2. ASSUME NEW u \in Threads PROVE MutexArgState(u)'
    BY <1>8 DEF UnlockHost, HostUnlock
  <2>3. ASSUME NEW u \in Threads, NEW n \in Mutexes PROVE LockState(u, n)'
    <3>2. LockState(u, n) /\ LockState(t, n) /\ LockState(t, mutexArg[t])
          /\ LockState(u, mutexArg[t]) /\ MutexArgState(u)
      BY <2>0
    <3> HIDE DEF LockInv
    <3>3. LockTypes
      BY DEF LockInv
    <3>4. CASE u = t /\ n = mutexArg[t]
      BY <1>8, <2>0, <3>2, <3>3, <3>4 DEF UnlockHost, HostUnlock
    <3>5. CASE u = t /\ n # mutexArg[t]
      BY <1>8, <2>0, <3>2, <3>3, <3>5 DEF UnlockHost, HostUnlock
    <3>6. CASE u # t /\ n = mutexArg[t]
      BY <1>8, <2>0, <3>2, <3>3, <3>6 DEF UnlockHost, HostUnlock
    <3>7. CASE u # t /\ n # mutexArg[t]
      BY <1>8, <2>0, <3>2, <3>3, <3>7 DEF UnlockHost, HostUnlock
    <3> QED
      BY <3>4, <3>5, <3>6, <3>7
  <2> QED
    BY <2>1, <2>2, <2>3
<1>9. ASSUME NEW t \in Threads, WakeAll(t) PROVE LockInv'
  BY <1>9 DEF WakeAll
<1>10. ASSUME NEW t \in Threads, NEW c \in Conds, NEW m \in Mutexes, WaitEnter(t, c, m) PROVE LockInv'
  BY <1>10 DEF WaitEnter, Calling, Owns
<1>11. ASSUME NEW t \in Threads, WaitLock(t) PROVE LockInv'
  <2>0. mutexArg[t] \in Mutexes
    BY <1>11, ArgIsMutex DEF WaitLock
  <2>1. LockTypes'
    BY <1>11, <2>0 DEF WaitLock, ClearOwner
  <2>2. ASSUME NEW u \in Threads PROVE MutexArgState(u)'
    BY <1>11 DEF WaitLock, ClearOwner
  <2>3. ASSUME NEW u \in Threads, NEW n \in Mutexes PROVE LockState(u, n)'
    <3>2. LockState(u, n) /\ LockState(t, n) /\ LockState(t, mutexArg[t])
          /\ LockState(u, mutexArg[t]) /\ MutexArgState(u)
      BY <2>0
    <3> HIDE DEF LockInv
    <3>3. LockTypes
      BY DEF LockInv
    <3>4. CASE u = t /\ n = mutexArg[t]
      BY <1>11, <2>0, <3>2, <3>3, <3>4 DEF WaitLock, ClearOwner
    <3>5. CASE u = t /\ n # mutexArg[t]
      BY <1>11, <2>0, <3>2, <3>3, <3>5 DEF WaitLock, ClearOwner
    <3>6. CASE u # t /\ n = mutexArg[t]
      BY <1>11, <2>0, <3>2, <3>3, <3>6 DEF WaitLock, ClearOwner
    <3>7. CASE u # t /\ n # mutexArg[t]
      BY <1>11, <2>0, <3>2, <3>3, <3>7 DEF WaitLock, ClearOwner
    <3> QED
      BY <3>4, <3>5, <3>6, <3>7
  <2> QED
    BY <2>1, <2>2, <2>3
<1>12. ASSUME NEW t \in Threads, WaitEnqueue(t) PROVE LockInv'
  <2>0. mutexArg[t] \in Mutexes
    BY <1>12, ArgIsMutex DEF WaitEnqueue
  <2>1. LockTypes'
    BY <1>12, <2>0 DEF WaitEnqueue, HostUnlock
  <2>2. ASSUME NEW u \in Threads PROVE MutexArgState(u)'
    BY <1>12 DEF WaitEnqueue, HostUnlock
  <2>3. ASSUME NEW u \in Threads, NEW n \in Mutexes PROVE LockState(u, n)'
    <3>2. LockState(u, n) /\ LockState(t, n) /\ LockState(t, mutexArg[t])
          /\ LockState(u, mutexArg[t]) /\ MutexArgState(u)
      BY <2>0
    <3> HIDE DEF LockInv
    <3>3. LockTypes
      BY DEF LockInv
    <3>4. CASE u = t /\ n = mutexArg[t]
      BY <1>12, <2>0, <3>2, <3>3, <3>4 DEF WaitEnqueue, HostUnlock
    <3>5. CASE u = t /\ n # mutexArg[t]
      BY <1>12, <2>0, <3>2, <3>3, <3>5 DEF WaitEnqueue, HostUnlock
    <3>6. CASE u # t /\ n = mutexArg[t]
      BY <1>12, <2>0, <3>2, <3>3, <3>6 DEF WaitEnqueue, HostUnlock
    <3>7. CASE u # t /\ n # mutexArg[t]
      BY <1>12, <2>0, <3>2, <3>3, <3>7 DEF WaitEnqueue, HostUnlock
    <3> QED
      BY <3>4, <3>5, <3>6, <3>7
  <2> QED
    BY <2>1, <2>2, <2>3
<1>13. ASSUME NEW t \in Threads, WaitClear(t) PROVE LockInv'
  BY <1>13 DEF WaitClear
<1>14. ASSUME NEW t \in Threads, WaitArm(t) PROVE LockInv'
  BY <1>14 DEF WaitArm
<1>15. ASSUME NEW t \in Threads, WaitDeadline(t) PROVE LockInv'
  BY <1>15 DEF WaitDeadline
<1>16. ASSUME NEW t \in Threads, SleepFlush(t) PROVE LockInv'
  <2>1. CASE UNCHANGED <<pc, first_sleep>>
    BY <1>16, <2>1 DEF SleepFlush
  <2>2. CASE GoTo(t, "sleeping")
    BY <1>16, <2>2 DEF SleepFlush
  <2> QED
    BY <1>16, <2>1, <2>2 DEF SleepFlush
<1>17. ASSUME NEW t \in Threads, SleepAcquire(t) PROVE LockInv'
  BY <1>17 DEF SleepAcquire
<1>18. ASSUME NEW t \in Threads, SleepTimeout(t) PROVE LockInv'
  BY <1>18 DEF SleepTimeout
<1>19. ASSUME NEW t \in Threads, WaitSignalled(t) PROVE LockInv'
  BY <1>19 DEF WaitSignalled
<1>20. ASSUME NEW t \in Threads, WaitCancelled(t) PROVE LockInv'
  BY <1>20 DEF WaitCancelled, LeaveQueue
<1>21. ASSUME NEW t \in Threads, WaitTimedOut(t) PROVE LockInv'
  BY <1>21 DEF WaitTimedOut, LeaveQueue
<1>22. ASSUME NEW t \in Threads, WaitSpurious(t) PROVE LockInv'
  BY <1>22 DEF WaitSpurious
<1>23. ASSUME NEW t \in Threads, NEW c \in Conds, Signal(t, c) PROVE LockInv'
  <2>0. PICK td : Wake(t, td)
    BY <1>23 DEF Signal
  <2>1. /\ UNCHANGED <<m_owner, m_lock, m_count, frameVars, depth>>
        /\ m_deferred' \in [Mutexes -> BOOLEAN]
        /\ pc[t] = "run" /\ \E l \in {"run", "release"} : GoTo(t, l)
    BY <1>23, <2>0, WakeKeepsLocks DEF Signal
  <2> QED
    BY <2>1
<1>24. ASSUME NEW t \in Threads, NEW c \in Conds, BroadcastEnter(t, c) PROVE LockInv'
  <2>1. UNCHANGED <<m_owner, m_lock, m_count>> /\ m_deferred' \in [Mutexes -> BOOLEAN]
    BY <1>24, WakeKeepsLocks DEF BroadcastEnter
  <2> QED
    BY <1>24, <2>1 DEF BroadcastEnter, Calling
<1>25. ASSUME NEW t \in Threads, BroadcastNext(t) PROVE LockInv'
  <2>1. UNCHANGED <<m_owner, m_lock, m_count>> /\ m_deferred' \in [Mutexes -> BOOLEAN]
    BY <1>25, WakeKeepsLocks DEF BroadcastNext
  <2> QED
    BY <1>25, <2>1 DEF BroadcastNext
<1>26. ASSUME NEW t \in Threads, BroadcastUnlock(t) PROVE LockInv'
  BY <1>26 DEF BroadcastUnlock
<1>27. ASSUME NEW t \in Threads, Release(t) PROVE LockInv'
  BY <1>27 DEF Release
<1>28. ASSUME NEW t \in Threads, NEW td \in Threads, Cancel(t, td) PROVE LockInv'
  BY <1>28 DEF Cancel, Calling
<1>29. ASSUME NEW t \in Threads, SetCancelState(t) PROVE LockInv'
  BY <1>29 DEF SetCancelState
<1>30. ASSUME NEW t \in Threads, TestCancel(t) PROVE LockInv'
  BY <1>30 DEF TestCancel
<1>31. ASSUME NEW t \in Threads, ExitThread(t) PROVE LockInv'
  BY <1>31 DEF ExitThread
<1>32. CASE UNCHANGED vars
  BY <1>32 DEF vars
<1> HIDE DEF LockInv
<1> QED
  BY <1>1, <1>2, <1>3, <1>4, <1>5, <1>6, <1>7, <1>8, <1>9, <1>10, <1>11, <1>12, <1>13,
     <1>14, <1>15, <1>16, <1>17, <1>18, <1>19, <1>20, <1>21, <1>22, <1>23, <1>24, <1>25,
     <1>26, <1>27, <1>28, <1>29, <1>30, <1>31, <1>32
  DEF Next, Step, Expire, Call, Unlock

\* The lock invariant is an invariant of the specification.
LEMMA LockInvariant == Spec => []LockInv
  BY LockInit, LockNext, PTL DEF Spec

\* Mutual exclusion with recursion, for any number of threads and mutexes: the
\* guest's count of its lock calls always agrees with m_owner and m_count of
\* mutex.cpp, through every interleaving of lock, unlock, wait, time-out,
\* signal and cancellation.
THEOREM HeldAsCountedHolds == Spec => []HeldAsCounted
<1>1. LockInv => HeldAsCounted
  BY DEF LockInv, LockState, HeldAsCounted, Owns
<1> QED
  BY LockInvariant, <1>1, PTL

-----------------------------------------------------------------------------
(***************************************************************************)
(* The sleep queues.                                                       *)
(***************************************************************************)

\* Where a thread has the lock of its channel's chain.
Chained == {"wait_unlock", "wait_clear", "wait_arm", "drop"}

\* Where a thread has queued up and released the chain lock, and where it may
\* be queued at all.
Asleep == {"flush", "sleeping", "wait_wake"}
Queueing == {"wait_clear", "wait_arm"} \cup Asleep

QueueTypes ==
    /\ SleepQueueTypeOK
    /\ pc \in [Threads -> PCs]
    /\ condArg \in [Threads -> Conds \cup {None}]
    /\ sqArg \in [Threads -> Threads \cup {None}]
    /\ has_user_waiters \in [Conds -> BOOLEAN]

\* Thread t has unlinked queue q of channel c and empties it.
Dropping(t, q, c) == pc[t] = "drop" /\ sqArg[t] = q /\ condArg[t] = c

\* The blocked threads of q wait for c.
Serves(q, c) == sc_queues[c] = q \/ \E t \in Threads : Dropping(t, q, c)

\* What a thread's channel, object and chain lock are, by where it is.
ThreadState(t) ==
    /\ pc[t] \in {"wait_lock"} \cup Chained \cup Asleep => condArg[t] \in Conds
    /\ pc[t] \in Chained => sc_lock[SC_HASH[condArg[t]]] = t
    /\ pc[t] \in {"wait_clear", "wait_arm"} => wchan[t] = condArg[t]
    /\ pc[t] \in Asleep => wchan[t] \in {None, condArg[t]}
    /\ pc[t] \notin Queueing => wchan[t] = None
    /\ sleepqueue[t] = None <=> wchan[t] # None

\* A queue that is being emptied went home with its first thread, which cannot
\* leave its wait before the chain lock is released.
DropState(t) ==
    pc[t] = "drop" =>
        /\ sqArg[t] \in Threads
        /\ sc_queues[condArg[t]] = None
        /\ Len(sq_freeq[sqArg[t]]) = Len(sq_blocked[sqArg[t]])
        /\ \E u \in Threads : /\ sleepqueue[u] = sqArg[t]
                              /\ pc[u] \in Asleep
                              /\ condArg[u] = condArg[t]

\* A linked queue has a blocked thread for itself and one for each lent object.
LinkState(c) ==
    sc_queues[c] # None =>
        Len(sq_blocked[sc_queues[c]]) = Len(sq_freeq[sc_queues[c]]) + 1

\* The threads of a queue wait for the channel it serves, each of them once; an
\* object that serves none is empty.
BlockedState(q) ==
    /\ OnceEach(sq_blocked[q])
    /\ \A u \in Range(sq_blocked[q]) : wchan[u] \in Conds /\ Serves(q, wchan[u])
    /\ (\A c \in Conds : ~Serves(q, c)) => sq_freeq[q] = <<>>

\* Whoever waits for a channel is on its queue.
IsBlocked(t) ==
    wchan[t] # None =>
        \E q \in Threads : Serves(q, wchan[t]) /\ t \in Range(sq_blocked[q])

\* Where an object is.
Home(q, t) == sleepqueue[t] = q
Linked(q, c) == sc_queues[c] = q
Lent(q, r) == q \in Range(sq_freeq[r])

\* No object is in two places, and each is somewhere.
OnePlace(q) ==
    /\ \A t, u \in Threads : Home(q, t) /\ Home(q, u) => t = u
    /\ \A c, d \in Conds : Linked(q, c) /\ Linked(q, d) => c = d
    /\ \A r, s \in Threads : Lent(q, r) /\ Lent(q, s) => r = s
    /\ \A t \in Threads, c \in Conds : ~(Home(q, t) /\ Linked(q, c))
    /\ \A t, r \in Threads : ~(Home(q, t) /\ Lent(q, r))
    /\ \A c \in Conds, r \in Threads : ~(Linked(q, c) /\ Lent(q, r))
    /\ OnceEach(sq_freeq[q])
SomePlace(q) ==
    \/ \E t \in Threads : Home(q, t)
    \/ \E c \in Conds : Linked(q, c)
    \/ \E r \in Threads : Lent(q, r)

QueueInv ==
    /\ QueueTypes
    /\ \A t \in Threads : ThreadState(t) /\ DropState(t) /\ IsBlocked(t)
    /\ \A c \in Conds : LinkState(c)
    /\ \A q \in Threads : BlockedState(q) /\ OnePlace(q) /\ SomePlace(q)

\* The queue invariant holds at the start.
LEMMA QueueInit == Init => QueueInv
<1> SUFFICES ASSUME Init PROVE QueueInv
  OBVIOUS
<1> USE ThreadsAssumption, SleepQueueAssumption DEF Init, SleepQueueInit
<1>1. QueueTypes
  BY DEF QueueTypes, SleepQueueTypeOK, PCs
<1>2. \A t \in Threads : ThreadState(t) /\ DropState(t) /\ IsBlocked(t)
  BY DEF ThreadState, DropState, IsBlocked, Chained, Asleep, Queueing
<1>3. \A c \in Conds : LinkState(c)
  BY DEF LinkState
<1>4. \A q \in Threads : Range(sq_blocked[q]) = {} /\ Range(sq_freeq[q]) = {}
                         /\ OnceEach(sq_blocked[q]) /\ OnceEach(sq_freeq[q])
                         /\ sq_freeq[q] = <<>>
  BY EmptyRange
<1>5. \A q \in Threads : BlockedState(q)
  BY <1>4 DEF BlockedState
<1>6. \A q \in Threads : OnePlace(q)
  BY <1>4 DEF OnePlace, Home, Linked, Lent
<1>7. \A q \in Threads : SomePlace(q)
  BY DEF SomePlace, Home
<1> QED
  BY <1>1, <1>2, <1>3, <1>5, <1>6, <1>7 DEF QueueInv

\* A step of one thread that leaves the queues alone keeps the invariant, if
\* the other threads keep their chain locks and the thread does not walk away
\* from a queue that is being emptied.
LEMMA QueueFrame ==
    ASSUME QueueInv, NEW t \in Threads, UNCHANGED queueVars, QueueTypes',
           \A u \in Threads \ {t} : /\ pc'[u] = pc[u]
                                    /\ condArg'[u] = condArg[u]
                                    /\ sqArg'[u] = sqArg[u],
           \A u \in Threads \ {t} : pc[u] \in Chained =>
               sc_lock'[SC_HASH[condArg[u]]] = u,
           pc[t] # "drop", pc'[t] # "drop", ThreadState(t)',
           \/ pc[t] \notin Asleep
           \/ pc'[t] \in Asleep /\ condArg'[t] = condArg[t]
           \/ ChainFree(condArg[t])
    PROVE  QueueInv'
<1> USE ThreadsAssumption, SleepQueueAssumption
<1>1. /\ sc_queues' = sc_queues /\ sq_blocked' = sq_blocked
      /\ sq_freeq' = sq_freeq /\ sleepqueue' = sleepqueue /\ wchan' = wchan
  BY DEF queueVars
<1>2. ASSUME NEW q, NEW c PROVE Serves(q, c)' <=> Serves(q, c)
  BY <1>1 DEF Serves, Dropping
<1>3. ASSUME NEW u \in Threads PROVE ThreadState(u)'
  <2>1. CASE u = t
    BY <2>1
  <2>2. CASE u # t
    <3>1. ThreadState(u)
      BY DEF QueueInv
    <3>2. condArg[u] \in Conds \cup {None}
      BY DEF QueueInv, QueueTypes
    <3> QED
      BY <2>2, <3>1, <3>2, <1>1 DEF ThreadState, Chained
  <2> QED
    BY <2>1, <2>2
<1>4. ASSUME NEW u \in Threads PROVE DropState(u)'
  <2> SUFFICES ASSUME pc'[u] = "drop" PROVE DropState(u)'
    BY DEF DropState
  <2>1. u # t /\ pc[u] = "drop" /\ condArg'[u] = condArg[u] /\ sqArg'[u] = sqArg[u]
    OBVIOUS
  <2>2. DropState(u) /\ ThreadState(u)
    BY DEF QueueInv
  <2>3. sc_lock[SC_HASH[condArg[u]]] = u
    BY <2>1, <2>2 DEF ThreadState, Chained
  <2>4. PICK v \in Threads : /\ sleepqueue[v] = sqArg[u]
                             /\ pc[v] \in Asleep
                             /\ condArg[v] = condArg[u]
    BY <2>1, <2>2 DEF DropState
  <2>5. pc'[v] \in Asleep /\ condArg'[v] = condArg[u]
    <3>1. CASE v = t
      BY <3>1, <2>3, <2>4 DEF ChainFree
    <3>2. CASE v # t
      BY <3>2, <2>4
    <3> QED
      BY <3>1, <3>2
  <2> QED
    BY <1>1, <2>1, <2>2, <2>4, <2>5 DEF DropState
<1>5. ASSUME NEW u \in Threads PROVE IsBlocked(u)'
  <2>1. IsBlocked(u)
    BY DEF QueueInv
  <2> QED
    BY <2>1, <1>1, <1>2 DEF IsBlocked
<1>6. ASSUME NEW c \in Conds PROVE LinkState(c)'
  BY <1>1 DEF QueueInv, LinkState
<1>7. ASSUME NEW q \in Threads PROVE BlockedState(q)'
  <2>1. BlockedState(q)
    BY DEF QueueInv
  <2> QED
    BY <2>1, <1>1, <1>2 DEF BlockedState
<1>8. ASSUME NEW q \in Threads PROVE OnePlace(q)' /\ SomePlace(q)'
  <2>1. OnePlace(q) /\ SomePlace(q)
    BY DEF QueueInv
  <2> QED
    BY <2>1, <1>1 DEF OnePlace, SomePlace, Home, Linked, Lent
<1> QED
  BY <1>3, <1>4, <1>5, <1>6, <1>7, <1>8 DEF QueueInv

\* A queue serves one channel, a channel has one queue, and a queue that is
\* being emptied is linked to no channel.
LEMMA ServesOne ==
    ASSUME QueueInv, NEW q \in Threads, NEW c \in Conds, Serves(q, c)
    PROVE  /\ \A d \in Conds : Serves(q, d) => d = c
           /\ \A r \in Threads : Serves(r, c) => r = q
           /\ \A d \in Conds, t \in Threads : Linked(q, d) => ~Dropping(t, q, c)
<1> USE ThreadsAssumption, SleepQueueAssumption
<1>1. OnePlace(q)
  BY DEF QueueInv
<1>2. \A t \in Threads : DropState(t) /\ ThreadState(t)
  BY DEF QueueInv
<1>3. ASSUME NEW t \in Threads, NEW e \in Conds, Dropping(t, q, e)
      PROVE  /\ \A d \in Conds : ~Linked(q, d)
             /\ sc_queues[e] = None
             /\ sc_lock[SC_HASH[e]] = t
             /\ \E u \in Threads : Home(q, u) /\ condArg[u] = e
  <2>1. \E u \in Threads : Home(q, u) /\ condArg[u] = e
    BY <1>2, <1>3 DEF DropState, Dropping, Home
  <2>2. sc_queues[e] = None /\ sc_lock[SC_HASH[e]] = t
    BY <1>2, <1>3 DEF DropState, Dropping, ThreadState, Chained
  <2> QED
    BY <1>1, <2>1, <2>2 DEF OnePlace
<1>4. ASSUME NEW d \in Conds, Serves(q, d) PROVE d = c
  <2>1. CASE sc_queues[c] = q /\ sc_queues[d] = q
    BY <2>1, <1>1 DEF OnePlace, Linked
  <2>2. CASE sc_queues[c] = q /\ sc_queues[d] # q
    BY <2>2, <1>3, <1>4 DEF Serves, Linked
  <2>3. CASE sc_queues[c] # q /\ sc_queues[d] = q
    BY <2>3, <1>3 DEF Serves, Linked
  <2>4. CASE sc_queues[c] # q /\ sc_queues[d] # q
    <3>1. /\ \E u \in Threads : Home(q, u) /\ condArg[u] = c
          /\ \E u \in Threads : Home(q, u) /\ condArg[u] = d
      BY <2>4, <1>3, <1>4 DEF Serves
    <3> QED
      BY <3>1, <1>1 DEF OnePlace
  <2> QED
    BY <2>1, <2>2, <2>3, <2>4
<1>5. ASSUME NEW r \in Threads, Serves(r, c) PROVE r = q
  <2>1. CASE sc_queues[c] = q
    <3>1. \A t \in Threads : ~Dropping(t, r, c)
      BY <2>1, <1>2 DEF DropState, Dropping
    <3> QED
      BY <2>1, <1>5, <3>1 DEF Serves
  <2>2. CASE sc_queues[c] # q
    <3>1. PICK t \in Threads : Dropping(t, q, c)
      BY <2>2 DEF Serves
    <3>2. sc_queues[c] = None /\ sc_lock[SC_HASH[c]] = t
      BY <3>1, <1>3
    <3>3. PICK u \in Threads : Dropping(u, r, c)
      BY <1>5, <3>2 DEF Serves
    <3>4. sc_lock[SC_HASH[c]] = u
      BY <3>3, <1>2 DEF ThreadState, Chained, Dropping
    <3> QED
      BY <3>1, <3>2, <3>3, <3>4 DEF Dropping
  <2> QED
    BY <2>1, <2>2
<1> QED
  BY <1>3, <1>4, <1>5

\* A thread that is queued on a channel while somebody else, or nobody, has
\* the chain lock has gone to sleep; it has no object at home.
LEMMA QueuedIsAsleep ==
    ASSUME QueueInv, NEW q \in Threads, NEW c \in Conds, Serves(q, c),
           NEW u \in Range(sq_blocked[q]),
           sc_lock[SC_HASH[c]] # u
    PROVE  /\ u \in Threads /\ wchan[u] = c /\ sleepqueue[u] = None
           /\ pc[u] \in Asleep /\ condArg[u] = c
           /\ \A r \in Threads : u \in Range(sq_blocked[r]) => r = q
<1> USE ThreadsAssumption, SleepQueueAssumption
<1>1. u \in Threads
  BY DEF QueueInv, QueueTypes, SleepQueueTypeOK, Range
<1>2. wchan[u] \in Conds /\ Serves(q, wchan[u])
  BY DEF QueueInv, BlockedState
<1>3. wchan[u] = c
  BY <1>2, ServesOne
<1>4. ThreadState(u)
  BY <1>1 DEF QueueInv
<1>5. pc[u] \in Queueing /\ sleepqueue[u] = None /\ condArg[u] = c
  BY <1>1, <1>3, <1>4 DEF ThreadState, Asleep, Queueing
<1>6. pc[u] \in Asleep
  BY <1>1, <1>3, <1>4, <1>5 DEF ThreadState, Asleep, Queueing, Chained
<1>7. ASSUME NEW r \in Threads, u \in Range(sq_blocked[r]) PROVE r = q
  <2>1. BlockedState(r)
    BY DEF QueueInv
  <2>2. Serves(r, c)
    BY <2>1, <1>3, <1>7 DEF BlockedState
  <2> QED
    BY <2>2, ServesOne
<1> QED
  BY <1>1, <1>3, <1>5, <1>6, <1>7

\* What the lists of a queue hold.
LEMMA ListTypes ==
    ASSUME QueueInv, NEW q \in Threads
    PROVE  /\ sq_blocked[q] \in Seq(Threads) /\ sq_freeq[q] \in Seq(Threads)
           /\ OnceEach(sq_blocked[q]) /\ OnceEach(sq_freeq[q])
           /\ Len(sq_blocked[q]) \in Nat /\ Len(sq_freeq[q]) \in Nat
           /\ Range(sq_blocked[q]) \subseteq Threads
           /\ Range(sq_freeq[q]) \subseteq Threads
<1>1. sq_blocked[q] \in Seq(Threads) /\ sq_freeq[q] \in Seq(Threads)
  BY DEF QueueInv, QueueTypes, SleepQueueTypeOK
<1>2. OnceEach(sq_blocked[q]) /\ OnceEach(sq_freeq[q])
  BY DEF QueueInv, BlockedState, OnePlace
<1>3. /\ Range(sq_blocked[q]) \subseteq Threads
      /\ Range(sq_freeq[q]) \subseteq Threads
  BY <1>1 DEF Range
<1> QED
  BY <1>1, <1>2, <1>3

\* SleepqAdd keeps the queues in order.
LEMMA QueueAdd ==
    ASSUME QueueInv, NEW t \in Threads, WaitEnqueue(t)
    PROVE  QueueInv'
<1> DEFINE c == condArg[t]
           own == sleepqueue[t]
<1> USE ThreadsAssumption, SleepQueueAssumption
<1>1. /\ c \in Conds /\ sc_lock[SC_HASH[c]] = t /\ wchan[t] = None
      /\ own \in Threads /\ pc[t] = "wait_unlock"
  <2>1. pc[t] = "wait_unlock"
    BY DEF WaitEnqueue
  <2>2. ThreadState(t) /\ own \in Threads \cup {None}
    BY DEF QueueInv, QueueTypes, SleepQueueTypeOK
  <2> QED
    BY <2>1, <2>2 DEF ThreadState, Chained, Queueing, Asleep
<1>2. /\ sc_lock' = sc_lock /\ condArg' = condArg /\ sqArg' = sqArg
      /\ has_user_waiters' = has_user_waiters
      /\ pc' = [pc EXCEPT ![t] = "wait_clear"]
      /\ SleepqAdd(c, t)
  BY DEF WaitEnqueue, GoTo, frameVars, wakeVars
<1>3. /\ pc \in [Threads -> PCs] /\ sc_queues \in [Conds -> Threads \cup {None}]
      /\ sq_blocked \in [Threads -> Seq(Threads)]
      /\ sq_freeq \in [Threads -> Seq(Threads)]
      /\ sleepqueue \in [Threads -> Threads \cup {None}]
      /\ wchan \in [Threads -> Conds \cup {None}]
  BY DEF QueueInv, QueueTypes, SleepQueueTypeOK
<1>4. /\ \A u \in Threads : ThreadState(u) /\ DropState(u) /\ IsBlocked(u)
      /\ \A d \in Conds : LinkState(d)
      /\ \A q \in Threads : BlockedState(q) /\ OnePlace(q) /\ SomePlace(q)
  BY DEF QueueInv
<1>5. \A q \in Threads : t \notin Range(sq_blocked[q])
  BY <1>1, <1>4 DEF BlockedState
<1> DEFINE sq == IF sc_queues[c] = None THEN own ELSE sc_queues[c]
<1>6. /\ sq_freeq' = IF sc_queues[c] = None THEN sq_freeq
                     ELSE [sq_freeq EXCEPT ![sq] = <<own>> \o @]
      /\ sc_queues' = [sc_queues EXCEPT ![c] = sq]
      /\ sleepqueue' = [sleepqueue EXCEPT ![t] = None]
      /\ wchan' = [wchan EXCEPT ![t] = c]
      /\ sq_blocked' = [sq_blocked EXCEPT ![sq] = Append(@, t)]
  BY <1>2 DEF SleepqAdd
<1>7. sq \in Threads
  BY <1>1, <1>3
<1>8. /\ sq_blocked'[sq] \in Seq(Threads)
      /\ Len(sq_blocked'[sq]) = Len(sq_blocked[sq]) + 1
      /\ Range(sq_blocked'[sq]) = Range(sq_blocked[sq]) \cup {t}
      /\ OnceEach(sq_blocked'[sq])
  <2>1. sq_blocked'[sq] = Append(sq_blocked[sq], t)
    BY <1>3, <1>6, <1>7
  <2>2. sq_blocked[sq] \in Seq(Threads) /\ OnceEach(sq_blocked[sq])
    BY <1>7, ListTypes
  <2> QED
    BY <2>1, <2>2, <1>5, <1>7, AppendRange
<1>9. \A q \in Threads \ {sq} : sq_blocked'[q] = sq_blocked[q]
  BY <1>3, <1>6
<1>10. \A u \in Threads : \A q, d : Dropping(u, q, d)' <=> Dropping(u, q, d)
  BY <1>1, <1>2, <1>3 DEF Dropping
\* Nobody empties the queue of c, or the thread's own object.
<1>11. \A u \in Threads, q \in Threads : ~Dropping(u, q, c)
  BY <1>1, <1>4 DEF Dropping, ThreadState, Chained
<1>12. \A u \in Threads, d \in Conds : ~Dropping(u, own, d)
  <2> SUFFICES ASSUME NEW u \in Threads, NEW d \in Conds, Dropping(u, own, d)
               PROVE  FALSE
    OBVIOUS
  <2>1. PICK v \in Threads : sleepqueue[v] = own /\ pc[v] \in Asleep
    BY <1>4 DEF DropState, Dropping
  <2> QED
    BY <2>1, <1>1, <1>4 DEF OnePlace, Home, Asleep
<1>13. ASSUME NEW q \in Threads, NEW d \in Conds
       PROVE  Serves(q, d)' <=> Serves(q, d) \/ (q = sq /\ d = c)
  BY <1>1, <1>3, <1>6, <1>7, <1>10, <1>11 DEF Serves
<1>14. \A d \in Conds : ~Linked(own, d)
  BY <1>1, <1>4 DEF OnePlace, Home
<1>15. \A r \in Threads : ~Lent(own, r)
  BY <1>1, <1>4 DEF OnePlace, Home
<1>16. /\ sq_freeq' \in [Threads -> Seq(Threads)]
       /\ Len(sq_blocked'[sq]) = Len(sq_freeq'[sq]) + 1
       /\ OnceEach(sq_freeq'[sq])
       /\ \A q \in Threads \ {sq} : sq_freeq'[q] = sq_freeq[q]
       /\ Range(sq_freeq'[sq]) = Range(sq_freeq[sq]) \cup
                                 (IF sc_queues[c] = None THEN {} ELSE {own})
  <2>1. CASE sc_queues[c] = None
    <3>1. sq = own /\ sq_freeq' = sq_freeq
      BY <2>1, <1>6
    <3>2. \A d \in Conds : ~Serves(own, d)
      BY <1>12, <1>14 DEF Serves, Linked
    <3>3. sq_freeq[own] = <<>> /\ Range(sq_blocked[own]) = {}
      BY <1>1, <1>4, <3>2 DEF BlockedState
    <3>4. sq_blocked[own] \in Seq(Threads)
      BY <1>1, <1>3
    <3>5. sq_blocked[own] = <<>>
      BY <3>3, <3>4, EmptyRange
    <3> QED
      BY <2>1, <3>1, <3>3, <3>5, <1>3, <1>8, EmptyRange
  <2>2. CASE sc_queues[c] # None
    <3>1. sq = sc_queues[c] /\ sq_freeq'[sq] = <<own>> \o sq_freeq[sq]
      BY <2>2, <1>3, <1>6, <1>7
    <3>2. own \notin Range(sq_freeq[sq])
      BY <1>7, <1>15 DEF Lent
    <3>3. sq_freeq[sq] \in Seq(Threads) /\ OnceEach(sq_freeq[sq])
      BY <1>7, ListTypes
    <3>4. /\ sq_freeq'[sq] \in Seq(Threads)
          /\ Len(sq_freeq'[sq]) = Len(sq_freeq[sq]) + 1
          /\ Range(sq_freeq'[sq]) = Range(sq_freeq[sq]) \cup {own}
          /\ OnceEach(sq_freeq'[sq])
      <4>1. own \in Threads
        BY <1>1
      <4> HIDE DEF own
      <4>2. /\ <<own>> \o sq_freeq[sq] \in Seq(Threads)
            /\ Len(<<own>> \o sq_freeq[sq]) = Len(sq_freeq[sq]) + 1
            /\ Range(<<own>> \o sq_freeq[sq]) = Range(sq_freeq[sq]) \cup {own}
            /\ OnceEach(<<own>> \o sq_freeq[sq])
        BY SMTT(30), <4>1, <3>2, <3>3, ConsRange
      <4> QED
        BY Zenon, <3>1, <4>2
    <3>5. Len(sq_blocked[sq]) = Len(sq_freeq[sq]) + 1
      BY <2>2, <3>1, <1>1, <1>4 DEF LinkState
    <3>6. /\ sq_freeq' \in [Threads -> Seq(Threads)]
          /\ \A q \in Threads \ {sq} : sq_freeq'[q] = sq_freeq[q]
      <4> HIDE DEF sq
      <4>1. sq_freeq' = [sq_freeq EXCEPT ![sq] = <<own>> \o @]
        BY <2>2, <1>6
      <4>2. sq_freeq' = [sq_freeq EXCEPT ![sq] = sq_freeq'[sq]]
        BY <4>1, <1>7, <1>3
      <4> QED
        BY <4>2, <3>4, <1>7, <1>3
    <3> QED
      BY <2>2, <3>4, <3>5, <3>6, <1>8
  <2> QED
    BY <2>1, <2>2
<1>17. sq = (IF sc_queues[c] = None THEN own ELSE sc_queues[c])
  OBVIOUS
<1> HIDE DEF sq
<1>18. QueueTypes'
  <2>1. sq_blocked' \in [Threads -> Seq(Threads)]
    <3>1. sq_blocked' = [sq_blocked EXCEPT ![sq] = sq_blocked'[sq]]
      BY <1>3, <1>6, <1>7
    <3> QED
      BY <3>1, <1>3, <1>7, <1>8
  <2>2. /\ sc_queues' \in [Conds -> Threads \cup {None}]
        /\ sleepqueue' \in [Threads -> Threads \cup {None}]
        /\ wchan' \in [Threads -> Conds \cup {None}]
        /\ pc' \in [Threads -> PCs]
    BY <1>1, <1>2, <1>3, <1>6, <1>7 DEF PCs
  <2> QED
    BY <2>1, <2>2, <1>2, <1>16 DEF QueueInv, QueueTypes, SleepQueueTypeOK
<1>19. ASSUME NEW u \in Threads PROVE ThreadState(u)'
  <2>1. CASE u = t
    BY <2>1, <1>1, <1>2, <1>3, <1>6
    DEF ThreadState, Chained, Asleep, Queueing
  <2>2. CASE u # t
    <3>1. /\ pc'[u] = pc[u] /\ wchan'[u] = wchan[u]
          /\ sleepqueue'[u] = sleepqueue[u]
      BY <2>2, <1>2, <1>3, <1>6
    <3> QED
      BY <3>1, <1>2, <1>4 DEF ThreadState
  <2> QED
    BY <2>1, <2>2
<1>20. ASSUME NEW u \in Threads PROVE DropState(u)'
  <2> SUFFICES ASSUME pc'[u] = "drop" PROVE DropState(u)'
    BY DEF DropState
  <2>1. pc[u] = "drop" /\ u # t
    BY <1>1, <1>2, <1>3
  <2>2. DropState(u) /\ ThreadState(u) /\ condArg[u] \in Conds /\ condArg[u] # c
    BY <1>1, <1>4, <2>1 DEF ThreadState, Chained
  <2>3. sqArg[u] # sq
    <3>1. Dropping(u, sqArg[u], condArg[u])
      BY <2>1 DEF Dropping
    <3>2. sqArg[u] # own
      BY <3>1, <1>12, <2>2
    <3>3. CASE sq = sc_queues[c] /\ sq = sqArg[u]
      <4>1. OnePlace(sq) /\ Linked(sq, c)
        BY <1>4, <1>7, <3>3 DEF Linked
      <4>2. \E v \in Threads : Home(sq, v)
        BY <2>1, <2>2, <3>3 DEF DropState, Home
      <4> QED
        BY <4>1, <4>2, <1>1 DEF OnePlace
    <3> QED
      BY <3>2, <3>3, <1>17
  <2>4. /\ sc_queues'[condArg[u]] = sc_queues[condArg[u]]
        /\ sq_blocked'[sqArg[u]] = sq_blocked[sqArg[u]]
        /\ sq_freeq'[sqArg[u]] = sq_freeq[sqArg[u]]
        /\ sqArg[u] \in Threads
    <3>1. sqArg[u] \in Threads
      BY <2>1, <2>2 DEF DropState
    <3> QED
      BY <3>1, <2>2, <2>3, <1>3, <1>6, <1>9, <1>16
  <2>5. PICK v \in Threads : /\ sleepqueue[v] = sqArg[u]
                             /\ pc[v] \in Asleep
                             /\ condArg[v] = condArg[u]
    BY <2>1, <2>2 DEF DropState
  <2>6. pc'[v] = pc[v] /\ sleepqueue'[v] = sleepqueue[v]
    BY <2>5, <1>1, <1>2, <1>3, <1>6 DEF Asleep
  <2> QED
    BY <1>2, <2>1, <2>2, <2>4, <2>5, <2>6 DEF DropState
<1>21. ASSUME NEW u \in Threads PROVE IsBlocked(u)'
  <2>1. CASE u = t
    <3>1. wchan'[u] = c
      BY <2>1, <1>3, <1>6
    <3> QED
      BY <2>1, <3>1, <1>1, <1>7, <1>8, <1>13 DEF IsBlocked
  <2>2. CASE u # t
    <3>1. wchan'[u] = wchan[u]
      BY <2>2, <1>3, <1>6
    <3>2. SUFFICES ASSUME wchan[u] # None PROVE IsBlocked(u)'
      BY <3>1 DEF IsBlocked
    <3>3. wchan[u] \in Conds
      BY <3>2, <1>3
    <3>4. PICK q \in Threads : Serves(q, wchan[u]) /\ u \in Range(sq_blocked[q])
      BY <3>2, <1>4 DEF IsBlocked
    <3>5. Serves(q, wchan[u])' /\ u \in Range(sq_blocked'[q])
      BY <3>1, <3>3, <3>4, <1>8, <1>9, <1>13
    <3> QED
      BY <3>5 DEF IsBlocked
  <2> QED
    BY <2>1, <2>2
<1>22. ASSUME NEW d \in Conds PROVE LinkState(d)'
  <2>1. CASE d = c
    BY <2>1, <1>1, <1>2, <1>3, <1>6, <1>7, <1>16 DEF LinkState
  <2>2. CASE d # c
    <3>1. sc_queues'[d] = sc_queues[d] /\ LinkState(d)
      BY <2>2, <1>3, <1>4, <1>6
    <3>2. sc_queues[d] # sq
      BY <2>2, <1>1, <1>4, <1>7, <1>14, <1>17 DEF OnePlace, Linked
    <3>3. SUFFICES ASSUME sc_queues[d] # None PROVE LinkState(d)'
      BY <3>1 DEF LinkState
    <3>4. sc_queues[d] \in Threads \ {sq}
      BY <3>2, <3>3, <1>3
    <3>5. /\ sq_blocked'[sc_queues[d]] = sq_blocked[sc_queues[d]]
          /\ sq_freeq'[sc_queues[d]] = sq_freeq[sc_queues[d]]
      BY <3>4, <1>9, <1>16
    <3> QED
      BY <3>1, <3>5, <1>2 DEF LinkState
  <2> QED
    BY <2>1, <2>2
<1>23. ASSUME NEW q \in Threads PROVE BlockedState(q)'
  <2>1. OnceEach(sq_blocked'[q])
    BY <1>4, <1>8, <1>9 DEF BlockedState
  <2>2. ASSUME NEW u \in Range(sq_blocked'[q])
        PROVE  wchan'[u] \in Conds /\ Serves(q, wchan[u])'
    <3>1. CASE u = t
      <4>1. q = sq /\ wchan'[u] = c
        BY <3>1, <2>2, <1>3, <1>5, <1>6, <1>9
      <4> QED
        BY <4>1, <1>1, <1>13
    <3>2. CASE u # t
      <4>1. u \in Range(sq_blocked[q])
        BY <3>2, <2>2, <1>8, <1>9
      <4>2. wchan[u] \in Conds /\ Serves(q, wchan[u]) /\ u \in Threads
        BY <4>1, <1>4, ListTypes DEF BlockedState
      <4>3. wchan'[u] = wchan[u]
        BY <3>2, <4>2, <1>3, <1>6
      <4> QED
        BY <4>2, <4>3, <1>13
    <3> QED
      BY <3>1, <3>2
  <2>3. ASSUME \A d \in Conds : ~Serves(q, d)' PROVE sq_freeq'[q] = <<>>
    <3>1. q # sq /\ \A d \in Conds : ~Serves(q, d)
      BY <2>3, <1>1, <1>13
    <3> QED
      BY <3>1, <1>4, <1>16 DEF BlockedState
  <2> QED
    BY <2>1, <2>2, <2>3 DEF BlockedState
<1>24. ASSUME NEW q \in Threads
       PROVE  /\ \A u \in Threads : Home(q, u)' <=> Home(q, u) /\ u # t
              /\ \A d \in Conds : Linked(q, d)' <=> \/ Linked(q, d)
                                                    \/ d = c /\ q = sq
              /\ \A r \in Threads : Lent(q, r)' <=>
                    \/ Lent(q, r)
                    \/ sc_queues[c] # None /\ r = sq /\ q = own
  <2>1. \A u \in Threads : Home(q, u)' <=> Home(q, u) /\ u # t
    BY <1>3, <1>6 DEF Home
  <2>2. \A d \in Conds : Linked(q, d)' <=> Linked(q, d) \/ (d = c /\ q = sq)
    BY <1>1, <1>3, <1>6, <1>17 DEF Linked
  <2>3. \A r \in Threads : Lent(q, r)' <=>
            Lent(q, r) \/ (sc_queues[c] # None /\ r = sq /\ q = own)
    BY <1>16 DEF Lent
  <2> QED
    BY <2>1, <2>2, <2>3
<1>25. ASSUME NEW q \in Threads PROVE OnePlace(q)' /\ SomePlace(q)'
  <2>1. OnePlace(q) /\ SomePlace(q) /\ (Home(q, t) <=> q = own)
    BY <1>4 DEF Home
  <2>2. OnceEach(sq_freeq'[q])
    BY <1>16, <2>1 DEF OnePlace
  <2>3. CASE q # own
    BY <1>17, <1>24, <2>1, <2>2, <2>3, <1>1 DEF OnePlace, SomePlace, Linked
  <2>4. CASE q = own /\ sc_queues[c] = None
    BY <1>14, <1>15, <1>17, <1>24, <2>1, <2>2, <2>4, <1>1 DEF OnePlace, SomePlace
  <2>5. CASE q = own /\ sc_queues[c] # None
    <3>1. q # sq
      BY <2>5, <1>1, <1>14, <1>17 DEF Linked
    <3> QED
      BY <3>1, <1>7, <1>14, <1>15, <1>24, <2>1, <2>2, <2>5, <1>1
      DEF OnePlace, SomePlace
  <2> QED
    BY <2>3, <2>4, <2>5
<1> QED
  BY <1>18, <1>19, <1>20, <1>21, <1>22, <1>23, <1>25 DEF QueueInv

\* What the thread that takes another one off a queue does to itself.
Steps(t, td) ==
    \/ pc[t] = "run" /\ \E l \in {"run", "release"} : GoTo(t, l)
    \/ pc[t] = "wait_wake" /\ t = td /\ GoTo(t, "lock_host")

\* SleepqRemove keeps the queues in order, for a signaller and for a thread
\* that takes itself off.
LEMMA QueueRemove ==
    ASSUME QueueInv, NEW t \in Threads, NEW c \in Conds, ChainFree(c),
           sc_queues[c] # None,
           NEW i \in DOMAIN sq_blocked[sc_queues[c]],
           SleepqRemove(c, i), KeepUserWaiters(c),
           Steps(t, sq_blocked[sc_queues[c]][i]),
           UNCHANGED <<sc_lock, condArg, sqArg>>
    PROVE  QueueInv'
<1> DEFINE sq == sc_queues[c]
           td == sq_blocked[sq][i]
           h == IF HasWaiters(c) THEN Head(sq_freeq[sq]) ELSE sq
<1> USE ThreadsAssumption, SleepQueueAssumption
<1>1. /\ pc \in [Threads -> PCs] /\ sc_queues \in [Conds -> Threads \cup {None}]
      /\ sq_blocked \in [Threads -> Seq(Threads)]
      /\ sq_freeq \in [Threads -> Seq(Threads)]
      /\ sleepqueue \in [Threads -> Threads \cup {None}]
      /\ wchan \in [Threads -> Conds \cup {None}]
      /\ has_user_waiters \in [Conds -> BOOLEAN]
  BY DEF QueueInv, QueueTypes, SleepQueueTypeOK
<1>2. /\ \A u \in Threads : ThreadState(u) /\ DropState(u) /\ IsBlocked(u)
      /\ \A d \in Conds : LinkState(d)
      /\ \A q \in Threads : BlockedState(q) /\ OnePlace(q) /\ SomePlace(q)
  BY DEF QueueInv
<1>3. sq \in Threads /\ Serves(sq, c) /\ Linked(sq, c)
  BY <1>1 DEF Serves, Linked
<1>4. /\ sq_blocked[sq] \in Seq(Threads) /\ sq_freeq[sq] \in Seq(Threads)
      /\ OnceEach(sq_blocked[sq]) /\ OnceEach(sq_freeq[sq])
      /\ Len(sq_blocked[sq]) = Len(sq_freeq[sq]) + 1
      /\ Len(sq_freeq[sq]) \in Nat /\ i \in 1 .. Len(sq_blocked[sq])
  BY <1>2, <1>3, ListTypes DEF LinkState
<1>5. td \in Range(sq_blocked[sq])
  BY DEF Range
<1>6. /\ td \in Threads /\ wchan[td] = c /\ sleepqueue[td] = None
      /\ pc[td] \in Asleep /\ condArg[td] = c
      /\ \A r \in Threads : td \in Range(sq_blocked[r]) => r = sq
  <2>1. sc_lock[SC_HASH[c]] # td
    <3>1. td \in Threads
      BY <1>4
    <3> QED
      BY <3>1 DEF ChainFree
  <2> QED
    BY <2>1, <1>3, <1>5, QueuedIsAsleep
<1>7. /\ sq_blocked' = [sq_blocked EXCEPT ![sq] = RemoveAt(@, i)]
      /\ wchan' = [wchan EXCEPT ![td] = None]
      /\ sleepqueue' = [sleepqueue EXCEPT ![td] = h]
      /\ sq_freeq' = IF HasWaiters(c)
                     THEN [sq_freeq EXCEPT ![sq] = Tail(@)] ELSE sq_freeq
      /\ sc_queues' = IF HasWaiters(c) THEN sc_queues
                      ELSE [sc_queues EXCEPT ![c] = None]
  BY DEF SleepqRemove
<1>8. /\ sq_blocked'[sq] \in Seq(Threads)
      /\ Len(sq_blocked'[sq]) = Len(sq_blocked[sq]) - 1
      /\ Range(sq_blocked'[sq]) = Range(sq_blocked[sq]) \ {td}
      /\ OnceEach(sq_blocked'[sq])
  <2>1. sq_blocked'[sq] = RemoveAt(sq_blocked[sq], i)
    BY <1>1, <1>3, <1>7
  <2>2. /\ sq_blocked'[sq] \in Seq(Threads)
        /\ Len(sq_blocked'[sq]) = Len(sq_blocked[sq]) - 1
    BY <2>1, <1>4, RemoveAtFacts
  <2>3. /\ Range(sq_blocked'[sq]) = Range(sq_blocked[sq]) \ {td}
        /\ OnceEach(sq_blocked'[sq])
    BY <2>1, <1>4, RemoveAtRange
  <2> QED
    BY <2>2, <2>3
<1>9. \A q \in Threads \ {sq} : sq_blocked'[q] = sq_blocked[q]
  BY <1>1, <1>7
\* The object that td takes home, and what is left of the lent ones.
<1>10. /\ h \in Threads /\ \A u \in Threads : ~Home(h, u)
       /\ HasWaiters(c) => Lent(h, sq)
       /\ ~HasWaiters(c) => h = sq /\ sq_freeq[sq] = <<>>
                            /\ Range(sq_blocked'[sq]) = {}
       /\ sq_freeq' \in [Threads -> Seq(Threads)]
       /\ HasWaiters(c) => Len(sq_blocked'[sq]) = Len(sq_freeq'[sq]) + 1
       /\ OnceEach(sq_freeq'[sq])
       /\ \A q \in Threads \ {sq} : sq_freeq'[q] = sq_freeq[q]
       /\ Range(sq_freeq'[sq]) = Range(sq_freeq[sq]) \ {h}
  <2>1. CASE HasWaiters(c)
    <3>1. sq_freeq[sq] # <<>>
      BY <2>1, <1>4, EmptyRange DEF HasWaiters
    <3>2. /\ h \in Threads /\ Tail(sq_freeq[sq]) \in Seq(Threads)
          /\ Len(Tail(sq_freeq[sq])) = Len(sq_freeq[sq]) - 1
          /\ h \in Range(sq_freeq[sq])
          /\ Range(Tail(sq_freeq[sq])) = Range(sq_freeq[sq]) \ {h}
          /\ OnceEach(Tail(sq_freeq[sq]))
      BY <2>1, <3>1, <1>4, TailRange
    <3>3. sq_freeq' = [sq_freeq EXCEPT ![sq] = Tail(sq_freeq[sq])]
      BY <2>1, <1>7
    <3>4. /\ sq_freeq'[sq] = Tail(sq_freeq[sq])
          /\ sq_freeq' \in [Threads -> Seq(Threads)]
          /\ \A q \in Threads \ {sq} : sq_freeq'[q] = sq_freeq[q]
      BY <3>2, <3>3, <1>1, <1>3
    <3>5. Lent(h, sq)
      BY <3>2 DEF Lent
    <3>6. \A u \in Threads : ~Home(h, u)
      BY <3>2, <3>5, <1>2, <1>3 DEF OnePlace
    <3> HIDE DEF sq, h
    <3> QED
      BY <2>1, <3>2, <3>4, <3>5, <3>6, <1>4, <1>8
  <2>2. CASE ~HasWaiters(c)
    <3>1. h = sq /\ sq_freeq' = sq_freeq
      BY <2>2, <1>7
    <3>2. Len(sq_freeq[sq]) = 0 /\ Len(sq_blocked'[sq]) = 0
      BY <2>2, <1>4, <1>8 DEF HasWaiters
    <3>3. sq_freeq[sq] = <<>> /\ sq_blocked'[sq] = <<>>
      BY <3>2, <1>4, <1>8, EmptySeq
    <3>4. \A u \in Threads : ~Home(h, u)
      BY <3>1, <1>2, <1>3 DEF OnePlace
    <3> HIDE DEF sq, h
    <3> QED
      BY <2>2, <3>1, <3>3, <3>4, <1>1, <1>3, <1>4, EmptyRange
  <2> QED
    BY <2>1, <2>2
<1> HIDE DEF sq, td, h
<1>11. /\ UNCHANGED <<sc_lock, condArg, sqArg>>
       /\ \A u \in Threads : pc'[u] = pc[u] \/ (u = t /\ Steps(t, td))
       /\ pc' \in [Threads -> PCs] /\ pc[t] # "drop" /\ pc'[t] # "drop"
       /\ pc[t] \in Asleep => t = td /\ pc'[t] = "lock_host"
       /\ pc[t] \notin Asleep => pc[t] = "run" /\ pc'[t] \in {"run", "release"}
  BY <1>1 DEF Steps, GoTo, PCs, Asleep, sq, td
<1>12. \A u \in Threads : \A q, d : Dropping(u, q, d)' <=> Dropping(u, q, d)
  BY <1>11 DEF Dropping
<1>13. \A u \in Threads, q \in Threads : ~Dropping(u, q, c)
  BY <1>2 DEF Dropping, ThreadState, Chained, ChainFree
<1>14. ASSUME NEW q \in Threads, NEW d \in Conds
       PROVE  Serves(q, d)' <=> Serves(q, d) /\ (d = c => HasWaiters(c))
  BY <1>1, <1>3, <1>7, <1>12, <1>13 DEF Serves
<1>15. \A u \in Range(sq_blocked[sq]) : u # td => HasWaiters(c)
  BY <1>8, <1>10
<1>16. has_user_waiters' = [has_user_waiters EXCEPT ![c] = HasWaiters(c)]
       /\ HasWaiters(c) \in BOOLEAN
  BY DEF KeepUserWaiters, HasWaiters
<1> HIDE DEF HasWaiters
<1>18. QueueTypes'
  <2>1. sq_blocked' \in [Threads -> Seq(Threads)]
    <3>1. sq_blocked' = [sq_blocked EXCEPT ![sq] = sq_blocked'[sq]]
      BY <1>1, <1>3, <1>7
    <3> QED
      BY <3>1, <1>1, <1>3, <1>8
  <2>2. /\ sc_queues' \in [Conds -> Threads \cup {None}]
        /\ sleepqueue' \in [Threads -> Threads \cup {None}]
        /\ wchan' \in [Threads -> Conds \cup {None}]
        /\ has_user_waiters' \in [Conds -> BOOLEAN]
    BY <1>1, <1>7, <1>10, <1>16
  <2> QED
    BY <2>1, <2>2, <1>10, <1>11 DEF QueueInv, QueueTypes, SleepQueueTypeOK
<1>19. ASSUME NEW u \in Threads PROVE ThreadState(u)'
  <2>1. CASE u = td
    <3>1. wchan'[u] = None /\ sleepqueue'[u] = h
      BY <2>1, <1>1, <1>6, <1>7
    <3>2. pc'[u] \in Asleep \cup {"lock_host"} /\ condArg'[u] = c
      BY <2>1, <1>6, <1>11 DEF Asleep
    <3> QED
      BY <3>1, <3>2, <2>1, <1>10
      DEF ThreadState, Chained, Asleep, Queueing
  <2>2. CASE u # td
    <3>1. wchan'[u] = wchan[u] /\ sleepqueue'[u] = sleepqueue[u]
      BY <2>2, <1>1, <1>7
    <3>2. ThreadState(u)
      BY <1>2
    <3>3. CASE pc'[u] = pc[u]
      BY <3>1, <3>2, <3>3, <1>11 DEF ThreadState
    <3>4. CASE pc'[u] # pc[u]
      BY <2>2, <3>1, <3>2, <3>4, <1>11
      DEF ThreadState, Chained, Asleep, Queueing
    <3> QED
      BY <3>3, <3>4
  <2> QED
    BY <2>1, <2>2
<1>20. ASSUME NEW u \in Threads PROVE DropState(u)'
  <2> SUFFICES ASSUME pc'[u] = "drop" PROVE DropState(u)'
    BY DEF DropState
  <2>1. pc[u] = "drop" /\ u # t
    BY <1>11
  <2>2. DropState(u) /\ condArg[u] \in Conds /\ condArg[u] # c
    BY <1>2, <2>1 DEF ThreadState, Chained, ChainFree
  <2>3. PICK v \in Threads : /\ sleepqueue[v] = sqArg[u]
                             /\ pc[v] \in Asleep
                             /\ condArg[v] = condArg[u]
    BY <2>1, <2>2 DEF DropState
  <2>4. sqArg[u] \in Threads /\ sqArg[u] # sq
    <3>1. sqArg[u] \in Threads
      BY <2>1, <2>2 DEF DropState
    <3>2. ~Home(sq, v)
      BY <1>2, <1>3 DEF OnePlace
    <3> QED
      BY <3>1, <3>2, <2>3 DEF Home
  <2>5. /\ sc_queues'[condArg[u]] = sc_queues[condArg[u]]
        /\ sq_blocked'[sqArg[u]] = sq_blocked[sqArg[u]]
        /\ sq_freeq'[sqArg[u]] = sq_freeq[sqArg[u]]
    BY <2>2, <2>4, <1>1, <1>7, <1>9, <1>10
  <2>6. v # td
    BY <2>3, <2>4, <1>6
  <2>7. pc'[v] = pc[v] /\ sleepqueue'[v] = sleepqueue[v]
    BY <2>3, <2>6, <1>1, <1>7, <1>11
  <2> QED
    BY <1>11, <2>1, <2>2, <2>3, <2>5, <2>7 DEF DropState
<1>21. ASSUME NEW u \in Threads PROVE IsBlocked(u)'
  <2> SUFFICES ASSUME wchan'[u] # None PROVE IsBlocked(u)'
    BY DEF IsBlocked
  <2>1. u # td /\ wchan'[u] = wchan[u] /\ wchan[u] \in Conds
    BY <1>1, <1>6, <1>7
  <2>2. PICK q \in Threads : Serves(q, wchan[u]) /\ u \in Range(sq_blocked[q])
    BY <2>1, <1>2 DEF IsBlocked
  <2>3. u \in Range(sq_blocked'[q])
    BY <2>1, <2>2, <1>8, <1>9
  <2>4. wchan[u] = c => q = sq
    BY <2>2, <1>3, ServesOne
  <2>5. Serves(q, wchan[u])'
    <3>1. wchan[u] = c => HasWaiters(c)
      BY <2>1, <2>2, <2>4, <1>15
    <3> QED
      BY <3>1, <2>1, <2>2, <1>14
  <2> QED
    BY <2>3, <2>5 DEF IsBlocked
<1>22. ASSUME NEW d \in Conds PROVE LinkState(d)'
  <2>1. CASE d = c
    <3>1. CASE HasWaiters(c)
      <4>1. sc_queues'[d] = sq
        BY <2>1, <3>1, <1>1, <1>7 DEF sq
      <4> QED
        BY <4>1, <3>1, <1>10 DEF LinkState
    <3>2. CASE ~HasWaiters(c)
      BY <2>1, <3>2, <1>1, <1>7 DEF LinkState
    <3> QED
      BY <3>1, <3>2
  <2>2. CASE d # c
    <3>1. sc_queues'[d] = sc_queues[d] /\ LinkState(d)
      BY <2>2, <1>1, <1>2, <1>7
    <3>2. sc_queues[d] # sq
      BY <2>2, <1>2, <1>3 DEF OnePlace, Linked
    <3>3. SUFFICES ASSUME sc_queues[d] # None PROVE LinkState(d)'
      BY <3>1 DEF LinkState
    <3>4. sc_queues[d] \in Threads \ {sq}
      BY <3>2, <3>3, <1>1
    <3>5. /\ sq_blocked'[sc_queues[d]] = sq_blocked[sc_queues[d]]
          /\ sq_freeq'[sc_queues[d]] = sq_freeq[sc_queues[d]]
      BY <3>4, <1>9, <1>10
    <3> QED
      BY <3>1, <3>5 DEF LinkState
  <2> QED
    BY <2>1, <2>2
<1>23. ASSUME NEW q \in Threads PROVE BlockedState(q)'
  <2>1. OnceEach(sq_blocked'[q])
    BY <1>2, <1>8, <1>9 DEF BlockedState
  <2>2. ASSUME NEW u \in Range(sq_blocked'[q])
        PROVE  wchan'[u] \in Conds /\ Serves(q, wchan[u])'
    <3>1. u # td /\ u \in Range(sq_blocked[q])
      BY <2>2, <1>6, <1>8, <1>9
    <3>2. wchan[u] \in Conds /\ Serves(q, wchan[u]) /\ u \in Threads
      BY <3>1, <1>2, ListTypes DEF BlockedState
    <3>3. wchan'[u] = wchan[u]
      BY <3>1, <3>2, <1>1, <1>7
    <3>4. wchan[u] = c => q = sq
      BY <3>2, <1>3, ServesOne
    <3>5. wchan[u] = c => HasWaiters(c)
      BY <3>1, <3>4, <1>15
    <3> QED
      BY <3>2, <3>3, <3>5, <1>14
  <2>3. ASSUME \A d \in Conds : ~Serves(q, d)' PROVE sq_freeq'[q] = <<>>
    <3>1. CASE q = sq
      <4>1. ~HasWaiters(c)
        BY <3>1, <2>3, <1>3, <1>14
      <4> QED
        BY <4>1, <3>1, <1>7, <1>10
    <3>2. CASE q # sq
      <4>1. \A d \in Conds : ~Serves(q, d)
        BY <3>2, <2>3, <1>3, <1>14, ServesOne
      <4> QED
        BY <3>2, <4>1, <1>2, <1>10 DEF BlockedState
    <3> QED
      BY <3>1, <3>2
  <2> QED
    BY <2>1, <2>2, <2>3 DEF BlockedState
<1>24. ASSUME NEW q \in Threads
       PROVE  /\ \A u \in Threads : Home(q, u)' <=> \/ Home(q, u)
                                                    \/ u = td /\ q = h
              /\ \A d \in Conds : Linked(q, d)' <=>
                    Linked(q, d) /\ (d = c => HasWaiters(c))
              /\ \A r \in Threads : Lent(q, r)' <=>
                    Lent(q, r) /\ ~(r = sq /\ q = h)
  <2>1. \A u \in Threads : Home(q, u)' <=> Home(q, u) \/ (u = td /\ q = h)
    BY <1>1, <1>6, <1>7 DEF Home
  <2>2. \A d \in Conds : Linked(q, d)' <=> Linked(q, d) /\ (d = c => HasWaiters(c))
    BY <1>1, <1>7 DEF Linked
  <2>3. \A r \in Threads : Lent(q, r)' <=> Lent(q, r) /\ ~(r = sq /\ q = h)
    BY <1>10 DEF Lent
  <2> QED
    BY <2>1, <2>2, <2>3
<1>25. ASSUME NEW q \in Threads PROVE OnePlace(q)' /\ SomePlace(q)'
  <2>1. OnePlace(q) /\ SomePlace(q)
    BY <1>2
  <2>2. OnceEach(sq_freeq'[q])
    BY <1>10, <2>1 DEF OnePlace
  <2>3. CASE q # h
    <3>1. Linked(q, c) => HasWaiters(c)
      BY <2>3, <1>3, <1>10 DEF Linked, sq
    <3> QED
      BY <1>24, <2>1, <2>2, <2>3, <3>1 DEF OnePlace, SomePlace
  <2>4. CASE q = h
    <3>1. /\ \A u \in Threads : Home(q, u)' <=> u = td
          /\ \A d \in Conds : ~Linked(q, d)'
          /\ \A r \in Threads : ~Lent(q, r)'
      BY <1>3, <1>10, <1>24, <2>1, <2>4 DEF OnePlace
    <3> QED
      BY <1>6, <2>2, <3>1 DEF OnePlace, SomePlace
  <2> QED
    BY <2>3, <2>4
<1> QED
  BY <1>18, <1>19, <1>20, <1>21, <1>22, <1>23, <1>25 DEF QueueInv

\* One thread td leaves the queue sq, which thread t empties from then on, and
\* takes the object h home: the queue itself for the first thread, a lent
\* object for the others.
DropOne(t, c, sq, td, h) ==
    /\ sq_blocked' = [sq_blocked EXCEPT ![sq] = Tail(@)]
    /\ wchan' = [wchan EXCEPT ![td] = None]
    /\ sleepqueue' = [sleepqueue EXCEPT ![td] = h]
    /\ \/ /\ pc[t] = "run" /\ ChainFree(c) /\ sc_queues[c] = sq /\ h = sq
          /\ sq_freeq' = sq_freeq
          /\ sc_queues' = [sc_queues EXCEPT ![c] = None]
          /\ sc_lock' = [sc_lock EXCEPT ![SC_HASH[c]] = t]
          /\ condArg' = [condArg EXCEPT ![t] = c]
          /\ sqArg' = [sqArg EXCEPT ![t] = sq]
          /\ GoTo(t, "drop")
       \/ /\ Dropping(t, sq, c) /\ h = Head(sq_freeq[sq])
          /\ sq_freeq' = [sq_freeq EXCEPT ![sq] = Tail(@)]
          /\ UNCHANGED <<sc_queues, sc_lock, condArg, sqArg, pc>>

\* A step of SleepqDrop keeps the queues in order.
LEMMA QueueDrop ==
    ASSUME QueueInv, NEW t \in Threads, NEW c \in Conds, NEW sq \in Threads,
           sq_blocked[sq] # <<>>, NEW h,
           DropOne(t, c, sq, Head(sq_blocked[sq]), h),
           UNCHANGED has_user_waiters
    PROVE  QueueInv'
<1> DEFINE td == Head(sq_blocked[sq])
<1> USE ThreadsAssumption, SleepQueueAssumption
<1>1. /\ pc \in [Threads -> PCs] /\ sc_queues \in [Conds -> Threads \cup {None}]
      /\ sq_blocked \in [Threads -> Seq(Threads)]
      /\ sq_freeq \in [Threads -> Seq(Threads)]
      /\ sleepqueue \in [Threads -> Threads \cup {None}]
      /\ wchan \in [Threads -> Conds \cup {None}]
      /\ condArg \in [Threads -> Conds \cup {None}]
      /\ sqArg \in [Threads -> Threads \cup {None}]
      /\ sc_lock \in [Chains -> Threads \cup {None}]
      /\ has_user_waiters \in [Conds -> BOOLEAN]
  BY DEF QueueInv, QueueTypes, SleepQueueTypeOK
<1>2. /\ \A u \in Threads : ThreadState(u) /\ DropState(u) /\ IsBlocked(u)
      /\ \A d \in Conds : LinkState(d)
      /\ \A q \in Threads : BlockedState(q) /\ OnePlace(q) /\ SomePlace(q)
  BY DEF QueueInv
<1> DEFINE first == pc[t] = "run"
<1>3. /\ first => ChainFree(c) /\ sc_queues[c] = sq /\ h = sq
      /\ ~first => Dropping(t, sq, c) /\ h = Head(sq_freeq[sq])
                   /\ sc_lock[SC_HASH[c]] = t
      /\ sq_freeq' = IF first THEN sq_freeq
                     ELSE [sq_freeq EXCEPT ![sq] = Tail(@)]
      /\ sc_queues' = IF first THEN [sc_queues EXCEPT ![c] = None] ELSE sc_queues
      /\ sc_lock' = IF first THEN [sc_lock EXCEPT ![SC_HASH[c]] = t] ELSE sc_lock
      /\ condArg' = IF first THEN [condArg EXCEPT ![t] = c] ELSE condArg
      /\ sqArg' = IF first THEN [sqArg EXCEPT ![t] = sq] ELSE sqArg
      /\ pc' = IF first THEN [pc EXCEPT ![t] = "drop"] ELSE pc
  BY <1>2 DEF DropOne, Dropping, GoTo, ThreadState, Chained
<1>4. /\ sq_blocked' = [sq_blocked EXCEPT ![sq] = Tail(@)]
      /\ wchan' = [wchan EXCEPT ![td] = None]
      /\ sleepqueue' = [sleepqueue EXCEPT ![td] = h]
      /\ has_user_waiters' = has_user_waiters
  BY DEF DropOne
<1>5. Serves(sq, c)
  BY <1>3 DEF Serves
<1>6. /\ sq_blocked[sq] \in Seq(Threads) /\ sq_freeq[sq] \in Seq(Threads)
      /\ OnceEach(sq_blocked[sq]) /\ OnceEach(sq_freeq[sq])
      /\ Len(sq_freeq[sq]) \in Nat /\ Len(sq_blocked[sq]) \in Nat \ {0}
      /\ first => Len(sq_blocked[sq]) = Len(sq_freeq[sq]) + 1
      /\ ~first => Len(sq_blocked[sq]) = Len(sq_freeq[sq])
  <2>1. /\ first => Len(sq_blocked[sq]) = Len(sq_freeq[sq]) + 1
        /\ ~first => Len(sq_blocked[sq]) = Len(sq_freeq[sq])
    BY <1>2, <1>3 DEF LinkState, DropState, Dropping
  <2>2. sq_blocked[sq] \in Seq(Threads)
    BY <1>1
  <2>3. Len(sq_blocked[sq]) \in Nat \ {0}
    BY <2>2, TailRange
  <2> QED
    BY <2>1, <2>3, ListTypes
<1>7. /\ td \in Threads /\ td \in Range(sq_blocked[sq])
      /\ sq_blocked'[sq] \in Seq(Threads)
      /\ Len(sq_blocked'[sq]) = Len(sq_blocked[sq]) - 1
      /\ Range(sq_blocked'[sq]) = Range(sq_blocked[sq]) \ {td}
      /\ OnceEach(sq_blocked'[sq])
  <2>1. sq_blocked'[sq] = Tail(sq_blocked[sq])
    BY <1>1, <1>4
  <2> QED
    BY <2>1, <1>6, TailRange
<1>8. /\ wchan[td] = c /\ sleepqueue[td] = None
      /\ pc[td] \in Asleep /\ condArg[td] = c /\ td # t
      /\ \A r \in Threads : td \in Range(sq_blocked[r]) => r = sq
  <2>1. td # t
    <3>1. BlockedState(sq) /\ ThreadState(t)
      BY <1>2
    <3>2. wchan[t] = None
      BY <3>1, <1>3 DEF ThreadState, Queueing, Asleep, Dropping
    <3> QED
      BY <3>1, <3>2, <1>7 DEF BlockedState
  <2>2. sc_lock[SC_HASH[c]] # td
    BY <2>1, <1>3, <1>7 DEF ChainFree
  <2> QED
    BY <2>1, <2>2, <1>5, <1>7, QueuedIsAsleep
<1>9. \A q \in Threads \ {sq} : sq_blocked'[q] = sq_blocked[q]
  BY <1>1, <1>4
<1>10. /\ h \in Threads /\ \A u \in Threads : ~Home(h, u)
       /\ first => h = sq /\ Linked(sq, c)
       /\ ~first => Lent(h, sq)
       /\ sq_freeq' \in [Threads -> Seq(Threads)]
       /\ Len(sq_blocked'[sq]) = Len(sq_freeq'[sq])
       /\ OnceEach(sq_freeq'[sq])
       /\ \A q \in Threads \ {sq} : sq_freeq'[q] = sq_freeq[q]
       /\ Range(sq_freeq'[sq]) = Range(sq_freeq[sq]) \ {h}
  <2>1. CASE ~first
    <3>1. sq_freeq[sq] # <<>>
      BY <2>1, <1>6, EmptyRange
    <3>2. /\ h \in Threads /\ Tail(sq_freeq[sq]) \in Seq(Threads)
          /\ Len(Tail(sq_freeq[sq])) = Len(sq_freeq[sq]) - 1
          /\ h \in Range(sq_freeq[sq])
          /\ Range(Tail(sq_freeq[sq])) = Range(sq_freeq[sq]) \ {h}
          /\ OnceEach(Tail(sq_freeq[sq]))
      BY <2>1, <3>1, <1>3, <1>6, TailRange
    <3>3. sq_freeq' = [sq_freeq EXCEPT ![sq] = Tail(sq_freeq[sq])]
      BY <2>1, <1>3
    <3>4. /\ sq_freeq'[sq] = Tail(sq_freeq[sq])
          /\ sq_freeq' \in [Threads -> Seq(Threads)]
          /\ \A q \in Threads \ {sq} : sq_freeq'[q] = sq_freeq[q]
      BY <3>2, <3>3, <1>1
    <3>5. Lent(h, sq)
      BY <3>2 DEF Lent
    <3>6. \A u \in Threads : ~Home(h, u)
      BY <3>2, <3>5, <1>2 DEF OnePlace
    <3> HIDE DEF first, td
    <3> QED
      BY <2>1, <3>2, <3>4, <3>5, <3>6, <1>6, <1>7
  <2>2. CASE first
    <3>1. h = sq /\ sq_freeq' = sq_freeq /\ Linked(sq, c)
      BY <2>2, <1>3 DEF Linked
    <3>2. \A u \in Threads : ~Home(h, u)
      BY <3>1, <1>2 DEF OnePlace
    <3>3. ~Lent(sq, sq)
      BY <3>1, <1>2 DEF OnePlace
    <3> HIDE DEF first, td
    <3> QED
      BY SMTT(30), <2>2, <3>1, <3>2, <3>3, <1>1, <1>6, <1>7 DEF Lent
  <2> QED
    BY <2>1, <2>2
<1>11. /\ \A u \in Threads \ {t} : pc'[u] = pc[u] /\ condArg'[u] = condArg[u]
                                   /\ sqArg'[u] = sqArg[u]
       /\ pc'[t] = "drop" /\ condArg'[t] = c /\ sqArg'[t] = sq
       /\ \A u \in Threads : pc[u] \in Chained =>
             sc_lock'[SC_HASH[condArg[u]]] = sc_lock[SC_HASH[condArg[u]]]
       /\ sc_lock'[SC_HASH[c]] = t
       /\ \A d \in Conds : d # c => sc_queues'[d] = sc_queues[d]
       /\ sc_queues'[c] = None
  <2>1. CASE first
    <3>1. \A u \in Threads : pc[u] \in Chained =>
             condArg[u] \in Conds /\ sc_lock[SC_HASH[condArg[u]]] = u
      BY <1>2 DEF ThreadState
    <3>2. \A u \in Threads : pc[u] \in Chained => SC_HASH[condArg[u]] # SC_HASH[c]
      BY <2>1, <1>3, <3>1 DEF ChainFree
    <3> QED
      BY <2>1, <1>1, <1>3, <3>1, <3>2
  <2>2. CASE ~first
    BY <2>2, <1>1, <1>2, <1>3 DEF Dropping, DropState
  <2> QED
    BY <2>1, <2>2
<1>12. ASSUME NEW u \in Threads, NEW q \in Threads, NEW d \in Conds
       PROVE  Dropping(u, q, d)' <=> \/ Dropping(u, q, d)
                                     \/ u = t /\ q = sq /\ d = c
  BY <1>3, <1>11 DEF Dropping
<1>13. ASSUME NEW q \in Threads, NEW d \in Conds
       PROVE  Serves(q, d)' <=> Serves(q, d)
  <2>1. CASE d = c
    <3>1. Serves(q, d) => q = sq
      BY <2>1, <1>5, ServesOne
    <3>2. Serves(sq, c)'
      BY <1>12 DEF Serves
    <3>3. Serves(q, d)' => Serves(q, d) \/ q = sq
      BY <2>1, <1>11, <1>12 DEF Serves
    <3> QED
      BY <2>1, <3>1, <3>2, <3>3, <1>5
  <2>2. CASE d # c
    BY <2>2, <1>11, <1>12 DEF Serves
  <2> QED
    BY <2>1, <2>2
<1> HIDE DEF td, first
<1>18. QueueTypes'
  <2>1. sq_blocked' \in [Threads -> Seq(Threads)]
    <3>1. sq_blocked' = [sq_blocked EXCEPT ![sq] = sq_blocked'[sq]]
      BY <1>1, <1>4
    <3> QED
      BY <3>1, <1>1, <1>7
  <2>2. /\ sc_queues' \in [Conds -> Threads \cup {None}]
        /\ sc_lock' \in [Chains -> Threads \cup {None}]
        /\ condArg' \in [Threads -> Conds \cup {None}]
        /\ sqArg' \in [Threads -> Threads \cup {None}]
        /\ pc' \in [Threads -> PCs]
    BY <1>1, <1>3 DEF PCs
  <2>3. /\ sleepqueue' \in [Threads -> Threads \cup {None}]
        /\ wchan' \in [Threads -> Conds \cup {None}]
        /\ has_user_waiters' \in [Conds -> BOOLEAN]
    BY <1>1, <1>4, <1>10
  <2> QED
    BY <2>1, <2>2, <2>3, <1>10 DEF QueueTypes, SleepQueueTypeOK
<1>19. ASSUME NEW u \in Threads PROVE ThreadState(u)'
  <2>1. CASE u = td
    <3>1. wchan'[u] = None /\ sleepqueue'[u] = h /\ u # t
      BY <2>1, <1>1, <1>4, <1>7, <1>8
    <3>2. pc'[u] \in Asleep /\ condArg'[u] = c
      BY <2>1, <3>1, <1>8, <1>11
    <3> QED
      BY <3>1, <3>2, <1>10 DEF ThreadState, Chained, Asleep, Queueing
  <2>2. CASE u # td
    <3>1. wchan'[u] = wchan[u] /\ sleepqueue'[u] = sleepqueue[u]
      BY <2>2, <1>1, <1>4
    <3>2. ThreadState(u)
      BY <1>2
    <3>3. CASE u # t
      BY <3>1, <3>2, <3>3, <1>4, <1>11 DEF ThreadState
    <3>4. CASE u = t
      <4>1. pc[u] \in {"run", "drop"}
        BY <3>4, <1>3 DEF Dropping, first
      <4>2. wchan'[u] = None /\ sleepqueue'[u] # None
        BY <3>1, <3>2, <4>1 DEF ThreadState, Asleep, Queueing
      <4> QED
        BY <3>4, <4>2, <1>11 DEF ThreadState, Chained, Asleep, Queueing
    <3> QED
      BY <3>3, <3>4
  <2> QED
    BY <2>1, <2>2
<1>20. ASSUME NEW u \in Threads PROVE DropState(u)'
  <2> SUFFICES ASSUME pc'[u] = "drop" PROVE DropState(u)'
    BY DEF DropState
  <2>0. ASSUME NEW v \in Threads, v # td
        PROVE  /\ sleepqueue'[v] = sleepqueue[v]
               /\ pc[v] \in Asleep => pc'[v] = pc[v] /\ condArg'[v] = condArg[v]
    <3>1. sleepqueue'[v] = sleepqueue[v]
      BY <2>0, <1>1, <1>4
    <3>2. pc[t] \notin Asleep
      BY <1>3 DEF Dropping, first, Asleep
    <3> QED
      BY <3>1, <3>2, <1>11
  <2>1. CASE u # t
    <3>1. pc[u] = "drop" /\ condArg'[u] = condArg[u] /\ sqArg'[u] = sqArg[u]
      BY <2>1, <1>11
    <3>2. DropState(u) /\ condArg[u] \in Conds /\ sc_lock[SC_HASH[condArg[u]]] = u
      BY <1>2, <3>1 DEF ThreadState, Chained
    <3>3. condArg[u] # c
      BY <2>1, <3>2, <1>3 DEF ChainFree
    <3>4. PICK v \in Threads : /\ sleepqueue[v] = sqArg[u]
                               /\ pc[v] \in Asleep
                               /\ condArg[v] = condArg[u]
      BY <3>1, <3>2 DEF DropState
    <3>5. sqArg[u] \in Threads
      BY <3>1, <3>2 DEF DropState
    <3>6. sqArg[u] # sq
      <4>1. Dropping(u, sqArg[u], condArg[u])
        BY <3>1 DEF Dropping
      <4>2. Serves(sqArg[u], condArg[u])
        BY <4>1 DEF Serves
      <4> QED
        BY <4>2, <3>2, <3>3, <1>5, ServesOne
    <3>7. v # td
      BY <3>4, <3>5, <1>8
    <3>8. /\ sc_queues'[condArg[u]] = sc_queues[condArg[u]]
          /\ sq_blocked'[sqArg[u]] = sq_blocked[sqArg[u]]
          /\ sq_freeq'[sqArg[u]] = sq_freeq[sqArg[u]]
      BY <3>2, <3>3, <3>5, <3>6, <1>9, <1>10, <1>11
    <3> QED
      BY <2>0, <3>1, <3>2, <3>4, <3>7, <3>8 DEF DropState
  <2>2. CASE u = t
    <3>1. \E v \in Threads : /\ sleepqueue'[v] = sq
                             /\ pc'[v] \in Asleep
                             /\ condArg'[v] = c
      <4>1. CASE first
        <5>1. sleepqueue'[td] = sq
          BY <4>1, <1>1, <1>4, <1>7, <1>10
        <5> QED
          BY <5>1, <1>7, <1>8, <1>11
      <4>2. CASE ~first
        <5>1. PICK v \in Threads : sleepqueue[v] = sq /\ pc[v] \in Asleep
                                   /\ condArg[v] = c
          BY <4>2, <1>2, <1>3 DEF DropState, Dropping
        <5>2. v # td
          BY <5>1, <1>8
        <5> QED
          BY <5>1, <5>2, <2>0
      <4> QED
        BY <4>1, <4>2
    <3> QED
      BY <2>2, <3>1, <1>10, <1>11 DEF DropState
  <2> QED
    BY <2>1, <2>2
<1>21. ASSUME NEW u \in Threads PROVE IsBlocked(u)'
  <2> SUFFICES ASSUME wchan'[u] # None PROVE IsBlocked(u)'
    BY DEF IsBlocked
  <2>1. u # td /\ wchan'[u] = wchan[u] /\ wchan[u] \in Conds
    BY <1>1, <1>4, <1>7
  <2>2. PICK q \in Threads : Serves(q, wchan[u]) /\ u \in Range(sq_blocked[q])
    BY <2>1, <1>2 DEF IsBlocked
  <2>3. u \in Range(sq_blocked'[q])
    BY <2>1, <2>2, <1>7, <1>9
  <2> QED
    BY <2>1, <2>2, <2>3, <1>13 DEF IsBlocked
<1>22. ASSUME NEW d \in Conds PROVE LinkState(d)'
  <2> SUFFICES ASSUME sc_queues'[d] # None PROVE LinkState(d)'
    BY DEF LinkState
  <2>1. d # c /\ sc_queues'[d] = sc_queues[d] /\ LinkState(d)
    BY <1>2, <1>11
  <2>2. sc_queues[d] # sq
    BY <2>1, <1>5, ServesOne DEF Serves
  <2>3. sc_queues[d] \in Threads \ {sq}
    BY <2>1, <2>2, <1>1
  <2>4. /\ sq_blocked'[sc_queues[d]] = sq_blocked[sc_queues[d]]
        /\ sq_freeq'[sc_queues[d]] = sq_freeq[sc_queues[d]]
    BY <2>3, <1>9, <1>10
  <2> QED
    BY <2>1, <2>4, <1>4 DEF LinkState
<1>23. ASSUME NEW q \in Threads PROVE BlockedState(q)'
  <2>1. OnceEach(sq_blocked'[q])
    BY <1>2, <1>7, <1>9 DEF BlockedState
  <2>2. ASSUME NEW u \in Range(sq_blocked'[q])
        PROVE  wchan'[u] \in Conds /\ Serves(q, wchan[u])'
    <3>1. u # td /\ u \in Range(sq_blocked[q])
      BY <2>2, <1>7, <1>8, <1>9
    <3>2. wchan[u] \in Conds /\ Serves(q, wchan[u]) /\ u \in Threads
      BY <3>1, <1>2, ListTypes DEF BlockedState
    <3>3. wchan'[u] = wchan[u]
      BY <3>1, <3>2, <1>1, <1>4
    <3> QED
      BY <3>2, <3>3, <1>13
  <2>3. ASSUME \A d \in Conds : ~Serves(q, d)' PROVE sq_freeq'[q] = <<>>
    <3>1. (\A d \in Conds : ~Serves(q, d)) /\ q # sq
      BY <2>3, <1>5, <1>13
    <3> QED
      BY <3>1, <1>2, <1>10 DEF BlockedState
  <2> QED
    BY <2>1, <2>2, <2>3 DEF BlockedState
<1>24. ASSUME NEW q \in Threads
       PROVE  /\ \A u \in Threads : Home(q, u)' <=> \/ Home(q, u)
                                                    \/ u = td /\ q = h
              /\ \A d \in Conds : Linked(q, d)' <=> Linked(q, d) /\ d # c
              /\ \A r \in Threads : Lent(q, r)' <=>
                    Lent(q, r) /\ ~(r = sq /\ q = h)
  <2>1. \A u \in Threads : Home(q, u)' <=> Home(q, u) \/ (u = td /\ q = h)
    BY <1>1, <1>4, <1>7, <1>8 DEF Home
  <2>2. \A d \in Conds : Linked(q, d)' <=> Linked(q, d) /\ d # c
    BY <1>11 DEF Linked
  <2>3. \A r \in Threads : Lent(q, r)' <=> Lent(q, r) /\ ~(r = sq /\ q = h)
    BY <1>10 DEF Lent
  <2> QED
    BY <2>1, <2>2, <2>3
<1>25. ASSUME NEW q \in Threads PROVE OnePlace(q)' /\ SomePlace(q)'
  <2>1. OnePlace(q) /\ SomePlace(q)
    BY <1>2
  <2>2. OnceEach(sq_freeq'[q])
    BY <1>10, <2>1 DEF OnePlace
  <2>3. CASE q # h
    <3>1. ~Linked(q, c)
      <4>1. Linked(q, c) => q = sq
        BY <1>5, ServesOne DEF Serves, Linked
      <4>2. CASE first
        BY <4>1, <4>2, <2>3, <1>10
      <4>3. CASE ~first
        BY <4>3, <1>2, <1>3 DEF Linked, DropState, Dropping
      <4> QED
        BY <4>2, <4>3
    <3> QED
      BY <1>24, <2>1, <2>2, <2>3, <3>1 DEF OnePlace, SomePlace
  <2>4. CASE q = h
    <3>1. \A d \in Conds : Linked(q, d) => d = c
      BY <2>1, <2>4, <1>10 DEF OnePlace
    <3>2. \A r \in Threads : Lent(q, r) => r = sq
      BY <2>1, <2>4, <1>10 DEF OnePlace
    <3>3. /\ \A u \in Threads : Home(q, u)' <=> u = td
          /\ \A d \in Conds : ~Linked(q, d)'
          /\ \A r \in Threads : ~Lent(q, r)'
      BY <3>1, <3>2, <1>10, <1>24, <2>4
    <3> QED
      BY <1>7, <2>2, <3>3 DEF OnePlace, SomePlace
  <2> QED
    BY <2>3, <2>4
<1> QED
  BY <1>18, <1>19, <1>20, <1>21, <1>22, <1>23, <1>25 DEF QueueInv

\* The end of Broadcast keeps the queues in order: the queue it emptied serves
\* nobody and has nothing lent to it.
LEMMA QueueDone ==
    ASSUME QueueInv, NEW t \in Threads, BroadcastUnlock(t)
    PROVE  QueueInv'
<1> DEFINE c == condArg[t]
           sq == sqArg[t]
<1> USE ThreadsAssumption, SleepQueueAssumption
<1>1. /\ pc \in [Threads -> PCs] /\ sc_queues \in [Conds -> Threads \cup {None}]
      /\ sq_blocked \in [Threads -> Seq(Threads)]
      /\ sq_freeq \in [Threads -> Seq(Threads)]
      /\ wchan \in [Threads -> Conds \cup {None}]
      /\ condArg \in [Threads -> Conds \cup {None}]
      /\ sqArg \in [Threads -> Threads \cup {None}]
      /\ sc_lock \in [Chains -> Threads \cup {None}]
      /\ has_user_waiters \in [Conds -> BOOLEAN]
  BY DEF QueueInv, QueueTypes, SleepQueueTypeOK
<1>2. /\ \A u \in Threads : ThreadState(u) /\ DropState(u) /\ IsBlocked(u)
      /\ \A d \in Conds : LinkState(d)
      /\ \A q \in Threads : BlockedState(q) /\ OnePlace(q) /\ SomePlace(q)
  BY DEF QueueInv
<1>3. /\ pc[t] = "drop" /\ sq_blocked[sq] = <<>>
      /\ sc_lock' = [sc_lock EXCEPT ![SC_HASH[c]] = None]
      /\ has_user_waiters' = [has_user_waiters EXCEPT ![c] = FALSE]
      /\ condArg' = [condArg EXCEPT ![t] = None]
      /\ sqArg' = [sqArg EXCEPT ![t] = None]
      /\ \E l \in {"run", "release"} : pc' = [pc EXCEPT ![t] = l]
      /\ sc_queues' = sc_queues /\ sq_blocked' = sq_blocked
      /\ sq_freeq' = sq_freeq /\ sleepqueue' = sleepqueue /\ wchan' = wchan
  BY DEF BroadcastUnlock, SleepqUnlock, GoTo, queueVars
<1>4. /\ c \in Conds /\ sq \in Threads /\ sc_lock[SC_HASH[c]] = t
      /\ sc_queues[c] = None /\ wchan[t] = None
      /\ Len(sq_freeq[sq]) = Len(sq_blocked[sq])
  BY <1>2, <1>3 DEF ThreadState, DropState, Chained, Queueing, Asleep
<1>5. Dropping(t, sq, c) /\ Serves(sq, c)
  BY <1>3 DEF Dropping, Serves
<1>6. sq_freeq[sq] = <<>> /\ Range(sq_blocked[sq]) = {}
  <2>1. Len(sq_freeq[sq]) = 0 /\ sq_freeq[sq] \in Seq(Threads)
    BY <1>1, <1>3, <1>4, EmptyRange
  <2> QED
    BY <2>1, <1>3, EmptySeq, EmptyRange
<1>7. /\ pc' \in [Threads -> PCs] /\ pc'[t] \in {"run", "release"}
      /\ \A u \in Threads \ {t} : pc'[u] = pc[u] /\ condArg'[u] = condArg[u]
                                  /\ sqArg'[u] = sqArg[u]
  BY <1>1, <1>3 DEF PCs
\* The other threads that hold a chain lock hold another one.
<1>8. \A u \in Threads \ {t} : pc[u] \in Chained =>
         /\ condArg[u] \in Conds /\ condArg[u] # c
         /\ sc_lock'[SC_HASH[condArg[u]]] = u
  <2>1. \A u \in Threads \ {t} : pc[u] \in Chained =>
           condArg[u] \in Conds /\ sc_lock[SC_HASH[condArg[u]]] = u
    BY <1>2 DEF ThreadState
  <2> QED
    BY <2>1, <1>1, <1>3, <1>4
<1>9. ASSUME NEW q \in Threads, NEW d \in Conds
      PROVE  Serves(q, d)' <=> Serves(q, d) /\ d # c
  <2>1. \A u \in Threads : Dropping(u, q, d)' <=> Dropping(u, q, d) /\ u # t
    BY <1>3, <1>7 DEF Dropping
  <2>2. CASE d = c
    <3>1. \A u \in Threads : Dropping(u, q, c) => u = t
      BY <1>8 DEF Dropping, Chained
    <3> QED
      BY <2>1, <2>2, <3>1, <1>3, <1>4 DEF Serves
  <2>3. CASE d # c
    <3>1. ~Dropping(t, q, d)
      BY <2>3 DEF Dropping
    <3> QED
      BY <2>1, <2>3, <3>1, <1>3 DEF Serves
  <2> QED
    BY <2>2, <2>3
<1> HIDE DEF c, sq
<1>10. QueueTypes'
  <2>1. /\ sc_lock' \in [Chains -> Threads \cup {None}]
        /\ condArg' \in [Threads -> Conds \cup {None}]
        /\ sqArg' \in [Threads -> Threads \cup {None}]
        /\ has_user_waiters' \in [Conds -> BOOLEAN]
    BY <1>1, <1>3
  <2> QED
    BY <2>1, <1>3, <1>7 DEF QueueInv, QueueTypes, SleepQueueTypeOK
<1>11. ASSUME NEW u \in Threads PROVE ThreadState(u)'
  <2>1. ThreadState(u)
    BY <1>2
  <2>2. CASE u = t
    BY <2>1, <2>2, <1>3, <1>4, <1>7 DEF ThreadState, Chained, Asleep, Queueing
  <2>3. CASE u # t
    <3>1. /\ pc'[u] = pc[u] /\ condArg'[u] = condArg[u]
          /\ wchan'[u] = wchan[u] /\ sleepqueue'[u] = sleepqueue[u]
      BY <2>3, <1>3, <1>7
    <3>2. pc[u] \in Chained => sc_lock'[SC_HASH[condArg[u]]] = u
      BY <2>3, <1>8
    <3> QED
      BY <2>1, <3>1, <3>2 DEF ThreadState
  <2> QED
    BY <2>2, <2>3
<1>12. ASSUME NEW u \in Threads PROVE DropState(u)'
  <2>1. DropState(u)
    BY <1>2
  <2>2. pc[t] \notin Asleep
    BY <1>3 DEF Asleep
  <2> QED
    BY <2>1, <2>2, <1>3, <1>7 DEF DropState
<1>13. ASSUME NEW u \in Threads PROVE IsBlocked(u)'
  <2> SUFFICES ASSUME wchan[u] # None PROVE IsBlocked(u)'
    BY <1>3 DEF IsBlocked
  <2>1. wchan[u] \in Conds
    BY <1>1
  <2>2. PICK q \in Threads : Serves(q, wchan[u]) /\ u \in Range(sq_blocked[q])
    BY <1>2 DEF IsBlocked
  <2>3. wchan[u] # c
    BY <2>2, <1>4, <1>5, <1>6, ServesOne
  <2> QED
    BY <2>1, <2>2, <2>3, <1>3, <1>9 DEF IsBlocked
<1>14. ASSUME NEW d \in Conds PROVE LinkState(d)'
  BY <1>1, <1>2, <1>3, <1>4 DEF LinkState
<1>15. ASSUME NEW q \in Threads PROVE BlockedState(q)'
  <2>1. BlockedState(q)
    BY <1>2
  <2>2. CASE q = sq
    BY <2>1, <2>2, <1>3, <1>6 DEF BlockedState
  <2>3. CASE q # sq
    <3>1. \A d \in Conds : Serves(q, d)' <=> Serves(q, d)
      BY <2>3, <1>4, <1>5, <1>9, ServesOne
    <3> QED
      BY <2>1, <3>1, <1>3 DEF BlockedState
  <2> QED
    BY <2>2, <2>3
<1>16. ASSUME NEW q \in Threads PROVE OnePlace(q)' /\ SomePlace(q)'
  <2>1. OnePlace(q) /\ SomePlace(q)
    BY <1>2
  <2> QED
    BY <2>1, <1>3 DEF OnePlace, SomePlace, Home, Linked, Lent
<1> QED
  BY <1>10, <1>11, <1>12, <1>13, <1>14, <1>15, <1>16 DEF QueueInv

\* A thread that is queued finds its channel's queue once nobody has the chain
\* lock.
LEMMA LinkedIfQueued ==
    ASSUME QueueInv, NEW t \in Threads, NEW c \in Conds, wchan[t] = c,
           ChainFree(c)
    PROVE  /\ sc_queues[c] \in Threads /\ t \in Range(sq_blocked[sc_queues[c]])
           /\ sc_queues[c] # None
<1> USE ThreadsAssumption, SleepQueueAssumption
<1>1. PICK q \in Threads : Serves(q, c) /\ t \in Range(sq_blocked[q])
  BY DEF QueueInv, IsBlocked
<1>2. \A u \in Threads : ~Dropping(u, q, c)
  BY DEF QueueInv, ThreadState, Chained, ChainFree, Dropping
<1> QED
  BY <1>1, <1>2 DEF Serves

\* Every step keeps the sleep queues in order.
LEMMA QueueNext == QueueInv /\ [Next]_vars => QueueInv'
<1> SUFFICES ASSUME QueueInv, [Next]_vars PROVE QueueInv'
  OBVIOUS
<1> USE ThreadsAssumption, SleepQueueAssumption
<1>0. /\ QueueTypes
      /\ \A t \in Threads : ThreadState(t)
  BY DEF QueueInv
<1> DEFINE
      Frame(t) ==
        /\ UNCHANGED <<queueVars, sqArg>>
        /\ QueueTypes'
        /\ \A u \in Threads \ {t} : pc'[u] = pc[u] /\ condArg'[u] = condArg[u]
        /\ \A u \in Threads \ {t} : pc[u] \in Chained =>
              sc_lock'[SC_HASH[condArg[u]]] = u
        /\ pc[t] # "drop" /\ pc'[t] # "drop"
        /\ ThreadState(t)'
        /\ \/ pc[t] \notin Asleep
           \/ pc'[t] \in Asleep /\ condArg'[t] = condArg[t]
           \/ ChainFree(condArg[t])
<1>100. ASSUME NEW t \in Threads, Frame(t) PROVE QueueInv'
  BY <1>100, QueueFrame
<1> USE DEF GoTo, mutexVars, sleepqVars, queueVars, frameVars, wakeVars,
            cancelVars, condVars, historyVars
<1> DEFINE Outside == {"run", "lock_host", "lock_owner", "unlock_host", "wake_all",
                       "release", "dead"}
           Quiet(t) ==
             /\ sc_lock' = sc_lock /\ sqArg' = sqArg
             /\ sc_queues' = sc_queues /\ sq_blocked' = sq_blocked
             /\ sq_freeq' = sq_freeq /\ sleepqueue' = sleepqueue
             /\ wchan' = wchan /\ has_user_waiters' = has_user_waiters
             /\ pc[t] \in Outside
             /\ \E l \in Outside : pc' = [pc EXCEPT ![t] = l]
             /\ \E x \in Conds \cup {None} : condArg' = [condArg EXCEPT ![t] = x]
<1>200. ASSUME NEW t \in Threads, Quiet(t) PROVE QueueInv'
  <2>1. Frame(t)
    BY <1>0, <1>200 DEF QueueTypes, SleepQueueTypeOK, PCs, ThreadState,
       Chained, Asleep, Queueing
  <2> QED
    BY <2>1, <1>100
<1> HIDE DEF Outside, Quiet
<1>201. \A t \in Threads : condArg' = condArg =>
           \E x \in Conds \cup {None} : condArg' = [condArg EXCEPT ![t] = x]
  <2> SUFFICES ASSUME NEW t \in Threads
               PROVE  condArg = [condArg EXCEPT ![t] = condArg[t]]
                      /\ condArg[t] \in Conds \cup {None}
    OBVIOUS
  <2> QED
    BY <1>0 DEF QueueTypes
<1>1. ASSUME NEW t \in Threads, NEW m \in Mutexes, LockEnter(t, m) PROVE QueueInv'
  <2>1. Frame(t)
    BY <1>0, <1>1 DEF LockEnter, Calling, QueueTypes, SleepQueueTypeOK, PCs, ThreadState,
       Chained, Asleep, Queueing
  <2> QED
    BY <2>1, <1>100
<1>2. ASSUME NEW t \in Threads, NEW m \in Mutexes, LockSelf(t, m) PROVE QueueInv'
  <2>1. Frame(t)
    BY <1>0, <1>2 DEF LockSelf, Calling, QueueTypes, SleepQueueTypeOK, PCs, ThreadState,
       Chained, Asleep, Queueing
  <2> QED
    BY <2>1, <1>100
<1>3. ASSUME NEW t \in Threads, LockHost(t) PROVE QueueInv'
  BY <1>3, <1>200, <1>201 DEF LockHost, Quiet, Outside
<1>4. ASSUME NEW t \in Threads, LockTimeout(t) PROVE QueueInv'
  <2>1. Frame(t)
    BY <1>0, <1>4 DEF LockTimeout, QueueTypes, SleepQueueTypeOK, PCs, ThreadState,
       Chained, Asleep, Queueing
  <2> QED
    BY <2>1, <1>100
<1>5. ASSUME NEW t \in Threads, LockOwner(t) PROVE QueueInv'
  BY <1>5, <1>200, <1>201 DEF LockOwner, Quiet, Outside
<1>6. ASSUME NEW t \in Threads, NEW m \in Mutexes, UnlockLevel(t, m) PROVE QueueInv'
  <2>1. Frame(t)
    BY <1>0, <1>6 DEF UnlockLevel, QueueTypes, SleepQueueTypeOK, PCs, ThreadState,
       Chained, Asleep, Queueing
  <2> QED
    BY <2>1, <1>100
<1>7. ASSUME NEW t \in Threads, NEW m \in Mutexes, UnlockOwner(t, m) PROVE QueueInv'
  BY <1>7, <1>200, <1>201 DEF UnlockOwner, Quiet, Outside
<1>8. ASSUME NEW t \in Threads, UnlockHost(t) PROVE QueueInv'
  BY <1>8, <1>200, <1>201 DEF UnlockHost, Quiet, Outside
<1>9. ASSUME NEW t \in Threads, WakeAll(t) PROVE QueueInv'
  BY <1>9, <1>200, <1>201 DEF WakeAll, PostDeferred, Quiet, Outside
<1>10. ASSUME NEW t \in Threads, NEW c \in Conds, NEW m \in Mutexes, WaitEnter(t, c, m) PROVE QueueInv'
  <2>1. Frame(t)
    BY <1>0, <1>10 DEF WaitEnter, Calling, QueueTypes, SleepQueueTypeOK, PCs, ThreadState,
       Chained, Asleep, Queueing
  <2> QED
    BY <2>1, <1>100
<1>11. ASSUME NEW t \in Threads, WaitLock(t) PROVE QueueInv'
  <2>1. /\ pc[t] = "wait_lock" /\ pc' = [pc EXCEPT ![t] = "wait_unlock"]
        /\ ChainFree(condArg[t])
        /\ sc_lock' = [sc_lock EXCEPT ![SC_HASH[condArg[t]]] = t]
        /\ has_user_waiters' = [has_user_waiters EXCEPT ![condArg[t]] = TRUE]
        /\ condArg' = condArg /\ sqArg' = sqArg
        /\ UNCHANGED queueVars
    BY <1>11 DEF WaitLock, SleepqLock
  <2>2. ThreadState(t) /\ condArg[t] \in Conds
    BY <1>0, <2>1 DEF ThreadState, Asleep
  <2>3. \A u \in Threads \ {t} : pc[u] \in Chained =>
            sc_lock'[SC_HASH[condArg[u]]] = u
    BY <1>0, <2>1, <2>2 DEF ThreadState, ChainFree, QueueTypes, SleepQueueTypeOK
  <2>4. QueueTypes'
    BY <1>0, <2>1, <2>2 DEF QueueTypes, SleepQueueTypeOK, PCs
  <2>5. ThreadState(t)'
    BY <1>0, <2>1, <2>2 DEF ThreadState, Chained, Asleep, Queueing,
       QueueTypes, SleepQueueTypeOK
  <2>6. Frame(t)
    BY <1>0, <2>1, <2>3, <2>4, <2>5 DEF QueueTypes, SleepQueueTypeOK
  <2> QED
    BY <2>6, <1>100
<1>12. ASSUME NEW t \in Threads, WaitEnqueue(t) PROVE QueueInv'
  BY <1>12, QueueAdd
<1>13. ASSUME NEW t \in Threads, WaitClear(t) PROVE QueueInv'
  <2>1. Frame(t)
    BY <1>0, <1>13 DEF WaitClear, QueueTypes, SleepQueueTypeOK, PCs, ThreadState,
       Chained, Asleep, Queueing
  <2> QED
    BY <2>1, <1>100
<1>14. ASSUME NEW t \in Threads, WaitArm(t) PROVE QueueInv'
  <2>1. Frame(t)
    BY <1>0, <1>14 DEF WaitArm, SleepqUnlock, QueueTypes, SleepQueueTypeOK, PCs, ThreadState,
       Chained, Asleep, Queueing
  <2> QED
    BY <2>1, <1>100
<1>15. ASSUME NEW t \in Threads, WaitDeadline(t) PROVE QueueInv'
  <2>1. Frame(t)
    BY <1>0, <1>15 DEF WaitDeadline, QueueTypes, SleepQueueTypeOK, PCs, ThreadState,
       Chained, Asleep, Queueing
  <2> QED
    BY <2>1, <1>100
<1>16. ASSUME NEW t \in Threads, SleepFlush(t) PROVE QueueInv'
  <2>1. /\ pc[t] = "flush" /\ UNCHANGED <<queueVars, sc_lock, condArg, sqArg>>
        /\ has_user_waiters' = has_user_waiters
        /\ pc' = pc \/ pc' = [pc EXCEPT ![t] = "sleeping"]
    BY <1>16 DEF SleepFlush, PostDeferred
  <2>2. /\ pc' \in [Threads -> PCs] /\ pc'[t] \in {"flush", "sleeping"}
        /\ \A u \in Threads \ {t} : pc'[u] = pc[u]
    BY <1>0, <2>1 DEF QueueTypes, PCs
  <2>3. ThreadState(t)'
    BY <1>0, <2>1, <2>2 DEF ThreadState, Chained, Asleep, Queueing
  <2>4. QueueTypes'
    BY <1>0, <2>1, <2>2 DEF QueueTypes, SleepQueueTypeOK
  <2>5. Frame(t)
    BY <1>0, <2>1, <2>2, <2>3, <2>4 DEF Asleep, ThreadState
  <2> QED
    BY <2>5, <1>100
<1>17. ASSUME NEW t \in Threads, SleepAcquire(t) PROVE QueueInv'
  <2>1. Frame(t)
    BY <1>0, <1>17 DEF SleepAcquire, QueueTypes, SleepQueueTypeOK, PCs, ThreadState,
       Chained, Asleep, Queueing
  <2> QED
    BY <2>1, <1>100
<1>18. ASSUME NEW t \in Threads, SleepTimeout(t) PROVE QueueInv'
  <2>1. Frame(t)
    BY <1>0, <1>18 DEF SleepTimeout, QueueTypes, SleepQueueTypeOK, PCs, ThreadState,
       Chained, Asleep, Queueing
  <2> QED
    BY <2>1, <1>100
<1>19. ASSUME NEW t \in Threads, WaitSignalled(t) PROVE QueueInv'
  <2>1. Frame(t)
    BY <1>0, <1>19 DEF WaitSignalled, ChainFree, QueueTypes, SleepQueueTypeOK, PCs, ThreadState,
       Chained, Asleep, Queueing
  <2> QED
    BY <2>1, <1>100
<1>20. ASSUME NEW t \in Threads, WaitCancelled(t) PROVE QueueInv'
  <2>0. ThreadState(t) /\ pc[t] = "wait_wake"
    BY <1>0, <1>20 DEF WaitCancelled
  <2>1. condArg[t] \in Conds /\ wchan[t] = condArg[t]
    BY <1>20, <2>0 DEF WaitCancelled, ThreadState, Asleep
  <2>2. /\ ChainFree(condArg[t]) /\ KeepUserWaiters(condArg[t])
        /\ GoTo(t, "lock_host") /\ UNCHANGED <<sc_lock, condArg, sqArg>>
    BY <1>20 DEF WaitCancelled, LeaveQueue
  <2>3. PICK i \in DOMAIN sq_blocked[sc_queues[condArg[t]]] :
             /\ sq_blocked[sc_queues[condArg[t]]][i] = t
             /\ SleepqRemove(condArg[t], i)
    BY <1>20 DEF WaitCancelled, LeaveQueue
  <2>4. sc_queues[condArg[t]] # None
    BY <2>0, <2>1, <2>2, LinkedIfQueued
  <2>5. Steps(t, t)
    BY <2>0, <2>2 DEF Steps
  <2> QED
    BY <2>1, <2>2, <2>3, <2>4, <2>5, QueueRemove
<1>21. ASSUME NEW t \in Threads, WaitTimedOut(t) PROVE QueueInv'
  <2>0. ThreadState(t) /\ pc[t] = "wait_wake"
    BY <1>0, <1>21 DEF WaitTimedOut
  <2>1. condArg[t] \in Conds /\ wchan[t] = condArg[t]
    BY <1>21, <2>0 DEF WaitTimedOut, ThreadState, Asleep
  <2>2. /\ ChainFree(condArg[t]) /\ KeepUserWaiters(condArg[t])
        /\ GoTo(t, "lock_host") /\ UNCHANGED <<sc_lock, condArg, sqArg>>
    BY <1>21 DEF WaitTimedOut, LeaveQueue
  <2>3. PICK i \in DOMAIN sq_blocked[sc_queues[condArg[t]]] :
             /\ sq_blocked[sc_queues[condArg[t]]][i] = t
             /\ SleepqRemove(condArg[t], i)
    BY <1>21 DEF WaitTimedOut, LeaveQueue
  <2>4. sc_queues[condArg[t]] # None
    BY <2>0, <2>1, <2>2, LinkedIfQueued
  <2>5. Steps(t, t)
    BY <2>0, <2>2 DEF Steps
  <2> QED
    BY <2>1, <2>2, <2>3, <2>4, <2>5, QueueRemove
<1>22. ASSUME NEW t \in Threads, WaitSpurious(t) PROVE QueueInv'
  <2>1. /\ pc[t] = "wait_wake" /\ pc' = [pc EXCEPT ![t] = "wait_clear"]
        /\ ChainFree(condArg[t])
        /\ sc_lock' = [sc_lock EXCEPT ![SC_HASH[condArg[t]]] = t]
        /\ has_user_waiters' = has_user_waiters /\ wchan[t] # None
        /\ condArg' = condArg /\ sqArg' = sqArg
        /\ UNCHANGED queueVars
    BY <1>22 DEF WaitSpurious, SleepqLock
  <2>2. ThreadState(t) /\ condArg[t] \in Conds
    BY <1>0, <2>1 DEF ThreadState, Asleep
  <2>3. \A u \in Threads \ {t} : pc[u] \in Chained =>
            sc_lock'[SC_HASH[condArg[u]]] = u
    BY <1>0, <2>1, <2>2 DEF ThreadState, ChainFree, QueueTypes, SleepQueueTypeOK
  <2>4. QueueTypes'
    BY <1>0, <2>1, <2>2 DEF QueueTypes, SleepQueueTypeOK, PCs
  <2>5. ThreadState(t)'
    BY <1>0, <2>1, <2>2 DEF ThreadState, Chained, Asleep, Queueing,
       QueueTypes, SleepQueueTypeOK
  <2>6. Frame(t)
    BY <1>0, <2>1, <2>3, <2>4, <2>5 DEF QueueTypes, SleepQueueTypeOK
  <2> QED
    BY <2>6, <1>100
<1>23. ASSUME NEW t \in Threads, NEW c \in Conds, Signal(t, c) PROVE QueueInv'
  <2>1. PICK i \in DOMAIN sq_blocked[sc_queues[c]] :
             /\ SleepqRemove(c, i)
             /\ GoTo(t, IF Deferrable(t, sq_blocked[sc_queues[c]][i])
                        THEN "run" ELSE "release")
    BY <1>23 DEF Signal
  <2>2. /\ ChainFree(c) /\ KeepUserWaiters(c) /\ sc_queues[c] # None
        /\ pc[t] = "run" /\ UNCHANGED <<sc_lock, condArg, sqArg>>
    BY <1>23 DEF Signal
  <2>3. Steps(t, sq_blocked[sc_queues[c]][i])
    BY <2>1, <2>2 DEF Steps
  <2> QED
    BY <2>1, <2>2, <2>3, QueueRemove
<1>24. ASSUME NEW t \in Threads, NEW c \in Conds, BroadcastEnter(t, c) PROVE QueueInv'
  <2>1. sc_queues[c] \in Threads /\ LinkState(c)
    BY <1>0, <1>24 DEF BroadcastEnter, QueueInv, QueueTypes, SleepQueueTypeOK
  <2>2. sq_blocked[sc_queues[c]] # <<>>
    BY <2>1, ListTypes, EmptyRange DEF LinkState
  <2>3. DropOne(t, c, sc_queues[c], Head(sq_blocked[sc_queues[c]]), sc_queues[c])
    BY <1>24 DEF BroadcastEnter, SleepqDropFirst, DropOne, Calling
  <2>4. UNCHANGED has_user_waiters
    BY <1>24 DEF BroadcastEnter
  <2> QED
    BY <2>1, <2>2, <2>3, <2>4, QueueDrop
<1>25. ASSUME NEW t \in Threads, BroadcastNext(t) PROVE QueueInv'
  <2>1. /\ condArg[t] \in Conds /\ sqArg[t] \in Threads
        /\ Dropping(t, sqArg[t], condArg[t])
    BY <1>25 DEF BroadcastNext, QueueInv, ThreadState, DropState, Chained, Dropping
  <2>2. sq_blocked[sqArg[t]] # <<>> /\ UNCHANGED has_user_waiters
    BY <1>25 DEF BroadcastNext
  <2>3. DropOne(t, condArg[t], sqArg[t], Head(sq_blocked[sqArg[t]]),
                Head(sq_freeq[sqArg[t]]))
    BY <1>25, <2>1 DEF BroadcastNext, SleepqDropNext, DropOne
  <2> QED
    BY <2>1, <2>2, <2>3, QueueDrop
<1>26. ASSUME NEW t \in Threads, BroadcastUnlock(t) PROVE QueueInv'
  BY <1>26, QueueDone
<1>27. ASSUME NEW t \in Threads, Release(t) PROVE QueueInv'
  BY <1>27, <1>200, <1>201 DEF Release, Quiet, Outside
<1>28. ASSUME NEW t \in Threads, NEW td \in Threads, Cancel(t, td) PROVE QueueInv'
  <2>1. Frame(t)
    BY <1>0, <1>28 DEF Cancel, Calling, QueueTypes, SleepQueueTypeOK, PCs, ThreadState,
       Chained, Asleep, Queueing
  <2> QED
    BY <2>1, <1>100
<1>29. ASSUME NEW t \in Threads, SetCancelState(t) PROVE QueueInv'
  <2>1. Frame(t)
    BY <1>0, <1>29 DEF SetCancelState, Calling, QueueTypes, SleepQueueTypeOK, PCs, ThreadState,
       Chained, Asleep, Queueing
  <2> QED
    BY <2>1, <1>100
<1>30. ASSUME NEW t \in Threads, TestCancel(t) PROVE QueueInv'
  <2>1. Frame(t)
    BY <1>0, <1>30 DEF TestCancel, QueueTypes, SleepQueueTypeOK, PCs, ThreadState,
       Chained, Asleep, Queueing
  <2> QED
    BY <2>1, <1>100
<1>31. ASSUME NEW t \in Threads, ExitThread(t) PROVE QueueInv'
  <2>1. Frame(t)
    BY <1>0, <1>31 DEF ExitThread, QueueTypes, SleepQueueTypeOK, PCs, ThreadState,
       Chained, Asleep, Queueing
  <2> QED
    BY <2>1, <1>100
<1>32. CASE UNCHANGED vars
  BY <1>0, <1>32 DEF vars, QueueInv, QueueTypes, SleepQueueTypeOK, ThreadState, DropState,
     IsBlocked, LinkState, BlockedState, OnePlace, SomePlace, Serves, Dropping,
     Home, Linked, Lent
<1> QED
  BY <1>1, <1>2, <1>3, <1>4, <1>5, <1>6, <1>7, <1>8, <1>9, <1>10, <1>11, <1>12, <1>13,
     <1>14, <1>15, <1>16, <1>17, <1>18, <1>19, <1>20, <1>21, <1>22, <1>23, <1>24, <1>25,
     <1>26, <1>27, <1>28, <1>29, <1>30, <1>31, <1>32
  DEF Next, Step, Expire, Call, Unlock

\* The queue invariant is an invariant of the specification.
LEMMA QueueInvariant == Spec => []QueueInv
  BY QueueInit, QueueNext, PTL DEF Spec

\* An element of a list that names it once has one post in it.
LEMMA PostsOnce ==
    ASSUME NEW S, NEW s \in Seq(S), NEW x \in Range(s), OnceEach(s)
    PROVE  Posts(s, x) = 1
<1>1. PICK i \in DOMAIN s : s[i] = x
  BY DEF Range
<1>2. {j \in DOMAIN s : s[j] = x} = {i}
  BY <1>1 DEF OnceEach
<1> QED
  BY <1>2, FS_Singleton DEF Posts

\* The invariant puts every object in exactly one place.
LEMMA OneOfThePlaces ==
    ASSUME QueueInv, NEW q \in Threads
    PROVE  Cardinality(PlacesOf(q)) = 1
<1> USE ThreadsAssumption, SleepQueueAssumption
<1>1. OnePlace(q) /\ SomePlace(q)
  BY DEF QueueInv
<1> SUFFICES \E x : PlacesOf(q) = {x}
  BY FS_Singleton
<1>2. CASE \E t \in Threads : Home(q, t)
  <2>1. PICK t \in Threads : Home(q, t)
    BY <1>2
  <2>2. /\ {u \in Threads : sleepqueue[u] = q} = {t}
        /\ {d \in Conds : sc_queues[d] = q} = {}
        /\ \A r \in Threads : {j \in DOMAIN sq_freeq[r] : sq_freeq[r][j] = q} = {}
    BY <2>1, <1>1 DEF OnePlace, Home, Linked, Lent, Range
  <2>3. PlacesOf(q) = {<<"home", t>>}
    BY <2>2 DEF PlacesOf
  <2> QED
    BY <2>3
<1>3. CASE \E c \in Conds : Linked(q, c)
  <2>1. PICK c \in Conds : Linked(q, c)
    BY <1>3
  <2>2. /\ {u \in Threads : sleepqueue[u] = q} = {}
        /\ {d \in Conds : sc_queues[d] = q} = {c}
        /\ \A r \in Threads : {j \in DOMAIN sq_freeq[r] : sq_freeq[r][j] = q} = {}
    BY <2>1, <1>1 DEF OnePlace, Home, Linked, Lent, Range
  <2>3. PlacesOf(q) = {<<"linked", c>>}
    BY <2>2 DEF PlacesOf
  <2> QED
    BY <2>3
<1>4. CASE \E r \in Threads : Lent(q, r)
  <2>1. PICK r \in Threads : Lent(q, r)
    BY <1>4
  <2>2. PICK i \in DOMAIN sq_freeq[r] : sq_freeq[r][i] = q
    BY <2>1 DEF Lent, Range
  <2>3. OnceEach(sq_freeq[r])
    BY DEF QueueInv, OnePlace
  <2>4. /\ {u \in Threads : sleepqueue[u] = q} = {}
        /\ {d \in Conds : sc_queues[d] = q} = {}
    BY <2>1, <1>1 DEF OnePlace, Home, Linked
  <2>5. {j \in DOMAIN sq_freeq[r] : sq_freeq[r][j] = q} = {i}
    BY <2>2, <2>3 DEF OnceEach
  <2>6. ASSUME NEW p \in Threads, p # r
        PROVE  {j \in DOMAIN sq_freeq[p] : sq_freeq[p][j] = q} = {}
    <3>1. ~Lent(q, p)
      BY <2>1, <2>6, <1>1 DEF OnePlace
    <3> QED
      BY <3>1 DEF Lent, Range
  <2>7. PlacesOf(q) = {<<"lent", r, i>>}
    BY <2>4, <2>5, <2>6 DEF PlacesOf
  <2> QED
    BY <2>7
<1> QED
  BY <1>1, <1>2, <1>3, <1>4 DEF SomePlace

\* The queue invariant says what QueuesSound says.
LEMMA QueuesAreSound == ASSUME QueueInv PROVE QueuesSound
<1> USE ThreadsAssumption, SleepQueueAssumption
<1>1. SleepQueuesConserved
  BY OneOfThePlaces DEF SleepQueuesConserved
<1>2. ASSUME NEW c \in Conds, sc_queues[c] # None
      PROVE  /\ sq_blocked[sc_queues[c]] # <<>>
             /\ Len(sq_freeq[sc_queues[c]]) = Len(sq_blocked[sc_queues[c]]) - 1
  <2>1. sc_queues[c] \in Threads /\ LinkState(c)
    BY <1>2 DEF QueueInv, QueueTypes, SleepQueueTypeOK
  <2> QED
    BY <1>2, <2>1, ListTypes, EmptyRange DEF LinkState
<1>3. ASSUME NEW t \in Threads, pc[t] = "wait_wake", wchan[t] # None,
             ChainFree(condArg[t])
      PROVE  /\ sc_queues[condArg[t]] # None
             /\ Posts(sq_blocked[sc_queues[condArg[t]]], t) = 1
  <2>1. condArg[t] \in Conds /\ wchan[t] = condArg[t]
    BY <1>3 DEF QueueInv, ThreadState, Asleep
  <2>2. /\ sc_queues[condArg[t]] \in Threads
        /\ t \in Range(sq_blocked[sc_queues[condArg[t]]])
    BY <1>3, <2>1, LinkedIfQueued
  <2> QED
    BY <2>2, ListTypes, PostsOnce
<1> QED
  BY <1>1, <1>2, <1>3 DEF QueuesSound, QueueAssertions

\* The sleep queues are sound, for any number of threads, channels and chains
\* and any assignment of channels to chains: no SleepQueue object is lost or
\* duplicated while threads lend it to queues and take another one home, and the
\* assertions of sleepq.cpp and condvar.cpp hold.
THEOREM QueuesSoundHolds == Spec => []QueuesSound
<1>1. QueueInv => QueuesSound
  BY QueuesAreSound
<1> QED
  BY QueueInvariant, <1>1, PTL

-----------------------------------------------------------------------------
(***************************************************************************)
(* Wake-ups and cancellation.                                              *)
(***************************************************************************)

WakeTypes ==
    /\ immediate \in [Threads -> Seq(Threads)]
    /\ defer_waiters \in [Threads -> Seq(Threads)]
    /\ wake_sema \in [Threads -> Nat]
    /\ signalled \in [Threads -> BOOLEAN]
    /\ error \in [Threads -> {"ok", "ETIMEDOUT"}]
    /\ mutex_obj \in [Threads -> Mutexes \cup {None}]

\* Where a thread has posts to make, and what its wait knows of a signal: it
\* was taken off the queue exactly if it was signalled.
WakeState(t) ==
    /\ pc[t] \notin {"drop", "release"} => immediate[t] = <<>>
    /\ pc[t] = "release" => immediate[t] # <<>>
    /\ pc[t] = "wake_all" => defer_waiters[t] # <<>>
    /\ pc[t] \in Queueing => (signalled[t] <=> wchan[t] = None)

\* NoLostWakeup, NoLostCancel and SignalDecidesOutcome for one thread.
WokenState(t) ==
    /\ pc[t] \in {"flush", "sleeping"} /\ (wchan[t] = None \/ ShouldCancel(t)) =>
          WakeOnTheWay(t)
    /\ pc[t] \in {"lock_host", "lock_owner"} /\ outcome[t] # "lock" =>
          (signalled[t] <=> outcome[t] = "wait" /\ error[t] = "ok")

WakeInv == WakeTypes /\ \A t \in Threads : WakeState(t) /\ WokenState(t)

\* A list has as many posts for a thread as it names it; some if it names it.
LEMMA PostsFacts ==
    ASSUME NEW S, NEW s \in Seq(S), NEW x
    PROVE  Posts(s, x) \in Nat /\ (x \in Range(s) => Posts(s, x) > 0)
<1> DEFINE I == {i \in DOMAIN s : s[i] = x}
<1>1. IsFiniteSet(DOMAIN s)
  BY FS_Interval
<1>2. IsFiniteSet(I)
  BY <1>1, FS_Subset
<1>3. Cardinality(I) \in Nat
  BY <1>2, FS_CardinalityType
<1>4. ASSUME x \in Range(s) PROVE I # {}
  BY <1>4 DEF Range
<1> HIDE DEF I
<1>5. I # {} => Cardinality(I) # 0
  BY <1>2, FS_EmptySet
<1>6. Posts(s, x) = Cardinality(I)
  BY DEF Posts, I
<1> QED
  BY <1>3, <1>4, <1>5, <1>6

\* What appending a thread to a list does.
LEMMA ListAppend ==
    ASSUME NEW s \in Seq(Threads), NEW td \in Threads
    PROVE  /\ Append(s, td) \in Seq(Threads) /\ Append(s, td) # <<>>
           /\ td \in Range(Append(s, td))
           /\ Range(s) \subseteq Range(Append(s, td))
<1> DEFINE r == Append(s, td)
<1>1. r = Append(s, td)
  OBVIOUS
<1> HIDE DEF r
<1>2. /\ r \in Seq(Threads) /\ Len(r) = Len(s) + 1
      /\ Range(r) = Range(s) \cup {td}
  BY <1>1, AppendRange
<1>3. r # <<>>
  BY <1>2, EmptyRange
<1> QED
  BY <1>1, <1>2, <1>3

\* What Wake does: td has a post coming, nobody loses one, and the post is the
\* caller's to make.
LEMMA WakeFacts ==
    ASSUME WakeTypes, NEW t \in Threads, NEW td \in Threads, Wake(t, td)
    PROVE  /\ immediate' \in [Threads -> Seq(Threads)]
           /\ defer_waiters' \in [Threads -> Seq(Threads)]
           /\ wake_sema' \in [Threads -> Nat]
           /\ signalled' = [signalled EXCEPT ![td] = TRUE]
           /\ \A u \in Threads : WakeOnTheWay(u) \/ u = td => WakeOnTheWay(u)'
           /\ \A u \in Threads \ {t} : immediate'[u] = immediate[u]
           /\ Deferrable(t, td) => immediate'[t] = immediate[t]
           /\ ~Deferrable(t, td) => immediate'[t] # <<>>
           /\ \A u \in Threads : defer_waiters[u] # <<>> => defer_waiters'[u] # <<>>
<1> USE DEF WakeTypes
<1> DEFINE List(s, full) == IF full THEN <<td>> ELSE Append(s, td)
<1>1. ASSUME NEW s \in Seq(Threads), NEW full \in BOOLEAN
      PROVE  /\ List(s, full) \in Seq(Threads) /\ List(s, full) # <<>>
             /\ td \in Range(List(s, full))
             /\ ~full => Range(s) \subseteq Range(List(s, full))
  <2>1. <<td>> \in Seq(Threads) /\ <<td>> # <<>> /\ td \in Range(<<td>>)
    BY DEF Range
  <2>2. /\ Append(s, td) \in Seq(Threads) /\ Append(s, td) # <<>>
        /\ td \in Range(Append(s, td)) /\ Range(s) \subseteq Range(Append(s, td))
    BY ListAppend
  <2> QED
    BY <2>1, <2>2
<1>2. signalled' = [signalled EXCEPT ![td] = TRUE]
  BY DEF Wake
<1>3. CASE Deferrable(t, td)
  <2> DEFINE full == Len(defer_waiters[t]) >= MaxDeferWaiters
             l == List(defer_waiters[t], full)
  <2>0. defer_waiters[t] \in Seq(Threads) /\ full \in BOOLEAN
    OBVIOUS
  <2>1. /\ immediate' = immediate
        /\ defer_waiters' = [defer_waiters EXCEPT ![t] = l]
        /\ wake_sema' = IF full
                        THEN [x \in Threads |->
                                wake_sema[x] + Posts(defer_waiters[t], x)]
                        ELSE wake_sema
    BY <1>3 DEF Wake, Defer
  <2>2. /\ l \in Seq(Threads) /\ l # <<>> /\ td \in Range(l)
        /\ ~full => Range(defer_waiters[t]) \subseteq Range(l)
    BY <2>0, <1>1
  <2>3. \A x \in Threads : /\ Posts(defer_waiters[t], x) \in Nat
                           /\ x \in Range(defer_waiters[t]) =>
                                 Posts(defer_waiters[t], x) > 0
    BY <2>0, PostsFacts
  <2> HIDE DEF l, full, List
  <2>4. /\ defer_waiters' \in [Threads -> Seq(Threads)]
        /\ defer_waiters'[t] = l
        /\ \A u \in Threads \ {t} : defer_waiters'[u] = defer_waiters[u]
    BY <2>1, <2>2
  <2>5. /\ wake_sema' \in [Threads -> Nat]
        /\ \A u \in Threads : wake_sema'[u] >= wake_sema[u]
        /\ full => \A u \in Range(defer_waiters[t]) :
                      u \in Threads => wake_sema'[u] > 0
    <3>1. CASE full
      BY SMTT(30), <3>1, <2>1, <2>3
    <3>2. CASE ~full
      BY <3>2, <2>1
    <3> QED
      BY <3>1, <3>2
  <2>6. ASSUME NEW u \in Threads, WakeOnTheWay(u) \/ u = td
        PROVE  WakeOnTheWay(u)'
    <3>1. CASE u = td
      BY <3>1, <2>2, <2>4 DEF WakeOnTheWay
    <3>2. CASE wake_sema[u] > 0
      BY <3>2, <2>5 DEF WakeOnTheWay
    <3>3. ASSUME NEW v \in Threads, u \in Range(immediate[v]) PROVE WakeOnTheWay(u)'
      BY <3>3, <2>1 DEF WakeOnTheWay
    <3>4. ASSUME NEW v \in Threads, u \in Range(defer_waiters[v])
          PROVE  WakeOnTheWay(u)'
      BY <3>4, <2>2, <2>4, <2>5 DEF WakeOnTheWay
    <3> QED
      BY <2>6, <3>1, <3>2, <3>3, <3>4 DEF WakeOnTheWay
  <2> QED
    BY <1>2, <1>3, <2>1, <2>2, <2>4, <2>5, <2>6
<1>4. CASE ~Deferrable(t, td)
  <2> DEFINE full == Len(immediate[t]) >= MaxDeferWaiters
             l == List(immediate[t], full)
  <2>0. immediate[t] \in Seq(Threads) /\ full \in BOOLEAN
    OBVIOUS
  <2>1. /\ defer_waiters' = defer_waiters
        /\ immediate' = [immediate EXCEPT ![t] = l]
        /\ wake_sema' = IF full
                        THEN [x \in Threads |->
                                wake_sema[x] + Posts(immediate[t], x)]
                        ELSE wake_sema
    BY <1>4 DEF Wake, PostLater
  <2>2. /\ l \in Seq(Threads) /\ l # <<>> /\ td \in Range(l)
        /\ ~full => Range(immediate[t]) \subseteq Range(l)
    BY <2>0, <1>1
  <2>3. \A x \in Threads : /\ Posts(immediate[t], x) \in Nat
                           /\ x \in Range(immediate[t]) => Posts(immediate[t], x) > 0
    BY <2>0, PostsFacts
  <2> HIDE DEF l, full, List
  <2>4. /\ immediate' \in [Threads -> Seq(Threads)]
        /\ immediate'[t] = l
        /\ \A u \in Threads \ {t} : immediate'[u] = immediate[u]
    BY <2>1, <2>2
  <2>5. /\ wake_sema' \in [Threads -> Nat]
        /\ \A u \in Threads : wake_sema'[u] >= wake_sema[u]
        /\ full => \A u \in Range(immediate[t]) :
                      u \in Threads => wake_sema'[u] > 0
    <3>1. CASE full
      BY SMTT(30), <3>1, <2>1, <2>3
    <3>2. CASE ~full
      BY <3>2, <2>1
    <3> QED
      BY <3>1, <3>2
  <2>6. ASSUME NEW u \in Threads, WakeOnTheWay(u) \/ u = td
        PROVE  WakeOnTheWay(u)'
    <3>1. CASE u = td
      BY <3>1, <2>2, <2>4 DEF WakeOnTheWay
    <3>2. CASE wake_sema[u] > 0
      BY <3>2, <2>5 DEF WakeOnTheWay
    <3>3. ASSUME NEW v \in Threads, u \in Range(defer_waiters[v])
          PROVE  WakeOnTheWay(u)'
      BY <3>3, <2>1 DEF WakeOnTheWay
    <3>4. ASSUME NEW v \in Threads, u \in Range(immediate[v])
          PROVE  WakeOnTheWay(u)'
      BY <3>4, <2>2, <2>4, <2>5 DEF WakeOnTheWay
    <3> QED
      BY <2>6, <3>1, <3>2, <3>3, <3>4 DEF WakeOnTheWay
  <2> QED
    BY <1>2, <1>4, <2>1, <2>2, <2>4, <2>5, <2>6
<1> QED
  BY <1>3, <1>4

\* A post counts a semaphore up.
LEMMA CountUp ==
    ASSUME NEW f \in [Threads -> Nat], NEW h \in Threads
    PROVE  LET g == [f EXCEPT ![h] = f[h] + 1]
           IN  /\ g \in [Threads -> Nat] /\ g[h] > 0
               /\ \A u \in Threads : g[u] >= f[u]
  OBVIOUS

\* WakeAll, Sleep and the end of Signal, Broadcast and cancel make one post: it
\* moves from a list to the semaphore.
LEMMA PostFacts ==
    ASSUME WakeTypes, NEW t \in Threads,
           \/ defer_waiters[t] # <<>> /\ PostDeferred(t)
           \/ /\ immediate[t] # <<>>
              /\ wake_sema' = [wake_sema EXCEPT ![Head(immediate[t])] = @ + 1]
              /\ immediate' = [immediate EXCEPT ![t] = Tail(@)]
              /\ UNCHANGED <<sqArg, defer_waiters>>
    PROVE  /\ immediate' \in [Threads -> Seq(Threads)]
           /\ defer_waiters' \in [Threads -> Seq(Threads)]
           /\ wake_sema' \in [Threads -> Nat]
           /\ \A u \in Threads : WakeOnTheWay(u) => WakeOnTheWay(u)'
           /\ \A u \in Threads \ {t} : /\ immediate'[u] = immediate[u]
                                       /\ defer_waiters'[u] = defer_waiters[u]
<1> USE DEF WakeTypes
<1>1. CASE defer_waiters[t] # <<>> /\ PostDeferred(t)
  <2> DEFINE s == defer_waiters[t]
  <2>1. /\ Head(s) \in Threads /\ Tail(s) \in Seq(Threads)
        /\ Range(s) = Range(Tail(s)) \cup {Head(s)}
    BY <1>1, TailRange
  <2>2. /\ wake_sema' = [wake_sema EXCEPT ![Head(s)] = @ + 1]
        /\ defer_waiters' = [defer_waiters EXCEPT ![t] = Tail(s)]
        /\ immediate' = immediate
    BY <1>1 DEF PostDeferred
  <2>3. /\ defer_waiters' \in [Threads -> Seq(Threads)]
        /\ defer_waiters'[t] = Tail(s)
        /\ \A u \in Threads \ {t} : defer_waiters'[u] = defer_waiters[u]
    BY <2>1, <2>2
  <2>4. /\ wake_sema' \in [Threads -> Nat] /\ wake_sema'[Head(s)] > 0
        /\ \A u \in Threads : wake_sema'[u] >= wake_sema[u]
    <3> DEFINE h == Head(s)
    <3>1. h \in Threads /\ wake_sema' = [wake_sema EXCEPT ![h] = wake_sema[h] + 1]
      BY <2>1, <2>2
    <3> HIDE DEF h
    <3> QED
      BY <3>1, CountUp DEF h
  <2> HIDE DEF s
  <2>5. ASSUME NEW u \in Threads, WakeOnTheWay(u) PROVE WakeOnTheWay(u)'
    <3>1. CASE u = Head(s) \/ wake_sema[u] > 0
      BY <3>1, <2>4 DEF WakeOnTheWay
    <3>2. ASSUME NEW v \in Threads, u \in Range(immediate[v]) PROVE WakeOnTheWay(u)'
      BY <3>2, <2>2 DEF WakeOnTheWay
    <3>3. ASSUME NEW v \in Threads, u \in Range(defer_waiters[v]), u # Head(s)
          PROVE  WakeOnTheWay(u)'
      BY <3>3, <2>1, <2>3 DEF WakeOnTheWay, s
    <3> QED
      BY <2>5, <3>1, <3>2, <3>3 DEF WakeOnTheWay
  <2> QED
    BY <2>2, <2>3, <2>4, <2>5
<1>2. CASE /\ immediate[t] # <<>>
           /\ wake_sema' = [wake_sema EXCEPT ![Head(immediate[t])] = @ + 1]
           /\ immediate' = [immediate EXCEPT ![t] = Tail(@)]
           /\ UNCHANGED <<sqArg, defer_waiters>>
  <2> DEFINE s == immediate[t]
  <2>1. /\ Head(s) \in Threads /\ Tail(s) \in Seq(Threads)
        /\ Range(s) = Range(Tail(s)) \cup {Head(s)}
    BY <1>2, TailRange
  <2>2. /\ wake_sema' = [wake_sema EXCEPT ![Head(s)] = @ + 1]
        /\ immediate' = [immediate EXCEPT ![t] = Tail(s)]
        /\ defer_waiters' = defer_waiters
    BY <1>2
  <2>3. /\ immediate' \in [Threads -> Seq(Threads)]
        /\ immediate'[t] = Tail(s)
        /\ \A u \in Threads \ {t} : immediate'[u] = immediate[u]
    BY <2>1, <2>2
  <2>4. /\ wake_sema' \in [Threads -> Nat] /\ wake_sema'[Head(s)] > 0
        /\ \A u \in Threads : wake_sema'[u] >= wake_sema[u]
    <3> DEFINE h == Head(s)
    <3>1. h \in Threads /\ wake_sema' = [wake_sema EXCEPT ![h] = wake_sema[h] + 1]
      BY <2>1, <2>2
    <3> HIDE DEF h
    <3> QED
      BY <3>1, CountUp DEF h
  <2> HIDE DEF s
  <2>5. ASSUME NEW u \in Threads, WakeOnTheWay(u) PROVE WakeOnTheWay(u)'
    <3>1. CASE u = Head(s) \/ wake_sema[u] > 0
      BY <3>1, <2>4 DEF WakeOnTheWay
    <3>2. ASSUME NEW v \in Threads, u \in Range(defer_waiters[v])
          PROVE  WakeOnTheWay(u)'
      BY <3>2, <2>2 DEF WakeOnTheWay
    <3>3. ASSUME NEW v \in Threads, u \in Range(immediate[v]), u # Head(s)
          PROVE  WakeOnTheWay(u)'
      BY <3>3, <2>1, <2>3 DEF WakeOnTheWay, s
    <3> QED
      BY <2>5, <3>1, <3>2, <3>3 DEF WakeOnTheWay
  <2> QED
    BY <2>2, <2>3, <2>4, <2>5
<1> QED
  BY <1>1, <1>2

\* What a step of t does to another thread u: nothing, or it takes u off a
\* queue and owes it a post, or it cancels u and owes it a post.
WakeStep(t, u) ==
    /\ pc'[u] = pc[u] /\ outcome'[u] = outcome[u] /\ error'[u] = error[u]
    /\ immediate'[u] = immediate[u]
    /\ defer_waiters[u] # <<>> => defer_waiters'[u] # <<>>
    /\ \/ wchan'[u] = wchan[u] /\ signalled'[u] = signalled[u]
       \/ /\ pc[u] \in Asleep /\ wchan'[u] = None /\ signalled'[u]
          /\ WakeOnTheWay(u)'
    /\ WakeOnTheWay(u) => WakeOnTheWay(u)'
    /\ ShouldCancel(u)' => ShouldCancel(u) \/ WakeOnTheWay(u)'

\* Such a step keeps the invariant if it keeps it for t itself.
LEMMA WakeFrame ==
    ASSUME WakeInv, NEW t \in Threads, WakeTypes',
           \A u \in Threads \ {t} : WakeStep(t, u),
           WakeState(t)', WokenState(t)'
    PROVE  WakeInv'
<1>1. ASSUME NEW u \in Threads \ {t} PROVE WakeState(u)' /\ WokenState(u)'
  <2>1. WakeStep(t, u) /\ WakeState(u) /\ WokenState(u)
    BY DEF WakeInv
  <2>2. WakeState(u)'
    BY <2>1 DEF WakeStep, WakeState, Asleep, Queueing
  <2>3. WokenState(u)'
    BY <2>1 DEF WakeStep, WokenState, Asleep
  <2> QED
    BY <2>2, <2>3
<1> QED
  BY <1>1 DEF WakeInv

\* Every step keeps the wake-ups in order.
LEMMA WakeNext ==
    LockInv /\ QueueInv /\ WakeInv /\ [Next]_vars => WakeInv'
<1> SUFFICES ASSUME LockInv, QueueInv, WakeInv, [Next]_vars PROVE WakeInv'
  OBVIOUS
<1> USE ThreadsAssumption, SleepQueueAssumption, MutexAssumption
<1>0. /\ WakeTypes
      /\ \A t \in Threads : WakeState(t) /\ WokenState(t) /\ ThreadState(t)
      /\ pc \in [Threads -> PCs] /\ wchan \in [Threads -> Conds \cup {None}]
      /\ mutexArg \in [Threads -> Mutexes \cup {None}]
      /\ outcome \in [Threads -> {"lock", "wait", "cancel"}]
  BY DEF WakeInv, QueueInv, QueueTypes, SleepQueueTypeOK, LockInv, LockTypes
<1> DEFINE Kept(t) == \A u \in Threads \ {t} : WakeStep(t, u)
           Silent == UNCHANGED <<immediate, defer_waiters, wake_sema, wchan,
                                 signalled>>
<1>100. ASSUME NEW t \in Threads, WakeTypes', Kept(t), WakeState(t)', WokenState(t)'
        PROVE  WakeInv'
  BY <1>100, WakeFrame
<1>101. ASSUME UNCHANGED <<immediate, defer_waiters, wake_sema>>
        PROVE  \A u \in Threads : WakeOnTheWay(u)' <=> WakeOnTheWay(u)
  BY <1>101 DEF WakeOnTheWay
<1> USE DEF GoTo, mutexVars, sleepqVars, queueVars, frameVars, wakeVars,
            cancelVars, condVars, historyVars
<1> HIDE DEF Kept, Silent
<1>1. ASSUME NEW t \in Threads, NEW m \in Mutexes, LockEnter(t, m) PROVE WakeInv'
  <2>1. Silent
    BY <1>1 DEF LockEnter, Silent
  <2>2. \A u \in Threads : WakeOnTheWay(u)' <=> WakeOnTheWay(u)
    BY <2>1, <1>101 DEF Silent
  <2>3. WakeTypes'
    BY <1>0, <1>1, <2>1 DEF LockEnter, Calling, Silent, WakeTypes
  <2>4. Kept(t)
    BY <1>0, <1>1, <2>1, <2>2 DEF LockEnter, Calling, Silent, Kept, WakeStep, WakeTypes,
       ShouldCancel
  <2>5. WakeState(t)'
    BY <1>0, <1>1, <2>1 DEF LockEnter, Calling, Silent, WakeState, ThreadState, Queueing, Asleep
  <2>6. WokenState(t)'
    BY <1>0, <1>1, <2>1, <2>2 DEF LockEnter, Calling, Silent, WakeState, WokenState,
       ThreadState,
       Queueing, Asleep, ShouldCancel, WakeTypes
  <2> QED
    BY <2>3, <2>4, <2>5, <2>6, <1>100
<1>2. ASSUME NEW t \in Threads, NEW m \in Mutexes, LockSelf(t, m) PROVE WakeInv'
  <2>1. Silent
    BY <1>2 DEF LockSelf, Silent
  <2>2. \A u \in Threads : WakeOnTheWay(u)' <=> WakeOnTheWay(u)
    BY <2>1, <1>101 DEF Silent
  <2>3. WakeTypes'
    BY <1>0, <1>2, <2>1 DEF LockSelf, Calling, Silent, WakeTypes
  <2>4. Kept(t)
    BY <1>0, <1>2, <2>1, <2>2 DEF LockSelf, Calling, Silent, Kept, WakeStep, WakeTypes,
       ShouldCancel
  <2>5. WakeState(t)'
    BY <1>0, <1>2, <2>1 DEF LockSelf, Calling, Silent, WakeState, ThreadState, Queueing, Asleep
  <2>6. WokenState(t)'
    BY <1>0, <1>2, <2>1, <2>2 DEF LockSelf, Calling, Silent, WakeState, WokenState, ThreadState,
       Queueing, Asleep, ShouldCancel, WakeTypes
  <2> QED
    BY <2>3, <2>4, <2>5, <2>6, <1>100
<1>3. ASSUME NEW t \in Threads, LockHost(t) PROVE WakeInv'
  <2>1. Silent
    BY <1>3 DEF LockHost, Silent
  <2>2. \A u \in Threads : WakeOnTheWay(u)' <=> WakeOnTheWay(u)
    BY <2>1, <1>101 DEF Silent
  <2>3. WakeTypes'
    BY <1>0, <1>3, <2>1 DEF LockHost, Silent, WakeTypes
  <2>4. Kept(t)
    BY <1>0, <1>3, <2>1, <2>2 DEF LockHost, Silent, Kept, WakeStep, WakeTypes, ShouldCancel
  <2>5. WakeState(t)'
    BY <1>0, <1>3, <2>1 DEF LockHost, Silent, WakeState, ThreadState, Queueing, Asleep
  <2>6. WokenState(t)'
    BY <1>0, <1>3, <2>1, <2>2 DEF LockHost, Silent, WakeState, WokenState, ThreadState,
       Queueing, Asleep, ShouldCancel, WakeTypes
  <2> QED
    BY <2>3, <2>4, <2>5, <2>6, <1>100
<1>4. ASSUME NEW t \in Threads, LockTimeout(t) PROVE WakeInv'
  <2>1. Silent
    BY <1>4 DEF LockTimeout, Silent
  <2>2. \A u \in Threads : WakeOnTheWay(u)' <=> WakeOnTheWay(u)
    BY <2>1, <1>101 DEF Silent
  <2>3. WakeTypes'
    BY <1>0, <1>4, <2>1 DEF LockTimeout, Silent, WakeTypes
  <2>4. Kept(t)
    BY <1>0, <1>4, <2>1, <2>2 DEF LockTimeout, Silent, Kept, WakeStep, WakeTypes, ShouldCancel
  <2>5. WakeState(t)'
    BY <1>0, <1>4, <2>1 DEF LockTimeout, Silent, WakeState, ThreadState, Queueing, Asleep
  <2>6. WokenState(t)'
    BY <1>0, <1>4, <2>1, <2>2 DEF LockTimeout, Silent, WakeState, WokenState, ThreadState,
       Queueing, Asleep, ShouldCancel, WakeTypes
  <2> QED
    BY <2>3, <2>4, <2>5, <2>6, <1>100
<1>5. ASSUME NEW t \in Threads, LockOwner(t) PROVE WakeInv'
  <2>1. Silent
    BY <1>5 DEF LockOwner, Silent
  <2>2. \A u \in Threads : WakeOnTheWay(u)' <=> WakeOnTheWay(u)
    BY <2>1, <1>101 DEF Silent
  <2>3. WakeTypes'
    BY <1>0, <1>5, <2>1 DEF LockOwner, ShouldCancel, Silent, WakeTypes
  <2>4. Kept(t)
    BY <1>0, <1>5, <2>1, <2>2 DEF LockOwner, ShouldCancel, Silent, Kept, WakeStep, WakeTypes
  <2>5. WakeState(t)'
    BY <1>0, <1>5, <2>1 DEF LockOwner, ShouldCancel, Silent, WakeState, ThreadState,
       Queueing, Asleep
  <2>6. WokenState(t)'
    BY <1>0, <1>5, <2>1, <2>2 DEF LockOwner, ShouldCancel, Silent, WakeState, WokenState,
       ThreadState,
       Queueing, Asleep, WakeTypes
  <2> QED
    BY <2>3, <2>4, <2>5, <2>6, <1>100
<1>6. ASSUME NEW t \in Threads, NEW m \in Mutexes, UnlockLevel(t, m) PROVE WakeInv'
  <2>1. Silent
    BY <1>6 DEF UnlockLevel, Silent
  <2>2. \A u \in Threads : WakeOnTheWay(u)' <=> WakeOnTheWay(u)
    BY <2>1, <1>101 DEF Silent
  <2>3. WakeTypes'
    BY <1>0, <1>6, <2>1 DEF UnlockLevel, Silent, WakeTypes
  <2>4. Kept(t)
    BY <1>0, <1>6, <2>1, <2>2 DEF UnlockLevel, Silent, Kept, WakeStep, WakeTypes, ShouldCancel
  <2>5. WakeState(t)'
    BY <1>0, <1>6, <2>1 DEF UnlockLevel, Silent, WakeState, ThreadState, Queueing, Asleep
  <2>6. WokenState(t)'
    BY <1>0, <1>6, <2>1, <2>2 DEF UnlockLevel, Silent, WakeState, WokenState, ThreadState,
       Queueing, Asleep, ShouldCancel, WakeTypes
  <2> QED
    BY <2>3, <2>4, <2>5, <2>6, <1>100
<1>7. ASSUME NEW t \in Threads, NEW m \in Mutexes, UnlockOwner(t, m) PROVE WakeInv'
  <2>1. Silent
    BY <1>7 DEF UnlockOwner, Silent
  <2>2. \A u \in Threads : WakeOnTheWay(u)' <=> WakeOnTheWay(u)
    BY <2>1, <1>101 DEF Silent
  <2>3. WakeTypes'
    BY <1>0, <1>7, <2>1 DEF UnlockOwner, Silent, WakeTypes
  <2>4. Kept(t)
    BY <1>0, <1>7, <2>1, <2>2 DEF UnlockOwner, Silent, Kept, WakeStep, WakeTypes, ShouldCancel
  <2>5. WakeState(t)'
    BY <1>0, <1>7, <2>1 DEF UnlockOwner, Silent, WakeState, ThreadState, Queueing, Asleep
  <2>6. WokenState(t)'
    BY <1>0, <1>7, <2>1, <2>2 DEF UnlockOwner, Silent, WakeState, WokenState, ThreadState,
       Queueing, Asleep, ShouldCancel, WakeTypes
  <2> QED
    BY <2>3, <2>4, <2>5, <2>6, <1>100
<1>8. ASSUME NEW t \in Threads, UnlockHost(t) PROVE WakeInv'
  <2>1. Silent
    BY <1>8 DEF UnlockHost, Silent
  <2>2. \A u \in Threads : WakeOnTheWay(u)' <=> WakeOnTheWay(u)
    BY <2>1, <1>101 DEF Silent
  <2>3. WakeTypes'
    BY <1>0, <1>8, <2>1 DEF UnlockHost, UnlockWakes, Silent, WakeTypes
  <2>4. Kept(t)
    BY <1>0, <1>8, <2>1, <2>2 DEF UnlockHost, UnlockWakes, Silent, Kept, WakeStep,
       WakeTypes, ShouldCancel
  <2>5. WakeState(t)'
    BY <1>0, <1>8, <2>1 DEF UnlockHost, UnlockWakes, Silent, WakeState, ThreadState,
       Queueing, Asleep
  <2>6. WokenState(t)'
    BY <1>0, <1>8, <2>1, <2>2 DEF UnlockHost, UnlockWakes, Silent, WakeState, WokenState,
       ThreadState,
       Queueing, Asleep, ShouldCancel, WakeTypes
  <2> QED
    BY <2>3, <2>4, <2>5, <2>6, <1>100
<1>9. ASSUME NEW t \in Threads, WakeAll(t) PROVE WakeInv'
  <2>1. defer_waiters[t] # <<>> /\ PostDeferred(t)
    BY <1>0, <1>9 DEF WakeAll, WakeState
  <2>2. /\ immediate' \in [Threads -> Seq(Threads)]
        /\ defer_waiters' \in [Threads -> Seq(Threads)]
        /\ wake_sema' \in [Threads -> Nat]
        /\ \A u \in Threads : WakeOnTheWay(u) => WakeOnTheWay(u)'
        /\ \A u \in Threads \ {t} : /\ immediate'[u] = immediate[u]
                                    /\ defer_waiters'[u] = defer_waiters[u]
    BY <1>0, <1>9, <2>1, PostFacts DEF WakeAll
  <2>3. /\ UNCHANGED <<wchan, signalled, outcome, error, mutex_obj, cancelVars>>
        /\ \A u \in Threads \ {t} : pc'[u] = pc[u]
    BY <1>0, <1>9 DEF WakeAll
  <2>10. WakeTypes'
    BY <1>0, <2>2, <2>3 DEF WakeTypes
  <2>20. Kept(t)
    BY <2>2, <2>3 DEF Kept, WakeStep, ShouldCancel
  <2>4. pc'[t] = "wake_all" => defer_waiters'[t] # <<>>
    <3>1. defer_waiters'[t] = Tail(defer_waiters[t]) /\ immediate' = immediate
      BY <1>0, <2>1 DEF PostDeferred, WakeTypes
    <3>2. Len(defer_waiters'[t]) = Len(defer_waiters[t]) - 1 /\ Len(defer_waiters[t]) \in Nat \ {0}
      BY <1>0, <2>1, <3>1, TailRange DEF WakeTypes
    <3>3. pc'[t] = "wake_all" => Len(defer_waiters[t]) # 1
      BY <1>0, <1>9 DEF WakeAll
    <3>4. pc'[t] = "wake_all" => Len(defer_waiters'[t]) # 0
      BY <3>2, <3>3
    <3> QED
      BY <3>4, EmptyRange
  <2>5. /\ immediate'[t] = immediate[t] /\ pc[t] = "wake_all"
        /\ pc'[t] \in {"run", "wake_all"}
    BY <1>0, <1>9, <2>1 DEF PostDeferred, WakeAll
  <2>21. WakeState(t)' /\ WokenState(t)'
    BY <1>0, <2>4, <2>5 DEF WakeState, WokenState, Queueing, Asleep
  <2> QED
    BY <2>10, <2>20, <2>21, <1>100
<1>10. ASSUME NEW t \in Threads, NEW c \in Conds, NEW m \in Mutexes, WaitEnter(t, c, m) PROVE WakeInv'
  <2>1. Silent
    BY <1>10 DEF WaitEnter, Silent
  <2>2. \A u \in Threads : WakeOnTheWay(u)' <=> WakeOnTheWay(u)
    BY <2>1, <1>101 DEF Silent
  <2>3. WakeTypes'
    BY <1>0, <1>10, <2>1 DEF WaitEnter, Calling, Silent, WakeTypes
  <2>4. Kept(t)
    BY <1>0, <1>10, <2>1, <2>2 DEF WaitEnter, Calling, Silent, Kept, WakeStep, WakeTypes,
       ShouldCancel
  <2>5. WakeState(t)'
    BY <1>0, <1>10, <2>1 DEF WaitEnter, Calling, Silent, WakeState, ThreadState, Queueing,
       Asleep
  <2>6. WokenState(t)'
    BY <1>0, <1>10, <2>1, <2>2 DEF WaitEnter, Calling, Silent, WakeState, WokenState,
       ThreadState,
       Queueing, Asleep, ShouldCancel, WakeTypes
  <2> QED
    BY <2>3, <2>4, <2>5, <2>6, <1>100
<1>11. ASSUME NEW t \in Threads, WaitLock(t) PROVE WakeInv'
  <2>1. Silent
    BY <1>11 DEF WaitLock, Silent
  <2>2. \A u \in Threads : WakeOnTheWay(u)' <=> WakeOnTheWay(u)
    BY <2>1, <1>101 DEF Silent
  <2>3. WakeTypes'
    BY <1>0, <1>11, <2>1 DEF WaitLock, Silent, WakeTypes
  <2>4. Kept(t)
    BY <1>0, <1>11, <2>1, <2>2 DEF WaitLock, Silent, Kept, WakeStep, WakeTypes, ShouldCancel
  <2>5. WakeState(t)'
    BY <1>0, <1>11, <2>1 DEF WaitLock, Silent, WakeState, ThreadState, Queueing, Asleep
  <2>6. WokenState(t)'
    BY <1>0, <1>11, <2>1, <2>2 DEF WaitLock, Silent, WakeState, WokenState, ThreadState,
       Queueing, Asleep, ShouldCancel, WakeTypes
  <2> QED
    BY <2>3, <2>4, <2>5, <2>6, <1>100
<1>12. ASSUME NEW t \in Threads, WaitEnqueue(t) PROVE WakeInv'
  <2>1. /\ UNCHANGED <<immediate, defer_waiters, wake_sema, outcome, error, cancelVars>>
        /\ signalled' = [signalled EXCEPT ![t] = FALSE]
        /\ wchan' = [wchan EXCEPT ![t] = condArg[t]]
        /\ pc[t] = "wait_unlock" /\ pc' = [pc EXCEPT ![t] = "wait_clear"]
        /\ mutex_obj' = [mutex_obj EXCEPT ![t] = mutexArg[t]]
    BY <1>12 DEF WaitEnqueue, SleepqAdd
  <2>2. \A u \in Threads : WakeOnTheWay(u)' <=> WakeOnTheWay(u)
    BY <2>1, <1>101
  <2>10. WakeTypes'
    BY <1>0, <2>1 DEF WakeTypes
  <2>20. Kept(t)
    BY <1>0, <2>1, <2>2 DEF Kept, WakeStep, WakeTypes, ShouldCancel
  <2>3. condArg[t] # None
    BY <1>0, <2>1 DEF ThreadState, Chained
  <2>21. WakeState(t)' /\ WokenState(t)'
    BY <1>0, <2>1, <2>3 DEF WakeState, WokenState, Queueing, Asleep, WakeTypes
  <2> QED
    BY <2>10, <2>20, <2>21, <1>100
<1>13. ASSUME NEW t \in Threads, WaitClear(t) PROVE WakeInv'
  <2>1. UNCHANGED <<immediate, defer_waiters, wchan, signalled>>
    BY <1>13 DEF WaitClear
  <2>2. \A u \in Threads \ {t} : wake_sema'[u] = wake_sema[u]
    BY <1>0, <1>13 DEF WaitClear, WakeTypes
  <2>3. \A u \in Threads \ {t} : WakeOnTheWay(u)' <=> WakeOnTheWay(u)
    BY <2>1, <2>2 DEF WakeOnTheWay
  <2>10. WakeTypes'
    BY <1>0, <1>13, <2>1 DEF WaitClear, WakeTypes
  <2>20. Kept(t)
    BY <1>0, <1>13, <2>1, <2>3 DEF WaitClear, Kept, WakeStep, WakeTypes, ShouldCancel
  <2>4. /\ pc[t] = "wait_clear" /\ pc'[t] = "wait_arm"
        /\ immediate'[t] = immediate[t] /\ signalled'[t] = signalled[t] /\ wchan'[t] = wchan[t]
    BY <1>0, <1>13, <2>1 DEF WaitClear, WakeTypes
  <2>5. WakeState(t)'
    BY <1>0, <2>4 DEF WakeState, Queueing, Asleep
  <2>6. WokenState(t)'
    BY <2>4 DEF WokenState
  <2>21. WakeState(t)' /\ WokenState(t)'
    BY <2>5, <2>6
  <2> QED
    BY <2>10, <2>20, <2>21, <1>100
<1>14. ASSUME NEW t \in Threads, WaitArm(t) PROVE WakeInv'
  <2>1. Silent
    BY <1>14 DEF WaitArm, Silent
  <2>2. \A u \in Threads : WakeOnTheWay(u)' <=> WakeOnTheWay(u)
    BY <2>1, <1>101 DEF Silent
  <2>3. WakeTypes'
    BY <1>0, <1>14, <2>1 DEF WaitArm, SkipSleep, Silent, WakeTypes
  <2>4. Kept(t)
    BY <1>0, <1>14, <2>1, <2>2 DEF WaitArm, SkipSleep, Silent, Kept, WakeStep, WakeTypes,
       ShouldCancel
  <2>5. WakeState(t)'
    BY <1>0, <1>14, <2>1 DEF WaitArm, SkipSleep, Silent, WakeState, ThreadState, Queueing,
       Asleep
  <2>6. WokenState(t)'
    <3>1. wchan'[t] # None /\ pc[t] = "wait_arm"
      BY <1>0, <1>14, <2>1 DEF WaitArm, Silent, ThreadState, Chained
    <3>2. pc'[t] = IF ShouldCancel(t) THEN "wait_wake" ELSE "flush"
      BY <1>0, <1>14 DEF WaitArm, SkipSleep
    <3>3. ShouldCancel(t)' <=> ShouldCancel(t)
      BY <1>14 DEF WaitArm, ShouldCancel
    <3> QED
      BY <3>1, <3>2, <3>3 DEF WokenState
  <2> QED
    BY <2>3, <2>4, <2>5, <2>6, <1>100
<1>15. ASSUME NEW t \in Threads, WaitDeadline(t) PROVE WakeInv'
  <2>1. Silent
    BY <1>15 DEF WaitDeadline, Silent
  <2>2. \A u \in Threads : WakeOnTheWay(u)' <=> WakeOnTheWay(u)
    BY <2>1, <1>101 DEF Silent
  <2>3. WakeTypes'
    BY <1>0, <1>15, <2>1 DEF WaitDeadline, Silent, WakeTypes
  <2>4. Kept(t)
    BY <1>0, <1>15, <2>1, <2>2 DEF WaitDeadline, Silent, Kept, WakeStep, WakeTypes, ShouldCancel
  <2>5. WakeState(t)'
    BY <1>0, <1>15, <2>1 DEF WaitDeadline, Silent, WakeState, ThreadState, Queueing, Asleep
  <2>6. WokenState(t)'
    BY <1>0, <1>15, <2>1, <2>2 DEF WaitDeadline, Silent, WakeState, WokenState, ThreadState,
       Queueing, Asleep, ShouldCancel, WakeTypes
  <2> QED
    BY <2>3, <2>4, <2>5, <2>6, <1>100
<1>16. ASSUME NEW t \in Threads, SleepFlush(t) PROVE WakeInv'
  <2>1. /\ UNCHANGED <<wchan, signalled, outcome, error, mutex_obj, cancelVars>>
        /\ pc[t] = "flush" /\ (pc' = pc \/ pc' = [pc EXCEPT ![t] = "sleeping"])
        /\ immediate' = immediate
    BY <1>16 DEF SleepFlush, PostDeferred
  <2>2. /\ defer_waiters' \in [Threads -> Seq(Threads)]
        /\ wake_sema' \in [Threads -> Nat]
        /\ \A u \in Threads : WakeOnTheWay(u) => WakeOnTheWay(u)'
        /\ \A u \in Threads \ {t} : defer_waiters'[u] = defer_waiters[u]
    <3>1. CASE defer_waiters[t] # <<>> /\ PostDeferred(t)
      BY <1>0, <3>1, PostFacts
    <3>2. CASE UNCHANGED wakeVars
      BY <1>0, <1>101, <3>2 DEF WakeTypes
    <3> QED
      BY <1>16, <3>1, <3>2 DEF SleepFlush
  <2>3. pc'[t] \in {"flush", "sleeping"} /\ \A u \in Threads \ {t} : pc'[u] = pc[u]
    BY <1>0, <2>1
  <2>10. WakeTypes'
    BY <1>0, <2>1, <2>2 DEF WakeTypes
  <2>20. Kept(t)
    BY <2>1, <2>2, <2>3 DEF Kept, WakeStep, ShouldCancel
  <2>21. WakeState(t)' /\ WokenState(t)'
    BY <1>0, <2>1, <2>2, <2>3 DEF WakeState, WokenState, Queueing, Asleep, ShouldCancel
  <2> QED
    BY <2>10, <2>20, <2>21, <1>100
<1>17. ASSUME NEW t \in Threads, SleepAcquire(t) PROVE WakeInv'
  <2>1. UNCHANGED <<immediate, defer_waiters, wchan, signalled>>
    BY <1>17 DEF SleepAcquire
  <2>2. \A u \in Threads \ {t} : wake_sema'[u] = wake_sema[u]
    BY <1>0, <1>17 DEF SleepAcquire, WakeTypes
  <2>3. \A u \in Threads \ {t} : WakeOnTheWay(u)' <=> WakeOnTheWay(u)
    BY <2>1, <2>2 DEF WakeOnTheWay
  <2>10. WakeTypes'
    BY <1>0, <1>17, <2>1 DEF SleepAcquire, WakeTypes
  <2>20. Kept(t)
    BY <1>0, <1>17, <2>1, <2>3 DEF SleepAcquire, Kept, WakeStep, WakeTypes, ShouldCancel
  <2>21. WakeState(t)' /\ WokenState(t)'
    <3>1. pc[t] = "sleeping" /\ pc'[t] = "wait_wake"
      BY <1>0, <1>17 DEF SleepAcquire
    <3> QED
      BY <1>0, <2>1, <3>1 DEF WakeState, WokenState, Queueing, Asleep
  <2> QED
    BY <2>10, <2>20, <2>21, <1>100
<1>18. ASSUME NEW t \in Threads, SleepTimeout(t) PROVE WakeInv'
  <2>1. Silent
    BY <1>18 DEF SleepTimeout, Silent
  <2>2. \A u \in Threads : WakeOnTheWay(u)' <=> WakeOnTheWay(u)
    BY <2>1, <1>101 DEF Silent
  <2>3. WakeTypes'
    BY <1>0, <1>18, <2>1 DEF SleepTimeout, Silent, WakeTypes
  <2>4. Kept(t)
    BY <1>0, <1>18, <2>1, <2>2 DEF SleepTimeout, Silent, Kept, WakeStep, WakeTypes, ShouldCancel
  <2>5. WakeState(t)'
    BY <1>0, <1>18, <2>1 DEF SleepTimeout, Silent, WakeState, ThreadState, Queueing, Asleep
  <2>6. WokenState(t)'
    BY <1>0, <1>18, <2>1, <2>2 DEF SleepTimeout, Silent, WakeState, WokenState, ThreadState,
       Queueing, Asleep, ShouldCancel, WakeTypes
  <2> QED
    BY <2>3, <2>4, <2>5, <2>6, <1>100
<1>19. ASSUME NEW t \in Threads, WaitSignalled(t) PROVE WakeInv'
  <2>1. Silent
    BY <1>19 DEF WaitSignalled, Silent
  <2>2. \A u \in Threads : WakeOnTheWay(u)' <=> WakeOnTheWay(u)
    BY <2>1, <1>101 DEF Silent
  <2>3. WakeTypes'
    BY <1>0, <1>19, <2>1 DEF WaitSignalled, ErrorIfSignalled, Silent, WakeTypes
  <2>4. Kept(t)
    BY <1>0, <1>19, <2>1, <2>2 DEF WaitSignalled, ErrorIfSignalled, Silent, Kept, WakeStep,
       WakeTypes, ShouldCancel
  <2>5. WakeState(t)'
    BY <1>0, <1>19, <2>1 DEF WaitSignalled, ErrorIfSignalled, Silent, WakeState,
       ThreadState, Queueing, Asleep
  <2>6. WokenState(t)'
    BY <1>0, <1>19, <2>1, <2>2 DEF WaitSignalled, ErrorIfSignalled, Silent, WakeState,
       WokenState, ThreadState,
       Queueing, Asleep, ShouldCancel, WakeTypes
  <2> QED
    BY <2>3, <2>4, <2>5, <2>6, <1>100
<1>20. ASSUME NEW t \in Threads, WaitCancelled(t) PROVE WakeInv'
  <2>1. /\ UNCHANGED <<immediate, defer_waiters, wake_sema, signalled, error, cancelVars>>
        /\ pc[t] = "wait_wake" /\ pc' = [pc EXCEPT ![t] = "lock_host"]
        /\ mutex_obj' = [mutex_obj EXCEPT ![t] = None]
        /\ wchan' = [wchan EXCEPT ![t] = None] /\ wchan[t] # None
        /\ \/ outcome' = [outcome EXCEPT ![t] = "cancel"]
           \/ outcome' = [outcome EXCEPT ![t] = "wait"] /\ error[t] = "ETIMEDOUT"
    BY <1>20 DEF WaitCancelled, LeaveQueue, SleepqRemove
  <2>2. \A u \in Threads : WakeOnTheWay(u)' <=> WakeOnTheWay(u)
    BY <2>1, <1>101
  <2>10. WakeTypes'
    BY <1>0, <2>1 DEF WakeTypes
  <2>20. Kept(t)
    BY <1>0, <2>1, <2>2 DEF Kept, WakeStep, WakeTypes, ShouldCancel
  <2>21. WakeState(t)' /\ WokenState(t)'
    BY <1>0, <2>1 DEF WakeState, WokenState, Queueing, Asleep, WakeTypes
  <2> QED
    BY <2>10, <2>20, <2>21, <1>100
<1>21. ASSUME NEW t \in Threads, WaitTimedOut(t) PROVE WakeInv'
  <2>1. /\ UNCHANGED <<immediate, defer_waiters, wake_sema, signalled, error, cancelVars>>
        /\ pc[t] = "wait_wake" /\ pc' = [pc EXCEPT ![t] = "lock_host"]
        /\ mutex_obj' = [mutex_obj EXCEPT ![t] = None]
        /\ wchan' = [wchan EXCEPT ![t] = None] /\ wchan[t] # None
        /\ \/ outcome' = [outcome EXCEPT ![t] = "cancel"]
           \/ outcome' = [outcome EXCEPT ![t] = "wait"] /\ error[t] = "ETIMEDOUT"
    BY <1>21 DEF WaitTimedOut, LeaveQueue, SleepqRemove
  <2>2. \A u \in Threads : WakeOnTheWay(u)' <=> WakeOnTheWay(u)
    BY <2>1, <1>101
  <2>10. WakeTypes'
    BY <1>0, <2>1 DEF WakeTypes
  <2>20. Kept(t)
    BY <1>0, <2>1, <2>2 DEF Kept, WakeStep, WakeTypes, ShouldCancel
  <2>21. WakeState(t)' /\ WokenState(t)'
    BY <1>0, <2>1 DEF WakeState, WokenState, Queueing, Asleep, WakeTypes
  <2> QED
    BY <2>10, <2>20, <2>21, <1>100
<1>22. ASSUME NEW t \in Threads, WaitSpurious(t) PROVE WakeInv'
  <2>1. Silent
    BY <1>22 DEF WaitSpurious, Silent
  <2>2. \A u \in Threads : WakeOnTheWay(u)' <=> WakeOnTheWay(u)
    BY <2>1, <1>101 DEF Silent
  <2>3. WakeTypes'
    BY <1>0, <1>22, <2>1 DEF WaitSpurious, Silent, WakeTypes
  <2>4. Kept(t)
    BY <1>0, <1>22, <2>1, <2>2 DEF WaitSpurious, Silent, Kept, WakeStep, WakeTypes, ShouldCancel
  <2>5. WakeState(t)'
    BY <1>0, <1>22, <2>1 DEF WaitSpurious, Silent, WakeState, ThreadState, Queueing, Asleep
  <2>6. WokenState(t)'
    BY <1>0, <1>22, <2>1, <2>2 DEF WaitSpurious, Silent, WakeState, WokenState, ThreadState,
       Queueing, Asleep, ShouldCancel, WakeTypes
  <2> QED
    BY <2>3, <2>4, <2>5, <2>6, <1>100
<1>23. ASSUME NEW t \in Threads, NEW c \in Conds, Signal(t, c) PROVE WakeInv'
  <2>0. sc_queues[c] \in Threads /\ ChainFree(c) /\ Serves(sc_queues[c], c)
    BY <1>23 DEF Signal, QueueInv, QueueTypes, SleepQueueTypeOK, Serves
  <2>1. PICK i \in DOMAIN sq_blocked[sc_queues[c]] :
             /\ SleepqRemove(c, i)
             /\ Wake(t, sq_blocked[sc_queues[c]][i])
             /\ GoTo(t, IF Deferrable(t, sq_blocked[sc_queues[c]][i])
                        THEN "run" ELSE "release")
    BY <1>23 DEF Signal
  <2> DEFINE td == sq_blocked[sc_queues[c]][i]
  <2>2. td \in Range(sq_blocked[sc_queues[c]]) /\ SleepqRemove(c, i)
    BY <2>1 DEF Range
  <2>3. td \in Threads /\ pc[td] \in Asleep /\ td # t /\ pc[t] = "run"
    <3>1. td \in Threads
      BY <2>0, <2>2, ListTypes
    <3>2. pc[td] \in Asleep
      BY <2>0, <2>2, <3>1, QueuedIsAsleep DEF ChainFree
    <3> QED
      BY <1>23, <3>1, <3>2 DEF Signal, Asleep
  <2>4. Wake(t, td) /\ pc' = [pc EXCEPT ![t] = IF Deferrable(t, td) THEN "run" ELSE "release"]
    BY <2>1
  <2>9. wchan' = [wchan EXCEPT ![td] = None]
    BY <2>1 DEF SleepqRemove
  <2> HIDE DEF td
  <2>5. /\ immediate' \in [Threads -> Seq(Threads)]
        /\ defer_waiters' \in [Threads -> Seq(Threads)]
        /\ wake_sema' \in [Threads -> Nat]
        /\ signalled' = [signalled EXCEPT ![td] = TRUE]
        /\ \A u \in Threads : WakeOnTheWay(u) \/ u = td => WakeOnTheWay(u)'
        /\ \A u \in Threads \ {t} : immediate'[u] = immediate[u]
        /\ Deferrable(t, td) => immediate'[t] = immediate[t]
        /\ ~Deferrable(t, td) => immediate'[t] # <<>>
        /\ \A u \in Threads : defer_waiters[u] # <<>> => defer_waiters'[u] # <<>>
    BY <1>0, <2>3, <2>4, WakeFacts
  <2>6. /\ wchan' = [wchan EXCEPT ![td] = None]
        /\ UNCHANGED <<outcome, error, mutex_obj, cancelVars>>
        /\ \A u \in Threads \ {t} : pc'[u] = pc[u]
    BY <1>0, <1>23, <2>4, <2>9 DEF Signal
  <2>7. \A u \in Threads \ {td} : wchan'[u] = wchan[u] /\ signalled'[u] = signalled[u]
    BY <1>0, <2>3, <2>5, <2>6 DEF WakeTypes
  <2>8. wchan'[td] = None /\ signalled'[td]
    BY <1>0, <2>3, <2>5, <2>6 DEF WakeTypes
  <2>10. WakeTypes'
    BY <1>0, <2>3, <2>5, <2>6 DEF WakeTypes
  <2>20. Kept(t)
    BY <2>3, <2>5, <2>6, <2>7, <2>8 DEF Kept, WakeStep, ShouldCancel
  <2>21. WakeState(t)' /\ WokenState(t)'
    <3>1. pc'[t] = IF Deferrable(t, td) THEN "run" ELSE "release"
      BY <1>0, <2>4
    <3>2. immediate[t] = <<>>
      BY <1>0, <2>3 DEF WakeState
    <3> QED
      BY <3>1, <3>2, <2>5 DEF WakeState, WokenState, Queueing, Asleep
  <2> QED
    BY <2>10, <2>20, <2>21, <1>100
<1>24. ASSUME NEW t \in Threads, NEW c \in Conds, BroadcastEnter(t, c) PROVE WakeInv'
  <2>0. /\ sc_queues[c] \in Threads /\ ChainFree(c) /\ Serves(sc_queues[c], c)
        /\ sc_lock[SC_HASH[c]] \in {None, t} /\ LinkState(c)
    BY <1>24 DEF BroadcastEnter, QueueInv, QueueTypes, SleepQueueTypeOK, Serves, ChainFree
  <2> DEFINE td == Head(sq_blocked[sc_queues[c]])
  <2>2. sq_blocked[sc_queues[c]] # <<>> /\ td \in Threads /\ td \in Range(sq_blocked[sc_queues[c]])
    <3>1. sq_blocked[sc_queues[c]] # <<>> /\ sq_blocked[sc_queues[c]] \in Seq(Threads)
      BY <2>0, ListTypes, EmptyRange DEF LinkState
    <3> QED
      BY <3>1, TailRange
  <2>3. td \in Threads /\ pc[td] \in Asleep /\ td # t
    <3>1. wchan[t] = None
      BY <1>0, <1>24 DEF BroadcastEnter, Calling, ThreadState, Queueing, Asleep
    <3>2. wchan[td] # None
      BY <2>0, <2>2 DEF QueueInv, BlockedState
    <3>3. pc[td] \in Asleep
      BY <2>0, <2>2, <3>1, <3>2, QueuedIsAsleep DEF ChainFree
    <3> QED
      BY <2>2, <3>1, <3>2, <3>3
  <2>4. Wake(t, td)
    BY <1>24 DEF BroadcastEnter
  <2>9. wchan' = [wchan EXCEPT ![td] = None]
    BY <1>24 DEF BroadcastEnter, SleepqDropFirst, SleepqDropNext
  <2> HIDE DEF td
  <2>5. /\ immediate' \in [Threads -> Seq(Threads)]
        /\ defer_waiters' \in [Threads -> Seq(Threads)]
        /\ wake_sema' \in [Threads -> Nat]
        /\ signalled' = [signalled EXCEPT ![td] = TRUE]
        /\ \A u \in Threads : WakeOnTheWay(u) \/ u = td => WakeOnTheWay(u)'
        /\ \A u \in Threads \ {t} : immediate'[u] = immediate[u]
        /\ Deferrable(t, td) => immediate'[t] = immediate[t]
        /\ ~Deferrable(t, td) => immediate'[t] # <<>>
        /\ \A u \in Threads : defer_waiters[u] # <<>> => defer_waiters'[u] # <<>>
    BY <1>0, <2>3, <2>4, WakeFacts
  <2>6. /\ wchan' = [wchan EXCEPT ![td] = None]
        /\ UNCHANGED <<outcome, error, mutex_obj, cancelVars>>
        /\ \A u \in Threads \ {t} : pc'[u] = pc[u]
    BY <1>0, <1>24, <2>9 DEF BroadcastEnter
  <2>7. \A u \in Threads \ {td} : wchan'[u] = wchan[u] /\ signalled'[u] = signalled[u]
    BY <1>0, <2>3, <2>5, <2>6 DEF WakeTypes
  <2>8. wchan'[td] = None /\ signalled'[td]
    BY <1>0, <2>3, <2>5, <2>6 DEF WakeTypes
  <2>10. WakeTypes'
    BY <1>0, <2>3, <2>5, <2>6 DEF WakeTypes
  <2>20. Kept(t)
    BY <2>3, <2>5, <2>6, <2>7, <2>8 DEF Kept, WakeStep, ShouldCancel
  <2>21. WakeState(t)' /\ WokenState(t)'
    <3>1. pc'[t] = "drop"
      BY <1>0, <1>24 DEF BroadcastEnter
    <3> QED
      BY <3>1 DEF WakeState, WokenState, Queueing, Asleep
  <2> QED
    BY <2>10, <2>20, <2>21, <1>100
<1>25. ASSUME NEW t \in Threads, BroadcastNext(t) PROVE WakeInv'
  <2>0. /\ sqArg[t] \in Threads /\ condArg[t] \in Conds /\ Serves(sqArg[t], condArg[t])
        /\ sc_lock[SC_HASH[condArg[t]]] \in {None, t}
    BY <1>25 DEF BroadcastNext, QueueInv, DropState, ThreadState, Chained, Serves, Dropping
  <2> DEFINE td == Head(sq_blocked[sqArg[t]])
  <2>2. sq_blocked[sqArg[t]] # <<>> /\ td \in Threads /\ td \in Range(sq_blocked[sqArg[t]])
    <3>1. sq_blocked[sqArg[t]] # <<>> /\ sq_blocked[sqArg[t]] \in Seq(Threads)
      BY <1>25, <2>0, ListTypes DEF BroadcastNext
    <3> QED
      BY <3>1, TailRange
  <2>3. td \in Threads /\ pc[td] \in Asleep /\ td # t
    <3>1. wchan[t] = None
      BY <1>0, <1>25 DEF BroadcastNext, Calling, ThreadState, Queueing, Asleep
    <3>2. wchan[td] # None
      BY <2>0, <2>2 DEF QueueInv, BlockedState
    <3>3. pc[td] \in Asleep
      BY <2>0, <2>2, <3>1, <3>2, QueuedIsAsleep DEF ChainFree
    <3> QED
      BY <2>2, <3>1, <3>2, <3>3
  <2>4. Wake(t, td)
    BY <1>25 DEF BroadcastNext
  <2>9. wchan' = [wchan EXCEPT ![td] = None]
    BY <1>25 DEF BroadcastNext, SleepqDropFirst, SleepqDropNext
  <2> HIDE DEF td
  <2>5. /\ immediate' \in [Threads -> Seq(Threads)]
        /\ defer_waiters' \in [Threads -> Seq(Threads)]
        /\ wake_sema' \in [Threads -> Nat]
        /\ signalled' = [signalled EXCEPT ![td] = TRUE]
        /\ \A u \in Threads : WakeOnTheWay(u) \/ u = td => WakeOnTheWay(u)'
        /\ \A u \in Threads \ {t} : immediate'[u] = immediate[u]
        /\ Deferrable(t, td) => immediate'[t] = immediate[t]
        /\ ~Deferrable(t, td) => immediate'[t] # <<>>
        /\ \A u \in Threads : defer_waiters[u] # <<>> => defer_waiters'[u] # <<>>
    BY <1>0, <2>3, <2>4, WakeFacts
  <2>6. /\ wchan' = [wchan EXCEPT ![td] = None]
        /\ UNCHANGED <<outcome, error, mutex_obj, cancelVars>>
        /\ \A u \in Threads \ {t} : pc'[u] = pc[u]
    BY <1>0, <1>25, <2>9 DEF BroadcastNext
  <2>7. \A u \in Threads \ {td} : wchan'[u] = wchan[u] /\ signalled'[u] = signalled[u]
    BY <1>0, <2>3, <2>5, <2>6 DEF WakeTypes
  <2>8. wchan'[td] = None /\ signalled'[td]
    BY <1>0, <2>3, <2>5, <2>6 DEF WakeTypes
  <2>10. WakeTypes'
    BY <1>0, <2>3, <2>5, <2>6 DEF WakeTypes
  <2>20. Kept(t)
    BY <2>3, <2>5, <2>6, <2>7, <2>8 DEF Kept, WakeStep, ShouldCancel
  <2>21. WakeState(t)' /\ WokenState(t)'
    <3>1. pc'[t] = "drop"
      BY <1>0, <1>25 DEF BroadcastNext
    <3> QED
      BY <3>1 DEF WakeState, WokenState, Queueing, Asleep
  <2> QED
    BY <2>10, <2>20, <2>21, <1>100
<1>26. ASSUME NEW t \in Threads, BroadcastUnlock(t) PROVE WakeInv'
  <2>1. Silent
    BY <1>26 DEF BroadcastUnlock, Silent
  <2>2. \A u \in Threads : WakeOnTheWay(u)' <=> WakeOnTheWay(u)
    BY <2>1, <1>101 DEF Silent
  <2>3. WakeTypes'
    BY <1>0, <1>26, <2>1 DEF BroadcastUnlock, Silent, WakeTypes
  <2>4. Kept(t)
    BY <1>0, <1>26, <2>1, <2>2 DEF BroadcastUnlock, Silent, Kept, WakeStep, WakeTypes,
       ShouldCancel
  <2>5. WakeState(t)'
    BY <1>0, <1>26, <2>1 DEF BroadcastUnlock, Silent, WakeState, ThreadState, Queueing, Asleep
  <2>6. WokenState(t)'
    BY <1>0, <1>26, <2>1, <2>2 DEF BroadcastUnlock, Silent, WakeState, WokenState, ThreadState,
       Queueing, Asleep, ShouldCancel, WakeTypes
  <2> QED
    BY <2>3, <2>4, <2>5, <2>6, <1>100
<1>27. ASSUME NEW t \in Threads, Release(t) PROVE WakeInv'
  <2>1. immediate[t] # <<>>
    BY <1>0, <1>27 DEF Release, WakeState
  <2>2. /\ immediate' \in [Threads -> Seq(Threads)]
        /\ defer_waiters' \in [Threads -> Seq(Threads)]
        /\ wake_sema' \in [Threads -> Nat]
        /\ \A u \in Threads : WakeOnTheWay(u) => WakeOnTheWay(u)'
        /\ \A u \in Threads \ {t} : /\ immediate'[u] = immediate[u]
                                    /\ defer_waiters'[u] = defer_waiters[u]
    BY <1>0, <1>27, <2>1, PostFacts DEF Release
  <2>3. /\ UNCHANGED <<wchan, signalled, outcome, error, mutex_obj, cancelVars>>
        /\ \A u \in Threads \ {t} : pc'[u] = pc[u]
    BY <1>0, <1>27 DEF Release
  <2>10. WakeTypes'
    BY <1>0, <2>2, <2>3 DEF WakeTypes
  <2>20. Kept(t)
    BY <2>2, <2>3 DEF Kept, WakeStep, ShouldCancel
  <2>4. pc'[t] = "release" <=> immediate'[t] # <<>>
    <3>1. immediate'[t] = Tail(immediate[t])
      BY <1>0, <1>27 DEF Release, WakeTypes
    <3>2. Len(immediate'[t]) = Len(immediate[t]) - 1 /\ Len(immediate[t]) \in Nat \ {0}
      BY <1>0, <2>1, <3>1, TailRange DEF WakeTypes
    <3>3. pc'[t] = IF Len(immediate[t]) = 1 THEN "run" ELSE "release"
      BY <1>0, <1>27 DEF Release
    <3>4. Len(immediate'[t]) = 0 <=> immediate'[t] = <<>>
      BY <2>2, EmptySeq
    <3> QED
      BY <3>2, <3>3, <3>4
  <2>5. pc'[t] \in {"run", "release"}
    BY <1>0, <1>27 DEF Release
  <2>21. WakeState(t)' /\ WokenState(t)'
    BY <1>0, <2>4, <2>5 DEF WakeState, WokenState, Queueing, Asleep
  <2> QED
    BY <2>10, <2>20, <2>21, <1>100
<1>28. ASSUME NEW t \in Threads, NEW td \in Threads, Cancel(t, td) PROVE WakeInv'
  <2>0. immediate[t] = <<>> /\ <<td>> \in Seq(Threads) /\ <<td>> # <<>>
        /\ td \in Range(<<td>>)
    BY <1>0, <1>28 DEF Cancel, Calling, WakeState, Range
  <2>1. /\ UNCHANGED <<wake_sema, defer_waiters, wchan, signalled, outcome, error,
                       mutex_obj, cancel_enable, cancelling>>
        /\ pc[t] = "run" /\ pc' = [pc EXCEPT ![t] = "release"]
        /\ immediate' = [immediate EXCEPT ![t] = <<td>>]
        /\ cancel_pending' = [cancel_pending EXCEPT ![td] = TRUE]
    BY <1>28 DEF Cancel, Calling
  <2>2. immediate'[t] = <<td>> /\ \A u \in Threads \ {t} : immediate'[u] = immediate[u]
    BY <1>0, <2>1 DEF WakeTypes
  <2>3. \A u \in Threads : WakeOnTheWay(u) \/ u = td => WakeOnTheWay(u)'
    BY <2>0, <2>1, <2>2, EmptyRange DEF WakeOnTheWay
  <2>4. \A u \in Threads \ {td} : cancel_pending'[u] = cancel_pending[u]
    BY <1>0, <2>1
  <2>10. WakeTypes'
    BY <1>0, <2>0, <2>1 DEF WakeTypes
  <2>20. Kept(t)
    BY <1>0, <2>1, <2>2, <2>3, <2>4 DEF Kept, WakeStep, ShouldCancel
  <2>21. WakeState(t)' /\ WokenState(t)'
    BY <1>0, <2>0, <2>1, <2>2 DEF WakeState, WokenState, Queueing, Asleep
  <2> QED
    BY <2>10, <2>20, <2>21, <1>100
<1>29. ASSUME NEW t \in Threads, SetCancelState(t) PROVE WakeInv'
  <2>1. Silent
    BY <1>29 DEF SetCancelState, Silent
  <2>2. \A u \in Threads : WakeOnTheWay(u)' <=> WakeOnTheWay(u)
    BY <2>1, <1>101 DEF Silent
  <2>3. WakeTypes'
    BY <1>0, <1>29, <2>1 DEF SetCancelState, Calling, Silent, WakeTypes
  <2>4. Kept(t)
    BY <1>0, <1>29, <2>1, <2>2 DEF SetCancelState, Calling, Silent, Kept, WakeStep,
       WakeTypes, ShouldCancel
  <2>5. WakeState(t)'
    BY <1>0, <1>29, <2>1 DEF SetCancelState, Calling, Silent, WakeState, ThreadState,
       Queueing, Asleep
  <2>6. WokenState(t)'
    BY <1>0, <1>29, <2>1, <2>2 DEF SetCancelState, Calling, Silent, WakeState, WokenState,
       ThreadState,
       Queueing, Asleep, ShouldCancel, WakeTypes
  <2> QED
    BY <2>3, <2>4, <2>5, <2>6, <1>100
<1>30. ASSUME NEW t \in Threads, TestCancel(t) PROVE WakeInv'
  <2>1. Silent
    BY <1>30 DEF TestCancel, Silent
  <2>2. \A u \in Threads : WakeOnTheWay(u)' <=> WakeOnTheWay(u)
    BY <2>1, <1>101 DEF Silent
  <2>3. WakeTypes'
    BY <1>0, <1>30, <2>1 DEF TestCancel, ShouldCancel, Silent, WakeTypes
  <2>4. Kept(t)
    BY <1>0, <1>30, <2>1, <2>2 DEF TestCancel, ShouldCancel, Silent, Kept, WakeStep, WakeTypes
  <2>5. WakeState(t)'
    BY <1>0, <1>30, <2>1 DEF TestCancel, ShouldCancel, Silent, WakeState, ThreadState,
       Queueing, Asleep
  <2>6. WokenState(t)'
    BY <1>0, <1>30, <2>1, <2>2 DEF TestCancel, ShouldCancel, Silent, WakeState, WokenState,
       ThreadState,
       Queueing, Asleep, WakeTypes
  <2> QED
    BY <2>3, <2>4, <2>5, <2>6, <1>100
<1>31. ASSUME NEW t \in Threads, ExitThread(t) PROVE WakeInv'
  <2>1. Silent
    BY <1>31 DEF ExitThread, Silent
  <2>2. \A u \in Threads : WakeOnTheWay(u)' <=> WakeOnTheWay(u)
    BY <2>1, <1>101 DEF Silent
  <2>3. WakeTypes'
    BY <1>0, <1>31, <2>1 DEF ExitThread, Silent, WakeTypes
  <2>4. Kept(t)
    BY <1>0, <1>31, <2>1, <2>2 DEF ExitThread, Silent, Kept, WakeStep, WakeTypes, ShouldCancel
  <2>5. WakeState(t)'
    BY <1>0, <1>31, <2>1 DEF ExitThread, Silent, WakeState, ThreadState, Queueing, Asleep
  <2>6. WokenState(t)'
    BY <1>0, <1>31, <2>1, <2>2 DEF ExitThread, Silent, WakeState, WokenState, ThreadState,
       Queueing, Asleep, ShouldCancel, WakeTypes
  <2> QED
    BY <2>3, <2>4, <2>5, <2>6, <1>100
<1>32. CASE UNCHANGED vars
  BY <1>0, <1>32
  DEF vars, WakeInv, WakeTypes, WakeState, WokenState, WakeOnTheWay, ShouldCancel
<1> QED
  BY <1>1, <1>2, <1>3, <1>4, <1>5, <1>6, <1>7, <1>8, <1>9, <1>10, <1>11, <1>12, <1>13,
     <1>14, <1>15, <1>16, <1>17, <1>18, <1>19, <1>20, <1>21, <1>22, <1>23, <1>24, <1>25,
     <1>26, <1>27, <1>28, <1>29, <1>30, <1>31, <1>32
  DEF Next, Step, Expire, Call, Unlock

\* The wake-up invariant holds at the start and is an invariant of the
\* specification.
LEMMA WakeInvariant == Spec => []WakeInv
<1>1. Init => WakeInv
  BY ThreadsAssumption, EmptyRange
  DEF Init, WakeInv, WakeTypes, WakeState, WokenState, Queueing, Asleep
<1> QED
  BY <1>1, WakeNext, LockInvariant, QueueInvariant, PTL DEF Spec

\* No wake-up is lost, for any number of threads: ClearWake, stale posts,
\* time-outs, the deferred waiters and the flush of a full list never leave a
\* thread asleep that was taken off its queue and has no post coming.
THEOREM NoLostWakeupHolds == Spec => []NoLostWakeup
<1>1. WakeInv => NoLostWakeup
  BY DEF WakeInv, WokenState, NoLostWakeup
<1> QED
  BY WakeInvariant, <1>1, PTL

\* No cancellation is lost: a thread that posix_pthread_cancel finds on its way
\* into Sleep or asleep has a post coming.
THEOREM NoLostCancelHolds == Spec => []NoLostCancel
<1>1. WakeInv => NoLostCancel
  BY DEF WakeInv, WokenState, NoLostCancel
<1> QED
  BY WakeInvariant, <1>1, PTL

\* A wait returns 0 exactly if a signal took the thread off the queue, whatever
\* time-out or cancellation raced with it.
THEOREM SignalDecidesOutcomeHolds == Spec => []SignalDecidesOutcome
<1>1. WakeInv => SignalDecidesOutcome
  BY DEF WakeInv, WokenState, SignalDecidesOutcome
<1> QED
  BY WakeInvariant, <1>1, PTL

-----------------------------------------------------------------------------
(***************************************************************************)
(* Types.                                                                  *)
(***************************************************************************)

\* The flags no other invariant speaks of.
FlagTypes ==
    /\ timed \in [Threads -> BOOLEAN]
    /\ first_sleep \in [Threads -> BOOLEAN]
    /\ deferred \in [Threads -> BOOLEAN]
    /\ will_sleep \in [Threads -> BOOLEAN]
    /\ cancel_pending \in [Threads -> BOOLEAN]
    /\ cancel_enable \in [Threads -> BOOLEAN]
    /\ cancelling \in [Threads -> BOOLEAN]

\* Every step keeps the flags' types.
LEMMA FlagNext == LockInv /\ FlagTypes /\ [Next]_vars => FlagTypes'
<1> SUFFICES ASSUME LockInv, FlagTypes, [Next]_vars PROVE FlagTypes'
  OBVIOUS
<1> USE DEF FlagTypes, frameVars, cancelVars, condVars, historyVars
<1>1. ASSUME NEW t \in Threads, NEW m \in Mutexes, LockEnter(t, m) PROVE FlagTypes'
  BY <1>1 DEF LockEnter, Calling
<1>2. ASSUME NEW t \in Threads, NEW m \in Mutexes, LockSelf(t, m) PROVE FlagTypes'
  BY <1>2 DEF LockSelf, Calling
<1>3. ASSUME NEW t \in Threads, LockHost(t) PROVE FlagTypes'
  BY <1>3 DEF LockHost
<1>4. ASSUME NEW t \in Threads, LockTimeout(t) PROVE FlagTypes'
  BY <1>4 DEF LockTimeout
<1>5. ASSUME NEW t \in Threads, LockOwner(t) PROVE FlagTypes'
  BY <1>5 DEF LockOwner, ShouldCancel
<1>6. ASSUME NEW t \in Threads, NEW m \in Mutexes, UnlockLevel(t, m) PROVE FlagTypes'
  BY <1>6 DEF UnlockLevel
<1>7. ASSUME NEW t \in Threads, NEW m \in Mutexes, UnlockOwner(t, m) PROVE FlagTypes'
  BY <1>7 DEF UnlockOwner, LockInv, LockTypes, MutexTypeOK
<1>8. ASSUME NEW t \in Threads, UnlockHost(t) PROVE FlagTypes'
  BY <1>8 DEF UnlockHost
<1>9. ASSUME NEW t \in Threads, WakeAll(t) PROVE FlagTypes'
  BY <1>9 DEF WakeAll
<1>10. ASSUME NEW t \in Threads, NEW c \in Conds, NEW m \in Mutexes, WaitEnter(t, c, m) PROVE FlagTypes'
  BY <1>10 DEF WaitEnter, Calling
<1>11. ASSUME NEW t \in Threads, WaitLock(t) PROVE FlagTypes'
  BY <1>11 DEF WaitLock
<1>12. ASSUME NEW t \in Threads, WaitEnqueue(t) PROVE FlagTypes'
  BY <1>12 DEF WaitEnqueue
<1>13. ASSUME NEW t \in Threads, WaitClear(t) PROVE FlagTypes'
  BY <1>13 DEF WaitClear
<1>14. ASSUME NEW t \in Threads, WaitArm(t) PROVE FlagTypes'
  BY <1>14 DEF WaitArm
<1>15. ASSUME NEW t \in Threads, WaitDeadline(t) PROVE FlagTypes'
  BY <1>15 DEF WaitDeadline
<1>16. ASSUME NEW t \in Threads, SleepFlush(t) PROVE FlagTypes'
  BY <1>16 DEF SleepFlush
<1>17. ASSUME NEW t \in Threads, SleepAcquire(t) PROVE FlagTypes'
  BY <1>17 DEF SleepAcquire
<1>18. ASSUME NEW t \in Threads, SleepTimeout(t) PROVE FlagTypes'
  BY <1>18 DEF SleepTimeout
<1>19. ASSUME NEW t \in Threads, WaitSignalled(t) PROVE FlagTypes'
  BY <1>19 DEF WaitSignalled
<1>20. ASSUME NEW t \in Threads, WaitCancelled(t) PROVE FlagTypes'
  BY <1>20 DEF WaitCancelled, LeaveQueue
<1>21. ASSUME NEW t \in Threads, WaitTimedOut(t) PROVE FlagTypes'
  BY <1>21 DEF WaitTimedOut, LeaveQueue
<1>22. ASSUME NEW t \in Threads, WaitSpurious(t) PROVE FlagTypes'
  BY <1>22 DEF WaitSpurious
<1>23. ASSUME NEW t \in Threads, NEW c \in Conds, Signal(t, c) PROVE FlagTypes'
  BY <1>23 DEF Signal
<1>24. ASSUME NEW t \in Threads, NEW c \in Conds, BroadcastEnter(t, c) PROVE FlagTypes'
  BY <1>24 DEF BroadcastEnter
<1>25. ASSUME NEW t \in Threads, BroadcastNext(t) PROVE FlagTypes'
  BY <1>25 DEF BroadcastNext
<1>26. ASSUME NEW t \in Threads, BroadcastUnlock(t) PROVE FlagTypes'
  BY <1>26 DEF BroadcastUnlock
<1>27. ASSUME NEW t \in Threads, Release(t) PROVE FlagTypes'
  BY <1>27 DEF Release
<1>28. ASSUME NEW t \in Threads, NEW td \in Threads, Cancel(t, td) PROVE FlagTypes'
  BY <1>28 DEF Cancel
<1>29. ASSUME NEW t \in Threads, SetCancelState(t) PROVE FlagTypes'
  BY <1>29 DEF SetCancelState
<1>30. ASSUME NEW t \in Threads, TestCancel(t) PROVE FlagTypes'
  BY <1>30 DEF TestCancel
<1>31. ASSUME NEW t \in Threads, ExitThread(t) PROVE FlagTypes'
  BY <1>31 DEF ExitThread
<1>32. CASE UNCHANGED vars
  BY <1>32 DEF vars
<1> HIDE DEF FlagTypes
<1> QED
  BY <1>1, <1>2, <1>3, <1>4, <1>5, <1>6, <1>7, <1>8, <1>9, <1>10, <1>11, <1>12, <1>13,
     <1>14, <1>15, <1>16, <1>17, <1>18, <1>19, <1>20, <1>21, <1>22, <1>23, <1>24, <1>25,
     <1>26, <1>27, <1>28, <1>29, <1>30, <1>31, <1>32
  DEF Next, Step, Expire, Call, Unlock

\* Every variable keeps its type: the counters never go below zero, the post of
\* a full list included, and a queue object or a list element is always a
\* thread.
THEOREM TypeCorrect == Spec => []TypeOK
<1>1. Init => FlagTypes
  BY DEF Init, FlagTypes
<1>2. LockInv /\ QueueInv /\ WakeInv /\ FlagTypes => TypeOK
  BY DEF LockInv, LockTypes, QueueInv, QueueTypes, WakeInv, WakeTypes, FlagTypes,
     TypeOK
<1> QED
  BY <1>1, <1>2, FlagNext, LockInvariant, QueueInvariant, WakeInvariant, PTL
  DEF Spec

-----------------------------------------------------------------------------
(***************************************************************************)
(* The deferred waiters.                                                   *)
(***************************************************************************)

\* No thread of the guest calls posix_pthread_cancel.  (With it a cancelled
\* wait skips Sleep, and the waiters it had deferred stay on its list.)
NobodyCancels == \A t \in Threads : "cancel" \notin Program[t]

\* Somebody will post what s has deferred.
WillPost(s) ==
    \/ \E m \in Mutexes : m_owner[m] = s /\ m_deferred[m]
    \/ pc[s] = "unlock_host" /\ deferred[s]
    \/ pc[s] \in {"wake_all", "wait_unlock", "wait_clear", "wait_arm", "flush"}

\* Sleep empties the list before a wait sleeps for the first time, and nothing
\* is added to it inside the wait; will_sleep is set only on the way there.
DeferState(t) ==
    /\ ~cancel_pending[t]
    /\ pc[t] \in Queueing /\ ~first_sleep[t] => defer_waiters[t] = <<>>
    /\ pc[t] \in {"sleeping", "wait_wake"} => ~first_sleep[t]
    /\ pc[t] \in {"wait_lock", "wait_unlock"} => first_sleep[t]
    /\ will_sleep[t] =>
          pc[t] \in {"wait_unlock"} \cup Queueing /\ first_sleep[t]
    /\ defer_waiters[t] # <<>> => WillPost(t)

DeferInv == \A t \in Threads : DeferState(t)

\* A step of t that leaves the lists, flags and mutexes of the other threads
\* alone keeps the invariant if it keeps it for t.
LEMMA DeferFrame ==
    ASSUME DeferInv, NEW t \in Threads, DeferState(t)',
           \A u \in Threads \ {t} :
               /\ pc'[u] = pc[u] /\ first_sleep'[u] = first_sleep[u]
               /\ will_sleep'[u] = will_sleep[u] /\ deferred'[u] = deferred[u]
               /\ cancel_pending'[u] = cancel_pending[u]
               /\ defer_waiters'[u] = defer_waiters[u],
           \A u \in Threads \ {t}, m \in Mutexes :
               m_owner[m] = u /\ m_deferred[m] => m_owner'[m] = u /\ m_deferred'[m]
    PROVE  DeferInv'
<1>1. ASSUME NEW u \in Threads \ {t} PROVE DeferState(u)'
  <2>1. DeferState(u)
    BY DEF DeferInv
  <2>2. WillPost(u) => WillPost(u)'
    BY DEF WillPost
  <2> QED
    BY <2>1, <2>2 DEF DeferState
<1> QED
  BY <1>1 DEF DeferInv

\* What Wake does to the list of the caller: a waiter it adds belongs to a mutex
\* the caller owns, which is then marked.
LEMMA WakeDefers ==
    ASSUME LockTypes, WakeTypes, NEW t \in Threads, NEW td \in Threads, Wake(t, td)
    PROVE  /\ m_owner' = m_owner
           /\ \A m \in Mutexes : m_deferred[m] => m_deferred'[m]
           /\ \A u \in Threads \ {t} : defer_waiters'[u] = defer_waiters[u]
           /\ \/ defer_waiters'[t] = defer_waiters[t]
              \/ \E m \in Mutexes : m_owner'[m] = t /\ m_deferred'[m]
<1> USE MutexAssumption
<1>1. CASE Deferrable(t, td)
  <2>1. /\ m_owner' = m_owner
        /\ m_deferred' = [m_deferred EXCEPT ![mutex_obj[td]] = TRUE]
        /\ \E l : defer_waiters' = [defer_waiters EXCEPT ![t] = l]
    BY <1>1 DEF Wake, Defer
  <2>2. mutex_obj[td] \in Mutexes /\ m_owner[mutex_obj[td]] = t
    BY <1>1 DEF Deferrable, WakeTypes
  <2> QED
    BY <2>1, <2>2 DEF LockTypes, MutexTypeOK, WakeTypes
<1>2. CASE ~Deferrable(t, td)
  BY <1>2 DEF Wake, PostLater, mutexVars
<1> QED
  BY <1>1, <1>2

\* Every step keeps it that deferred waiters will be posted.
LEMMA DeferNext ==
    ASSUME NobodyCancels
    PROVE  LockInv /\ QueueInv /\ WakeInv /\ FlagTypes /\ DeferInv /\ [Next]_vars
           => DeferInv'
<1> SUFFICES ASSUME LockInv, QueueInv, WakeInv, FlagTypes, DeferInv, [Next]_vars
             PROVE  DeferInv'
  OBVIOUS
<1> USE ThreadsAssumption, MutexAssumption
<1>0. /\ WakeTypes /\ LockTypes
      /\ pc \in [Threads -> PCs] /\ defer_waiters \in [Threads -> Seq(Threads)]
      /\ m_owner \in [Mutexes -> Threads \cup {None}]
      /\ m_deferred \in [Mutexes -> BOOLEAN]
      /\ \A t \in Threads : DeferState(t) /\ WakeState(t)
  BY DEF WakeInv, WakeTypes, LockInv, LockTypes, MutexTypeOK, DeferInv
<1> DEFINE Others(t) ==
      /\ \A u \in Threads \ {t} :
            /\ pc'[u] = pc[u] /\ first_sleep'[u] = first_sleep[u]
            /\ will_sleep'[u] = will_sleep[u] /\ deferred'[u] = deferred[u]
            /\ cancel_pending'[u] = cancel_pending[u]
            /\ defer_waiters'[u] = defer_waiters[u]
      /\ \A u \in Threads \ {t}, m \in Mutexes :
            m_owner[m] = u /\ m_deferred[m] => m_owner'[m] = u /\ m_deferred'[m]
<1>100. ASSUME NEW t \in Threads, Others(t), DeferState(t)' PROVE DeferInv'
  BY <1>100, DeferFrame
<1> USE DEF GoTo, mutexVars, frameVars, wakeVars, cancelVars, condVars,
            historyVars
<1>1. ASSUME NEW t \in Threads, NEW m \in Mutexes, LockEnter(t, m) PROVE DeferInv'
  <2>1. Others(t)
    BY <1>0, <1>1 DEF LockEnter, Calling, FlagTypes, Owns
  <2>2. DeferState(t)'
    BY <1>0, <1>1 DEF LockEnter, Calling, FlagTypes, Owns, DeferState, WillPost, Queueing,
       Asleep
  <2> QED
    BY <2>1, <2>2, <1>100
<1>2. ASSUME NEW t \in Threads, NEW m \in Mutexes, LockSelf(t, m) PROVE DeferInv'
  <2>1. Others(t)
    BY <1>0, <1>2 DEF LockSelf, SelfLock, Calling, FlagTypes, Owns
  <2>2. DeferState(t)'
    BY <1>0, <1>2 DEF LockSelf, SelfLock, Calling, FlagTypes, Owns, DeferState, WillPost,
       Queueing, Asleep
  <2> QED
    BY <2>1, <2>2, <1>100
<1>3. ASSUME NEW t \in Threads, LockHost(t) PROVE DeferInv'
  <2>1. Others(t)
    BY <1>0, <1>3 DEF LockHost, HostLock, FlagTypes, Owns
  <2>2. DeferState(t)'
    BY <1>0, <1>3 DEF LockHost, HostLock, FlagTypes, Owns, DeferState, WillPost, Queueing,
       Asleep
  <2> QED
    BY <2>1, <2>2, <1>100
<1>4. ASSUME NEW t \in Threads, LockTimeout(t) PROVE DeferInv'
  <2>1. Others(t)
    BY <1>0, <1>4 DEF LockTimeout, FlagTypes, Owns
  <2>2. DeferState(t)'
    BY <1>0, <1>4 DEF LockTimeout, FlagTypes, Owns, DeferState, WillPost, Queueing, Asleep
  <2> QED
    BY <2>1, <2>2, <1>100
<1>5. ASSUME NEW t \in Threads, LockOwner(t) PROVE DeferInv'
  <2>0. mutexArg[t] \in Mutexes /\ m_owner[mutexArg[t]] = None
    <3>1. mutexArg[t] \in Mutexes
      BY <1>5, ArgIsMutex DEF LockOwner, OutsideMutexCalls
    <3>2. LockState(t, mutexArg[t])
      BY <3>1 DEF LockInv
    <3> QED
      BY <1>5, <3>1, <3>2 DEF LockOwner, LockState, HalfLocked
  <2>3. /\ m_owner' = [m_owner EXCEPT ![mutexArg[t]] = t]
        /\ pc[t] = "lock_owner" /\ pc' = [pc EXCEPT ![t] = "run"]
        /\ UNCHANGED <<first_sleep, will_sleep, deferred, cancel_pending,
                       defer_waiters, m_deferred>>
    BY <1>5 DEF LockOwner, StoreOwner
  <2>1. Others(t)
    BY <1>0, <2>0, <2>3
  <2>4. \A m \in Mutexes : m_owner[m] = t => m_owner'[m] = t
    BY <1>0, <2>3
  <2>2. DeferState(t)'
    BY <1>0, <2>3, <2>4 DEF DeferState, WillPost, Queueing, Asleep
  <2> QED
    BY <2>1, <2>2, <1>100
<1>6. ASSUME NEW t \in Threads, NEW m \in Mutexes, UnlockLevel(t, m) PROVE DeferInv'
  <2>1. Others(t)
    BY <1>0, <1>6 DEF UnlockLevel, UnlockCount, FlagTypes, Owns
  <2>2. DeferState(t)'
    BY <1>0, <1>6 DEF UnlockLevel, UnlockCount, FlagTypes, Owns, DeferState, WillPost,
       Queueing, Asleep
  <2> QED
    BY <2>1, <2>2, <1>100
<1>7. ASSUME NEW t \in Threads, NEW m \in Mutexes, UnlockOwner(t, m) PROVE DeferInv'
  <2>1. Others(t)
    BY <1>0, <1>7 DEF UnlockOwner, ClearOwner, FlagTypes, Owns
  <2>2. DeferState(t)'
    BY <1>0, <1>7 DEF UnlockOwner, ClearOwner, FlagTypes, Owns, DeferState, WillPost,
       Queueing, Asleep
  <2> QED
    BY <2>1, <2>2, <1>100
<1>8. ASSUME NEW t \in Threads, UnlockHost(t) PROVE DeferInv'
  <2>1. Others(t)
    BY <1>0, <1>8 DEF UnlockHost, HostUnlock, UnlockWakes, FlagTypes, Owns
  <2>2. DeferState(t)'
    BY <1>0, <1>8 DEF UnlockHost, HostUnlock, UnlockWakes, FlagTypes, Owns, DeferState,
       WillPost, Queueing, Asleep
  <2> QED
    BY <2>1, <2>2, <1>100
<1>9. ASSUME NEW t \in Threads, WakeAll(t) PROVE DeferInv'
  <2>0. /\ pc[t] = "wake_all" /\ defer_waiters[t] # <<>>
        /\ defer_waiters' = [defer_waiters EXCEPT ![t] = Tail(defer_waiters[t])]
    BY <1>0, <1>9 DEF WakeAll, PostDeferred, WakeState
  <2>1. Others(t)
    BY <1>0, <1>9, <2>0 DEF WakeAll, FlagTypes
  <2>3. Len(defer_waiters[t]) = 1 => defer_waiters'[t] = <<>>
    <3>1. /\ Tail(defer_waiters[t]) \in Seq(Threads)
          /\ Len(Tail(defer_waiters[t])) = Len(defer_waiters[t]) - 1
      BY <1>0, <2>0, TailRange
    <3>2. defer_waiters'[t] = Tail(defer_waiters[t])
      BY <1>0, <2>0
    <3>3. Len(defer_waiters[t]) = 1 => Len(defer_waiters'[t]) = 0
      BY <3>1, <3>2
    <3> QED
      BY <3>1, <3>2, <3>3, EmptySeq
  <2>4. pc'[t] = IF Len(defer_waiters[t]) = 1 THEN "run" ELSE "wake_all"
    BY <1>0, <1>9 DEF WakeAll
  <2>5. UNCHANGED <<first_sleep, will_sleep, cancel_pending>>
    BY <1>9 DEF WakeAll
  <2>2. DeferState(t)'
    BY <1>0, <2>0, <2>3, <2>4, <2>5 DEF DeferState, WillPost, Queueing, Asleep
  <2> QED
    BY <2>1, <2>2, <1>100
<1>10. ASSUME NEW t \in Threads, NEW c \in Conds, NEW m \in Mutexes, WaitEnter(t, c, m) PROVE DeferInv'
  <2>1. Others(t)
    BY <1>0, <1>10 DEF WaitEnter, Calling, FlagTypes, Owns
  <2>2. DeferState(t)'
    BY <1>0, <1>10 DEF WaitEnter, Calling, FlagTypes, Owns, DeferState, WillPost, Queueing,
       Asleep
  <2> QED
    BY <2>1, <2>2, <1>100
<1>11. ASSUME NEW t \in Threads, WaitLock(t) PROVE DeferInv'
  <2>0. mutexArg[t] \in Mutexes /\ m_owner[mutexArg[t]] = t
    <3>1. mutexArg[t] \in Mutexes
      BY <1>11, ArgIsMutex DEF WaitLock, OutsideMutexCalls
    <3>2. LockState(t, mutexArg[t])
      BY <3>1 DEF LockInv
    <3> QED
      BY <1>11, <3>1, <3>2 DEF WaitLock, LockState
  <2>1. Others(t)
    BY <1>0, <1>11, <2>0 DEF WaitLock, ClearOwner, FlagTypes
  <2>2. DeferState(t)'
    BY <1>0, <1>11 DEF WaitLock, ClearOwner, FlagTypes, Owns, DeferState, WillPost,
       Queueing, Asleep
  <2> QED
    BY <2>1, <2>2, <1>100
<1>12. ASSUME NEW t \in Threads, WaitEnqueue(t) PROVE DeferInv'
  <2>1. Others(t)
    BY <1>0, <1>12 DEF WaitEnqueue, HostUnlock, FlagTypes, Owns
  <2>2. DeferState(t)'
    BY <1>0, <1>12 DEF WaitEnqueue, HostUnlock, FlagTypes, Owns, DeferState, WillPost,
       Queueing, Asleep
  <2> QED
    BY <2>1, <2>2, <1>100
<1>13. ASSUME NEW t \in Threads, WaitClear(t) PROVE DeferInv'
  <2>1. Others(t)
    BY <1>0, <1>13 DEF WaitClear, FlagTypes, Owns
  <2>2. DeferState(t)'
    BY <1>0, <1>13 DEF WaitClear, FlagTypes, Owns, DeferState, WillPost, Queueing, Asleep
  <2> QED
    BY <2>1, <2>2, <1>100
<1>14. ASSUME NEW t \in Threads, WaitArm(t) PROVE DeferInv'
  <2>1. Others(t)
    BY <1>0, <1>14 DEF WaitArm, SkipSleep, ShouldCancel, FlagTypes, Owns
  <2>2. DeferState(t)'
    BY <1>0, <1>14 DEF WaitArm, SkipSleep, ShouldCancel, FlagTypes, Owns, DeferState,
       WillPost, Queueing, Asleep
  <2> QED
    BY <2>1, <2>2, <1>100
<1>15. ASSUME NEW t \in Threads, WaitDeadline(t) PROVE DeferInv'
  <2>1. Others(t)
    BY <1>0, <1>15 DEF WaitDeadline, FlagTypes, Owns
  <2>2. DeferState(t)'
    BY <1>0, <1>15 DEF WaitDeadline, FlagTypes, Owns, DeferState, WillPost, Queueing, Asleep
  <2> QED
    BY <2>1, <2>2, <1>100
<1>16. ASSUME NEW t \in Threads, SleepFlush(t) PROVE DeferInv'
  <2>0. /\ pc[t] = "flush" /\ will_sleep' = [will_sleep EXCEPT ![t] = FALSE]
        /\ UNCHANGED <<m_owner, m_deferred, deferred, cancel_pending>>
        /\ \/ /\ defer_waiters' = [defer_waiters EXCEPT ![t] = Tail(defer_waiters[t])]
              /\ defer_waiters[t] # <<>> /\ UNCHANGED <<pc, first_sleep>>
           \/ /\ defer_waiters' = defer_waiters /\ defer_waiters[t] = <<>>
              /\ first_sleep' = [first_sleep EXCEPT ![t] = FALSE]
              /\ pc' = [pc EXCEPT ![t] = "sleeping"]
    BY <1>16 DEF SleepFlush, PostDeferred
  <2>1. Others(t)
    BY <1>0, <2>0 DEF FlagTypes
  <2>3. will_sleep'[t] = FALSE
    BY <2>0 DEF FlagTypes
  <2>2. DeferState(t)'
    <3>1. CASE UNCHANGED <<pc, first_sleep>> /\ defer_waiters[t] # <<>>
      BY <1>0, <2>0, <2>3, <3>1 DEF DeferState, WillPost, Queueing, Asleep
    <3>2. CASE /\ defer_waiters' = defer_waiters /\ defer_waiters[t] = <<>>
               /\ first_sleep' = [first_sleep EXCEPT ![t] = FALSE]
               /\ pc' = [pc EXCEPT ![t] = "sleeping"]
      <4>1. pc'[t] = "sleeping" /\ ~first_sleep'[t] /\ defer_waiters'[t] = <<>>
        BY <1>0, <3>2 DEF FlagTypes
      <4> QED
        BY <1>0, <2>0, <2>3, <4>1 DEF DeferState
    <3> QED
      BY <2>0, <3>1, <3>2
  <2> QED
    BY <2>1, <2>2, <1>100
<1>17. ASSUME NEW t \in Threads, SleepAcquire(t) PROVE DeferInv'
  <2>1. Others(t)
    BY <1>0, <1>17 DEF SleepAcquire, FlagTypes, Owns
  <2>2. DeferState(t)'
    BY <1>0, <1>17 DEF SleepAcquire, FlagTypes, Owns, DeferState, WillPost, Queueing, Asleep
  <2> QED
    BY <2>1, <2>2, <1>100
<1>18. ASSUME NEW t \in Threads, SleepTimeout(t) PROVE DeferInv'
  <2>1. Others(t)
    BY <1>0, <1>18 DEF SleepTimeout, FlagTypes, Owns
  <2>2. DeferState(t)'
    BY <1>0, <1>18 DEF SleepTimeout, FlagTypes, Owns, DeferState, WillPost, Queueing, Asleep
  <2> QED
    BY <2>1, <2>2, <1>100
<1>19. ASSUME NEW t \in Threads, WaitSignalled(t) PROVE DeferInv'
  <2>1. Others(t)
    BY <1>0, <1>19 DEF WaitSignalled, FlagTypes, Owns
  <2>2. DeferState(t)'
    BY <1>0, <1>19 DEF WaitSignalled, FlagTypes, Owns, DeferState, WillPost, Queueing, Asleep
  <2> QED
    BY <2>1, <2>2, <1>100
<1>20. ASSUME NEW t \in Threads, WaitCancelled(t) PROVE DeferInv'
  <2>1. Others(t)
    BY <1>0, <1>20 DEF WaitCancelled, LeaveQueue, FlagTypes, Owns
  <2>2. DeferState(t)'
    BY <1>0, <1>20 DEF WaitCancelled, LeaveQueue, FlagTypes, Owns, DeferState, WillPost,
       Queueing, Asleep
  <2> QED
    BY <2>1, <2>2, <1>100
<1>21. ASSUME NEW t \in Threads, WaitTimedOut(t) PROVE DeferInv'
  <2>1. Others(t)
    BY <1>0, <1>21 DEF WaitTimedOut, LeaveQueue, FlagTypes, Owns
  <2>2. DeferState(t)'
    BY <1>0, <1>21 DEF WaitTimedOut, LeaveQueue, FlagTypes, Owns, DeferState, WillPost,
       Queueing, Asleep
  <2> QED
    BY <2>1, <2>2, <1>100
<1>22. ASSUME NEW t \in Threads, WaitSpurious(t) PROVE DeferInv'
  <2>1. Others(t)
    BY <1>0, <1>22 DEF WaitSpurious, FlagTypes, Owns
  <2>2. DeferState(t)'
    BY <1>0, <1>22 DEF WaitSpurious, FlagTypes, Owns, DeferState, WillPost, Queueing, Asleep
  <2> QED
    BY <2>1, <2>2, <1>100
<1>23. ASSUME NEW t \in Threads, NEW c \in Conds, Signal(t, c) PROVE DeferInv'
  <2>3. PICK i \in DOMAIN sq_blocked[sc_queues[c]] :
             /\ Wake(t, sq_blocked[sc_queues[c]][i])
             /\ \E l \in {"run", "release"} : GoTo(t, l)
    BY <1>23 DEF Signal
  <2> DEFINE td == sq_blocked[sc_queues[c]][i]
  <2>4. td \in Threads
    <3>1. sc_queues[c] \in Threads
      BY <1>23 DEF Signal, QueueInv, QueueTypes, SleepQueueTypeOK
    <3>2. td \in Range(sq_blocked[sc_queues[c]])
      BY DEF Range
    <3> QED
      BY <3>1, <3>2, ListTypes
  <2>5. Wake(t, td)
    BY <2>3
  <2>6. pc[t] = "run" /\ pc'[t] \in {"run", "release"} /\ \A u \in Threads \ {t} : pc'[u] = pc[u]
    BY <1>0, <1>23, <2>3 DEF Signal
  <2> HIDE DEF td
  <2>7. /\ m_owner' = m_owner
        /\ \A m \in Mutexes : m_deferred[m] => m_deferred'[m]
        /\ \A u \in Threads \ {t} : defer_waiters'[u] = defer_waiters[u]
        /\ \/ defer_waiters'[t] = defer_waiters[t]
           \/ \E m \in Mutexes : m_owner'[m] = t /\ m_deferred'[m]
    BY <1>0, <2>4, <2>5, WakeDefers
  <2>8. UNCHANGED <<first_sleep, will_sleep, deferred, cancel_pending>>
    BY <1>23 DEF Signal
  <2>1. Others(t)
    BY <2>6, <2>7, <2>8
  <2>9. DeferState(t)
    BY <1>0
  <2>10. defer_waiters'[t] # <<>> => WillPost(t)'
    BY <2>6, <2>7, <2>9 DEF DeferState, WillPost
  <2>2. DeferState(t)'
    BY <2>6, <2>8, <2>9, <2>10 DEF DeferState, Queueing, Asleep
  <2> QED
    BY <2>1, <2>2, <1>100
<1>24. ASSUME NEW t \in Threads, NEW c \in Conds, BroadcastEnter(t, c) PROVE DeferInv'
  <2> DEFINE td == Head(sq_blocked[sc_queues[c]])
  <2>4. td \in Threads
    <3>1. sc_queues[c] \in Threads /\ LinkState(c)
      BY <1>24 DEF BroadcastEnter, QueueInv, QueueTypes, SleepQueueTypeOK
    <3>2. sq_blocked[sc_queues[c]] # <<>> /\ sq_blocked[sc_queues[c]] \in Seq(Threads)
      BY <3>1, ListTypes, EmptyRange DEF LinkState
    <3> QED
      BY <3>2, TailRange
  <2>5. Wake(t, td)
    BY <1>24 DEF BroadcastEnter
  <2>6. pc[t] \in {"run", "drop"} /\ pc'[t] = "drop" /\ \A u \in Threads \ {t} : pc'[u] = pc[u]
    BY <1>0, <1>24 DEF BroadcastEnter, Calling
  <2> HIDE DEF td
  <2>7. /\ m_owner' = m_owner
        /\ \A m \in Mutexes : m_deferred[m] => m_deferred'[m]
        /\ \A u \in Threads \ {t} : defer_waiters'[u] = defer_waiters[u]
        /\ \/ defer_waiters'[t] = defer_waiters[t]
           \/ \E m \in Mutexes : m_owner'[m] = t /\ m_deferred'[m]
    BY <1>0, <2>4, <2>5, WakeDefers
  <2>8. UNCHANGED <<first_sleep, will_sleep, deferred, cancel_pending>>
    BY <1>24 DEF BroadcastEnter
  <2>1. Others(t)
    BY <2>6, <2>7, <2>8
  <2>9. DeferState(t)
    BY <1>0
  <2>10. defer_waiters'[t] # <<>> => WillPost(t)'
    BY <2>6, <2>7, <2>9 DEF DeferState, WillPost
  <2>2. DeferState(t)'
    BY <2>6, <2>8, <2>9, <2>10 DEF DeferState, Queueing, Asleep
  <2> QED
    BY <2>1, <2>2, <1>100
<1>25. ASSUME NEW t \in Threads, BroadcastNext(t) PROVE DeferInv'
  <2> DEFINE td == Head(sq_blocked[sqArg[t]])
  <2>4. td \in Threads
    <3>1. sqArg[t] \in Threads
      BY <1>25 DEF BroadcastNext, QueueInv, DropState
    <3>2. sq_blocked[sqArg[t]] # <<>> /\ sq_blocked[sqArg[t]] \in Seq(Threads)
      BY <1>25, <3>1, ListTypes DEF BroadcastNext
    <3> QED
      BY <3>2, TailRange
  <2>5. Wake(t, td)
    BY <1>25 DEF BroadcastNext
  <2>6. pc[t] \in {"run", "drop"} /\ pc'[t] = "drop" /\ \A u \in Threads \ {t} : pc'[u] = pc[u]
    BY <1>0, <1>25 DEF BroadcastNext, Calling
  <2> HIDE DEF td
  <2>7. /\ m_owner' = m_owner
        /\ \A m \in Mutexes : m_deferred[m] => m_deferred'[m]
        /\ \A u \in Threads \ {t} : defer_waiters'[u] = defer_waiters[u]
        /\ \/ defer_waiters'[t] = defer_waiters[t]
           \/ \E m \in Mutexes : m_owner'[m] = t /\ m_deferred'[m]
    BY <1>0, <2>4, <2>5, WakeDefers
  <2>8. UNCHANGED <<first_sleep, will_sleep, deferred, cancel_pending>>
    BY <1>25 DEF BroadcastNext
  <2>1. Others(t)
    BY <2>6, <2>7, <2>8
  <2>9. DeferState(t)
    BY <1>0
  <2>10. defer_waiters'[t] # <<>> => WillPost(t)'
    BY <2>6, <2>7, <2>9 DEF DeferState, WillPost
  <2>2. DeferState(t)'
    BY <2>6, <2>8, <2>9, <2>10 DEF DeferState, Queueing, Asleep
  <2> QED
    BY <2>1, <2>2, <1>100
<1>26. ASSUME NEW t \in Threads, BroadcastUnlock(t) PROVE DeferInv'
  <2>1. Others(t)
    BY <1>0, <1>26 DEF BroadcastUnlock, FlagTypes, Owns
  <2>2. DeferState(t)'
    BY <1>0, <1>26 DEF BroadcastUnlock, FlagTypes, Owns, DeferState, WillPost, Queueing, Asleep
  <2> QED
    BY <2>1, <2>2, <1>100
<1>27. ASSUME NEW t \in Threads, Release(t) PROVE DeferInv'
  <2>1. Others(t)
    BY <1>0, <1>27 DEF Release, FlagTypes, Owns
  <2>2. DeferState(t)'
    BY <1>0, <1>27 DEF Release, FlagTypes, Owns, DeferState, WillPost, Queueing, Asleep
  <2> QED
    BY <2>1, <2>2, <1>100
<1>28. ASSUME NEW t \in Threads, NEW td \in Threads, Cancel(t, td) PROVE DeferInv'
  BY <1>28 DEF Cancel, Calling, NobodyCancels
<1>29. ASSUME NEW t \in Threads, SetCancelState(t) PROVE DeferInv'
  <2>1. Others(t)
    BY <1>0, <1>29 DEF SetCancelState, Calling, FlagTypes, Owns
  <2>2. DeferState(t)'
    BY <1>0, <1>29 DEF SetCancelState, Calling, FlagTypes, Owns, DeferState, WillPost,
       Queueing, Asleep
  <2> QED
    BY <2>1, <2>2, <1>100
<1>30. ASSUME NEW t \in Threads, TestCancel(t) PROVE DeferInv'
  <2>1. Others(t)
    BY <1>0, <1>30 DEF TestCancel, FlagTypes, Owns
  <2>2. DeferState(t)'
    BY <1>0, <1>30 DEF TestCancel, FlagTypes, Owns, DeferState, WillPost, Queueing, Asleep
  <2> QED
    BY <2>1, <2>2, <1>100
<1>31. ASSUME NEW t \in Threads, ExitThread(t) PROVE DeferInv'
  <2>1. Others(t)
    BY <1>0, <1>31 DEF ExitThread, FlagTypes, Owns
  <2>2. DeferState(t)'
    BY <1>0, <1>31 DEF ExitThread, FlagTypes, Owns, DeferState, WillPost, Queueing, Asleep
  <2> QED
    BY <2>1, <2>2, <1>100
<1>32. CASE UNCHANGED vars
  BY <1>0, <1>32 DEF vars, DeferInv, DeferState, WillPost
<1> QED
  BY <1>1, <1>2, <1>3, <1>4, <1>5, <1>6, <1>7, <1>8, <1>9, <1>10, <1>11, <1>12, <1>13,
     <1>14, <1>15, <1>16, <1>17, <1>18, <1>19, <1>20, <1>21, <1>22, <1>23, <1>24, <1>25,
     <1>26, <1>27, <1>28, <1>29, <1>30, <1>31, <1>32
  DEF Next, Step, Expire, Call, Unlock

\* As long as nobody is cancelled, whoever has deferred the post of a waiter will
\* make it: it owns a mutex marked Deferred, is unlocking one, or is on its way
\* into Sleep.  The hypothesis is needed: with cancellation TLC finds the list
\* that nobody posts.
THEOREM DeferredWillBePostedHolds ==
    NobodyCancels => (Spec => []DeferredWillBePosted)
<1> SUFFICES ASSUME NobodyCancels PROVE Spec => []DeferredWillBePosted
  OBVIOUS
<1>1. Init => FlagTypes /\ DeferInv
  BY DEF Init, FlagTypes, DeferInv, DeferState, Queueing, Asleep
<1>2. LockInv /\ QueueInv /\ WakeInv /\ FlagTypes /\ DeferInv /\ [Next]_vars
      => DeferInv'
  BY DeferNext
<1>3. DeferInv => DeferredWillBePosted
  BY DEF DeferInv, DeferState, WillPost, DeferredWillBePosted, Owns
<1> QED
  BY <1>1, <1>2, <1>3, FlagNext, LockInvariant, QueueInvariant, WakeInvariant, PTL
  DEF Spec

=============================================================================
