---------------------------- MODULE PthreadCond ----------------------------
(***************************************************************************)
(* Guest condition variables: core/libraries/kernel/threads/condvar.cpp    *)
(* on top of mutex.cpp, sleepq.cpp, the wake operations of pthread.h and   *)
(* posix_pthread_cancel of pthread.cpp.                                    *)
(*                                                                         *)
(* A thread blocks on its own wake_sema.  A signaller takes the waiter off *)
(* the sleep queue under the chain lock and posts the semaphore later:     *)
(* after the chain lock is dropped or, when it owns the waiter's mutex,    *)
(* when it unlocks that mutex or goes to sleep itself (the deferred        *)
(* waiters).  Time-outs, stale posts and cancellation race with all of it. *)
(*                                                                         *)
(* pc[t] is "run" in guest code; the other values are the points inside a  *)
(* pthread call where another thread can interfere.  Cancellation is of    *)
(* the deferred type: no function modelled here is async-cancel-safe.      *)
(***************************************************************************)
EXTENDS PthreadMutex, SleepQueue

CONSTANTS
    MaxDeferWaiters,  \* capacity of defer_waiters; 50 in the code
    Program           \* the calls each thread makes (a bound on the guest)

Calls == {"lock", "timedlock", "wait", "timedwait", "signal", "signalto",
          "broadcast", "cancel", "setcancelstate"}

ASSUME CondAssumption ==
    /\ MaxDeferWaiters \in Nat \ {0}
    /\ Program \in [Threads -> SUBSET Calls]

VARIABLES
    pc,
    condArg, mutexArg,   \* the objects of the call in progress
    sqArg,               \* the queue SleepqDrop is emptying
    timed,               \* the call in progress has a deadline
    first_sleep,         \* Wait has not slept yet
    recurse,             \* m_count saved by CvUnlock
    error,               \* what Sleep returned
    outcome,             \* what CvLock is called for: "lock", "wait", "cancel"
    deferred,            \* Unlock's copy of the Deferred flag
    immediate,           \* semaphores still to be posted by this call
    wake_sema,
    mutex_obj,
    will_sleep,
    defer_waiters,       \* defer_waiters[0 .. nwaiter_defer - 1]
    has_user_waiters,
    cancel_pending, cancel_enable,
    cancelling,          \* set with no_cancel by posix_pthread_exit
    depth,               \* history: lock calls minus unlock calls of the guest
    signalled            \* history: taken off the queue by a signaller

frameVars == <<condArg, mutexArg, timed, first_sleep, recurse, error, outcome,
               deferred>>
wakeVars == <<immediate, sqArg, wake_sema, defer_waiters>>
cancelVars == <<cancel_pending, cancel_enable, cancelling>>
condVars == <<mutex_obj, will_sleep, has_user_waiters>>
historyVars == <<depth, signalled>>
vars == <<mutexVars, sleepqVars, pc, frameVars, wakeVars, cancelVars, condVars,
          historyVars>>

PCs == {"run", "lock_host", "lock_owner", "unlock_host", "wake_all", "wait_lock",
        "wait_unlock", "wait_clear", "wait_arm", "flush", "sleeping", "wait_wake",
        "release", "drop", "dead"}

TypeOK ==
    /\ MutexTypeOK
    /\ SleepQueueTypeOK
    /\ pc \in [Threads -> PCs]
    /\ condArg \in [Threads -> Conds \cup {None}]
    /\ sqArg \in [Threads -> Threads \cup {None}]
    /\ mutexArg \in [Threads -> Mutexes \cup {None}]
    /\ timed \in [Threads -> BOOLEAN]
    /\ first_sleep \in [Threads -> BOOLEAN]
    /\ recurse \in [Threads -> Nat]
    /\ error \in [Threads -> {"ok", "ETIMEDOUT"}]
    /\ outcome \in [Threads -> {"lock", "wait", "cancel"}]
    /\ deferred \in [Threads -> BOOLEAN]
    /\ immediate \in [Threads -> Seq(Threads)]
    /\ wake_sema \in [Threads -> Nat]
    /\ mutex_obj \in [Threads -> Mutexes \cup {None}]
    /\ will_sleep \in [Threads -> BOOLEAN]
    /\ defer_waiters \in [Threads -> Seq(Threads)]
    /\ has_user_waiters \in [Conds -> BOOLEAN]
    /\ cancel_pending \in [Threads -> BOOLEAN]
    /\ cancel_enable \in [Threads -> BOOLEAN]
    /\ cancelling \in [Threads -> BOOLEAN]
    /\ depth \in [Threads -> [Mutexes -> Nat]]
    /\ signalled \in [Threads -> BOOLEAN]

Init ==
    /\ MutexInit
    /\ SleepQueueInit
    /\ pc = [t \in Threads |-> "run"]
    /\ condArg = [t \in Threads |-> None]
    /\ sqArg = [t \in Threads |-> None]
    /\ mutexArg = [t \in Threads |-> None]
    /\ timed = [t \in Threads |-> FALSE]
    /\ first_sleep = [t \in Threads |-> FALSE]
    /\ recurse = [t \in Threads |-> 0]
    /\ error = [t \in Threads |-> "ok"]
    /\ outcome = [t \in Threads |-> "lock"]
    /\ deferred = [t \in Threads |-> FALSE]
    /\ immediate = [t \in Threads |-> <<>>]
    /\ wake_sema = [t \in Threads |-> 0]
    /\ mutex_obj = [t \in Threads |-> None]
    /\ will_sleep = [t \in Threads |-> FALSE]
    /\ defer_waiters = [t \in Threads |-> <<>>]
    /\ has_user_waiters = [c \in Conds |-> FALSE]
    /\ cancel_pending = [t \in Threads |-> FALSE]
    /\ cancel_enable = [t \in Threads |-> TRUE]
    /\ cancelling = [t \in Threads |-> FALSE]
    /\ depth = [t \in Threads |-> [m \in Mutexes |-> 0]]
    /\ signalled = [t \in Threads |-> FALSE]

ShouldCancel(t) == cancel_pending[t] /\ cancel_enable[t] /\ ~cancelling[t]

\* A thread in guest code that may make the call.
Calling(t, call) == pc[t] = "run" /\ ~cancelling[t] /\ call \in Program[t]

GoTo(t, label) == pc' = [pc EXCEPT ![t] = label]

-----------------------------------------------------------------------------
(***************************************************************************)
(* Mutex calls.  A timed lock also stands for TryLock: both may give up.   *)
(***************************************************************************)

LockEnter(t, m) ==
    /\ \E call \in {"lock", "timedlock"} :
          /\ Calling(t, call)
          /\ timed' = [timed EXCEPT ![t] = (call = "timedlock")]
    /\ ~Owns(t, m)
    /\ mutexArg' = [mutexArg EXCEPT ![t] = m]
    /\ outcome' = [outcome EXCEPT ![t] = "lock"]
    /\ GoTo(t, "lock_host")
    /\ UNCHANGED <<mutexVars, sleepqVars, condArg, first_sleep, recurse, error,
                   deferred, wakeVars, cancelVars, condVars, historyVars>>

LockSelf(t, m) ==
    /\ Calling(t, "lock")
    /\ SelfLock(t, m)
    /\ depth' = [depth EXCEPT ![t][m] = @ + 1]
    /\ UNCHANGED <<sleepqVars, pc, frameVars, wakeVars, cancelVars, condVars,
                   signalled>>

LockHost(t) ==
    /\ pc[t] = "lock_host"
    /\ HostLock(t, mutexArg[t])
    /\ GoTo(t, "lock_owner")
    /\ UNCHANGED <<sleepqVars, frameVars, wakeVars, cancelVars, condVars,
                   historyVars>>

\* A timed lock, or a try-lock, gives up.
LockTimeout(t) ==
    /\ pc[t] = "lock_host"
    /\ outcome[t] = "lock" /\ timed[t]
    /\ mutexArg' = [mutexArg EXCEPT ![t] = None]
    /\ timed' = [timed EXCEPT ![t] = FALSE]
    /\ GoTo(t, "run")
    /\ UNCHANGED <<mutexVars, sleepqVars, condArg, first_sleep, recurse, error,
                   outcome, deferred, wakeVars, cancelVars, condVars,
                   historyVars>>

\* CvLock restores the m_count that CvUnlock saved.  (CountForgotten is a
\* mutant: Lock without the restoration.)
CountForgotten(t) == m_count
CountAfterLock(t) ==
    IF outcome[t] = "lock" THEN m_count
    ELSE [m_count EXCEPT ![mutexArg[t]] = recurse[t]]

\* The owner store that ends Lock; CvLock also restores m_count.  On the
\* cancellation path of Wait PthreadTestCancel follows and exits.
LockOwner(t) ==
    LET m == mutexArg[t]
    IN  /\ pc[t] = "lock_owner"
        /\ StoreOwner(t, m)
        /\ m_count' = CountAfterLock(t)
        /\ depth' = IF outcome[t] = "lock"
                    THEN [depth EXCEPT ![t][m] = @ + 1]
                    ELSE depth
        /\ cancelling' = [cancelling EXCEPT ![t] =
                             @ \/ (outcome[t] = "cancel" /\ ShouldCancel(t))]
        /\ mutexArg' = [mutexArg EXCEPT ![t] = None]
        /\ condArg' = [condArg EXCEPT ![t] = None]
        /\ timed' = [timed EXCEPT ![t] = FALSE]
        /\ recurse' = [recurse EXCEPT ![t] = 0]
        /\ error' = [error EXCEPT ![t] = "ok"]
        /\ outcome' = [outcome EXCEPT ![t] = "lock"]
        /\ GoTo(t, "run")
        /\ UNCHANGED <<m_lock, m_deferred, sleepqVars, first_sleep, deferred,
                       wakeVars, cancel_pending, cancel_enable, condVars,
                       signalled>>

\* Unlock, also from the cleanup handlers of a thread that is exiting.
UnlockLevel(t, m) ==
    /\ pc[t] = "run"
    /\ UnlockCount(t, m)
    /\ depth' = [depth EXCEPT ![t][m] = @ - 1]
    /\ UNCHANGED <<sleepqVars, pc, frameVars, wakeVars, cancelVars, condVars,
                   signalled>>

UnlockOwner(t, m) ==
    /\ pc[t] = "run"
    /\ Owns(t, m)
    /\ ~(MutexType[m] = "Recursive" /\ m_count[m] > 0)
    /\ ClearOwner(t, m)
    /\ deferred' = [deferred EXCEPT ![t] = m_deferred[m]]
    /\ mutexArg' = [mutexArg EXCEPT ![t] = m]
    /\ depth' = [depth EXCEPT ![t][m] = @ - 1]
    /\ GoTo(t, "unlock_host")
    /\ UNCHANGED <<m_lock, m_count, sleepqVars, condArg, timed, first_sleep,
                   recurse, error, outcome, wakeVars, cancelVars, condVars,
                   signalled>>

\* Unlock posts the deferred waiters unless the thread is about to sleep.
\* (UnlockWakesNobody is a mutant: the sense of will_sleep is inverted.)
UnlockWakesNobody(t) == will_sleep[t] /\ deferred[t] /\ defer_waiters[t] # <<>>
UnlockWakes(t) == ~will_sleep[t] /\ deferred[t] /\ defer_waiters[t] # <<>>

UnlockHost(t) ==
    /\ pc[t] = "unlock_host"
    /\ HostUnlock(t, mutexArg[t])
    /\ mutexArg' = [mutexArg EXCEPT ![t] = None]
    /\ deferred' = [deferred EXCEPT ![t] = FALSE]
    /\ GoTo(t, IF UnlockWakes(t) THEN "wake_all" ELSE "run")
    /\ UNCHANGED <<m_owner, m_count, m_deferred, sleepqVars, condArg, timed,
                   first_sleep, recurse, error, outcome, wakeVars, cancelVars,
                   condVars, historyVars>>

\* One iteration of WakeAll.
PostDeferred(t) ==
    /\ wake_sema' = [wake_sema EXCEPT ![Head(defer_waiters[t])] = @ + 1]
    /\ defer_waiters' = [defer_waiters EXCEPT ![t] = Tail(@)]
    /\ UNCHANGED <<immediate, sqArg>>

WakeAll(t) ==
    /\ pc[t] = "wake_all"
    /\ PostDeferred(t)
    /\ GoTo(t, IF Len(defer_waiters[t]) = 1 THEN "run" ELSE "wake_all")
    /\ UNCHANGED <<mutexVars, sleepqVars, frameVars, cancelVars, condVars,
                   historyVars>>

-----------------------------------------------------------------------------
(***************************************************************************)
(* PthreadCond::Wait.                                                      *)
(***************************************************************************)

\* IsOwned and PthreadTestCancel let the call through.
WaitEnter(t, c, m) ==
    /\ \E call \in {"wait", "timedwait"} :
          /\ Calling(t, call)
          /\ timed' = [timed EXCEPT ![t] = (call = "timedwait")]
    /\ Owns(t, m)
    /\ ~ShouldCancel(t)
    /\ condArg' = [condArg EXCEPT ![t] = c]
    /\ mutexArg' = [mutexArg EXCEPT ![t] = m]
    /\ first_sleep' = [first_sleep EXCEPT ![t] = TRUE]
    /\ GoTo(t, "wait_lock")
    /\ UNCHANGED <<mutexVars, sleepqVars, recurse, error, outcome, deferred,
                   wakeVars, cancelVars, condVars, historyVars>>

\* SleepqLock, then CvUnlock up to the store of m_owner.  Unlock leaves the
\* deferred waiters alone: will_sleep is set.
WaitLock(t) ==
    LET c == condArg[t]
        m == mutexArg[t]
    IN  /\ pc[t] = "wait_lock"
        /\ SleepqLock(t, c)
        /\ has_user_waiters' = [has_user_waiters EXCEPT ![c] = TRUE]
        /\ will_sleep' = [will_sleep EXCEPT ![t] = TRUE]
        /\ recurse' = [recurse EXCEPT ![t] = m_count[m]]
        /\ m_count' = [m_count EXCEPT ![m] = 0]
        /\ ClearOwner(t, m)
        /\ GoTo(t, "wait_unlock")
        /\ UNCHANGED <<m_lock, queueVars, condArg, mutexArg, timed, first_sleep,
                       error, outcome, deferred, wakeVars, cancelVars,
                       mutex_obj, historyVars>>

\* The host unlock of CvUnlock and SleepqAdd, still under the chain lock.
WaitEnqueue(t) ==
    /\ pc[t] = "wait_unlock"
    /\ HostUnlock(t, mutexArg[t])
    /\ mutex_obj' = [mutex_obj EXCEPT ![t] = mutexArg[t]]
    /\ SleepqAdd(condArg[t], t)
    /\ signalled' = [signalled EXCEPT ![t] = FALSE]
    /\ GoTo(t, "wait_clear")
    /\ UNCHANGED <<m_owner, m_count, m_deferred, sc_lock, frameVars, wakeVars,
                   cancelVars, will_sleep, has_user_waiters, depth>>

\* ClearWake drops the posts that earlier waits left behind.
WaitClear(t) ==
    /\ pc[t] = "wait_clear"
    /\ wake_sema' = [wake_sema EXCEPT ![t] = 0]
    /\ GoTo(t, "wait_arm")
    /\ UNCHANGED <<mutexVars, sleepqVars, frameVars, immediate, sqArg,
                   defer_waiters, cancelVars, condVars, historyVars>>

\* The second look at ShouldCancel, after ClearWake.  (NeverSkipSleep is a
\* mutant.)
NeverSkipSleep(t) == FALSE
SkipSleep(t) == ShouldCancel(t)

\* ShouldCancel is read before SleepqUnlock; a pending cancellation skips
\* Sleep and everything Sleep does.
WaitArm(t) ==
    /\ pc[t] = "wait_arm"
    /\ SleepqUnlock(condArg[t])
    /\ error' = [error EXCEPT ![t] = "ok"]
    /\ GoTo(t, IF SkipSleep(t) THEN "wait_wake" ELSE "flush")
    /\ UNCHANGED <<mutexVars, queueVars, condArg, mutexArg, timed, first_sleep,
                   recurse, outcome, deferred, wakeVars, cancelVars, condVars,
                   historyVars>>

\* A later round of a relative wait whose deadline has passed does not sleep.
WaitDeadline(t) ==
    /\ pc[t] = "flush"
    /\ timed[t] /\ ~first_sleep[t]
    /\ error' = [error EXCEPT ![t] = "ETIMEDOUT"]
    /\ GoTo(t, "wait_wake")
    /\ UNCHANGED <<mutexVars, sleepqVars, condArg, mutexArg, timed, first_sleep,
                   recurse, outcome, deferred, wakeVars, cancelVars, condVars,
                   historyVars>>

\* Pthread::Sleep before it blocks: post the deferred waiters one by one.
SleepFlush(t) ==
    /\ pc[t] = "flush"
    /\ will_sleep' = [will_sleep EXCEPT ![t] = FALSE]
    /\ \/ /\ defer_waiters[t] # <<>>
          /\ PostDeferred(t)
          /\ UNCHANGED <<pc, first_sleep>>
       \/ /\ defer_waiters[t] = <<>>
          /\ first_sleep' = [first_sleep EXCEPT ![t] = FALSE]
          /\ GoTo(t, "sleeping")
          /\ UNCHANGED wakeVars
    /\ UNCHANGED <<mutexVars, sleepqVars, condArg, mutexArg, timed, recurse,
                   error, outcome, deferred, cancelVars, mutex_obj,
                   has_user_waiters, historyVars>>

SleepAcquire(t) ==
    /\ pc[t] = "sleeping"
    /\ wake_sema[t] > 0
    /\ wake_sema' = [wake_sema EXCEPT ![t] = @ - 1]
    /\ GoTo(t, "wait_wake")
    /\ UNCHANGED <<mutexVars, sleepqVars, frameVars, immediate, sqArg,
                   defer_waiters, cancelVars, condVars, historyVars>>

SleepTimeout(t) ==
    /\ pc[t] = "sleeping"
    /\ timed[t]
    /\ wake_sema[t] = 0
    /\ error' = [error EXCEPT ![t] = "ETIMEDOUT"]
    /\ GoTo(t, "wait_wake")
    /\ UNCHANGED <<mutexVars, sleepqVars, condArg, mutexArg, timed, first_sleep,
                   recurse, outcome, deferred, wakeVars, cancelVars, condVars,
                   historyVars>>

\* What Wait reports for a thread that was signalled: 0, and neither the
\* time-out of Sleep nor a cancellation.  (ErrorOfSleep is a mutant.)
ErrorOfSleep(t) == error[t]
ErrorIfSignalled(t) == "ok"

\* Back under the chain lock.  A thread that is no longer queued was
\* signalled, whatever Sleep returned.
WaitSignalled(t) ==
    /\ pc[t] = "wait_wake"
    /\ ChainFree(condArg[t])
    /\ wchan[t] = None
    /\ error' = [error EXCEPT ![t] = ErrorIfSignalled(t)]
    /\ outcome' = [outcome EXCEPT ![t] = "wait"]
    /\ mutex_obj' = [mutex_obj EXCEPT ![t] = None]
    /\ GoTo(t, "lock_host")
    /\ UNCHANGED <<mutexVars, sleepqVars, condArg, mutexArg, timed, first_sleep,
                   recurse, deferred, wakeVars, cancelVars, will_sleep,
                   has_user_waiters, historyVars>>

\* has_user_waiters takes the result of SleepqRemove.
KeepUserWaiters(c) ==
    has_user_waiters' = [has_user_waiters EXCEPT ![c] = HasWaiters(c)]

\* A thread that is still queued removes itself when it is cancelled or timed
\* out, releases the chain lock and relocks the mutex.
LeaveQueue(t, why) ==
    LET c == condArg[t]
    IN  /\ ChainFree(c)
        /\ \E i \in DOMAIN sq_blocked[sc_queues[c]] :
              /\ sq_blocked[sc_queues[c]][i] = t
              /\ SleepqRemove(c, i)
        /\ KeepUserWaiters(c)
        /\ outcome' = [outcome EXCEPT ![t] = why]
        /\ mutex_obj' = [mutex_obj EXCEPT ![t] = None]
        /\ GoTo(t, "lock_host")
        /\ UNCHANGED <<mutexVars, sc_lock, condArg, mutexArg, timed, first_sleep,
                       recurse, error, deferred, wakeVars, cancelVars,
                       will_sleep, historyVars>>

WaitCancelled(t) ==
    /\ pc[t] = "wait_wake"
    /\ wchan[t] # None
    /\ ShouldCancel(t)
    /\ LeaveQueue(t, "cancel")

WaitTimedOut(t) ==
    /\ pc[t] = "wait_wake"
    /\ wchan[t] # None
    /\ ~ShouldCancel(t)
    /\ error[t] = "ETIMEDOUT"
    /\ LeaveQueue(t, "wait")

\* Mutant of WaitSpurious: the chain lock is dropped before ClearWake.
WaitSpuriousUnlocked(t) ==
    /\ pc[t] = "wait_wake"
    /\ wchan[t] # None
    /\ ~ShouldCancel(t)
    /\ error[t] = "ok"
    /\ ChainFree(condArg[t])
    /\ GoTo(t, "wait_clear")
    /\ UNCHANGED <<mutexVars, sleepqVars, frameVars, wakeVars, cancelVars,
                   condVars, historyVars>>

\* A stale post woke the thread: wait again, under the same chain lock.
WaitSpurious(t) ==
    /\ pc[t] = "wait_wake"
    /\ wchan[t] # None
    /\ ~ShouldCancel(t)
    /\ error[t] = "ok"
    /\ SleepqLock(t, condArg[t])
    /\ GoTo(t, "wait_clear")
    /\ UNCHANGED <<mutexVars, queueVars, frameVars, wakeVars, cancelVars,
                   condVars, historyVars>>

-----------------------------------------------------------------------------
(***************************************************************************)
(* PthreadCond::Signal and Broadcast.                                      *)
(***************************************************************************)

Posts(s, td) == Cardinality({i \in DOMAIN s : s[i] = td})

\* What Signal and Broadcast do with the semaphore of a waiter taken off the
\* queue.  When the caller owns the waiter's mutex the post is deferred, and a
\* full list is flushed first (WakeAll); the others are posted after the chain
\* lock is released.
Deferrable(t, td) == mutex_obj[td] # None /\ m_owner[mutex_obj[td]] = t
Defer(t, td) ==
    LET full == Len(defer_waiters[t]) >= MaxDeferWaiters
    IN  /\ wake_sema' = IF full
                        THEN [x \in Threads |->
                                wake_sema[x] + Posts(defer_waiters[t], x)]
                        ELSE wake_sema
        /\ defer_waiters' = [defer_waiters EXCEPT ![t] =
                                IF full THEN <<td>> ELSE Append(@, td)]
        /\ m_deferred' = [m_deferred EXCEPT ![mutex_obj[td]] = TRUE]
        /\ UNCHANGED <<m_owner, m_lock, m_count, immediate>>
PostLater(t, td) ==
    LET full == Len(immediate[t]) >= MaxDeferWaiters
    IN  /\ wake_sema' = IF full
                        THEN [x \in Threads |->
                                wake_sema[x] + Posts(immediate[t], x)]
                        ELSE wake_sema
        /\ immediate' = [immediate EXCEPT ![t] =
                            IF full THEN <<td>> ELSE Append(@, td)]
        /\ UNCHANGED <<mutexVars, defer_waiters>>
Wake(t, td) ==
    /\ signalled' = [signalled EXCEPT ![td] = TRUE]
    /\ IF Deferrable(t, td) THEN Defer(t, td) ELSE PostLater(t, td)

\* Signal takes the oldest waiter, signalto (a call that names a thread) any.
Signal(t, c) ==
    LET sq == sc_queues[c]
    IN  /\ pc[t] = "run" /\ ~cancelling[t]
        /\ ChainFree(c)
        /\ sq # None
        /\ \E i \in DOMAIN sq_blocked[sq] :
              LET td == sq_blocked[sq][i]
              IN  /\ \/ i = 1 /\ "signal" \in Program[t]
                     \/ "signalto" \in Program[t]
                  /\ SleepqRemove(c, i)
                  /\ Wake(t, td)
                  /\ GoTo(t, IF Deferrable(t, td) THEN "run" ELSE "release")
        /\ KeepUserWaiters(c)
        /\ UNCHANGED <<sc_lock, frameVars, sqArg, cancelVars, mutex_obj,
                       will_sleep, depth>>

\* Broadcast empties the queue under the chain lock, one callback per waiter.
BroadcastEnter(t, c) ==
    LET sq == sc_queues[c]
    IN  /\ Calling(t, "broadcast")
        /\ ChainFree(c)
        /\ sq # None
        /\ SleepqDropFirst(c)
        /\ Wake(t, Head(sq_blocked[sq]))
        /\ sc_lock' = [sc_lock EXCEPT ![SC_HASH[c]] = t]
        /\ condArg' = [condArg EXCEPT ![t] = c]
        /\ sqArg' = [sqArg EXCEPT ![t] = sq]
        /\ GoTo(t, "drop")
        /\ UNCHANGED <<mutexArg, timed, first_sleep, recurse, error, outcome,
                       deferred, cancelVars, condVars, depth>>

BroadcastNext(t) ==
    /\ pc[t] = "drop"
    /\ sq_blocked[sqArg[t]] # <<>>
    /\ SleepqDropNext(sqArg[t])
    /\ Wake(t, Head(sq_blocked[sqArg[t]]))
    /\ UNCHANGED <<sc_lock, pc, frameVars, sqArg, cancelVars, condVars, depth>>

BroadcastUnlock(t) ==
    /\ pc[t] = "drop"
    /\ sq_blocked[sqArg[t]] = <<>>
    /\ SleepqUnlock(condArg[t])
    /\ has_user_waiters' = [has_user_waiters EXCEPT ![condArg[t]] = FALSE]
    /\ condArg' = [condArg EXCEPT ![t] = None]
    /\ sqArg' = [sqArg EXCEPT ![t] = None]
    /\ GoTo(t, IF immediate[t] = <<>> THEN "run" ELSE "release")
    /\ UNCHANGED <<mutexVars, queueVars, mutexArg, timed, first_sleep, recurse,
                   error, outcome, deferred, immediate, wake_sema,
                   defer_waiters, cancelVars, mutex_obj, will_sleep,
                   historyVars>>

\* The posts that follow SleepqUnlock in Signal and Broadcast, and the one of
\* posix_pthread_cancel.
Release(t) ==
    /\ pc[t] = "release"
    /\ wake_sema' = [wake_sema EXCEPT ![Head(immediate[t])] = @ + 1]
    /\ immediate' = [immediate EXCEPT ![t] = Tail(@)]
    /\ GoTo(t, IF Len(immediate[t]) = 1 THEN "run" ELSE "release")
    /\ UNCHANGED <<mutexVars, sleepqVars, frameVars, sqArg, defer_waiters,
                   cancelVars, condVars, historyVars>>

-----------------------------------------------------------------------------
(***************************************************************************)
(* Cancellation and exit.                                                  *)
(***************************************************************************)

\* posix_pthread_cancel: only the call that makes it pending posts.
Cancel(t, td) ==
    /\ Calling(t, "cancel")
    /\ pc[td] # "dead"
    /\ ~cancel_pending[td]
    /\ cancel_pending' = [cancel_pending EXCEPT ![td] = TRUE]
    /\ immediate' = [immediate EXCEPT ![t] = <<td>>]
    /\ GoTo(t, "release")
    /\ UNCHANGED <<mutexVars, sleepqVars, frameVars, sqArg, wake_sema,
                   defer_waiters, cancel_enable, cancelling, condVars,
                   historyVars>>

\* posix_pthread_setcancelstate; enabling is a cancellation point.
SetCancelState(t) ==
    /\ Calling(t, "setcancelstate")
    /\ cancel_enable' = [cancel_enable EXCEPT ![t] = ~@]
    /\ cancelling' = [cancelling EXCEPT ![t] =
                         ~cancel_enable[t] /\ cancel_pending[t]]
    /\ UNCHANGED <<mutexVars, sleepqVars, pc, frameVars, wakeVars,
                   cancel_pending, condVars, historyVars>>

\* PthreadTestCancel at the entry of Wait, or called by the guest.
TestCancel(t) ==
    /\ pc[t] = "run"
    /\ ShouldCancel(t)
    /\ cancelling' = [cancelling EXCEPT ![t] = TRUE]
    /\ UNCHANGED <<mutexVars, sleepqVars, pc, frameVars, wakeVars,
                   cancel_pending, cancel_enable, condVars, historyVars>>

\* posix_pthread_exit once the guest's cleanup handlers have unlocked what the
\* thread held.
ExitThread(t) ==
    /\ pc[t] = "run"
    /\ cancelling[t]
    /\ \A m \in Mutexes : ~Owns(t, m)
    /\ GoTo(t, "dead")
    /\ UNCHANGED <<mutexVars, sleepqVars, frameVars, wakeVars, cancelVars,
                   condVars, historyVars>>

-----------------------------------------------------------------------------
\* The steps inside a call, which the host scheduler runs.
Step(t) ==
    \/ LockHost(t) \/ LockOwner(t)
    \/ UnlockHost(t) \/ WakeAll(t)
    \/ WaitLock(t) \/ WaitEnqueue(t) \/ WaitClear(t) \/ WaitArm(t)
    \/ SleepFlush(t) \/ SleepAcquire(t)
    \/ WaitSignalled(t) \/ WaitCancelled(t) \/ WaitTimedOut(t) \/ WaitSpurious(t)
    \/ BroadcastNext(t) \/ BroadcastUnlock(t) \/ Release(t)

\* A deadline passes.
Expire(t) == LockTimeout(t) \/ WaitDeadline(t) \/ SleepTimeout(t)

\* The calls the guest makes.
Unlock(t) == \E m \in Mutexes : UnlockLevel(t, m) \/ UnlockOwner(t, m)
Call(t) ==
    \/ \E m \in Mutexes : LockEnter(t, m) \/ LockSelf(t, m)
    \/ Unlock(t)
    \/ \E c \in Conds, m \in Mutexes : WaitEnter(t, c, m)
    \/ \E c \in Conds : Signal(t, c) \/ BroadcastEnter(t, c)
    \/ \E td \in Threads : Cancel(t, td)
    \/ SetCancelState(t) \/ TestCancel(t) \/ ExitThread(t)

Next == \E t \in Threads : Step(t) \/ Expire(t) \/ Call(t)

Spec == Init /\ [][Next]_vars

-----------------------------------------------------------------------------
(***************************************************************************)
(* Safety.                                                                 *)
(***************************************************************************)

\* The guest's own count of a mutex agrees with m_owner and m_count of
\* mutex.cpp outside of its lock, unlock and wait calls on that mutex: a
\* thread that holds it owns it alone, and Wait gives back every level of a
\* recursive mutex (CvUnlock, CvLock).
HeldAsCounted ==
    \A t \in Threads, m \in Mutexes :
        mutexArg[t] # m =>
            depth[t][m] = IF Owns(t, m) THEN m_count[m] + 1 ELSE 0

\* The threads that hold the SleepQueue object q: at home, as the queue of a
\* channel, or lent to another queue (sleepq.cpp).
PlacesOf(q) ==
    {<<"home", t>> : t \in {u \in Threads : sleepqueue[u] = q}}
    \cup {<<"linked", c>> : c \in {d \in Conds : sc_queues[d] = q}}
    \cup UNION {{<<"lent", r, i>> : i \in {j \in DOMAIN sq_freeq[r] :
                                             sq_freeq[r][j] = q}} : r \in Threads}

\* A SleepQueue object is neither lost nor duplicated: it is in one place.
SleepQueuesConserved ==
    \A q \in Threads : Cardinality(PlacesOf(q)) = 1

\* The assertions of sleepq.cpp and condvar.cpp: a linked queue has blocked
\* threads and one lent object for each of them but one, and a thread that has
\* to take itself off the queue is on it exactly once.
QueueAssertions ==
    /\ \A c \in Conds : sc_queues[c] # None =>
          /\ sq_blocked[sc_queues[c]] # <<>>
          /\ Len(sq_freeq[sc_queues[c]]) = Len(sq_blocked[sc_queues[c]]) - 1
    /\ \A t \in Threads :
          pc[t] = "wait_wake" /\ wchan[t] # None /\ ChainFree(condArg[t]) =>
          /\ sc_queues[condArg[t]] # None
          /\ Posts(sq_blocked[sc_queues[condArg[t]]], t) = 1

\* A post for t exists or is on its way: in its semaphore, deferred by a
\* thread, or about to be made by one.
WakeOnTheWay(t) ==
    \/ wake_sema[t] > 0
    \/ \E s \in Threads : \/ t \in Range(defer_waiters[s])
                          \/ t \in Range(immediate[s])

\* No wake-up is lost: a thread taken off the queue while it goes to sleep or
\* sleeps always has a post coming, in spite of ClearWake and of posts that
\* earlier waits left behind.
NoLostWakeup ==
    \A t \in Threads :
        pc[t] \in {"flush", "sleeping"} /\ wchan[t] = None => WakeOnTheWay(t)

\* No cancellation is lost: ClearWake comes before the ShouldCancel test, so a
\* thread that cancellation finds asleep has the post of posix_pthread_cancel.
NoLostCancel ==
    \A t \in Threads :
        pc[t] \in {"flush", "sleeping"} /\ ShouldCancel(t) => WakeOnTheWay(t)

\* Whoever holds deferred waiters will post them: it owns a mutex marked
\* Deferred, is in the middle of unlocking one, or is on its way into Sleep.
DeferredWillBePosted ==
    \A s \in Threads : defer_waiters[s] # <<>> =>
        \/ \E m \in Mutexes : Owns(s, m) /\ m_deferred[m]
        \/ pc[s] = "unlock_host" /\ deferred[s]
        \/ pc[s] \in {"wake_all", "wait_unlock", "wait_clear", "wait_arm", "flush"}

\* A signal is never spent on a wait that reports a time-out or a
\* cancellation, and a wait returns 0 only if it was signalled (the order of
\* the tests after Sleep in Wait).
SignalDecidesOutcome ==
    \A t \in Threads :
        pc[t] \in {"lock_host", "lock_owner"} /\ outcome[t] # "lock" =>
            (signalled[t] <=> outcome[t] = "wait" /\ error[t] = "ok")

\* The sleep queues are sound although objects change hands between threads,
\* channels and free lists in SleepqAdd, SleepqRemove and SleepqDrop.
QueuesSound == SleepQueuesConserved /\ QueueAssertions

(***************************************************************************)
(* Liveness.                                                               *)
(***************************************************************************)

\* The host runs every thread that can run, and the guest ends its critical
\* sections.  No deadline has to pass.
Fairness == \A t \in Threads : WF_vars(Step(t)) /\ SF_vars(Unlock(t))

LiveSpec == Spec /\ Fairness

\* A thread that was signalled does not sleep for ever.
SignalledWakes ==
    \A t \in Threads : (pc[t] = "sleeping" /\ wchan[t] = None) ~> pc[t] # "sleeping"

=============================================================================
