----------------------------- MODULE PthreadSem -----------------------------
(***************************************************************************)
(* POSIX semaphores: PthreadSem of core/libraries/kernel/threads/          *)
(* semaphore.cpp.                                                          *)
(*                                                                         *)
(* The count is an atomic that posters and takers change without a lock.   *)
(* A thread that finds it 0 lists itself as a waiter under wait_mutex and  *)
(* blocks on its own wake_sema; sem_post raises the count first and then,  *)
(* under wait_mutex, wakes everybody who is listed.  Those who do not win  *)
(* the count list themselves again.  Time-outs and cancellation race with  *)
(* both halves of a post.                                                  *)
(*                                                                         *)
(* The order of the list does not matter, since a post wakes all of it: it *)
(* is a set here.  Cancellation is of the deferred type.                   *)
(***************************************************************************)
EXTENDS Pthread

CONSTANTS
    Sems,            \* PthreadSem objects
    InitialValue,    \* argument of sem_init
    SEM_VALUE_MAX,   \* ORBIS_KERNEL_SEM_VALUE_MAX
    Program          \* the calls each thread makes (a bound on the guest)

Calls == {"wait", "timedwait", "trywait", "post", "cancel", "setcancelstate"}

ASSUME SemAssumption ==
    /\ None \notin Sems
    /\ SEM_VALUE_MAX \in Nat
    /\ InitialValue \in 0 .. SEM_VALUE_MAX
    /\ Program \in [Threads -> SUBSET Calls]

VARIABLES
    value, wait_mutex, waiters,      \* of each PthreadSem
    pc,
    semArg,                          \* the semaphore of the call in progress
    timed, first_sleep, woke,        \* locals of PthreadSemWait
    target,                          \* whom posix_pthread_cancel still has to wake
    wake_sema, cancel_pending, cancel_enable

semVars == <<value, wait_mutex, waiters>>
localVars == <<semArg, timed, first_sleep, woke>>
cancelVars == <<target, cancel_pending, cancel_enable>>
vars == <<semVars, pc, localVars, wake_sema, cancelVars>>

PCs == {"run", "try", "test", "lock", "clear", "check", "sleeping", "unlist",
        "retry", "again", "post_walk", "cancel_post", "dead"}

TypeOK ==
    /\ value \in [Sems -> 0 .. SEM_VALUE_MAX]
    /\ wait_mutex \in [Sems -> Threads \cup {None}]
    /\ waiters \in [Sems -> SUBSET Threads]
    /\ pc \in [Threads -> PCs]
    /\ semArg \in [Threads -> Sems \cup {None}]
    /\ timed \in [Threads -> BOOLEAN]
    /\ first_sleep \in [Threads -> BOOLEAN]
    /\ woke \in [Threads -> BOOLEAN]
    /\ target \in [Threads -> Threads \cup {None}]
    /\ wake_sema \in [Threads -> Nat]
    /\ cancel_pending \in [Threads -> BOOLEAN]
    /\ cancel_enable \in [Threads -> BOOLEAN]

\* posix_sem_init.
Init ==
    /\ value = [s \in Sems |-> InitialValue]
    /\ wait_mutex = [s \in Sems |-> None]
    /\ waiters = [s \in Sems |-> {}]
    /\ pc = [t \in Threads |-> "run"]
    /\ semArg = [t \in Threads |-> None]
    /\ timed = [t \in Threads |-> FALSE]
    /\ first_sleep = [t \in Threads |-> FALSE]
    /\ woke = [t \in Threads |-> FALSE]
    /\ target = [t \in Threads |-> None]
    /\ wake_sema = [t \in Threads |-> 0]
    /\ cancel_pending = [t \in Threads |-> FALSE]
    /\ cancel_enable = [t \in Threads |-> TRUE]

\* A thread that exits (pc "dead") has no_cancel set and is never asked again.
ShouldCancel(t) == cancel_pending[t] /\ cancel_enable[t]

\* A thread in guest code that may make the call.
Calling(t, call) == pc[t] = "run" /\ call \in Program[t]

GoTo(t, label) == pc' = [pc EXCEPT ![t] = label]

\* The end of a call: back to the guest, or posix_pthread_exit.
Leave(t, label) ==
    /\ GoTo(t, label)
    /\ semArg' = [semArg EXCEPT ![t] = None]
    /\ timed' = [timed EXCEPT ![t] = FALSE]
    /\ first_sleep' = [first_sleep EXCEPT ![t] = FALSE]
    /\ woke' = [woke EXCEPT ![t] = FALSE]

-----------------------------------------------------------------------------
(***************************************************************************)
(* sem_wait, sem_timedwait and sem_reltimedwait_np: PthreadSemWait.        *)
(***************************************************************************)

\* PthreadSemTryAcquire: the CAS loop takes a token or fails.
Take(s) == value[s] > 0 /\ value' = [value EXCEPT ![s] = @ - 1]

WaitEnter(t, s) ==
    /\ \E call \in {"wait", "timedwait"} :
          /\ Calling(t, call)
          /\ timed' = [timed EXCEPT ![t] = (call = "timedwait")]
    /\ GoTo(t, "try")
    /\ semArg' = [semArg EXCEPT ![t] = s]
    /\ first_sleep' = [first_sleep EXCEPT ![t] = TRUE]
    /\ UNCHANGED <<semVars, woke, wake_sema, cancelVars>>

\* The attempt without the lock that starts every round.
WaitTry(t) ==
    /\ pc[t] = "try"
    /\ \/ Take(semArg[t]) /\ Leave(t, "run")
       \/ /\ value[semArg[t]] = 0
          /\ GoTo(t, "test")
          /\ UNCHANGED <<value, localVars>>
    /\ UNCHANGED <<wait_mutex, waiters, wake_sema, cancelVars>>

\* PthreadTestCancel before the waiter is listed.
WaitTest(t) ==
    /\ pc[t] = "test"
    /\ IF ShouldCancel(t)
       THEN Leave(t, "dead")
       ELSE GoTo(t, "lock") /\ UNCHANGED localVars
    /\ UNCHANGED <<semVars, wake_sema, cancelVars>>

\* The second attempt, under wait_mutex.  (WaitLockNoRetry is a mutant.)
WaitLockNoRetry(t) ==
    /\ pc[t] = "lock"
    /\ wait_mutex[semArg[t]] = None
    /\ GoTo(t, "clear")
    /\ wait_mutex' = [wait_mutex EXCEPT ![semArg[t]] = t]
    /\ UNCHANGED <<value, waiters, localVars, wake_sema, cancelVars>>
WaitLock(t) ==
    /\ pc[t] = "lock"
    /\ wait_mutex[semArg[t]] = None
    /\ \/ /\ Take(semArg[t])
          /\ Leave(t, "run")
          /\ UNCHANGED wait_mutex
       \/ /\ value[semArg[t]] = 0
          /\ GoTo(t, "clear")
          /\ wait_mutex' = [wait_mutex EXCEPT ![semArg[t]] = t]
          /\ UNCHANGED <<value, localVars>>
    /\ UNCHANGED <<waiters, wake_sema, cancelVars>>

\* ClearWake.  (KeepWake is a mutant.)
KeepWake(t) == wake_sema[t]
ClearedWake(t) == 0
WaitClear(t) ==
    /\ pc[t] = "clear"
    /\ wake_sema' = [wake_sema EXCEPT ![t] = ClearedWake(t)]
    /\ GoTo(t, "check")
    /\ UNCHANGED <<semVars, localVars, cancelVars>>

\* A pending cancellation exits instead of listing the waiter.
\* (NeverRefuse is a mutant.)
NeverRefuse(t) == FALSE
RefuseSleep(t) == ShouldCancel(t)
WaitList(t) ==
    LET s == semArg[t]
    IN  /\ pc[t] = "check"
        /\ wait_mutex' = [wait_mutex EXCEPT ![s] = None]
        /\ IF RefuseSleep(t)
           THEN Leave(t, "dead") /\ UNCHANGED waiters
           ELSE /\ waiters' = [waiters EXCEPT ![s] = @ \cup {t}]
                /\ GoTo(t, "sleeping")
                /\ UNCHANGED localVars
        /\ UNCHANGED <<value, wake_sema, cancelVars>>

\* Pthread::Sleep.
SleepAcquire(t) ==
    /\ pc[t] = "sleeping"
    /\ wake_sema[t] > 0
    /\ wake_sema' = [wake_sema EXCEPT ![t] = @ - 1]
    /\ woke' = [woke EXCEPT ![t] = TRUE]
    /\ first_sleep' = [first_sleep EXCEPT ![t] = FALSE]
    /\ GoTo(t, "unlist")
    /\ UNCHANGED <<semVars, semArg, timed, cancelVars>>

\* Sleep times out; a later round of a relative wait whose deadline has
\* passed does not call Sleep at all.
SleepTimeout(t) ==
    /\ pc[t] = "sleeping"
    /\ timed[t]
    /\ wake_sema[t] = 0 \/ ~first_sleep[t]
    /\ woke' = [woke EXCEPT ![t] = FALSE]
    /\ first_sleep' = [first_sleep EXCEPT ![t] = FALSE]
    /\ GoTo(t, "unlist")
    /\ UNCHANGED <<semVars, semArg, timed, wake_sema, cancelVars>>

\* The waiter takes itself off the list, if a post has not done it.
WaitUnlist(t) ==
    LET s == semArg[t]
    IN  /\ pc[t] = "unlist"
        /\ wait_mutex[s] = None
        /\ waiters' = [waiters EXCEPT ![s] = @ \ {t}]
        /\ GoTo(t, "retry")
        /\ UNCHANGED <<value, wait_mutex, localVars, wake_sema, cancelVars>>

\* The recheck after the sleep: a token beats a time-out and a cancellation.
WaitRetry(t) ==
    /\ pc[t] = "retry"
    /\ \/ Take(semArg[t]) /\ Leave(t, "run")
       \/ /\ value[semArg[t]] = 0
          /\ GoTo(t, "again")
          /\ UNCHANGED <<value, localVars>>
    /\ UNCHANGED <<wait_mutex, waiters, wake_sema, cancelVars>>

\* PthreadTestCancel, then ETIMEDOUT or another round.
WaitAgain(t) ==
    /\ pc[t] = "again"
    /\ \/ ShouldCancel(t) /\ Leave(t, "dead")
       \/ ~ShouldCancel(t) /\ ~woke[t] /\ Leave(t, "run")
       \/ ~ShouldCancel(t) /\ woke[t] /\ GoTo(t, "try") /\ UNCHANGED localVars
    /\ UNCHANGED <<semVars, wake_sema, cancelVars>>

\* sem_trywait.
TryWait(t, s) ==
    /\ Calling(t, "trywait")
    /\ Take(s)
    /\ UNCHANGED <<wait_mutex, waiters, pc, localVars, wake_sema, cancelVars>>

-----------------------------------------------------------------------------
(***************************************************************************)
(* sem_post and pthread_cancel.                                            *)
(***************************************************************************)

\* The CAS; at the limit the call fails with EOVERFLOW.  (RoomOffByOne is a
\* mutant.)
RoomOffByOne(s) == value[s] <= SEM_VALUE_MAX
Room(s) == value[s] < SEM_VALUE_MAX
Post(t, s) ==
    /\ Calling(t, "post")
    /\ Room(s)
    /\ value' = [value EXCEPT ![s] = @ + 1]
    /\ semArg' = [semArg EXCEPT ![t] = s]
    /\ GoTo(t, "post_walk")
    /\ UNCHANGED <<wait_mutex, waiters, timed, first_sleep, woke, wake_sema,
                   cancelVars>>

\* Everybody on the list is woken and the list is cleared.
Woken(s) == waiters[s]
PostWalk(t) ==
    LET s == semArg[t]
    IN  /\ pc[t] = "post_walk"
        /\ wait_mutex[s] = None
        /\ wake_sema' = [u \in Threads |->
                            wake_sema[u] + IF u \in Woken(s) THEN 1 ELSE 0]
        /\ waiters' = [waiters EXCEPT ![s] = {}]
        /\ Leave(t, "run")
        /\ UNCHANGED <<value, wait_mutex, cancelVars>>

\* posix_pthread_cancel: the first caller makes it pending, then posts.
Cancel(t, td) ==
    /\ Calling(t, "cancel")
    /\ pc[td] # "dead"
    /\ ~cancel_pending[td]
    /\ cancel_pending' = [cancel_pending EXCEPT ![td] = TRUE]
    /\ target' = [target EXCEPT ![t] = td]
    /\ GoTo(t, "cancel_post")
    /\ UNCHANGED <<semVars, localVars, wake_sema, cancel_enable>>

CancelPost(t) ==
    /\ pc[t] = "cancel_post"
    /\ wake_sema' = [wake_sema EXCEPT ![target[t]] = @ + 1]
    /\ target' = [target EXCEPT ![t] = None]
    /\ GoTo(t, "run")
    /\ UNCHANGED <<semVars, localVars, cancel_pending, cancel_enable>>

\* posix_pthread_setcancelstate; enabling is a cancellation point.
SetCancelState(t) ==
    /\ Calling(t, "setcancelstate")
    /\ cancel_enable' = [cancel_enable EXCEPT ![t] = ~@]
    /\ GoTo(t, IF ~cancel_enable[t] /\ cancel_pending[t] THEN "dead" ELSE "run")
    /\ UNCHANGED <<semVars, localVars, wake_sema, target, cancel_pending>>

-----------------------------------------------------------------------------
\* The steps inside a call, which the host scheduler runs.
Step(t) ==
    \/ WaitTry(t) \/ WaitTest(t) \/ WaitLock(t) \/ WaitClear(t) \/ WaitList(t)
    \/ SleepAcquire(t) \/ WaitUnlist(t) \/ WaitRetry(t)
    \/ WaitAgain(t) \/ PostWalk(t) \/ CancelPost(t)

\* The calls of the guest.
Call(t) ==
    \/ \E s \in Sems : WaitEnter(t, s) \/ TryWait(t, s) \/ Post(t, s)
    \/ \E td \in Threads : Cancel(t, td)
    \/ SetCancelState(t)

Next == \E t \in Threads : Step(t) \/ SleepTimeout(t) \/ Call(t)

Spec == Init /\ [][Next]_vars

\* The host runs every thread that is inside a call and can run; no time-out has
\* to expire.
LiveSpec == Spec /\ \A t \in Threads : WF_vars(Step(t))

-----------------------------------------------------------------------------
\* No post is lost: nobody sleeps without a wake-up while a token is there,
\* unless the poster of a token has still to walk the list (sem_post raises
\* the count before it takes wait_mutex).
NoLostPost ==
    \A t \in Threads :
        pc[t] = "sleeping" /\ wake_sema[t] = 0 /\ value[semArg[t]] > 0 =>
            \E p \in Threads : pc[p] = "post_walk" /\ semArg[p] = semArg[t]

\* No cancellation is lost: PthreadSemWait clears the wake-ups before it looks
\* at the request, so a sleeper that is cancelled has a wake-up or gets one.
NoLostCancel ==
    \A t \in Threads :
        pc[t] = "sleeping" /\ ShouldCancel(t) =>
            wake_sema[t] > 0 \/ \E c \in Threads : target[c] = t

\* semaphore.h: "A thread can receive one normal synchronization wake and one
\* cancellation wake concurrently", the reason for Semaphore<2>.  Semaphores
\* respect it: wake-ups that nobody consumed are cleared under the lock of the
\* posters.
WakeSemaphoreBound == \A t \in Threads : wake_sema[t] <= 2

-----------------------------------------------------------------------------
(***************************************************************************)
(* The abstract semaphore.  A thread waits from the entry of               *)
(* PthreadSemWait until it returns, whatever it does in between.           *)
(***************************************************************************)
Waiting == {"try", "test", "lock", "clear", "check", "sleeping", "unlist", "retry",
            "again"}

CS == INSTANCE CountingSem WITH
    MaxValue <- SEM_VALUE_MAX,
    count <- value,
    waiting <- [t \in Threads |-> IF pc[t] \in Waiting THEN semArg[t] ELSE None]

\* Lists, wake-ups, time-outs and cancellation notwithstanding, posix_sem_wait
\* and posix_sem_post act as on a counting semaphore: each step takes or adds one
\* token within the limits, and a thread that takes one has left its wait.
IsSemaphore == CS!Spec

\* No thread stays in PthreadSemWait beside a token that stays available.
IsFairSemaphore == CS!Fairness

=============================================================================
