-------------------------- MODULE PthreadSemProofs --------------------------
(***************************************************************************)
(* PthreadSem loses no post and no cancellation and keeps within its wake  *)
(* semaphore, for every set of threads and semaphores and every limit; and *)
(* it implements the counting semaphore of CountingSem.                    *)
(***************************************************************************)
EXTENDS PthreadSem, TLAPS

-----------------------------------------------------------------------------
(***************************************************************************)
(* The inductive invariant.                                                *)
(***************************************************************************)

\* A thread has a semaphore argument exactly inside a semaphore call.
ArgState(t) == semArg[t] = None <=> pc[t] \in {"run", "cancel_post", "dead"}

\* posix_pthread_cancel owes its target a wake-up between its two halves.
TargetState(t) == target[t] = None <=> pc[t] # "cancel_post"

\* wait_mutex is held exactly between the second attempt and the listing.
MutexState(s) ==
    \A t \in Threads :
        wait_mutex[s] = t <=> semArg[t] = s /\ pc[t] \in {"clear", "check"}

\* Only threads between the listing and the unlisting are listed.
ListState(s) ==
    \A t \in waiters[s] : semArg[t] = s /\ pc[t] \in {"sleeping", "unlist"}

\* A sleeper that a post has taken off the list was woken by it.
SleepState(t) ==
    pc[t] = "sleeping" => t \in waiters[semArg[t]] \/ wake_sema[t] > 0

Walking(s) == \E p \in Threads : pc[p] = "post_walk" /\ semArg[p] = s

\* A token that appeared after the attempt under wait_mutex belongs to a poster
\* that has yet to walk the list.
PostState(t) ==
    /\ pc[t] \in {"clear", "check"} /\ value[semArg[t]] > 0 => Walking(semArg[t])
    /\ pc[t] = "sleeping" /\ t \in waiters[semArg[t]] /\ value[semArg[t]] > 0 =>
          Walking(semArg[t])

IInv ==
    /\ TypeOK
    /\ \A t \in Threads : ArgState(t) /\ TargetState(t)
    /\ \A s \in Sems : MutexState(s) /\ ListState(s)
    /\ \A t \in Threads : SleepState(t) /\ PostState(t)

\* It holds at the start.
LEMMA SemInit == Init => IInv
  BY ThreadsAssumption, SemAssumption
  DEF Init, IInv, TypeOK, PCs, ArgState, TargetState, MutexState, ListState,
      SleepState, PostState

\* Inside a semaphore call the argument is a semaphore.
LEMMA ArgIsSem ==
    ASSUME IInv, NEW t \in Threads, pc[t] \notin {"run", "cancel_post", "dead"}
    PROVE  semArg[t] \in Sems
  BY SemAssumption DEF IInv, TypeOK, ArgState

\* Every step preserves it.
LEMMA SemNext == IInv /\ [Next]_vars => IInv'
<1> SUFFICES ASSUME IInv, [Next]_vars PROVE IInv'
  OBVIOUS
<1> USE ThreadsAssumption, SemAssumption
        DEF IInv, TypeOK, PCs, ArgState, TargetState, MutexState, ListState,
            SleepState, PostState, Walking, GoTo, Leave, semVars, localVars, cancelVars
<1>1. ASSUME NEW t \in Threads, NEW s \in Sems, WaitEnter(t, s) PROVE IInv'
  BY <1>1 DEF WaitEnter, Calling
<1>2. ASSUME NEW t \in Threads, WaitTry(t) PROVE IInv'
  <2>1. CASE Take(semArg[t]) /\ Leave(t, "run")
    <3>0. semArg[t] \in Sems
      BY <1>2, ArgIsSem DEF WaitTry
    <3>1. TypeOK'
      BY <1>2, <2>1, <3>0 DEF WaitTry, Take
    <3>2. \A u \in Threads : ArgState(u)' /\ TargetState(u)'
      BY <1>2, <2>1, <3>0 DEF WaitTry, Take
    <3>3. \A s \in Sems : MutexState(s)'
      BY <1>2, <2>1, <3>0 DEF WaitTry, Take
    <3>4. \A s \in Sems : ListState(s)'
      BY <1>2, <2>1, <3>0 DEF WaitTry, Take
    <3>5. \A u \in Threads : SleepState(u)'
      BY <1>2, <2>1, <3>0 DEF WaitTry, Take
    <3>6. ASSUME NEW u \in Threads PROVE PostState(u)'
      <4>1. \A s \in Sems : Walking(s) => Walking(s)'
        BY <1>2, <2>1, <3>0 DEF WaitTry, Take
      <4>2. u # t => UNCHANGED <<pc[u], semArg[u]>>
        BY <1>2, <2>1 DEF WaitTry, Take
      <4>3. pc'[t] \notin {"clear", "check", "sleeping"}
        BY <1>2, <2>1 DEF WaitTry, Take
      <4> QED
        BY <1>2, <2>1, <3>0, <4>1, <4>2, <4>3, SMTT(30) DEF WaitTry, Take
    <3> QED
      BY <3>1, <3>2, <3>3, <3>4, <3>5, <3>6
  <2>2. CASE UNCHANGED <<value, localVars>>
    BY SMTT(30), <1>2, <2>2, ArgIsSem DEF WaitTry
  <2> QED
    BY <1>2, <2>1, <2>2 DEF WaitTry
<1>3. ASSUME NEW t \in Threads, WaitTest(t) PROVE IInv'
  <2>1. CASE ShouldCancel(t)
    <3>0. semArg[t] \in Sems
      BY <1>3, ArgIsSem DEF WaitTest
    <3>1. TypeOK'
      <4>1. Leave(t, "dead") /\ UNCHANGED <<semVars, wake_sema, cancelVars>>
        BY <1>3, <2>1 DEF WaitTest
      <4>2. pc' \in [Threads -> PCs] /\ semArg' \in [Threads -> Sems \cup {None}]
        BY <4>1
      <4>3. timed' \in [Threads -> BOOLEAN] /\ first_sleep' \in [Threads -> BOOLEAN]
            /\ woke' \in [Threads -> BOOLEAN]
        BY <4>1
      <4> QED
        BY <1>3, <2>1, <3>0, <4>1, <4>2, <4>3 DEF WaitTest
    <3>2. \A u \in Threads : ArgState(u)' /\ TargetState(u)'
      BY <1>3, <2>1, <3>0 DEF WaitTest
    <3>3. \A s \in Sems : MutexState(s)'
      BY <1>3, <2>1, <3>0 DEF WaitTest
    <3>4. \A s \in Sems : ListState(s)'
      BY <1>3, <2>1, <3>0 DEF WaitTest
    <3>5. \A u \in Threads : SleepState(u)'
      BY <1>3, <2>1, <3>0 DEF WaitTest
    <3>6. ASSUME NEW u \in Threads PROVE PostState(u)'
      <4>1. \A s \in Sems : Walking(s) => Walking(s)'
        BY <1>3, <2>1, <3>0 DEF WaitTest
      <4>2. u # t => UNCHANGED <<pc[u], semArg[u]>>
        BY <1>3, <2>1 DEF WaitTest
      <4>3. pc'[t] \notin {"clear", "check", "sleeping"}
        BY <1>3, <2>1 DEF WaitTest
      <4> QED
        BY <1>3, <2>1, <3>0, <4>1, <4>2, <4>3, SMTT(30) DEF WaitTest
    <3> QED
      BY <3>1, <3>2, <3>3, <3>4, <3>5, <3>6
  <2>2. CASE ~ShouldCancel(t)
    BY <1>3, <2>2, ArgIsSem DEF WaitTest
  <2> QED
    BY <2>1, <2>2
<1>4. ASSUME NEW t \in Threads, WaitLock(t) PROVE IInv'
  <2>1. CASE Take(semArg[t]) /\ Leave(t, "run")
    BY <1>4, <2>1, ArgIsSem DEF WaitLock, Take
  <2>2. CASE value[semArg[t]] = 0
    BY SMTT(30), <1>4, <2>2, ArgIsSem DEF WaitLock, Take
  <2> QED
    BY <1>4, <2>1, <2>2 DEF WaitLock
<1>5. ASSUME NEW t \in Threads, WaitClear(t) PROVE IInv'
  BY <1>5, ArgIsSem DEF WaitClear, ClearedWake
<1>6. ASSUME NEW t \in Threads, WaitList(t) PROVE IInv'
  <2>1. CASE RefuseSleep(t)
    <3>0. semArg[t] \in Sems
      BY <1>6, ArgIsSem DEF WaitList
    <3>1. TypeOK'
      <4>1. Leave(t, "dead") /\ UNCHANGED <<value, wake_sema, cancelVars, waiters>>
        BY <1>6, <2>1 DEF WaitList
      <4>2. pc' \in [Threads -> PCs] /\ semArg' \in [Threads -> Sems \cup {None}]
        BY <4>1
      <4>3. timed' \in [Threads -> BOOLEAN] /\ first_sleep' \in [Threads -> BOOLEAN]
            /\ woke' \in [Threads -> BOOLEAN]
        BY <4>1
      <4> QED
        BY <1>6, <2>1, <3>0, <4>1, <4>2, <4>3 DEF WaitList
    <3>2. \A u \in Threads : ArgState(u)' /\ TargetState(u)'
      BY <1>6, <2>1, <3>0 DEF WaitList
    <3>3. \A s \in Sems : MutexState(s)'
      BY <1>6, <2>1, <3>0 DEF WaitList
    <3>4. \A s \in Sems : ListState(s)'
      BY <1>6, <2>1, <3>0 DEF WaitList
    <3>5. \A u \in Threads : SleepState(u)'
      BY <1>6, <2>1, <3>0 DEF WaitList
    <3>6. \A u \in Threads : PostState(u)'
      BY <1>6, <2>1, <3>0 DEF WaitList
    <3> QED
      BY <3>1, <3>2, <3>3, <3>4, <3>5, <3>6
  <2>2. CASE ~RefuseSleep(t)
    <3>0. semArg[t] \in Sems
      BY <1>6, ArgIsSem DEF WaitList
    <3>1. TypeOK'
      BY <1>6, <2>2, <3>0 DEF WaitList
    <3>2. \A u \in Threads : ArgState(u)' /\ TargetState(u)'
      BY <1>6, <2>2, <3>0 DEF WaitList
    <3>3. \A s \in Sems : MutexState(s)'
      BY <1>6, <2>2, <3>0 DEF WaitList
    <3>4. \A s \in Sems : ListState(s)'
      BY <1>6, <2>2, <3>0 DEF WaitList
    <3>5. \A u \in Threads : SleepState(u)'
      BY <1>6, <2>2, <3>0 DEF WaitList
    <3>6. \A u \in Threads : PostState(u)'
      BY <1>6, <2>2, <3>0 DEF WaitList
    <3> QED
      BY <3>1, <3>2, <3>3, <3>4, <3>5, <3>6
  <2> QED
    BY <2>1, <2>2
<1>7. ASSUME NEW t \in Threads, SleepAcquire(t) PROVE IInv'
  BY <1>7, ArgIsSem DEF SleepAcquire
<1>8. ASSUME NEW t \in Threads, SleepTimeout(t) PROVE IInv'
  BY <1>8, ArgIsSem DEF SleepTimeout
<1>9. ASSUME NEW t \in Threads, WaitUnlist(t) PROVE IInv'
  BY <1>9, ArgIsSem DEF WaitUnlist
<1>10. ASSUME NEW t \in Threads, WaitRetry(t) PROVE IInv'
  <2>1. CASE Take(semArg[t]) /\ Leave(t, "run")
    BY SMTT(30), <1>10, <2>1, ArgIsSem DEF WaitRetry, Take
  <2>2. CASE UNCHANGED <<value, localVars>>
    BY <1>10, <2>2, ArgIsSem DEF WaitRetry
  <2> QED
    BY <1>10, <2>1, <2>2 DEF WaitRetry
<1>11. ASSUME NEW t \in Threads, WaitAgain(t) PROVE IInv'
  <2>1. CASE \E l \in {"run", "dead"} : Leave(t, l)
    BY <1>11, <2>1, ArgIsSem DEF WaitAgain
  <2>2. CASE GoTo(t, "try") /\ UNCHANGED localVars
    BY <1>11, <2>2, ArgIsSem DEF WaitAgain
  <2> QED
    BY <1>11, <2>1, <2>2 DEF WaitAgain
<1>12. ASSUME NEW t \in Threads, NEW s \in Sems, TryWait(t, s) PROVE IInv'
  BY <1>12 DEF TryWait, Take, Calling
<1>13. ASSUME NEW t \in Threads, NEW s \in Sems, Post(t, s) PROVE IInv'
  BY <1>13 DEF Post, Room, Calling
<1>14. ASSUME NEW t \in Threads, PostWalk(t) PROVE IInv'
  BY SMTT(30), <1>14, ArgIsSem DEF PostWalk, Woken
<1>15. ASSUME NEW t \in Threads, NEW td \in Threads, Cancel(t, td) PROVE IInv'
  BY <1>15 DEF Cancel, Calling
<1>16. ASSUME NEW t \in Threads, CancelPost(t) PROVE IInv'
  BY <1>16 DEF CancelPost
<1>17. ASSUME NEW t \in Threads, SetCancelState(t) PROVE IInv'
  BY <1>17 DEF SetCancelState, Calling
<1>18. CASE UNCHANGED vars
  BY <1>18 DEF vars
<1> HIDE DEF IInv
<1> QED
  BY <1>1, <1>2, <1>3, <1>4, <1>5, <1>6, <1>7, <1>8, <1>9, <1>10, <1>11, <1>12,
     <1>13, <1>14, <1>15, <1>16, <1>17, <1>18 DEF Next, Step, Call

\* The invariant holds throughout.
LEMMA SemInvariant == Spec => []IInv
  BY SemInit, SemNext, PTL DEF Spec

\* The type invariant: the count stays between 0 and the limit.
THEOREM TypeCorrect == Spec => []TypeOK
<1>1. IInv => TypeOK
  BY DEF IInv
<1> QED
  BY SemInvariant, <1>1, PTL

\* No post is lost between the two halves of sem_post and the two attempts of
\* PthreadSemWait, for any number of waiters, posters and semaphores.
THEOREM NoLostPostHolds == Spec => []NoLostPost
<1>1. IInv => NoLostPost
  BY DEF IInv, SleepState, PostState, Walking, NoLostPost
<1> QED
  BY SemInvariant, <1>1, PTL

-----------------------------------------------------------------------------
(***************************************************************************)
(* Cancellation.                                                           *)
(***************************************************************************)

Owed(t) == \E c \in Threads : target[c] = t

\* Wake-ups of a thread, made or still possible: one for its place on a list,
\* one for the one cancellation it can get.
Credit(b) == IF b THEN 1 ELSE 0
WakeBudget(t) ==
    wake_sema[t] + Credit(\E s \in Sems : t \in waiters[s]) + Credit(Owed(t))
                 + Credit(~cancel_pending[t])

\* Before it is listed, and after ClearWake, a thread has at most the wake-up
\* of its cancellation; there is one canceller.
CancelInv ==
    /\ \A t \in Threads : Owed(t) => cancel_pending[t]
    /\ \A c, d \in Threads : target[c] # None /\ target[c] = target[d] => c = d
    /\ \A t \in Threads : WakeBudget(t) <= IF pc[t] = "check" THEN 1 ELSE 2
    /\ NoLostCancel

\* It holds at the start.
LEMMA CancelInit == Init => CancelInv
  BY ThreadsAssumption, SemAssumption
  DEF Init, CancelInv, WakeBudget, Credit, Owed, NoLostCancel, ShouldCancel

\* Every step preserves it.
LEMMA CancelNext == IInv /\ CancelInv /\ [Next]_vars => CancelInv'
<1> SUFFICES ASSUME IInv, CancelInv, [Next]_vars PROVE CancelInv'
  OBVIOUS
<1>0. /\ TypeOK
      /\ \A t \in Threads : ArgState(t) /\ TargetState(t)
      /\ \A s \in Sems : MutexState(s) /\ ListState(s)
  BY DEF IInv
<1> USE <1>0, ThreadsAssumption, SemAssumption
        DEF TypeOK, PCs, TargetState, ListState, CancelInv, WakeBudget, Credit,
            Owed, NoLostCancel, ShouldCancel, Calling, GoTo, Leave, semVars,
            localVars, cancelVars
<1>1. ASSUME NEW t \in Threads, NEW s \in Sems, WaitEnter(t, s) PROVE CancelInv'
  BY <1>1, ArgIsSem DEF WaitEnter
<1>2. ASSUME NEW t \in Threads, WaitTry(t) PROVE CancelInv'
  BY <1>2, ArgIsSem DEF WaitTry, Take
<1>3. ASSUME NEW t \in Threads, WaitTest(t) PROVE CancelInv'
  BY <1>3, ArgIsSem DEF WaitTest
<1>4. ASSUME NEW t \in Threads, WaitLock(t) PROVE CancelInv'
  <2>1. UNCHANGED <<waiters, wake_sema, target, cancel_pending, cancel_enable>>
    BY <1>4 DEF WaitLock
  <2>2. pc'[t] \in {"run", "clear"} /\ \A u \in Threads \ {t} : pc'[u] = pc[u]
    BY <1>4 DEF WaitLock
  <2>3. pc[t] = "lock"
    BY <1>4 DEF WaitLock
  <2> QED
    BY <2>1, <2>2, <2>3
<1>5. ASSUME NEW t \in Threads, WaitClear(t) PROVE CancelInv'
  BY SMTT(30), <1>5, ArgIsSem DEF WaitClear, ClearedWake
<1>6. ASSUME NEW t \in Threads, WaitList(t) PROVE CancelInv'
  <2>0. semArg[t] \in Sems
    BY <1>6, ArgIsSem DEF WaitList
  <2>1. UNCHANGED <<wake_sema, target, cancel_pending, cancel_enable>>
    BY <1>6 DEF WaitList
  <2>2. /\ pc[t] = "check"
        /\ pc'[t] = IF ShouldCancel(t) THEN "dead" ELSE "sleeping"
        /\ \A u \in Threads \ {t} : pc'[u] = pc[u]
    BY <1>6 DEF WaitList, RefuseSleep
  <2>3. \A u \in Threads \ {t} :
           (\E s \in Sems : u \in waiters'[s]) => \E s \in Sems : u \in waiters[s]
    BY <1>6, <2>0 DEF WaitList
  <2>4. ~(\E s \in Sems : t \in waiters[s])
    BY <2>2
  <2>5. NoLostCancel'
    BY <2>1, <2>2
  <2>6. \A u \in Threads : WakeBudget(u)' <= IF pc'[u] = "check" THEN 1 ELSE 2
    <3>1. ASSUME NEW u \in Threads, u # t
          PROVE  WakeBudget(u)' <= IF pc'[u] = "check" THEN 1 ELSE 2
      BY <2>1, <2>2, <2>3, <3>1
    <3>2. WakeBudget(t)' <= 2
      BY <2>1, <2>2, <2>4
    <3> QED
      BY <3>1, <3>2, <2>2
  <2> QED
    BY <2>1, <2>5, <2>6
<1>7. ASSUME NEW t \in Threads, SleepAcquire(t) PROVE CancelInv'
  BY <1>7, ArgIsSem DEF SleepAcquire
<1>8. ASSUME NEW t \in Threads, SleepTimeout(t) PROVE CancelInv'
  BY <1>8, ArgIsSem DEF SleepTimeout
<1>9. ASSUME NEW t \in Threads, WaitUnlist(t) PROVE CancelInv'
  <2>0. semArg[t] \in Sems
    BY <1>9, ArgIsSem DEF WaitUnlist
  <2>1. UNCHANGED <<wake_sema, target, cancel_pending, cancel_enable>>
    BY <1>9 DEF WaitUnlist
  <2>2. pc'[t] = "retry" /\ pc[t] = "unlist" /\ \A u \in Threads \ {t} : pc'[u] = pc[u]
    BY <1>9 DEF WaitUnlist
  <2>3. \A u \in Threads :
           (\E s \in Sems : u \in waiters'[s]) => \E s \in Sems : u \in waiters[s]
    BY <1>9, <2>0 DEF WaitUnlist
  <2> QED
    BY <2>1, <2>2, <2>3
<1>10. ASSUME NEW t \in Threads, WaitRetry(t) PROVE CancelInv'
  BY <1>10, ArgIsSem DEF WaitRetry, Take
<1>11. ASSUME NEW t \in Threads, WaitAgain(t) PROVE CancelInv'
  BY <1>11, ArgIsSem DEF WaitAgain
<1>12. ASSUME NEW t \in Threads, NEW s \in Sems, TryWait(t, s) PROVE CancelInv'
  <2>1. UNCHANGED <<waiters, pc, wake_sema, target, cancel_pending, cancel_enable>>
    BY <1>12 DEF TryWait
  <2> QED
    BY <2>1
<1>13. ASSUME NEW t \in Threads, NEW s \in Sems, Post(t, s) PROVE CancelInv'
  BY SMTT(30), <1>13, ArgIsSem DEF Post
<1>14. ASSUME NEW t \in Threads, PostWalk(t) PROVE CancelInv'
  BY SMTT(30), <1>14, ArgIsSem DEF PostWalk, Woken
<1>15. ASSUME NEW t \in Threads, NEW td \in Threads, Cancel(t, td) PROVE CancelInv'
  BY SMTT(30), <1>15, ArgIsSem DEF Cancel
<1>16. ASSUME NEW t \in Threads, CancelPost(t) PROVE CancelInv'
  BY <1>16, ArgIsSem DEF CancelPost
<1>17. ASSUME NEW t \in Threads, SetCancelState(t) PROVE CancelInv'
  BY <1>17, ArgIsSem DEF SetCancelState
<1>18. CASE UNCHANGED vars
  BY <1>18 DEF vars
<1> HIDE DEF CancelInv
<1> QED
  BY <1>1, <1>2, <1>3, <1>4, <1>5, <1>6, <1>7, <1>8, <1>9, <1>10, <1>11, <1>12, <1>13,
     <1>14, <1>15, <1>16, <1>17, <1>18 DEF Next, Step, Call

\* The cancellation invariant holds throughout.
LEMMA CancelInvariant == Spec => []CancelInv
  BY SemInvariant, CancelInit, CancelNext, PTL DEF Spec

\* No cancellation is lost between ClearWake, the check of ShouldCancel and
\* the two halves of posix_pthread_cancel.
THEOREM NoLostCancelHolds == Spec => []NoLostCancel
<1>1. CancelInv => NoLostCancel
  BY DEF CancelInv
<1> QED
  BY CancelInvariant, <1>1, PTL

\* Semaphores never post a WakeSemaphore (Semaphore<2>) beyond its limit, for
\* any number of posters.
THEOREM WakeBoundHolds == Spec => []WakeSemaphoreBound
<1>1. IInv /\ CancelInv => WakeSemaphoreBound
  <2> SUFFICES ASSUME IInv, CancelInv, NEW t \in Threads PROVE wake_sema[t] <= 2
    BY DEF WakeSemaphoreBound
  <2>1. wake_sema[t] \in Nat
    BY DEF IInv, TypeOK
  <2>2. WakeBudget(t) <= IF pc[t] = "check" THEN 1 ELSE 2
    BY DEF CancelInv
  <2> QED
    BY <2>1, <2>2 DEF WakeBudget, Credit
<1> QED
  BY SemInvariant, CancelInvariant, <1>1, PTL

-----------------------------------------------------------------------------
(***************************************************************************)
(* The refinement.                                                         *)
(***************************************************************************)

\* What CountingSem sees of the threads.
WaitsFor == [t \in Threads |-> IF pc[t] \in Waiting THEN semArg[t] ELSE None]

\* A step that neither touches a count nor enters or leaves a wait is no step
\* of CountingSem.
LEMMA StutterStep ==
    ASSUME UNCHANGED value,
           \A u \in Threads : UNCHANGED (IF pc[u] \in Waiting THEN semArg[u] ELSE None)
    PROVE  UNCHANGED CS!vars
  BY DEF CS!vars

\* A thread that leaves its wait.
LEMMA LeaveStep ==
    ASSUME IInv, NEW t \in Threads, pc[t] \in Waiting,
           NEW label \in {"run", "dead"}, Leave(t, label)
    PROVE  /\ WaitsFor[t] = semArg[t] /\ semArg[t] \in Sems
           /\ WaitsFor' = [WaitsFor EXCEPT ![t] = None]
<1>1. semArg[t] \in Sems
  BY ArgIsSem DEF Waiting
<1>2. label \notin Waiting
  BY DEF Waiting
<1>3. pc' = [pc EXCEPT ![t] = label] /\ semArg' = [semArg EXCEPT ![t] = None]
  BY DEF Leave, GoTo
<1>4. pc \in [Threads -> PCs] /\ semArg \in [Threads -> Sems \cup {None}]
  BY DEF IInv, TypeOK
<1> QED
  BY <1>1, <1>2, <1>3, <1>4 DEF WaitsFor

\* It took a token, or gave up.
LEMMA AcquireStep ==
    ASSUME IInv, NEW t \in Threads, pc[t] \in Waiting, Take(semArg[t]), Leave(t, "run")
    PROVE  CS!Next
<1>1. /\ WaitsFor[t] = semArg[t] /\ semArg[t] \in Sems
      /\ WaitsFor' = [WaitsFor EXCEPT ![t] = None]
  BY LeaveStep
<1>2. CS!Acquire(t)
  BY <1>1 DEF CS!Acquire, CS!Take, CS!Return, Take, WaitsFor
<1> QED
  BY <1>2 DEF CS!Next

LEMMA GiveUpStep ==
    ASSUME IInv, NEW t \in Threads, pc[t] \in Waiting, UNCHANGED value,
           NEW label \in {"run", "dead"}, Leave(t, label)
    PROVE  CS!Next
<1>1. /\ WaitsFor[t] = semArg[t] /\ semArg[t] \in Sems
      /\ WaitsFor' = [WaitsFor EXCEPT ![t] = None]
  BY LeaveStep
<1>2. CS!GiveUp(t)
  BY <1>1 DEF CS!GiveUp, CS!Return, WaitsFor
<1> QED
  BY <1>2 DEF CS!Next

\* A thread that goes on inside its call, or was and stays outside of a wait.
LEMMA MoveStep ==
    ASSUME IInv, NEW t \in Threads, NEW label, GoTo(t, label),
           UNCHANGED <<value, semArg>>, pc[t] \in Waiting <=> label \in Waiting
    PROVE  UNCHANGED CS!vars
<1>1. pc \in [Threads -> PCs]
  BY DEF IInv, TypeOK
<1>2. \A u \in Threads : UNCHANGED (IF pc[u] \in Waiting THEN semArg[u] ELSE None)
  BY <1>1 DEF GoTo
<1> QED
  BY <1>2, StutterStep

\* PthreadSem implements CountingSem: whatever the lists, wake-ups, time-outs
\* and cancellations do, posix_sem_wait and posix_sem_post move tokens as a
\* counting semaphore does.
THEOREM ImplementsSemaphore == Spec => IsSemaphore
<1>1. Init => CS!Init
  BY DEF Init, CS!Init, Waiting
<1>2. IInv /\ [Next]_vars => [CS!Next]_(CS!vars)
  <2> SUFFICES ASSUME IInv, [Next]_vars PROVE CS!Next \/ UNCHANGED CS!vars
    OBVIOUS
  <2> USE DEF semVars, localVars, cancelVars
  <2>1. ASSUME NEW t \in Threads, NEW s \in Sems, WaitEnter(t, s) PROVE CS!Next
    <3>1. pc \in [Threads -> PCs] /\ semArg \in [Threads -> Sems \cup {None}]
      BY DEF IInv, TypeOK
    <3>2. WaitsFor[t] = None
      BY <2>1 DEF WaitsFor, WaitEnter, Calling, Waiting
    <3>3. pc' = [pc EXCEPT ![t] = "try"] /\ semArg' = [semArg EXCEPT ![t] = s]
      BY <2>1 DEF WaitEnter, GoTo
    <3>4. WaitsFor' = [WaitsFor EXCEPT ![t] = s]
      BY <3>1, <3>3 DEF WaitsFor, Waiting
    <3>5. CS!Wait(t, s)
      BY <2>1, <3>2, <3>4 DEF CS!Wait, WaitsFor, WaitEnter
    <3> QED
      BY <3>5 DEF CS!Next
  <2>2. ASSUME NEW t \in Threads, WaitTry(t) PROVE CS!Next \/ UNCHANGED CS!vars
    <3>1. pc[t] \in Waiting
      BY <2>2 DEF WaitTry, Waiting
    <3>2. "test" \in Waiting
      BY DEF Waiting
    <3> QED
      BY <2>2, <3>1, <3>2, AcquireStep, MoveStep DEF WaitTry
  <2>3. ASSUME NEW t \in Threads, WaitTest(t) PROVE CS!Next \/ UNCHANGED CS!vars
    <3>1. pc[t] \in Waiting
      BY <2>3 DEF WaitTest, Waiting
    <3>2. "lock" \in Waiting
      BY DEF Waiting
    <3> QED
      BY <2>3, <3>1, <3>2, GiveUpStep, MoveStep DEF WaitTest
  <2>4. ASSUME NEW t \in Threads, WaitLock(t) PROVE CS!Next \/ UNCHANGED CS!vars
    <3>1. pc[t] \in Waiting
      BY <2>4 DEF WaitLock, Waiting
    <3>2. "clear" \in Waiting
      BY DEF Waiting
    <3> QED
      BY <2>4, <3>1, <3>2, AcquireStep, MoveStep DEF WaitLock
  <2>5. ASSUME NEW t \in Threads, WaitClear(t) PROVE UNCHANGED CS!vars
    <3>1. pc[t] \in Waiting /\ "check" \in Waiting
      BY <2>5 DEF WaitClear, Waiting
    <3> QED
      BY <2>5, <3>1, MoveStep DEF WaitClear
  <2>6. ASSUME NEW t \in Threads, WaitList(t) PROVE CS!Next \/ UNCHANGED CS!vars
    <3>1. pc[t] \in Waiting
      BY <2>6 DEF WaitList, Waiting
    <3>2. "sleeping" \in Waiting
      BY DEF Waiting
    <3> QED
      BY <2>6, <3>1, <3>2, GiveUpStep, MoveStep DEF WaitList
  <2>7. ASSUME NEW t \in Threads, SleepAcquire(t) \/ SleepTimeout(t)
        PROVE  UNCHANGED CS!vars
    <3>1. pc[t] \in Waiting /\ "unlist" \in Waiting
      BY <2>7 DEF SleepAcquire, SleepTimeout, Waiting
    <3> QED
      BY <2>7, <3>1, MoveStep DEF SleepAcquire, SleepTimeout
  <2>8. ASSUME NEW t \in Threads, WaitUnlist(t) PROVE UNCHANGED CS!vars
    <3>1. pc[t] \in Waiting /\ "retry" \in Waiting
      BY <2>8 DEF WaitUnlist, Waiting
    <3> QED
      BY <2>8, <3>1, MoveStep DEF WaitUnlist
  <2>9. ASSUME NEW t \in Threads, WaitRetry(t) PROVE CS!Next \/ UNCHANGED CS!vars
    <3>1. pc[t] \in Waiting
      BY <2>9 DEF WaitRetry, Waiting
    <3>2. "again" \in Waiting
      BY DEF Waiting
    <3> QED
      BY <2>9, <3>1, <3>2, AcquireStep, MoveStep DEF WaitRetry
  <2>10. ASSUME NEW t \in Threads, WaitAgain(t) PROVE CS!Next \/ UNCHANGED CS!vars
    <3>1. pc[t] \in Waiting
      BY <2>10 DEF WaitAgain, Waiting
    <3>2. "try" \in Waiting
      BY DEF Waiting
    <3> QED
      BY <2>10, <3>1, <3>2, GiveUpStep, MoveStep DEF WaitAgain
  <2>11. ASSUME NEW t \in Threads, NEW s \in Sems, TryWait(t, s) PROVE CS!Next
    <3>1. CS!Poll(s)
      BY <2>11 DEF TryWait, Take, CS!Poll, CS!Take
    <3> QED
      BY <3>1 DEF CS!Next
  <2>12. ASSUME NEW t \in Threads, NEW s \in Sems, Post(t, s) PROVE CS!Next
    <3>1. pc \in [Threads -> PCs] /\ semArg \in [Threads -> Sems \cup {None}]
      BY DEF IInv, TypeOK
    <3>2. pc[t] \notin Waiting /\ "post_walk" \notin Waiting
      BY <2>12 DEF Post, Calling, Waiting
    <3>3. WaitsFor' = WaitsFor
      BY <2>12, <3>1, <3>2 DEF Post, GoTo, WaitsFor
    <3>4. CS!Post(s)
      BY <2>12, <3>3 DEF Post, Room, CS!Post, WaitsFor
    <3> QED
      BY <3>4 DEF CS!Next
  <2>13. ASSUME NEW t \in Threads, PostWalk(t) PROVE UNCHANGED CS!vars
    <3>1. pc \in [Threads -> PCs] /\ semArg \in [Threads -> Sems \cup {None}]
      BY DEF IInv, TypeOK
    <3>2. pc[t] \notin Waiting /\ "run" \notin Waiting
      BY <2>13 DEF PostWalk, Waiting
    <3>3. \A u \in Threads : UNCHANGED (IF pc[u] \in Waiting THEN semArg[u] ELSE None)
      BY <2>13, <3>1, <3>2 DEF PostWalk, Leave, GoTo
    <3> QED
      BY <2>13, <3>3, StutterStep DEF PostWalk
  <2>14. ASSUME NEW t \in Threads, NEW td \in Threads, Cancel(t, td)
         PROVE  UNCHANGED CS!vars
    <3>1. pc[t] \notin Waiting /\ "cancel_post" \notin Waiting
      BY <2>14 DEF Cancel, Calling, Waiting
    <3> QED
      BY <2>14, <3>1, MoveStep DEF Cancel
  <2>15. ASSUME NEW t \in Threads, CancelPost(t) PROVE UNCHANGED CS!vars
    <3>1. pc[t] \notin Waiting /\ "run" \notin Waiting
      BY <2>15 DEF CancelPost, Waiting
    <3> QED
      BY <2>15, <3>1, MoveStep DEF CancelPost
  <2>16. ASSUME NEW t \in Threads, SetCancelState(t) PROVE UNCHANGED CS!vars
    <3>1. pc[t] \notin Waiting /\ "run" \notin Waiting /\ "dead" \notin Waiting
      BY <2>16 DEF SetCancelState, Calling, Waiting
    <3> QED
      BY <2>16, <3>1, MoveStep DEF SetCancelState
  <2>17. CASE UNCHANGED vars
    BY <2>17 DEF vars, CS!vars
  <2> QED
    BY <2>1, <2>2, <2>3, <2>4, <2>5, <2>6, <2>7, <2>8, <2>9, <2>10, <2>11, <2>12,
       <2>13, <2>14, <2>15, <2>16, <2>17 DEF Next, Step, Call
<1> QED
  BY SemInvariant, <1>1, <1>2, PTL DEF Spec, IsSemaphore, CS!Spec

=============================================================================
