----------------------------- MODULE ThreadLife -----------------------------
(***************************************************************************)
(* The life of a guest thread: pthread_create, exit, join, detach and      *)
(* cancel of core/libraries/kernel/threads/pthread.cpp, and the reference  *)
(* counts, lists and recycling of thread_state.cpp.                        *)
(*                                                                         *)
(* Guest code refers to a thread by its Pthread object, and the objects    *)
(* are recycled: a dead, detached thread without references moves from     *)
(* threads to gc_list, and once it has stored TidTerminated the next       *)
(* pthread_create may free it, cut it to zero and construct it anew.  A    *)
(* native thread is an element of Threads; owner[o] is the one that the    *)
(* present incarnation of object o is for.                                 *)
(*                                                                         *)
(* A step through a pointer whose object has been constructed anew is      *)
(* undefined: it ends the behaviour with corrupt.  What is done under      *)
(* thread_list_lock is one step, the lock of a thread taken inside it      *)
(* included: whoever has a thread's lock does not wait for the list lock.  *)
(* Cancellation is of the deferred type and always enabled.                *)
(***************************************************************************)
EXTENDS Pthread, Sequences, FiniteSets

CONSTANTS
    Main,            \* the initial thread
    Objects,         \* thread_heap
    GcThreshold,
    Program,         \* the calls each thread makes, and
    Budget           \* how many of them (bounds on the guest)

Calls == {"create", "join", "timedjoin", "detach", "cancel", "getname", "exit"}

ASSUME LifeAssumption ==
    /\ IsFiniteSet(Threads) /\ Main \in Threads
    /\ Objects # {} /\ None \notin Objects
    /\ GcThreshold \in Nat
    /\ Program \in [Threads -> SUBSET Calls]
    /\ Budget \in [Threads -> Nat]

VARIABLES
    threads, gc_list, free_threads,              \* of ThreadState
    owner, lock, join_mutex,                     \* of each Pthread object
    dead, detached, refcount, tid, joiner, join_target, cancel_pending,
    cur,             \* g_curthread of each native thread
    pc, call, arg, exiting, calls_left,
    known,           \* the incarnation that arg was when the call found it
    corrupt

listVars == <<threads, gc_list, free_threads>>
lockVars == <<lock, join_mutex>>
objectVars ==
    <<owner, dead, detached, refcount, tid, joiner, join_target, cancel_pending>>
callVars == <<call, arg, known>>
vars == <<listVars, lockVars, objectVars, cur, pc, callVars, exiting, calls_left, corrupt>>

PCs == {"unborn", "run", "alloc", "link", "start", "affinity", "find", "join",
        "test", "join_lock", "join_check", "join_block", "join_sleep", "join_done",
        "reap", "back_self", "back_target", "detach", "cancel", "cancel_notify",
        "ref_use", "ref_delete", "collect", "collect_list", "collect_unlock",
        "exit", "exit_store", "exit_notify", "exit_native", "gone"}

Pointer == Objects \cup {None}
Elements(s) == {s[i] : i \in DOMAIN s}

TypeOK ==
    /\ threads \subseteq Objects
    /\ gc_list \in Seq(Objects) /\ free_threads \in Seq(Objects)
    /\ owner \in [Objects -> Threads \cup {None}]
    /\ lock \in [Objects -> Threads \cup {None}]
    /\ join_mutex \in [Objects -> Threads \cup {None}]
    /\ dead \in [Objects -> BOOLEAN] /\ detached \in [Objects -> BOOLEAN]
    /\ refcount \in [Objects -> Nat]
    /\ tid \in [Objects -> {"live", "terminated"}]
    /\ joiner \in [Objects -> Pointer] /\ join_target \in [Objects -> Pointer]
    /\ cancel_pending \in [Objects -> BOOLEAN]
    /\ cur \in [Threads -> Pointer]
    /\ pc \in [Threads -> PCs]
    /\ call \in [Threads -> Calls \cup {None}]
    /\ arg \in [Threads -> Pointer]
    /\ known \in [Threads -> Threads \cup {None}]
    /\ exiting \in [Threads -> BOOLEAN]
    /\ calls_left \in [Threads -> Nat]
    /\ corrupt \in BOOLEAN

\* The initial thread runs; every other object is still in the heap.
Init ==
    LET o == CHOOSE x \in Objects : TRUE IN
        /\ threads = {o} /\ gc_list = <<>> /\ free_threads = <<>>
        /\ owner = [x \in Objects |-> IF x = o THEN Main ELSE None]
        /\ lock = [x \in Objects |-> None] /\ join_mutex = [x \in Objects |-> None]
        /\ dead = [x \in Objects |-> FALSE] /\ detached = [x \in Objects |-> FALSE]
        /\ refcount = [x \in Objects |-> IF x = o THEN 1 ELSE 0]
        /\ tid = [x \in Objects |-> "live"]
        /\ joiner = [x \in Objects |-> None] /\ join_target = [x \in Objects |-> None]
        /\ cancel_pending = [x \in Objects |-> FALSE]
        /\ cur = [t \in Threads |-> IF t = Main THEN o ELSE None]
        /\ pc = [t \in Threads |-> IF t = Main THEN "run" ELSE "unborn"]
        /\ call = [t \in Threads |-> None] /\ arg = [t \in Threads |-> None]
        /\ known = [t \in Threads |-> None]
        /\ exiting = [t \in Threads |-> FALSE]
        /\ calls_left = Budget
        /\ corrupt = FALSE

Move(t, place) == pc' = [pc EXCEPT ![t] = place]

\* The locals of a call are gone when it returns to the guest.
Goto(t, place) ==
    /\ Move(t, place)
    /\ IF place = "run" THEN /\ call' = [call EXCEPT ![t] = None]
                             /\ arg' = [arg EXCEPT ![t] = None]
                             /\ known' = [known EXCEPT ![t] = None]
                        ELSE UNCHANGED callVars
Lock(o, t) == lock[o] = None /\ lock' = [lock EXCEPT ![o] = t]
Unlock(o) == lock' = [lock EXCEPT ![o] = None]
Set(f, o, v) == [f EXCEPT ![o] = v]
Stale(t) == owner[arg[t]] # known[t]
ShouldCancel(t) == cancel_pending[cur[t]] /\ ~exiting[t]

\* notify_all on the join_wait_cv of o: its sleepers go for the mutex again.
Wake(o, t, next) ==
    pc' = [u \in Threads |->
              CASE u = t -> next
                [] u # t /\ pc[u] = "join_sleep" /\ arg[u] = o -> "join_lock"
                [] OTHER -> pc[u]]
-----------------------------------------------------------------------------
(***************************************************************************)
(* pthread_create: ThreadState::Collect, Alloc, Link.                      *)
(***************************************************************************)

\* The elements of a list that are in a set, in their order.
Selected(list, S) ==
    LET I == {i \in DOMAIN list : list[i] \in S}
        kth(k) == CHOOSE i \in I : Cardinality({j \in I : j <= i}) = k
    IN  [k \in 1 .. Cardinality(I) |-> list[kth(k)]]

Terminated == {o \in Objects : tid[o] = "terminated"}

Collect(t) ==
    /\ pc[t] = "run" /\ "create" \in Program[t]
    /\ IF Len(gc_list) >= GcThreshold
       THEN /\ gc_list' = Selected(gc_list, Objects \ Terminated)
            /\ free_threads' = free_threads \o Selected(gc_list, Terminated)
       ELSE UNCHANGED <<gc_list, free_threads>>
    /\ Goto(t, "alloc")
    /\ UNCHANGED <<threads, lockVars, objectVars, cur, exiting>>

Heap == {o \in Objects : owner[o] = None}
Unborn == {t \in Threads : pc[t] = "unborn"} \ {owner[o] : o \in Objects}

\* free_threads.back() or a new object, cut to zero and constructed.
Alloc(t) ==
    /\ pc[t] = "alloc"
    /\ \E o \in Objects, new \in Unborn :   \* new: the native thread to come
        /\ IF free_threads # <<>>
           THEN /\ o = free_threads[Len(free_threads)]
                /\ free_threads' = SubSeq(free_threads, 1, Len(free_threads) - 1)
           ELSE o \in Heap /\ UNCHANGED free_threads
        /\ owner' = Set(owner, o, new)
        /\ Unlock(o) /\ join_mutex' = Set(join_mutex, o, None)
        /\ dead' = Set(dead, o, FALSE) /\ detached' = Set(detached, o, FALSE)
        /\ refcount' = Set(refcount, o, 0) /\ tid' = Set(tid, o, "live")
        /\ joiner' = Set(joiner, o, None) /\ join_target' = Set(join_target, o, None)
        /\ cancel_pending' = Set(cancel_pending, o, FALSE)
        /\ arg' = [arg EXCEPT ![t] = o] /\ known' = [known EXCEPT ![t] = new]
    /\ Move(t, "link")
    /\ UNCHANGED <<threads, gc_list, cur, call, exiting>>

AllocFails(t) ==
    /\ pc[t] = "alloc"
    /\ free_threads = <<>> /\ Heap = {}
    /\ Goto(t, "run")
    /\ UNCHANGED <<listVars, lockVars, objectVars, cur, exiting>>

Link(t) ==
    /\ pc[t] = "link"
    /\ \E d \in BOOLEAN : detached' = Set(detached, arg[t], d)
    /\ refcount' = Set(refcount, arg[t], 1)
    /\ threads' = threads \cup {arg[t]}
    /\ Goto(t, "start")
    /\ UNCHANGED <<gc_list, free_threads, lockVars, owner, dead, tid, joiner, join_target,
                   cancel_pending, cur, exiting>>

Start(t) ==
    /\ pc[t] = "start"
    /\ cur' = [cur EXCEPT ![known[t]] = arg[t]]
    /\ pc' = [pc EXCEPT ![t] = "affinity", ![known[t]] = "run"]
    /\ UNCHANGED <<listVars, lockVars, objectVars, callVars, exiting>>

\* new_thread->SetAffinity, when the new thread is already running.
SetAffinity(t) ==
    /\ pc[t] = "affinity"
    /\ Goto(t, "run")
    /\ UNCHANGED <<listVars, lockVars, objectVars, cur, exiting>>
-----------------------------------------------------------------------------
(***************************************************************************)
(* The calls on another thread: FindThread first.                          *)
(***************************************************************************)

Call(t) ==
    /\ pc[t] = "run"
    /\ \E c \in Program[t] \ {"create", "exit"}, o \in Elements(cur) :
        /\ o \notin {None, cur[t]}
        /\ call' = [call EXCEPT ![t] = c] /\ arg' = [arg EXCEPT ![t] = o]
    /\ Move(t, "find")
    /\ UNCHANGED <<listVars, lockVars, objectVars, cur, known, exiting>>

Found(c) ==
    CASE c \in {"join", "timedjoin"} -> "join"
      [] c = "detach" -> "detach"
      [] c = "cancel" -> "cancel"
      [] c = "getname" -> "ref_use"

\* RefAdd.  (NotReferenced is a mutant.)
NotReferenced(o) == refcount[o]
Referenced(o) == refcount[o] + 1

FindThread(t) ==
    LET o == arg[t]
        dismissed == \/ o \notin threads
                     \/ call[t] \in {"cancel", "getname"} /\ dead[o]
    IN  /\ pc[t] = "find"
        /\ o \in threads => lock[o] = None
        /\ IF dismissed
           THEN Goto(t, "run") /\ UNCHANGED <<lock, refcount>>
           ELSE /\ known' = [known EXCEPT ![t] = owner[o]]
                /\ Move(t, Found(call[t])) /\ UNCHANGED <<call, arg>>
                /\ IF call[t] = "getname"
                   THEN refcount' = Set(refcount, o, Referenced(o)) /\ UNCHANGED lock
                   ELSE Lock(o, t) /\ UNCHANGED refcount
        /\ UNCHANGED <<listVars, join_mutex, owner, dead, detached, tid, joiner,
                       join_target, cancel_pending, cur, exiting>>
-----------------------------------------------------------------------------
(***************************************************************************)
(* JoinThread.                                                             *)
(***************************************************************************)

HasJoiner(o) == joiner[o] # None

JoinStart(t) ==
    LET o == arg[t] IN
    /\ pc[t] = "join"
    /\ IF detached[o] \/ HasJoiner(o)
       THEN Goto(t, "run") /\ UNCHANGED <<joiner, join_target>>
       ELSE /\ lock[cur[t]] = None
            /\ joiner' = Set(joiner, o, cur[t])
            /\ join_target' = Set(join_target, cur[t], o)
            /\ Goto(t, "test")
    /\ Unlock(o)
    /\ UNCHANGED <<listVars, join_mutex, owner, dead, detached, refcount, tid,
                   cancel_pending, cur, exiting>>

\* PthreadTestCancel exits, and the clean-up handler backs out of the join.
BackOut(t) == exiting' = [exiting EXCEPT ![t] = TRUE] /\ Goto(t, "back_self")

JoinTest(t) ==
    /\ pc[t] = "test"
    /\ IF ShouldCancel(t) THEN BackOut(t) ELSE Goto(t, "join_lock") /\ UNCHANGED exiting
    /\ UNCHANGED <<listVars, lockVars, objectVars, cur>>

JoinLock(t) ==
    /\ pc[t] = "join_lock" /\ join_mutex[arg[t]] = None
    /\ join_mutex' = Set(join_mutex, arg[t], t)
    /\ Goto(t, "join_check")
    /\ UNCHANGED <<listVars, lock, objectVars, cur, exiting>>

JoinCheck(t) ==
    LET o == arg[t] IN
    /\ pc[t] = "join_check"
    /\ \/ /\ tid[o] = "terminated"
          /\ join_mutex' = Set(join_mutex, o, None)
          /\ Goto(t, "join_done") /\ UNCHANGED exiting
       \/ /\ tid[o] # "terminated" /\ ShouldCancel(t)
          /\ join_mutex' = Set(join_mutex, o, None)
          /\ BackOut(t)
       \/ /\ tid[o] # "terminated" /\ ~ShouldCancel(t)
          /\ Goto(t, "join_block") /\ UNCHANGED <<join_mutex, exiting>>
    /\ UNCHANGED <<listVars, lock, objectVars, cur>>

JoinBlock(t) ==
    /\ pc[t] = "join_block"
    /\ join_mutex' = Set(join_mutex, arg[t], None)
    /\ Goto(t, "join_sleep")
    /\ UNCHANGED <<listVars, lock, objectVars, cur, exiting>>

\* wait_until asks its predicate once more before it reports the time-out.
JoinTimeout(t) ==
    LET o == arg[t] IN
    /\ pc[t] = "join_sleep" /\ call[t] = "timedjoin" /\ join_mutex[o] = None
    /\ Goto(t, IF tid[o] = "terminated" \/ ShouldCancel(t) THEN "join_lock" ELSE "back_self")
    /\ UNCHANGED <<listVars, lockVars, objectVars, cur, exiting>>

\* backout_join: its own lock, then the target's.
BackoutSelf(t) ==
    /\ pc[t] = "back_self" /\ lock[cur[t]] = None
    /\ join_target' = Set(join_target, cur[t], None)
    /\ Goto(t, "back_target")
    /\ UNCHANGED <<listVars, lockVars, owner, dead, detached, refcount, tid, joiner,
                   cancel_pending, cur, exiting>>

BackoutTarget(t) ==
    /\ pc[t] = "back_target" /\ lock[arg[t]] = None
    /\ joiner' = Set(joiner, arg[t], None)
    /\ Goto(t, IF exiting[t] THEN "exit" ELSE "run")
    /\ UNCHANGED <<listVars, lockVars, owner, dead, detached, refcount, tid, join_target,
                   cancel_pending, cur, exiting>>

JoinDone(t) ==
    /\ pc[t] = "join_done" /\ lock[cur[t]] = None
    /\ join_target' = Set(join_target, cur[t], None)
    /\ Goto(t, "reap")
    /\ UNCHANGED <<listVars, lockVars, owner, dead, detached, refcount, tid, joiner,
                   cancel_pending, cur, exiting>>

Reap(t) ==
    LET o == arg[t] IN
    /\ pc[t] = "reap" /\ Lock(o, t)
    /\ detached' = Set(detached, o, TRUE)
    /\ joiner' = Set(joiner, o, None)
    /\ Goto(t, "collect")
    /\ UNCHANGED <<listVars, join_mutex, owner, dead, refcount, tid, join_target,
                   cancel_pending, cur, exiting>>
-----------------------------------------------------------------------------
(***************************************************************************)
(* detach, cancel, getname.                                                *)
(***************************************************************************)

\* (DetachUnchecked is a mutant.)
DetachUnchecked(o) == ~detached[o]
MayDetach(o) == ~detached[o] /\ ~HasJoiner(o)

Detach(t) ==
    LET o == arg[t] IN
    /\ pc[t] = "detach"
    /\ IF MayDetach(o)
       THEN detached' = Set(detached, o, TRUE) /\ Goto(t, "collect") /\ UNCHANGED lock
       ELSE Unlock(o) /\ Goto(t, "run") /\ UNCHANGED detached
    /\ UNCHANGED <<listVars, join_mutex, owner, dead, refcount, tid, joiner,
                   join_target, cancel_pending, cur, exiting>>

\* The mark is made under the mutex of the thread that the target is joining.
JoinMutexFree(o) == join_target[o] # None => join_mutex[join_target[o]] = None

Cancel(t) ==
    LET o == arg[t] IN
    /\ pc[t] = "cancel" /\ JoinMutexFree(o)
    /\ cancel_pending' = Set(cancel_pending, o, TRUE)
    /\ IF cancel_pending[o] THEN Goto(t, "run") /\ Unlock(o)
                            ELSE Goto(t, "cancel_notify") /\ UNCHANGED lock
    /\ UNCHANGED <<listVars, join_mutex, owner, dead, detached, refcount, tid,
                   joiner, join_target, cur, exiting>>

CancelNotify(t) ==
    LET o == arg[t] IN
    /\ pc[t] = "cancel_notify"
    /\ Unlock(o)
    /\ Wake(join_target[o], t, "run")
    /\ call' = Set(call, t, None) /\ arg' = Set(arg, t, None)
    /\ known' = Set(known, t, None)
    /\ UNCHANGED <<listVars, join_mutex, objectVars, cur, exiting>>

RefUse(t) ==
    /\ pc[t] = "ref_use" /\ lock[arg[t]] = None
    /\ Goto(t, "ref_delete")
    /\ UNCHANGED <<listVars, lockVars, objectVars, cur, exiting>>

RefDelete(t) ==
    LET o == arg[t] IN
    /\ pc[t] = "ref_delete" /\ Lock(o, t)
    /\ refcount' = Set(refcount, o, refcount[o] - 1)
    /\ Goto(t, "collect")
    /\ UNCHANGED <<listVars, join_mutex, owner, dead, detached, tid, joiner,
                   join_target, cancel_pending, cur, exiting>>
-----------------------------------------------------------------------------
(***************************************************************************)
(* TryCollect and ExitThread.                                              *)
(***************************************************************************)

\* (CollectReferenced is a mutant.)
CollectReferenced(o, references) == dead[o] /\ detached[o]
ShouldCollect(o, references) == references = 0 /\ dead[o] /\ detached[o]

Leave(t) == Goto(t, IF exiting[t] THEN "exit_store" ELSE "run")

TryCollect(t) ==
    LET o == arg[t] IN
    /\ pc[t] = "collect"
    /\ Unlock(o)
    /\ IF ShouldCollect(o, refcount[o])
       THEN /\ refcount' = Set(refcount, o, refcount[o] + 1)
            /\ Goto(t, "collect_list")
       ELSE Leave(t) /\ UNCHANGED refcount
    /\ UNCHANGED <<listVars, join_mutex, owner, dead, detached, tid, joiner,
                   join_target, cancel_pending, cur, exiting>>

Erase(t) ==
    LET o == arg[t] IN
    /\ pc[t] = "collect_list" /\ Lock(o, t)
    /\ refcount' = Set(refcount, o, refcount[o] - 1)
    /\ IF ShouldCollect(o, refcount'[o])
       THEN threads' = threads \ {o} /\ gc_list' = Append(gc_list, o)
       ELSE UNCHANGED <<threads, gc_list>>
    /\ Goto(t, "collect_unlock")
    /\ UNCHANGED <<free_threads, join_mutex, owner, dead, detached, tid, joiner,
                   join_target, cancel_pending, cur, exiting>>

\* SCOPE_EXIT, after the list lock has been released.
CollectUnlock(t) ==
    /\ pc[t] = "collect_unlock"
    /\ Unlock(arg[t])
    /\ Leave(t)
    /\ UNCHANGED <<listVars, join_mutex, objectVars, cur, exiting>>

\* pthread_exit, or the start routine returns, or a cancellation point exits.
Exit(t) ==
    /\ pc[t] = "run"
    /\ "exit" \in Program[t] \/ ShouldCancel(t)
    /\ exiting' = [exiting EXCEPT ![t] = TRUE]
    /\ Goto(t, "exit")
    /\ UNCHANGED <<listVars, lockVars, objectVars, cur>>

ExitThread(t) ==
    LET o == cur[t] IN
    /\ pc[t] = "exit" /\ Lock(o, t)
    /\ dead' = Set(dead, o, TRUE)
    /\ refcount' = Set(refcount, o, refcount[o] - 1)
    /\ arg' = [arg EXCEPT ![t] = o] /\ known' = [known EXCEPT ![t] = t]
    /\ Move(t, "collect")
    /\ UNCHANGED <<listVars, join_mutex, owner, detached, tid, joiner,
                   join_target, cancel_pending, cur, call, exiting>>

\* join_wait_mutex.  (StoreUnlocked is a mutant.)
StoreUnlocked(o) == TRUE
StoreLocked(o) == join_mutex[o] = None

ExitStore(t) ==
    LET o == arg[t] IN
    /\ pc[t] = "exit_store" /\ StoreLocked(o)
    /\ tid' = Set(tid, o, "terminated")
    /\ Goto(t, "exit_notify")
    /\ UNCHANGED <<listVars, lockVars, owner, dead, detached, refcount, joiner, join_target,
                   cancel_pending, cur, exiting>>

ExitNotify(t) ==
    /\ pc[t] = "exit_notify"
    /\ Wake(arg[t], t, "exit_native")
    /\ UNCHANGED <<listVars, lockVars, objectVars, cur, callVars, exiting>>

\* native_thr->Exit()
ExitNative(t) ==
    /\ pc[t] = "exit_native"
    /\ Goto(t, "gone")
    /\ UNCHANGED <<listVars, lockVars, objectVars, cur, exiting>>
-----------------------------------------------------------------------------
\* The places where a thread goes on to use the object in arg.
Using == PCs \ {"unborn", "run", "alloc", "find", "exit", "gone"}

Finishing(t) ==
    \/ Alloc(t) \/ AllocFails(t) \/ Link(t) \/ Start(t) \/ SetAffinity(t) \/ FindThread(t)
    \/ JoinStart(t) \/ JoinTest(t) \/ JoinLock(t) \/ JoinCheck(t) \/ JoinBlock(t)
    \/ BackoutSelf(t) \/ BackoutTarget(t) \/ JoinDone(t) \/ Reap(t)
    \/ Detach(t) \/ Cancel(t) \/ CancelNotify(t) \/ RefUse(t) \/ RefDelete(t)
    \/ TryCollect(t) \/ Erase(t) \/ CollectUnlock(t)
    \/ ExitThread(t) \/ ExitStore(t) \/ ExitNotify(t) \/ ExitNative(t)
Calling(t) ==
    /\ calls_left[t] > 0
    /\ calls_left' = [calls_left EXCEPT ![t] = @ - 1]
    /\ Collect(t) \/ Call(t)
Leaving(t) == (Exit(t) \/ JoinTimeout(t)) /\ UNCHANGED calls_left

Sound(t) == ~corrupt /\ ~(pc[t] \in Using /\ Stale(t))

Corrupts(t) ==
    /\ ~corrupt /\ pc[t] \in Using /\ Stale(t)
    /\ corrupt' = TRUE
    /\ UNCHANGED <<listVars, lockVars, objectVars, cur, pc, callVars, exiting, calls_left>>

Step(t) == Sound(t) /\ Finishing(t) /\ UNCHANGED <<calls_left, corrupt>>
Begin(t) == Sound(t) /\ (Calling(t) \/ Leaving(t)) /\ UNCHANGED corrupt

Next == \E t \in Threads : Step(t) \/ Begin(t) \/ Corrupts(t)
Spec == Init /\ [][Next]_vars

\* The host runs every thread that can run; nobody has to make a call, and no
\* time-out has to expire.
LiveSpec == Spec /\ \A t \in Threads : WF_vars(Step(t) \/ Corrupts(t))
-----------------------------------------------------------------------------
(***************************************************************************)
(* Properties.                                                             *)
(***************************************************************************)
Joining == {"test", "join_lock", "join_check", "join_block", "join_sleep", "join_done",
            "reap", "back_self", "back_target"}

\* An object is on one list at most, and once: two threads that find a dead
\* thread collectable at the same time do not both collect it (TryCollect).
CollectedOnce ==
    /\ threads \cap (Elements(gc_list) \cup Elements(free_threads)) = {}
    /\ Elements(gc_list) \cap Elements(free_threads) = {}
    /\ Cardinality(Elements(gc_list)) = Len(gc_list)
    /\ Cardinality(Elements(free_threads)) = Len(free_threads)

\* The target of a join is neither collected nor joined by another thread until
\* the joiner itself lets go of it, whatever detaches, cancellations and
\* time-outs happen: JoinThread reads tid, ret and joiner without a reference.
JoinedIsKept ==
    ~corrupt => \A t \in Threads : pc[t] \in Joining =>
        arg[t] \in threads /\ ~Stale(t) /\ joiner[arg[t]] = cur[t]

\* A thread that pthread_getname_np has taken a reference on is not collected
\* before RefDelete, although it may die and be detached meanwhile.
ReferencedIsKept ==
    ~corrupt => \A t \in Threads : pc[t] \in {"ref_use", "ref_delete"} =>
        arg[t] \in threads /\ ~Stale(t)

\* posix_pthread_cancel may use the join_target it reads under the lock of its
\* target: the object is still a thread.
JoinTargetIsThread ==
    ~corrupt => \A o \in threads : join_target[o] # None => join_target[o] \in threads

\* Nobody is left with a Pthread that has been collected, by the three ways the
\* code has to hold on to one.
KeptWhileUsed == JoinedIsKept /\ ReferencedIsKept /\ JoinTargetIsThread

\* A join of a thread that has terminated returns, and a cancelled joiner leaves.
JoinReturns ==
    \A t \in {u \in Threads : {"join", "timedjoin"} \cap Program[u] # {}} :
        pc[t] = "join_sleep" /\ (tid[arg[t]] = "terminated" \/ ShouldCancel(t))
            ~> pc[t] \in {"run", "gone"} \/ corrupt

\* "Initialize thread struct memory to 0. This is safe": no thread has still to
\* use the object that Alloc constructs anew, be it the exiting thread that has
\* its wake-ups and native_thr->Exit() before it, or a joiner or a detacher
\* that has still to release the thread's lock in TryCollect.
ConstructedAlone == \A t \in Threads : pc[t] \in Using => ~Stale(t)
=============================================================================
