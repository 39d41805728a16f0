----------------------------- MODULE EventFlag -----------------------------
(***************************************************************************)
(* Kernel event flags: EventFlagInternal of core/libraries/kernel/threads/ *)
(* event_flag.cpp.                                                         *)
(*                                                                         *)
(* A waiter names bits, whether it needs all of them or any, and what to   *)
(* clear when it gets them.  Set walks the waiters in list order; a waiter *)
(* that is served stays listed until it runs again and removes itself, so  *)
(* a later Set, Cancel or the destructor may still meet it.  The           *)
(* destructor waits until the last waiter has left.                        *)
(*                                                                         *)
(* Bit patterns are sets of bits.  One action per critical section, except *)
(* that Set's walk is one action per waiter.                               *)
(***************************************************************************)
EXTENDS Pthread

CONSTANTS
    Bits,
    thread_mode,     \* "Single" or "Multi"
    queue_mode,      \* "Fifo" or "ThreadPrio"
    prio,            \* attr.prio of each thread
    Program          \* the calls each thread makes (a bound on the guest)

Calls == {"wait", "timedwait", "set", "clear", "cancel", "delete"}

ASSUME EventFlagAssumption ==
    /\ thread_mode \in {"Single", "Multi"}
    /\ queue_mode \in {"Fifo", "ThreadPrio"}
    /\ prio \in [Threads -> Nat]
    /\ Program \in [Threads -> SUBSET Calls]

VARIABLES
    m_bits, m_waiters, m_deleted,
    m_mutex,         \* who is in the middle of Set's walk
    it,              \* the position of that walk
    destroy_notified,\* m_destroy_cv has been notified
    exists,          \* the destructor has not returned
    pc,
    waiter,          \* the caller's Waiter: bits, wait_mode, clear_mode
    flags,           \* its members ready, canceled and deleted
    result,          \* its member result
    notified,        \* its cv has been notified
    timed

objectVars == <<m_bits, m_waiters, m_deleted, m_mutex, it, destroy_notified, exists>>
waiterVars == <<waiter, flags, result, notified, timed>>
vars == <<objectVars, pc, waiterVars>>

Patterns == SUBSET Bits
Flags == {"ready", "canceled", "deleted"}
Waiters == [bits : Patterns, wait_mode : {"And", "Or"},
            clear_mode : {"None", "All", "Bits"}]
NoWaiter == [bits |-> {}, wait_mode |-> "And", clear_mode |-> "None"]

TypeOK ==
    /\ m_bits \in Patterns
    /\ m_waiters \in Seq(Threads)
    /\ m_deleted \in BOOLEAN
    /\ m_mutex \in Threads \cup {None}
    /\ it \in 0 .. (Len(m_waiters) + 1)
    /\ destroy_notified \in BOOLEAN
    /\ exists \in BOOLEAN
    /\ pc \in [Threads -> {"run", "waiting", "walk", "destroying"}]
    /\ waiter \in [Threads -> Waiters]
    /\ flags \in [Threads -> SUBSET Flags]
    /\ result \in [Threads -> Patterns]
    /\ notified \in [Threads -> BOOLEAN]
    /\ timed \in [Threads -> BOOLEAN]

Init ==
    /\ m_bits \in Patterns
    /\ m_waiters = <<>>
    /\ m_deleted = FALSE
    /\ m_mutex = None
    /\ it = 0
    /\ destroy_notified = FALSE
    /\ exists = TRUE
    /\ pc = [t \in Threads |-> "run"]
    /\ waiter = [t \in Threads |-> NoWaiter]
    /\ flags = [t \in Threads |-> {}]
    /\ result = [t \in Threads |-> {}]
    /\ notified = [t \in Threads |-> FALSE]
    /\ timed = [t \in Threads |-> FALSE]

\* A call the guest makes while the object exists.
Calling(t, call) ==
    pc[t] = "run" /\ call \in Program[t] /\ exists /\ m_mutex = None

GoTo(t, label) == pc' = [pc EXCEPT ![t] = label]

-----------------------------------------------------------------------------
Satisfies(bits, w) ==
    IF w.wait_mode = "And" THEN w.bits \subseteq bits ELSE w.bits \cap bits # {}
ConditionMet(w) == Satisfies(m_bits, w)

\* ApplyClear.
AfterClear(w) ==
    CASE w.clear_mode = "None" -> m_bits
      [] w.clear_mode = "All"  -> {}
      [] w.clear_mode = "Bits" -> m_bits \ w.bits

\* Wait is let in: not deleted, and alone on a flag for a single thread.
\* (AdmittedAlways is a mutant.)
AdmittedAlways == ~m_deleted
Admitted == ~m_deleted /\ (thread_mode = "Single" => m_waiters = <<>>)

\* The condition holds at once.
WaitTake(t, w) ==
    /\ \E call \in {"wait", "timedwait"} : Calling(t, call)
    /\ Admitted
    /\ ConditionMet(w)
    /\ m_bits' = AfterClear(w)
    /\ UNCHANGED <<m_waiters, m_deleted, m_mutex, it, destroy_notified, exists, pc,
                   waiterVars>>

\* AddWaiter: last, or before the first waiter whose prio is smaller.
InsertBefore(u, t) == queue_mode = "ThreadPrio" /\ prio[u] < prio[t]
Positions(t) ==
    {i \in 1 .. (Len(m_waiters) + 1) :
        /\ \A j \in 1 .. (i - 1) : ~InsertBefore(m_waiters[j], t)
        /\ i <= Len(m_waiters) => InsertBefore(m_waiters[i], t)}
AddWaiter(t) == \E i \in Positions(t) : m_waiters' = InsertAt(m_waiters, i, t)

WaitBlock(t, w) ==
    /\ \E call \in {"wait", "timedwait"} :
          /\ Calling(t, call)
          /\ timed' = [timed EXCEPT ![t] = (call = "timedwait")]
    /\ Admitted
    /\ ~ConditionMet(w)
    /\ AddWaiter(t)
    /\ waiter' = [waiter EXCEPT ![t] = w]
    /\ GoTo(t, "waiting")
    /\ UNCHANGED <<m_bits, m_deleted, m_mutex, it, destroy_notified, exists, flags,
                   result, notified>>

\* RemoveWaiter; the last one out of a deleted flag notifies the destructor.
\* (NotifyNobody and ForgetWaiter are mutants.)
NotifyNobody(rest) == destroy_notified' = destroy_notified
NotifyDestructor(rest) ==
    destroy_notified' = (destroy_notified \/ (m_deleted /\ rest = <<>>))
ForgetWaiter(t) ==
    UNCHANGED m_waiters /\ NotifyDestructor(m_waiters)
RemoveWaiter(t) ==
    \E i \in DOMAIN m_waiters :
        /\ m_waiters[i] = t
        /\ m_waiters' = RemoveAt(m_waiters, i)
        /\ NotifyDestructor(RemoveAt(m_waiters, i))

\* The caller's Waiter goes out of scope.
Leave(t) ==
    /\ RemoveWaiter(t)
    /\ GoTo(t, "run")
    /\ waiter' = [waiter EXCEPT ![t] = NoWaiter]
    /\ flags' = [flags EXCEPT ![t] = {}]
    /\ result' = [result EXCEPT ![t] = {}]
    /\ notified' = [notified EXCEPT ![t] = FALSE]
    /\ timed' = [timed EXCEPT ![t] = FALSE]
    /\ UNCHANGED <<m_bits, m_deleted, m_mutex, it, exists>>

\* The wait ends because a flag is set: after a notification, or when the
\* time-out looks at the predicate once more.
WaitWoken(t) ==
    /\ pc[t] = "waiting"
    /\ m_mutex = None
    /\ flags[t] # {}
    /\ notified[t] \/ timed[t]
    /\ Leave(t)

WaitTimeout(t) ==
    /\ pc[t] = "waiting"
    /\ m_mutex = None
    /\ timed[t]
    /\ flags[t] = {}
    /\ Leave(t)

-----------------------------------------------------------------------------
SetEnter(t, b) ==
    /\ Calling(t, "set")
    /\ m_bits' = m_bits \cup b
    /\ m_mutex' = t
    /\ it' = 1
    /\ GoTo(t, "walk")
    /\ UNCHANGED <<m_waiters, m_deleted, destroy_notified, exists, waiterVars>>

\* The iterator moves on.  (TwoOn is a mutant.)
TwoOn == it + 2
OneOn == it + 1

SetSkip(t) ==
    /\ pc[t] = "walk"
    /\ it <= Len(m_waiters)
    /\ ~ConditionMet(waiter[m_waiters[it]])
    /\ it' = OneOn
    /\ UNCHANGED <<m_bits, m_waiters, m_deleted, m_mutex, destroy_notified, exists,
                   pc, waiterVars>>

\* What the waiter is told.  (BitsLeft is a mutant: the bits after the clear.)
BitsLeft(w) == AfterClear(w)
BitsSeen(w) == m_bits

SetServe(t) ==
    LET u == m_waiters[it]
    IN  /\ pc[t] = "walk"
        /\ it <= Len(m_waiters)
        /\ ConditionMet(waiter[u])
        /\ result' = [result EXCEPT ![u] = BitsSeen(waiter[u])]
        /\ m_bits' = AfterClear(waiter[u])
        /\ flags' = [flags EXCEPT ![u] = @ \cup {"ready"}]
        /\ notified' = [notified EXCEPT ![u] = TRUE]
        /\ it' = OneOn
        /\ UNCHANGED <<m_waiters, m_deleted, m_mutex, destroy_notified, exists, pc,
                       waiter, timed>>

\* The walk reaches the end of the list.  (FirstOnly is a mutant: the walk
\* stops after the first waiter.)
FirstOnly == it > 1
WalkOver == it > Len(m_waiters)
SetDone(t) ==
    /\ pc[t] = "walk"
    /\ WalkOver
    /\ m_mutex' = None
    /\ it' = 0
    /\ GoTo(t, "run")
    /\ UNCHANGED <<m_bits, m_waiters, m_deleted, destroy_notified, exists, waiterVars>>

\* Clear keeps the bits it is given.
Clear(t, b) ==
    /\ Calling(t, "clear")
    /\ m_bits' = m_bits \cap b
    /\ UNCHANGED <<m_waiters, m_deleted, m_mutex, it, destroy_notified, exists, pc,
                   waiterVars>>

\* Cancel and the destructor raise a flag of every waiter and notify it.
Raise(flag) ==
    /\ flags' = [u \in Threads |->
                    IF u \in Range(m_waiters) THEN flags[u] \cup {flag} ELSE flags[u]]
    /\ notified' = [u \in Threads |-> notified[u] \/ u \in Range(m_waiters)]

Cancel(t, b) ==
    /\ Calling(t, "cancel")
    /\ m_bits' = b
    /\ Raise("canceled")
    /\ result' = [u \in Threads |-> IF u \in Range(m_waiters) THEN b ELSE result[u]]
    /\ UNCHANGED <<m_waiters, m_deleted, m_mutex, it, destroy_notified, exists, pc,
                   waiter, timed>>

\* sceKernelDeleteEventFlag: the destructor up to its wait, and its end.
\* (LeaveAtOnce is a mutant of the predicate of that wait.)
LeaveAtOnce == TRUE
AllGone == m_waiters = <<>>
Delete(t) ==
    /\ Calling(t, "delete")
    /\ ~m_deleted
    /\ m_deleted' = TRUE
    /\ Raise("deleted")
    /\ IF AllGone
       THEN exists' = FALSE /\ UNCHANGED pc
       ELSE GoTo(t, "destroying") /\ UNCHANGED exists
    /\ UNCHANGED <<m_bits, m_waiters, m_mutex, it, destroy_notified, waiter, result,
                   timed>>

DeleteDone(t) ==
    /\ pc[t] = "destroying"
    /\ m_mutex = None
    /\ destroy_notified
    /\ AllGone
    /\ exists' = FALSE
    /\ GoTo(t, "run")
    /\ UNCHANGED <<m_bits, m_waiters, m_deleted, m_mutex, it, destroy_notified,
                   waiterVars>>

-----------------------------------------------------------------------------
\* The steps inside a call, which the host scheduler runs.
Step(t) ==
    \/ WaitWoken(t)
    \/ SetSkip(t) \/ SetServe(t) \/ SetDone(t) \/ DeleteDone(t)

\* The calls of the guest; a wait for no bits is refused.
Call(t) ==
    \/ \E w \in Waiters : w.bits # {} /\ (WaitTake(t, w) \/ WaitBlock(t, w))
    \/ \E b \in Patterns : SetEnter(t, b) \/ Clear(t, b) \/ Cancel(t, b)
    \/ Delete(t)

Next == \E t \in Threads : Step(t) \/ WaitTimeout(t) \/ Call(t)

Spec == Init /\ [][Next]_vars

\* The host runs every thread that is inside a call and can run; a thread that
\* waits for m_mutex gets it in the end.  No time-out has to expire.
LiveSpec == Spec /\ \A t \in Threads : SF_vars(Step(t))

-----------------------------------------------------------------------------
\* No set is missed: whenever the mutex is free, a waiter that has not been
\* told anything is one whose condition does not hold.
NoMissedSet ==
    m_mutex = None =>
        \A u \in Range(m_waiters) : flags[u] = {} => ~ConditionMet(waiter[u])

\* The pattern returned to a waiter that was served, and not cancelled
\* afterwards, satisfies what it waited for.
ResultShowsWhy ==
    \A t \in Threads :
        flags[t] \cap {"ready", "canceled"} = {"ready"} => Satisfies(result[t], waiter[t])

\* m_waiters holds pointers to objects on the stacks of threads inside Wait:
\* each of them is there exactly once, whichever of time-out, Set, Cancel and
\* the destructor ends its wait, and nobody else is.
ListedWhileWaiting ==
    /\ \A t \in Threads : t \in Range(m_waiters) <=> pc[t] = "waiting"
    /\ \A i, j \in DOMAIN m_waiters : m_waiters[i] = m_waiters[j] => i = j

\* The destructor returns only when nobody is inside Wait any more, although
\* the waiters it wakes need the object's mutex and list to leave.
DestroyedAlone ==
    ~exists => m_mutex = None /\ \A t \in Threads : pc[t] = "run"

\* sceKernelDeleteEventFlag ends: every waiter it wakes gets the object's mutex
\* and leaves, and the last one tells the destructor.
DeleteEnds == m_deleted ~> ~exists

=============================================================================
