------------------------------ MODULE OrbisSem ------------------------------
(***************************************************************************)
(* Orbis kernel semaphores: class OrbisSem of core/libraries/kernel/       *)
(* threads/semaphore.cpp (sceKernelWaitSema and its companions).           *)
(*                                                                         *)
(* A waiter asks for need_count tokens at once.  It lists itself under the *)
(* mutex, blocks on a binary semaphore of its own outside of it, and takes *)
(* the mutex again to find out from its flags what happened.  Signal adds  *)
(* tokens and walks the list in order, serving everybody whose need is     *)
(* covered.  A time-out may race with all of that.                         *)
(*                                                                         *)
(* One action per critical section, except that Signal's walk is one       *)
(* action per list element.  Delete frees the object; the waiters it woke  *)
(* lock the freed mutex once more and then look at flags on their own      *)
(* stacks.  That lock is taken here as if the memory were still there, and *)
(* no property below depends on it.                                        *)
(***************************************************************************)
EXTENDS Pthread, Integers

CONSTANTS
    S32,                              \* half the width of an s32, 2^31
    max_count, init_count, is_fifo,   \* arguments of the constructor
    Needs, Signals, SetCounts,        \* the counts the guest passes to Wait and
                                      \* Poll, to Signal and to Cancel
    prio,                             \* attr.prio of each thread
    Program                           \* the calls each thread makes (a bound
                                      \* on the guest)

Calls == {"wait", "timedwait", "poll", "signal", "cancel", "delete"}

Int32 == -S32 .. (S32 - 1)

\* sceKernelCreateSema checks its two counts; nobody checks the others.
ASSUME OrbisSemAssumption ==
    /\ S32 \in Nat \ {0}
    /\ max_count \in 1 .. (S32 - 1)
    /\ init_count \in 0 .. max_count
    /\ Needs \subseteq Int32 /\ Signals \subseteq Int32 /\ SetCounts \subseteq Int32
    /\ is_fifo \in BOOLEAN
    /\ prio \in [Threads -> Nat]
    /\ Program \in [Threads -> SUBSET Calls]

\* Arithmetic of token_count: an s32 that wraps.  (In Signal's test the sum is of
\* plain ints, whose overflow is undefined; it is one x86 addition, which wraps as
\* the atomic += after it does.)
Wrap(x) == ((x + S32) % (2 * S32)) - S32

\* A negative need_count is accepted as well, and adds tokens without a walk of
\* the list.  What depends on the guest not to do that says so.
NoNegativeNeed == Needs \subseteq Nat

VARIABLES
    token_count,
    wait_list,       \* listed threads, the next to be served first
    mutex,           \* who is in the middle of Signal's walk
    it,              \* the position of that walk
    allocated,       \* the id is allocated in orbis_sems
    pc,
    need_count,      \* members of the caller's WaitingThread
    timed,
    sem,
    flags,           \* was_signaled, was_deleted, was_canceled
    balance          \* history: tokens supplied minus tokens of waits that
                     \* returned ORBIS_OK, modulo the width of an s32

objectVars == <<token_count, wait_list, mutex, it, allocated>>
waiterVars == <<need_count, timed, sem, flags>>
vars == <<objectVars, pc, waiterVars, balance>>

Flags == {"signaled", "deleted", "canceled"}

\* How far token_count may go: to max_count, which Signal keeps to even where its
\* sum wraps, or to what a Cancel has set, which may be more.
BelowLimit ==
    NoNegativeNeed => token_count <= max_count \/ \E n \in SetCounts : token_count <= n

TypeOK ==
    /\ token_count \in Int32 /\ BelowLimit
    /\ wait_list \in Seq(Threads)
    /\ mutex \in Threads \cup {None}
    /\ it \in Nat
    /\ allocated \in BOOLEAN
    /\ pc \in [Threads -> {"run", "blocked", "relock", "walk"}]
    /\ need_count \in [Threads -> Needs \cup {0}]
    /\ timed \in [Threads -> BOOLEAN]
    /\ sem \in [Threads -> Nat]
    /\ flags \in [Threads -> SUBSET Flags]
    /\ balance \in Int32

Init ==
    /\ token_count = init_count
    /\ wait_list = <<>>
    /\ mutex = None
    /\ it = 0
    /\ allocated = TRUE
    /\ pc = [t \in Threads |-> "run"]
    /\ need_count = [t \in Threads |-> 0]
    /\ timed = [t \in Threads |-> FALSE]
    /\ sem = [t \in Threads |-> 0]
    /\ flags = [t \in Threads |-> {}]
    /\ balance = init_count

\* A call the guest makes on a semaphore that exists.
Calling(t, call) ==
    pc[t] = "run" /\ call \in Program[t] /\ allocated /\ mutex = None

GoTo(t, label) == pc' = [pc EXCEPT ![t] = label]

-----------------------------------------------------------------------------
(***************************************************************************)
(* Wait and Poll.                                                          *)
(***************************************************************************)

\* token_count -= need_count, in Wait and in Signal.  (TakeOne is a mutant: one
\* token, whatever the need.)
TakeOne(n) == Wrap(token_count - 1)
Take(n) == Wrap(token_count - n)

\* Wait takes the tokens at once when there are enough, whoever is listed.  A
\* poll, or a time-out of 0, that does not find them changes nothing.
WaitTake(t, n) ==
    /\ \E call \in {"wait", "timedwait", "poll"} : Calling(t, call)
    /\ token_count >= n
    /\ token_count' = Take(n)
    /\ balance' = Wrap(balance - n)
    /\ UNCHANGED <<wait_list, mutex, it, allocated, pc, waiterVars>>

\* AddWaiter: right before the first waiter of lower priority (greater number)
\* than t, else last.
Priority(t) == IF is_fifo THEN 0 ELSE prio[t]
LowerPriority(u, t) == Priority(u) > Priority(t)
Positions(t) ==
    {i \in 1 .. (Len(wait_list) + 1) :
        /\ \A j \in 1 .. (i - 1) : ~LowerPriority(wait_list[j], t)
        /\ i <= Len(wait_list) => LowerPriority(wait_list[i], t)}
AddWaiter(t) == \E i \in Positions(t) : wait_list' = InsertAt(wait_list, i, t)

WaitBlock(t, n) ==
    /\ \E call \in {"wait", "timedwait"} :
          /\ Calling(t, call)
          /\ timed' = [timed EXCEPT ![t] = (call = "timedwait")]
    /\ token_count < n
    /\ AddWaiter(t)
    /\ need_count' = [need_count EXCEPT ![t] = n]
    /\ sem' = [sem EXCEPT ![t] = 0]
    /\ flags' = [flags EXCEPT ![t] = {}]
    /\ GoTo(t, "blocked")
    /\ UNCHANGED <<token_count, mutex, it, allocated, balance>>

\* WaitingThread::Wait outside of the mutex: the semaphore, or the time-out.
BlockAcquire(t) ==
    /\ pc[t] = "blocked"
    /\ sem[t] > 0
    /\ sem' = [sem EXCEPT ![t] = @ - 1]
    /\ GoTo(t, "relock")
    /\ UNCHANGED <<objectVars, need_count, timed, flags, balance>>

BlockTimeout(t) ==
    /\ pc[t] = "blocked"
    /\ timed[t]
    /\ sem[t] = 0
    /\ GoTo(t, "relock")
    /\ UNCHANGED <<objectVars, waiterVars, balance>>

\* GetResult reads the flags, not the outcome of the semaphore.
GetResult(t) ==
    IF "signaled" \in flags[t] THEN "ok"
    ELSE IF "deleted" \in flags[t] THEN "EACCES"
    ELSE IF "canceled" \in flags[t] THEN "ECANCELED"
    ELSE "ETIMEDOUT"

\* A waiter that timed out is still listed and takes itself off.
\* (KeepWaiter is a mutant.)
KeepWaiter(t) == UNCHANGED wait_list
EraseWaiter(t) ==
    IF GetResult(t) = "ETIMEDOUT"
    THEN \E i \in DOMAIN wait_list :
            wait_list[i] = t /\ wait_list' = RemoveAt(wait_list, i)
    ELSE UNCHANGED wait_list

WaitReturn(t) ==
    /\ pc[t] = "relock"
    /\ mutex = None
    /\ balance' = IF GetResult(t) = "ok" THEN Wrap(balance - need_count[t])
                                        ELSE balance
    /\ EraseWaiter(t)
    /\ GoTo(t, "run")
    /\ need_count' = [need_count EXCEPT ![t] = 0]
    /\ timed' = [timed EXCEPT ![t] = FALSE]
    /\ sem' = [sem EXCEPT ![t] = 0]
    /\ flags' = [flags EXCEPT ![t] = {}]
    /\ UNCHANGED <<token_count, mutex, it, allocated>>

-----------------------------------------------------------------------------
(***************************************************************************)
(* Signal, Cancel and Delete.                                              *)
(***************************************************************************)

\* Signal refuses a count that does not fit, and else starts the walk.
\* (AlwaysFits is a mutant.)
AlwaysFits(n) == TRUE
Fits(n) == Wrap(token_count + n) <= max_count
SignalEnter(t, n) ==
    /\ Calling(t, "signal")
    /\ Fits(n)
    /\ token_count' = Wrap(token_count + n)
    /\ balance' = Wrap(balance + n)
    /\ mutex' = t
    /\ it' = 1
    /\ GoTo(t, "walk")
    /\ UNCHANGED <<wait_list, allocated, waiterVars>>

\* One list element: too greedy, or served.  (StopAtGreedy is a mutant of the
\* step over a waiter that cannot be served: the walk ends there.)
StopAtGreedy == Len(wait_list) + 1
StepOver == it + 1
SignalSkip(t) ==
    /\ pc[t] = "walk"
    /\ it <= Len(wait_list)
    /\ need_count[wait_list[it]] > token_count
    /\ it' = StepOver
    /\ UNCHANGED <<token_count, wait_list, mutex, allocated, pc, waiterVars, balance>>

SignalServe(t) ==
    LET w == wait_list[it]
    IN  /\ pc[t] = "walk"
        /\ it <= Len(wait_list)
        /\ need_count[w] <= token_count
        /\ wait_list' = RemoveAt(wait_list, it)
        /\ token_count' = Take(need_count[w])
        /\ flags' = [flags EXCEPT ![w] = @ \cup {"signaled"}]
        /\ sem' = [sem EXCEPT ![w] = @ + 1]
        /\ UNCHANGED <<mutex, it, allocated, pc, need_count, timed, balance>>

SignalDone(t) ==
    /\ pc[t] = "walk"
    /\ it > Len(wait_list)
    /\ mutex' = None
    /\ it' = 0
    /\ GoTo(t, "run")
    /\ UNCHANGED <<token_count, wait_list, allocated, waiterVars, balance>>

Dismiss(why) ==
    /\ flags' = [u \in Threads |->
                    IF u \in Range(wait_list) THEN flags[u] \cup {why} ELSE flags[u]]
    /\ sem' = [u \in Threads |->
                  IF u \in Range(wait_list) THEN sem[u] + 1 ELSE sem[u]]
    /\ wait_list' = <<>>

\* Any set_count is stored, above max_count too; a negative one stands for
\* init_count.
Cancel(t) ==
    /\ Calling(t, "cancel")
    /\ Dismiss("canceled")
    /\ \E n \in SetCounts :
          /\ token_count' = IF n < 0 THEN init_count ELSE n
          /\ balance' = Wrap(balance - token_count + token_count')
    /\ UNCHANGED <<mutex, it, allocated, pc, need_count, timed>>

Delete(t) ==
    /\ Calling(t, "delete")
    /\ Dismiss("deleted")
    /\ allocated' = FALSE
    /\ UNCHANGED <<token_count, mutex, it, pc, need_count, timed, balance>>

-----------------------------------------------------------------------------
\* The steps inside a call, which the host scheduler runs.
Step(t) ==
    \/ BlockAcquire(t) \/ WaitReturn(t)
    \/ SignalSkip(t) \/ SignalServe(t) \/ SignalDone(t)

\* The calls of the guest.
Call(t) ==
    \/ \E n \in Needs : WaitTake(t, n) \/ WaitBlock(t, n)
    \/ \E n \in Signals : SignalEnter(t, n)
    \/ Cancel(t) \/ Delete(t)

Next == \E t \in Threads : Step(t) \/ BlockTimeout(t) \/ Call(t)

Spec == Init /\ [][Next]_vars

\* The host runs every thread that is inside a call and can run; no time-out has
\* to expire.
LiveSpec == Spec /\ \A t \in Threads : WF_vars(Step(t))

-----------------------------------------------------------------------------
\* No token is left beside a waiter that could use it: whenever the mutex is
\* free every listed waiter needs more than there is, after any sequence of
\* waits, time-outs, signals and cancellations, with any counts but negative
\* needs.
NoStrandedWaiter ==
    mutex = None => \A u \in Range(wait_list) : need_count[u] > token_count

\* A waiter is listed exactly once until it is told what happened, and never
\* afterwards, so the wait_list.erase(it) of a time-out always has a valid
\* iterator and no WaitingThread is touched after its call has returned.
ListedUntilTold ==
    /\ \A t \in Threads :
          t \in Range(wait_list) <=> pc[t] \in {"blocked", "relock"} /\ flags[t] = {}
    /\ \A i, j \in DOMAIN wait_list : wait_list[i] = wait_list[j] => i = j

\* The sem of a WaitingThread is binary: no waiter is woken twice.
WokenOnce == \A t \in Threads : sem[t] <= 1

\* The tokens set aside for the waiters that were served and have not returned,
\* each named by its waiter and a number.
TokensOf(need, S) == UNION {{t} \X (1 .. need[t]) : t \in S}
Served == {t \in Threads : "signaled" \in flags[t]}
SetAside == TokensOf(need_count, Served)

\* Tokens are neither lost nor invented: what was supplied and not returned to
\* a successful wait is in token_count or set aside for a waiter that was
\* served and has not returned yet, even when its time-out expired meanwhile
\* (modulo the width of an s32, for any counts but negative needs).
TokensAccounted == balance = Wrap(token_count + Cardinality(SetAside))

\* "Wake up threads in order of priority" (Signal): the list is in that order.
SortedByPriority ==
    \A i, j \in DOMAIN wait_list :
        i < j => Priority(wait_list[i]) <= Priority(wait_list[j])


=============================================================================
