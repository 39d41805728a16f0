---------------------------- MODULE CountingSem ----------------------------
(***************************************************************************)
(* What a POSIX semaphore promises: posts add tokens up to a limit, a wait *)
(* takes exactly one token or, when it times out or is cancelled, none,    *)
(* and a thread does not wait for ever beside a token that stays there.    *)
(***************************************************************************)
EXTENDS Naturals

CONSTANTS Threads, Sems, None, InitialValue, MaxValue

VARIABLES
    count,      \* the tokens of each semaphore
    waiting     \* the semaphore each thread waits for, or None

vars == <<count, waiting>>

Init ==
    /\ count = [s \in Sems |-> InitialValue]
    /\ waiting = [t \in Threads |-> None]

Take(s) == count[s] > 0 /\ count' = [count EXCEPT ![s] = @ - 1]
Return(t) == waiting[t] \in Sems /\ waiting' = [waiting EXCEPT ![t] = None]

Wait(t, s) ==
    /\ waiting[t] = None
    /\ waiting' = [waiting EXCEPT ![t] = s]
    /\ UNCHANGED count

Acquire(t) == \E s \in Sems : waiting[t] = s /\ Take(s) /\ Return(t)
GiveUp(t) == Return(t) /\ UNCHANGED count
Poll(s) == Take(s) /\ UNCHANGED waiting

Post(s) ==
    /\ count[s] < MaxValue
    /\ count' = [count EXCEPT ![s] = @ + 1]
    /\ UNCHANGED waiting

Next ==
    \/ \E t \in Threads : Acquire(t) \/ GiveUp(t)
    \/ \E s \in Sems : Poll(s) \/ Post(s) \/ \E t \in Threads : Wait(t, s)

Spec == Init /\ [][Next]_vars
Fairness == \A t \in Threads : WF_vars(Acquire(t))
=============================================================================
