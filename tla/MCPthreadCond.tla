--------------------------- MODULE MCPthreadCond ---------------------------
(***************************************************************************)
(* Instances of PthreadCond for TLC.                                       *)
(***************************************************************************)
EXTENDS PthreadCond, TLC

CONSTANTS w1, w2, s1, m1, c1

AllRecursive == [m \in Mutexes |-> "Recursive"]
AllErrorCheck == [m \in Mutexes |-> "ErrorCheck"]
OneChain == [c \in Conds |-> "chain"]

\* Waiters with time-outs, and a thread that signals inside and outside of the
\* mutex.
SignalProgram ==
    (w1 :> {"lock", "wait", "timedwait"}) @@
    (w2 :> {"lock", "wait", "signal"}) @@
    (s1 :> {"lock", "signal", "broadcast"})

\* A waiter that is signalled, times out and is cancelled.
CancelProgram ==
    (w1 :> {"lock", "wait", "timedwait", "setcancelstate"}) @@
    (w2 :> {"lock", "timedlock", "signal", "signalto"}) @@
    (s1 :> {"cancel"})

\* A signaller that itself waits, and may be cancelled on the way in.
CancelledSignaller ==
    (w1 :> {"lock", "wait"}) @@
    (w2 :> {"lock", "wait", "signal"}) @@
    (s1 :> {"cancel"})

=============================================================================
