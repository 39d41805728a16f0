---------------------------- MODULE MCPthreadSem ----------------------------
(***************************************************************************)
(* Instances of PthreadSem for TLC.                                        *)
(***************************************************************************)
EXTENDS PthreadSem, TLC

CONSTANTS w1, w2, p1

\* Two waiters and a poster that also cancels.
WaitersAndPoster ==
    (w1 :> {"wait", "timedwait", "setcancelstate"}) @@
    (w2 :> {"wait", "trywait"}) @@
    (p1 :> {"post", "cancel"})

=============================================================================
