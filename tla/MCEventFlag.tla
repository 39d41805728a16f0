---------------------------- MODULE MCEventFlag ----------------------------
(***************************************************************************)
(* Instances of EventFlag for TLC.                                         *)
(***************************************************************************)
EXTENDS EventFlag, TLC

CONSTANTS w1, w2, s1

Priorities == (w1 :> 1) @@ (w2 :> 2) @@ (s1 :> 1)

WaitersAndSetter ==
    (w1 :> {"timedwait"}) @@
    (w2 :> {"wait"}) @@
    (s1 :> {"set", "clear", "cancel", "delete"})

=============================================================================
