----------------------------- MODULE MCOrbisSem -----------------------------
(***************************************************************************)
(* Instances of OrbisSem for TLC.                                          *)
(***************************************************************************)
EXTENDS OrbisSem, TLC

CONSTANTS w1, w2, w3, s1

\* w1 and w2 have the same priority, w3 a higher one (a smaller number).
Priorities == (w1 :> 2) @@ (w2 :> 2) @@ (w3 :> 1) @@ (s1 :> 2)

\* One count below zero and two above; with the counts that Cancel sets the sum
\* of Signal passes both ends of the s32.
SignalCounts == {-1, 1, 2}
CancelCounts == {-1, 0, 3}

WaitersAndSignaller ==
    (w1 :> {"wait", "timedwait"}) @@
    (w2 :> {"wait", "poll"}) @@
    (w3 :> {"timedwait"}) @@
    (s1 :> {"signal", "cancel", "delete"})

=============================================================================
