---------------------------- MODULE MCLiverpool ----------------------------
(***************************************************************************)
(* Instances of Liverpool for TLC.                                         *)
(***************************************************************************)
EXTENDS Liverpool, TLC

CONSTANTS g1, g2

Gfx(tasks) == [op |-> "submit", qid |-> 0, tasks |-> tasks]
Asc(tasks) == [op |-> "submit", qid |-> 1, tasks |-> tasks]

\* One thread renders frames; the other uses a compute ring (past its end, so
\* in two parts), reads back memory and flips.
Frames ==
    (g1 :> {Gfx(<<"wait">>), [op |-> "done"]}) @@
    (g2 :> {Asc(<<"work", "work">>), [op |-> "read"], [op |-> "flip"]})

FewCalls == (g1 :> 3) @@ (g2 :> 2)

=============================================================================
