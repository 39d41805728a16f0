----------------------------- MODULE MCThreadLife -----------------------------
(***************************************************************************)
(* Instances of ThreadLife for TLC.                                        *)
(***************************************************************************)
EXTENDS ThreadLife, TLC

CONSTANTS m, a, b

\* The initial thread creates, joins and detaches; the others look at it, at
\* each other, cancel and exit.
Family ==
    (m :> {"create", "join", "timedjoin"}) @@
    (a :> {"detach", "exit"}) @@
    (b :> {"getname", "cancel", "exit"})
FewCalls == (m :> 3) @@ (a :> 1) @@ (b :> 1)

\* Creation and joining alone.
CreateAndJoin ==
    (m :> {"create", "join"}) @@ (a :> {"exit"}) @@ (b :> {"exit"})
=============================================================================
