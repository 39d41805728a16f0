------------------------------ MODULE Pthread ------------------------------
(***************************************************************************)
(* What the modules about guest threads share: the threads themselves and  *)
(* the null pointer.                                                       *)
(***************************************************************************)
EXTENDS Naturals, SequencesExt

CONSTANTS
    Threads,      \* guest threads (Pthread objects)
    None          \* the null pointer

ASSUME ThreadsAssumption == None \notin Threads

=============================================================================
