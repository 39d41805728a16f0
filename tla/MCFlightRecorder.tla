-------------------------- MODULE MCFlightRecorder --------------------------
(***************************************************************************)
(* Instances of FlightRecorder for TLC.                                    *)
(***************************************************************************)
EXTENDS FlightRecorder

CONSTANTS t1, t2

=============================================================================
