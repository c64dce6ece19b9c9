--------------------------- MODULE MCObservations ---------------------------
(* An instance of Observations for TLC. *)
EXTENDS Observations
=============================================================================
