--------------------------- MODULE MCTripService ---------------------------
(***************************************************************************)
(* Model-checking instances of TripService: a u64 that ends after the      *)
(* second point of a trip.                                                 *)
(***************************************************************************)
EXTENDS TripService, TLC

MCElapsedInputs == {e \in {0, 30, 31, 60, 90, 120} : e <= MaxElapsed}
=============================================================================
