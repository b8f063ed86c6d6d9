--------------------------- MODULE MCTripMachine ---------------------------
(***************************************************************************)
(* Model-checking instance of TripMachine: the code's own interval and     *)
(* threshold, and a u64 that ends after the ninth point.                   *)
(***************************************************************************)
EXTENDS TripMachine, TLC

MCElapsedInputs == {0, 29, 30, 31} \cup {30 * i : i \in 2 .. 8}

CoordinateSymmetry == Permutations(Coordinates)
=============================================================================
