------------------------- MODULE MCLockedDashboard --------------------------
(***************************************************************************)
(* Model-checking instance of LockedDashboard: a route of two points and   *)
(* a file that is none.  The other files are in MCDashboard.               *)
(***************************************************************************)
EXTENDS LockedDashboard, MCDashboard

MCTwoFiles == {<< >>, << At(0, 0, home), At(0, 30, depot) >>}
=============================================================================
