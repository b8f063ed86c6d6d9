---------------------------- MODULE MCDashboard ----------------------------
(***************************************************************************)
(* Model-checking instances of Dashboard: two valid routes, neither the    *)
(* beginning of the other; files with a gap in their times, with seconds   *)
(* that are none, with a point nowhere and without a row.                  *)
(***************************************************************************)
EXTENDS Dashboard, TLC

CONSTANTS home, depot

At(minutes, seconds, point) ==
    [time |-> [minutes |-> minutes, seconds |-> seconds], point |-> point]

MCRouteFiles ==
    {<< At(0, 0, home), At(0, 30, depot), At(1, 0, home) >>, << At(0, 0, depot) >>,
     << At(0, 0, home), At(0, 31, home) >>, << At(0, 0, home), At(0, 90, depot) >>,
     << At(0, 0, Nowhere) >>, << [time |-> Malformed, point |-> home] >>, << >>}

MCElapsedInputs == {0, 30, 60}
=============================================================================
