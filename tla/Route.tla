------------------------------- MODULE Route -------------------------------
(***************************************************************************)
(* The routes of the client, client/src/movement/csv_route.rs: what        *)
(* load_route makes of the rows of a CSV file.  A row holds a time, MM:SS, *)
(* and a point; Malformed is any other text in the place of a time, and    *)
(* Nowhere a pair of numbers that is no point of the globe, or no numbers. *)
(***************************************************************************)
EXTENDS Trip

CONSTANTS Malformed, Nowhere

ASSUME RouteAssumption == Nowhere \notin Coordinates

Row == [time : [minutes : Nat, seconds : 0 .. 99] \cup {Malformed},
        point : Coordinates \cup {Nowhere}]

\* The time in seconds, if there is one.
ParseElapsedTime(time) ==
    IF time # Malformed /\ time.seconds < 60 /\ time.minutes * 60 + time.seconds <= MaxElapsed
      THEN {time.minutes * 60 + time.seconds}
      ELSE {}

\* Row i of a file whose rows before it are good; MaxElapsed bounds the sum.
GoodRow(file, i) ==
    \E elapsed \in ParseElapsedTime(file[i].time) :
        /\ file[i].point \in Coordinates
        /\ IF i = 1
             THEN elapsed = 0
             ELSE \E previous \in ParseElapsedTime(file[i - 1].time) :
                      elapsed = previous + POSITION_INTERVAL_SECONDS

ValidRoute(file) == file # << >> /\ \A i \in 1 .. Len(file) : GoodRow(file, i)

LoadRoute(file) ==
    [i \in 1 .. Len(file) |->
        [time |-> CHOOSE elapsed \in ParseElapsedTime(file[i].time) : TRUE,
         coordinates |-> file[i].point]]
=============================================================================
