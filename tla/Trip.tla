-------------------------------- MODULE Trip --------------------------------
(***************************************************************************)
(* The trip of one user, server/src/trip.rs, as operators on a record.     *)
(* The user id and the coordinates' floating point distance are left out:  *)
(* nothing in the state machine depends on them.  Durations are whole      *)
(* seconds, as every one the code builds is.                               *)
(***************************************************************************)
EXTENDS Integers, Sequences

CONSTANTS
    Coordinates,                \* the points a client may report
    POSITION_INTERVAL_SECONDS,  \* 30 in the code
    STILL_THRESHOLD,            \* 180 in the code
    MaxElapsed                  \* the largest u64

ASSUME TripAssumption ==
    /\ POSITION_INTERVAL_SECONDS \in Nat \ {0}
    /\ STILL_THRESHOLD \in Nat \ {0}
    /\ MaxElapsed \in Nat

UserState == {"Disconnected", "Moving", "Still"}

PositionSample == [coordinates : Coordinates, elapsed_seconds : 0 .. MaxElapsed]

TripType ==
    [positions : Seq(PositionSample), state : UserState,
     moving_time : Nat, stopped_time : Nat, pending_still_time : Nat]

TripError == {"InvalidInitialTime", "InvalidTimeInterval", "ElapsedTimeOverflow"}

NewTrip ==
    [positions |-> << >>, state |-> "Disconnected",
     moving_time |-> 0, stopped_time |-> 0, pending_still_time |-> 0]

Previous(t) == t.positions[Len(t.positions)]

Expected(t) == Previous(t).elapsed_seconds + POSITION_INTERVAL_SECONDS

\* Mutant: a late position is accepted too.
PositionResultLate(t, elapsed) ==
    IF t.positions = << >>
      THEN IF elapsed = 0 THEN "Ok" ELSE "InvalidInitialTime"
      ELSE IF Expected(t) > MaxElapsed THEN "ElapsedTimeOverflow"
      ELSE IF elapsed >= Expected(t) THEN "Ok" ELSE "InvalidTimeInterval"

(***************************************************************************)
(* What record_position answers: an error, or "Ok".                        *)
(***************************************************************************)
PositionResult(t, elapsed) ==
    IF t.positions = << >>
      THEN IF elapsed = 0 THEN "Ok" ELSE "InvalidInitialTime"
      ELSE IF Expected(t) > MaxElapsed THEN "ElapsedTimeOverflow"
      ELSE IF elapsed = Expected(t) THEN "Ok" ELSE "InvalidTimeInterval"

FirstPosition(t) == [t EXCEPT !.state = "Still"]

\* Mutant: a reopened trip is taken to be moving.
ReopenMoving(t) == [t EXCEPT !.state = "Moving", !.pending_still_time = 0]

\* A position after a disconnection: the interval that led to it counts nowhere.
Reopen(t) == [t EXCEPT !.state = "Still", !.pending_still_time = 0]

StayStill(t) == [t EXCEPT !.stopped_time = @ + POSITION_INTERVAL_SECONDS]

StartMoving(t) ==
    [t EXCEPT !.moving_time = @ + POSITION_INTERVAL_SECONDS, !.state = "Moving"]

\* Mutants: an unconfirmed pause is forgotten; it is taken away one interval at a time.
KeepMovingForgets(t) ==
    [t EXCEPT !.moving_time = @ + POSITION_INTERVAL_SECONDS, !.pending_still_time = 0]

KeepMovingUnderflows(t) ==
    [t EXCEPT !.moving_time = @ + t.pending_still_time + POSITION_INTERVAL_SECONDS,
              !.pending_still_time = @ - POSITION_INTERVAL_SECONDS]

KeepMoving(t) ==
    [t EXCEPT !.moving_time = @ + t.pending_still_time + POSITION_INTERVAL_SECONDS,
              !.pending_still_time = 0]

\* Mutant: the pause is confirmed one point late.
PauseWhileMovingLate(t) ==
    LET pending == t.pending_still_time + POSITION_INTERVAL_SECONDS IN
    IF pending > STILL_THRESHOLD
      THEN [t EXCEPT !.stopped_time = @ + pending,
                     !.pending_still_time = 0,
                     !.state = "Still"]
      ELSE [t EXCEPT !.pending_still_time = pending]

\* An unchanged point while moving: the pause is confirmed, with all the time
\* it has lasted, only when it reaches the threshold.
PauseWhileMoving(t) ==
    LET pending == t.pending_still_time + POSITION_INTERVAL_SECONDS IN
    IF pending >= STILL_THRESHOLD
      THEN [t EXCEPT !.stopped_time = @ + pending,
                     !.pending_still_time = 0,
                     !.state = "Still"]
      ELSE [t EXCEPT !.pending_still_time = pending]

AccountInterval(t, changed) ==
    CASE t.state = "Disconnected" -> Reopen(t)
      [] t.state = "Still" -> IF changed THEN StartMoving(t) ELSE StayStill(t)
      [] t.state = "Moving" -> IF changed THEN KeepMoving(t) ELSE PauseWhileMoving(t)

\* Mutant: the point is stored before its time is checked.
RecordPositionUnchecked(t, coordinates, elapsed) ==
    LET sample == [coordinates |-> coordinates, elapsed_seconds |-> elapsed]
        stored == [t EXCEPT !.positions = Append(@, sample)]
    IN  IF PositionResult(t, elapsed) # "Ok" THEN stored
        ELSE IF t.positions = << >> THEN FirstPosition(stored)
        ELSE AccountInterval(stored, coordinates # Previous(t).coordinates)

RecordPosition(t, coordinates, elapsed) ==
    LET sample == [coordinates |-> coordinates, elapsed_seconds |-> elapsed]
        updated == IF t.positions = << >>
                     THEN FirstPosition(t)
                     ELSE AccountInterval(t, coordinates # Previous(t).coordinates)
    IN  IF PositionResult(t, elapsed) = "Ok"
          THEN [updated EXCEPT !.positions = Append(@, sample)]
          ELSE t

\* Mutant: closing a trip drops the pause that is not yet confirmed.
DisconnectDrops(t) == [t EXCEPT !.pending_still_time = 0, !.state = "Disconnected"]

Disconnect(t) ==
    [t EXCEPT !.moving_time = IF t.state = "Moving" THEN @ + t.pending_still_time ELSE @,
              !.pending_still_time = 0,
              !.state = "Disconnected"]

(***************************************************************************)
(* TripSummary: what finish_trip returns and save_trip writes.             *)
(***************************************************************************)
Summary(t) ==
    [points_received |-> Len(t.positions),
     moving_seconds |-> t.moving_time,
     stopped_seconds |-> t.stopped_time]
=============================================================================
