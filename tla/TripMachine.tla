---------------------------- MODULE TripMachine ----------------------------
(***************************************************************************)
(* One Trip driven by every sequence of record_position and disconnect     *)
(* calls.  The histories say which intervals the code counts nowhere, so   *)
(* that its running totals can be compared with a definition of moving and *)
(* stopped time that looks at the whole list of positions.                 *)
(***************************************************************************)
EXTENDS TripReference

CONSTANT ElapsedInputs          \* logical times a client may send

ASSUME ElapsedAssumption == ElapsedInputs \subseteq 0 .. MaxElapsed

VARIABLES
    trip,       \* the Trip
    result,     \* what the last call returned
    reopened    \* history: k is here if the interval from point k to point
                \* k + 1 was received in state Disconnected

vars == << trip, result, reopened >>

Init ==
    /\ trip = NewTrip
    /\ result = "Ok"
    /\ reopened = {}

Intervals == 1 .. (Len(trip.positions) - 1)

Reopens(elapsed) ==
    /\ PositionResult(trip, elapsed) = "Ok"
    /\ trip.positions # << >>
    /\ trip.state = "Disconnected"

Record(c, elapsed) ==
    /\ trip' = RecordPosition(trip, c, elapsed)
    /\ result' = PositionResult(trip, elapsed)
    /\ reopened' = IF Reopens(elapsed)
                     THEN reopened \cup {Len(trip.positions)}
                     ELSE reopened

Close ==
    /\ trip' = Disconnect(trip)
    /\ result' = "Ok"
    /\ UNCHANGED reopened

Next ==
    \/ \E c \in Coordinates, elapsed \in ElapsedInputs : Record(c, elapsed)
    \/ Close

Spec == Init /\ [][Next]_vars
-----------------------------------------------------------------------------
(* The fields of the trip, the last answer and the history keep their types. *)
TypeOK ==
    /\ trip \in TripType
    /\ result \in TripError \cup {"Ok"}
    /\ reopened \subseteq Nat

(* record_position accepts only the sequence 0, 30, 60, ...: whatever the    *)
(* client sends, the stored point i has logical time (i - 1) * 30.           *)
LogicalTimes ==
    \A i \in 1 .. Len(trip.positions) :
        trip.positions[i].elapsed_seconds = (i - 1) * POSITION_INTERVAL_SECONDS

(* No second is lost or counted twice: moving, stopped and pending time add  *)
(* up to the intervals between the stored points, but for the intervals that *)
(* reopened the trip, which trip.rs:152-156 counts nowhere.                  *)
TimeAccounting ==
    trip.moving_time + trip.stopped_time + trip.pending_still_time
      = POSITION_INTERVAL_SECONDS * (Cardinality(Intervals) - Cardinality(reopened))

(* A pause not yet confirmed exists only while Moving and is below the       *)
(* threshold: trip.rs:173 confirms it at the boundary, not one point later.  *)
PendingBelowThreshold ==
    /\ trip.pending_still_time < STILL_THRESHOLD
    /\ trip.pending_still_time > 0 => trip.state = "Moving"

(* The totals record_position keeps one point at a time, crediting a pause   *)
(* after the fact, equal those of the definition over the whole list.        *)
TimesMatchReference ==
    /\ trip.stopped_time = StoppedSeconds(PointsOf(trip), reopened)
    /\ trip.moving_time + trip.pending_still_time
         = MovingSeconds(PointsOf(trip), reopened)

(* Once a trip is closed nothing is pending, so what finish_trip summarises  *)
(* is every counted second of the trip, and it never exceeds the logical     *)
(* time of the last point (the durations cannot overflow before it does).    *)
ClosedTripIsComplete ==
    (trip.state = "Disconnected" /\ trip.positions # << >>) =>
        /\ trip.moving_time + trip.stopped_time
             = POSITION_INTERVAL_SECONDS * Cardinality(Intervals \ reopened)
        /\ trip.moving_time + trip.stopped_time <= Previous(trip).elapsed_seconds

(* A call that answers an error leaves the trip as it was, and no call drops *)
(* or rewrites a stored point: the list only grows, by the reported point.   *)
RejectedOrAppended ==
    [][ /\ result' \in TripError => trip' = trip
        /\ Len(trip.positions) <= Len(trip'.positions)
        /\ Len(trip'.positions) <= Len(trip.positions) + 1
        /\ \A i \in 1 .. Len(trip.positions) :
               trip'.positions[i] = trip.positions[i] ]_vars
=============================================================================
