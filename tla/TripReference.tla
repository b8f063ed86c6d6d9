--------------------------- MODULE TripReference ---------------------------
(***************************************************************************)
(* What moving and stopped time mean, defined over the whole list of       *)
(* points of a trip (docs/manuale_progettista.md, section 6.1), where      *)
(* record_position keeps running totals one point at a time.  Interval k   *)
(* is the one between points k and k + 1; "lost" is the set of intervals   *)
(* received while the trip was closed, which count nowhere.                *)
(***************************************************************************)
EXTENDS Trip, FiniteSets

IntervalsOf(points) == 1 .. (Len(points) - 1)

Quiet(points, lost, first, last) ==
    \A k \in first .. last : k \notin lost /\ points[k] = points[k + 1]

\* A quiet run is a pause from its first interval when the user was already
\* still (the start of the trip, a reopened trip), else when it is long enough.
Paused(points, lost, k) ==
    \E first \in 1 .. k, last \in k .. (Len(points) - 1) :
        /\ Quiet(points, lost, first, last)
        /\ \/ first = 1
           \/ first - 1 \in lost
           \/ (last - first + 1) * POSITION_INTERVAL_SECONDS >= STILL_THRESHOLD

PausedIntervals(points, lost) ==
    {k \in IntervalsOf(points) : Paused(points, lost, k)}

StoppedSeconds(points, lost) ==
    POSITION_INTERVAL_SECONDS * Cardinality(PausedIntervals(points, lost))

MovingSeconds(points, lost) ==
    POSITION_INTERVAL_SECONDS
      * Cardinality(IntervalsOf(points) \ (PausedIntervals(points, lost) \cup lost))

PointsOf(t) == [i \in 1 .. Len(t.positions) |-> t.positions[i].coordinates]
=============================================================================
