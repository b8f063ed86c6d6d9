---------------------------- MODULE TripProofs ----------------------------
(***************************************************************************)
(* Proofs about TripMachine, for every interval, threshold, u64 bound and  *)
(* set of coordinates.                                                     *)
(***************************************************************************)
EXTENDS TripMachine, TripLemmas, SequenceTheorems, FiniteSetTheorems, TLAPS

(* A trip without points is still the new trip: no time was counted.       *)
Untouched == trip.positions = << >> => Total(trip) = 0 /\ trip.state = "Disconnected"

IInv ==
    /\ TypeOK
    /\ LogicalTimes
    /\ PendingBelowThreshold
    /\ Untouched
    /\ reopened \subseteq Intervals
    /\ TimeAccounting
-----------------------------------------------------------------------------
(* A rejected position changes nothing but the answer.                       *)
LEMMA RejectedKeepsIInv ==
    ASSUME IInv, NEW c \in Coordinates, NEW elapsed \in ElapsedInputs,
           Record(c, elapsed), PositionResult(trip, elapsed) # "Ok"
    PROVE  IInv'
<1>1. trip' = trip /\ reopened' = reopened
  BY DEF Record, RecordPosition, Reopens
<1>2. result' \in TripError \cup {"Ok"}
  BY DEF Record, PositionResult, TripError
<1>3. QED
  BY <1>1, <1>2 DEF IInv, TypeOK, LogicalTimes, PendingBelowThreshold, Untouched, Total,
                    TimeAccounting, Intervals

(* The first accepted position starts the list at logical time 0.            *)
LEMMA FirstKeepsIInv ==
    ASSUME IInv, NEW c \in Coordinates, NEW elapsed \in ElapsedInputs,
           Record(c, elapsed), PositionResult(trip, elapsed) = "Ok",
           trip.positions = << >>
    PROVE  IInv'
<1> DEFINE sample == [coordinates |-> c, elapsed_seconds |-> elapsed]
           u == FirstPosition(trip)
<1>1. trip \in TripType
  BY DEF IInv, TypeOK
<1>2. elapsed = 0 /\ sample \in PositionSample
  BY ElapsedAssumption, TripAssumption DEF PositionResult, PositionSample
<1>3. u \in TripType
  BY <1>1 DEF FirstPosition, TripType, UserState
<1>4. /\ u.positions = << >>
      /\ u.state = "Still"
      /\ u.moving_time = trip.moving_time
      /\ u.stopped_time = trip.stopped_time
      /\ u.pending_still_time = trip.pending_still_time
  BY <1>1 DEF FirstPosition, TripType
<1>5. trip' = [u EXCEPT !.positions = Append(@, sample)]
  BY DEF Record, RecordPosition
<1> HIDE DEF u
<1>6. reopened' = reopened /\ result' = "Ok"
  BY DEF Record, Reopens
<1>7. reopened = {}
  BY DEF IInv, Intervals
<1>8. Total(trip) = 0 /\ Total(u) = 0
  BY <1>4 DEF IInv, Untouched, Total
<1>9. trip.pending_still_time = 0
  BY <1>1, <1>8, TripFields DEF Total
<1>10. /\ trip' \in TripType
       /\ trip'.positions = << sample >>
       /\ trip'.state = "Still"
       /\ trip'.pending_still_time = 0
       /\ Total(trip') = 0
  <2>1. /\ trip' \in TripType
        /\ trip'.positions = Append(u.positions, sample)
        /\ trip'.state = u.state
        /\ trip'.pending_still_time = u.pending_still_time
        /\ Total(trip') = Total(u)
    BY <1>2, <1>3, <1>5, PushPosition
  <2>2. QED BY <2>1, <1>4, <1>8, <1>9
<1>11. TypeOK'
  BY <1>6, <1>7, <1>10 DEF TypeOK
<1>12. LogicalTimes'
  BY <1>2, <1>10, TripAssumption DEF LogicalTimes
<1>13. PendingBelowThreshold' /\ Untouched'
  BY <1>10, TripAssumption DEF PendingBelowThreshold, Untouched
<1>14. Intervals' = {}
  BY <1>10 DEF Intervals
<1>15. TimeAccounting'
  BY <1>6, <1>7, <1>10, <1>14, FS_EmptySet, TripAssumption DEF TimeAccounting, Total
<1>16. QED BY <1>6, <1>7, <1>11, <1>12, <1>13, <1>14, <1>15 DEF IInv

(* A later accepted position adds one interval, counted or reopened.         *)
LEMMA IntervalKeepsIInv ==
    ASSUME IInv, NEW c \in Coordinates, NEW elapsed \in ElapsedInputs,
           Record(c, elapsed), PositionResult(trip, elapsed) = "Ok",
           trip.positions # << >>
    PROVE  IInv'
<1> DEFINE sample == [coordinates |-> c, elapsed_seconds |-> elapsed]
           changed == c # Previous(trip).coordinates
           seconds == IF trip.state = "Disconnected" THEN 0 ELSE POSITION_INTERVAL_SECONDS
           u == AccountInterval(trip, changed)
           n == Len(trip.positions)
<1>1. trip \in TripType /\ PendingOK(trip)
  BY DEF IInv, TypeOK, PendingBelowThreshold, PendingOK
<1>2. n \in Nat \ {0}
  BY <1>1, TripFields, EmptySeq, LenProperties
<1>3. elapsed = Expected(trip) /\ sample \in PositionSample
  BY ElapsedAssumption DEF PositionResult, PositionSample
<1>4. elapsed = n * POSITION_INTERVAL_SECONDS
  <2>1. Previous(trip).elapsed_seconds = (n - 1) * POSITION_INTERVAL_SECONDS
    BY <1>2 DEF IInv, LogicalTimes, Previous
  <2>2. QED BY <2>1, <1>2, <1>3, TripAssumption DEF Expected
<1>5. Accounted(trip, u, seconds)
  BY <1>1, AccountIntervalAccounts
<1>6. trip' = [u EXCEPT !.positions = Append(@, sample)]
  BY DEF Record, RecordPosition
<1> HIDE DEF u
<1>7. /\ trip' \in TripType
      /\ trip'.positions = Append(trip.positions, sample)
      /\ trip'.state = u.state
      /\ trip'.pending_still_time = u.pending_still_time
      /\ Total(trip') = Total(trip) + seconds
  <2>1. u \in TripType /\ u.positions = trip.positions /\ Total(u) = Total(trip) + seconds
    BY <1>5 DEF Accounted
  <2>2. /\ trip' \in TripType
        /\ trip'.positions = Append(u.positions, sample)
        /\ trip'.state = u.state
        /\ trip'.pending_still_time = u.pending_still_time
        /\ Total(trip') = Total(u)
    BY <2>1, <1>3, <1>6, PushPosition
  <2>3. QED BY <2>1, <2>2
<1>8. /\ Len(trip'.positions) = n + 1
      /\ trip'.positions[n + 1] = sample
      /\ \A i \in 1 .. n : trip'.positions[i] = trip.positions[i]
  BY <1>1, <1>3, <1>7, TripFields, AppendProperties
<1>9. result' = "Ok" /\ reopened' = IF seconds = 0 THEN reopened \cup {n} ELSE reopened
  BY TripAssumption DEF Record, Reopens
<1>10. TypeOK'
  BY <1>2, <1>7, <1>9 DEF TypeOK, IInv
<1>11. LogicalTimes'
  <2>1. SUFFICES ASSUME NEW i \in 1 .. (n + 1)
                 PROVE  trip'.positions[i].elapsed_seconds
                          = (i - 1) * POSITION_INTERVAL_SECONDS
    BY <1>8 DEF LogicalTimes
  <2>2. CASE i \in 1 .. n
    BY <2>2, <1>8 DEF IInv, LogicalTimes
  <2>3. CASE i = n + 1
    BY <2>3, <1>2, <1>4, <1>8
  <2>4. QED BY <1>2, <2>2, <2>3
<1>12. PendingBelowThreshold'
  BY <1>5, <1>7 DEF Accounted, PendingBelowThreshold
<1>13. Untouched'
  BY <1>2, <1>8 DEF Untouched
<1>14. Intervals = 1 .. (n - 1) /\ Intervals' = 1 .. n
  BY <1>2, <1>8 DEF Intervals
<1>15. reopened' \subseteq Intervals'
  BY <1>2, <1>9, <1>14 DEF IInv
<1>16. TimeAccounting'
  <2>1. Cardinality(Intervals) = n - 1 /\ Cardinality(Intervals') = n
    BY <1>2, <1>14, FS_Interval
  <2>2. IsFiniteSet(reopened) /\ n \notin reopened /\ Cardinality(reopened) \in Nat
    <3>1. reopened \subseteq 1 .. (n - 1)
      BY <1>14 DEF IInv
    <3>2. IsFiniteSet(1 .. (n - 1))
      BY <1>2, FS_Interval
    <3>3. IsFiniteSet(reopened)
      BY <3>1, <3>2, FS_Subset
    <3>4. QED BY <1>2, <3>1, <3>3, FS_CardinalityType
  <2>3. Cardinality(reopened') = IF seconds = 0 THEN Cardinality(reopened) + 1
                                               ELSE Cardinality(reopened)
    BY <2>2, <1>9, FS_AddElement
  <2>4. Total(trip) = POSITION_INTERVAL_SECONDS * (n - 1 - Cardinality(reopened))
    BY <2>1 DEF IInv, TimeAccounting, Total
  <2>5. Total(trip') = POSITION_INTERVAL_SECONDS * (n - Cardinality(reopened'))
    <3>1. CASE seconds = 0
      BY <3>1, <2>2, <2>3, <2>4, <1>2, <1>7, TripAssumption
    <3>2. CASE seconds # 0
      <4>1. seconds = POSITION_INTERVAL_SECONDS
        BY <3>2
      <4>2. POSITION_INTERVAL_SECONDS * (n - 1 - Cardinality(reopened))
              + POSITION_INTERVAL_SECONDS
              = POSITION_INTERVAL_SECONDS * (n - Cardinality(reopened))
        BY <2>2, <1>2, TripAssumption
      <4>3. QED BY <3>2, <4>1, <4>2, <2>3, <2>4, <1>7
    <3>3. QED BY <3>1, <3>2
  <2>6. QED BY <2>1, <2>5 DEF TimeAccounting, Total
<1>17. QED BY <1>10, <1>11, <1>12, <1>13, <1>15, <1>16 DEF IInv

(* Closing a trip changes only its state and where the pending time counts.  *)
LEMMA CloseKeepsIInv ==
    ASSUME IInv, Close
    PROVE  IInv'
<1>1. trip \in TripType /\ PendingOK(trip)
  BY DEF IInv, TypeOK, PendingBelowThreshold, PendingOK
<1>2. /\ trip' \in TripType
      /\ trip'.positions = trip.positions
      /\ trip'.pending_still_time = 0
      /\ trip'.state = "Disconnected"
      /\ Total(trip') = Total(trip)
  BY <1>1, DisconnectAccounts DEF Close
<1>3. reopened' = reopened /\ result' = "Ok"
  BY DEF Close
<1>4. TypeOK'
  BY <1>2, <1>3 DEF TypeOK, IInv
<1>5. LogicalTimes' /\ Intervals' = Intervals
  BY <1>2 DEF LogicalTimes, Intervals, IInv
<1>6. PendingBelowThreshold' /\ Untouched'
  BY <1>2, TripAssumption DEF PendingBelowThreshold, Untouched, IInv
<1>7. TimeAccounting'
  BY <1>2, <1>3, <1>5 DEF TimeAccounting, Total, IInv
<1>8. QED BY <1>3, <1>4, <1>5, <1>6, <1>7 DEF IInv

(* A new trip satisfies the inductive invariant.                             *)
LEMMA InitIInv == Init => IInv
<1> SUFFICES ASSUME Init PROVE IInv
  OBVIOUS
<1>1. trip = NewTrip /\ result = "Ok" /\ reopened = {}
  BY DEF Init
<1>2. trip \in TripType
  BY <1>1 DEF NewTrip, TripType, UserState
<1>3. /\ trip.positions = << >>
      /\ trip.state = "Disconnected"
      /\ trip.moving_time = 0 /\ trip.stopped_time = 0 /\ trip.pending_still_time = 0
  BY <1>1 DEF NewTrip
<1>4. TypeOK
  BY <1>1, <1>2 DEF TypeOK
<1>5. LogicalTimes /\ PendingBelowThreshold /\ Untouched /\ Intervals = {}
  BY <1>3, TripAssumption
  DEF LogicalTimes, PendingBelowThreshold, Untouched, Total, Intervals
<1>6. TimeAccounting
  BY <1>1, <1>3, <1>5, FS_EmptySet, TripAssumption DEF TimeAccounting
<1>7. QED BY <1>1, <1>4, <1>5, <1>6 DEF IInv

(* Every call of record_position and disconnect keeps the invariant.         *)
LEMMA NextIInv == IInv /\ [Next]_vars => IInv'
<1> SUFFICES ASSUME IInv, [Next]_vars PROVE IInv'
  OBVIOUS
<1>1. CASE \E c \in Coordinates, elapsed \in ElapsedInputs : Record(c, elapsed)
  BY <1>1, RejectedKeepsIInv, FirstKeepsIInv, IntervalKeepsIInv
<1>2. CASE Close
  BY <1>2, CloseKeepsIInv
<1>3. CASE UNCHANGED vars
  BY <1>3 DEF vars, IInv, TypeOK, LogicalTimes, PendingBelowThreshold, Untouched, Total,
              TimeAccounting, Intervals
<1>4. QED BY <1>1, <1>2, <1>3 DEF Next

LEMMA Invariant == Spec => []IInv
BY InitIInv, NextIInv, PTL DEF Spec

(* Whatever calls reach a Trip, its fields keep their types: the logical     *)
(* times it stores stay within u64 (checked_add, trip.rs:136-139).           *)
THEOREM TypeCorrect == Spec => []TypeOK
BY Invariant, PTL DEF IInv

(* The stored points are exactly 30 seconds apart from 0 (trip.rs:120-146).  *)
THEOREM StoredTimesAreRegular == Spec => []LogicalTimes
BY Invariant, PTL DEF IInv

(* Moving, stopped and pending time add up to the intervals between stored   *)
(* points that did not reopen the trip: no second is lost or counted twice   *)
(* by the pause that is credited after the fact (trip.rs:151-187).           *)
THEOREM NoSecondLost == Spec => []TimeAccounting
BY Invariant, PTL DEF IInv

(* A pause is confirmed when it reaches the threshold (trip.rs:173).         *)
THEOREM PauseConfirmedAtThreshold == Spec => []PendingBelowThreshold
BY Invariant, PTL DEF IInv

(* A rejected position leaves the trip alone, an accepted one is appended:   *)
(* no stored point is ever dropped or rewritten (trip.rs:115-190).           *)
THEOREM PointsOnlyAppended == Spec => RejectedOrAppended
<1> DEFINE A == /\ result' \in TripError => trip' = trip
                /\ Len(trip.positions) <= Len(trip'.positions)
                /\ Len(trip'.positions) <= Len(trip.positions) + 1
                /\ \A i \in 1 .. Len(trip.positions) :
                       trip'.positions[i] = trip.positions[i]
<1>1. ASSUME IInv, Next PROVE A
  <2>1. trip \in TripType /\ PendingOK(trip) /\ Len(trip.positions) \in Nat
    BY <1>1, TripFields, LenProperties
    DEF IInv, TypeOK, PendingBelowThreshold, PendingOK
  <2>2. ASSUME NEW c \in Coordinates, NEW elapsed \in ElapsedInputs, Record(c, elapsed)
        PROVE  A
    <3> DEFINE sample == [coordinates |-> c, elapsed_seconds |-> elapsed]
    <3>1. CASE PositionResult(trip, elapsed) = "Ok"
      <4>1. result' \notin TripError
        BY <2>2, <3>1 DEF Record, TripError
      <4>2. sample \in PositionSample
        BY ElapsedAssumption DEF PositionSample
      <4>3. \E u \in TripType : /\ u.positions = trip.positions
                                /\ trip' = [u EXCEPT !.positions = Append(@, sample)]
        <5>1. CASE trip.positions = << >>
          <6>1. FirstPosition(trip) \in TripType
            BY <2>1 DEF FirstPosition, TripType, UserState
          <6>2. FirstPosition(trip).positions = trip.positions
            BY <2>1 DEF FirstPosition, TripType
          <6>3. QED BY <2>2, <3>1, <5>1, <6>1, <6>2 DEF Record, RecordPosition
        <5>2. CASE trip.positions # << >>
          <6> DEFINE u == AccountInterval(trip, c # Previous(trip).coordinates)
          <6>1. u \in TripType /\ u.positions = trip.positions
            BY <2>1, AccountIntervalAccounts DEF Accounted
          <6>2. trip' = [u EXCEPT !.positions = Append(@, sample)]
            BY <2>2, <3>1, <5>2 DEF Record, RecordPosition
          <6>3. QED BY <6>1, <6>2
        <5>3. QED BY <5>1, <5>2
      <4>4. trip'.positions = Append(trip.positions, sample)
        BY <4>2, <4>3, PushPosition
      <4>5. QED BY <2>1, <4>1, <4>2, <4>4, TripFields, AppendProperties
    <3>2. CASE PositionResult(trip, elapsed) # "Ok"
      BY <2>1, <2>2, <3>2 DEF Record, RecordPosition
    <3>3. QED BY <3>1, <3>2
  <2>3. ASSUME Close PROVE A
    <3>1. trip'.positions = trip.positions
      BY <2>1, <2>3, DisconnectAccounts DEF Close
    <3>2. QED BY <2>1, <2>3, <3>1 DEF Close, TripError
  <2>4. QED BY <1>1, <2>2, <2>3 DEF Next
<1>2. IInv /\ [Next]_vars => [A]_vars
  BY <1>1
<1>3. QED BY <1>2, Invariant, PTL DEF Spec, RejectedOrAppended

(* What finish_trip summarises is every counted second, and it fits in the   *)
(* logical time of the last point, a u64: the durations never overflow.      *)
THEOREM ClosedTripCountsEverything == Spec => []ClosedTripIsComplete
<1>1. ASSUME IInv PROVE ClosedTripIsComplete
  <2>1. SUFFICES ASSUME trip.state = "Disconnected", trip.positions # << >>
                 PROVE  /\ trip.moving_time + trip.stopped_time
                             = POSITION_INTERVAL_SECONDS * Cardinality(Intervals \ reopened)
                        /\ trip.moving_time + trip.stopped_time
                             <= Previous(trip).elapsed_seconds
    BY DEF ClosedTripIsComplete
  <2> DEFINE n == Len(trip.positions)
             k == Cardinality(Intervals \ reopened)
  <2>2. /\ trip \in TripType /\ trip.moving_time \in Nat /\ trip.stopped_time \in Nat
        /\ trip.pending_still_time \in Nat /\ n \in Nat \ {0}
    BY <1>1, <2>1, TripFields, EmptySeq, LenProperties DEF IInv, TypeOK
  <2>3. trip.pending_still_time = 0
    BY <1>1, <2>1, <2>2 DEF IInv, PendingBelowThreshold
  <2>4. IsFiniteSet(Intervals) /\ Cardinality(Intervals) = n - 1
    <3>1. Intervals = 1 .. (n - 1)
      BY DEF Intervals
    <3> HIDE DEF n
    <3>2. n - 1 \in Int /\ (IF 1 > n - 1 THEN 0 ELSE (n - 1) - 1 + 1) = n - 1
      BY <2>2
    <3>3. QED BY <3>1, <3>2, FS_Interval
  <2>5. /\ k = Cardinality(Intervals) - Cardinality(Intervals \cap reopened)
        /\ Intervals \cap reopened = reopened
    BY <1>1, <2>4, FS_Difference DEF IInv
  <2>6. Cardinality(reopened) \in Nat
    BY <1>1, <2>4, FS_Subset, FS_CardinalityType DEF IInv
  <2>7. trip.moving_time + trip.stopped_time = POSITION_INTERVAL_SECONDS * k
    <3>1. k = Cardinality(Intervals) - Cardinality(reopened)
      BY <2>5
    <3>2. trip.moving_time + trip.stopped_time + trip.pending_still_time
            = POSITION_INTERVAL_SECONDS * (Cardinality(Intervals) - Cardinality(reopened))
      BY <1>1 DEF IInv, TimeAccounting
    <3>3. QED BY <3>1, <3>2, <2>2, <2>3
  <2>8. Previous(trip).elapsed_seconds = (n - 1) * POSITION_INTERVAL_SECONDS
    BY <1>1, <2>2 DEF IInv, LogicalTimes, Previous
  <2>9. POSITION_INTERVAL_SECONDS * k <= (n - 1) * POSITION_INTERVAL_SECONDS
    <3>1. k = n - 1 - Cardinality(reopened)
      BY <2>4, <2>5
    <3> HIDE DEF k, n
    <3>2. k \in Int /\ n \in Int /\ k <= n - 1
      BY <2>2, <2>6, <3>1
    <3>3. QED BY <3>2, TripAssumption
  <2>10. QED BY <2>7, <2>8, <2>9
<1>2. QED BY <1>1, Invariant, PTL
-----------------------------------------------------------------------------
(* The totals and the state agree with the definition over the whole list:   *)
(* what TimesMatchReference needs besides IInv.  Where a pause would begin,  *)
(* and how long the pending one has lasted, is what the state remembers.     *)
Totals == trip.positions # << >> => Tallied(trip, PointsOf(trip), reopened)

LEMMA LostIntervals ==
    ASSUME IInv
    PROVE  IntervalsOf(PointsOf(trip)) = Intervals /\ reopened \subseteq IntervalsOf(PointsOf(trip))
BY PointsList DEF IInv, TypeOK, IntervalsOf, Intervals

LEMMA StoppedSoFar ==
    ASSUME IInv, Totals
    PROVE  trip.stopped_time = StoppedSeconds(PointsOf(trip), reopened)
<1>1. CASE trip.positions # << >>
  BY <1>1 DEF Totals, Tallied
<1>2. CASE trip.positions = << >>
  <2>1. trip \in TripType /\ Total(trip) = 0 /\ Len(PointsOf(trip)) = 0
    BY <1>2, PointsList DEF IInv, TypeOK, Untouched
  <2>2. trip.stopped_time = 0
    BY <2>1, TripFields DEF Total
  <2>3. PausedIntervals(PointsOf(trip), reopened) = {}
    BY <2>1 DEF PausedIntervals, IntervalsOf
  <2>4. QED BY <2>2, <2>3, FS_EmptySet, TripAssumption DEF StoppedSeconds
<1>3. QED BY <1>1, <1>2

LEMMA RecordKeepsTotals ==
    ASSUME IInv, IInv', Totals, NEW c \in Coordinates, NEW elapsed \in ElapsedInputs,
           Record(c, elapsed)
    PROVE  Totals'
<1> DEFINE sample == [coordinates |-> c, elapsed_seconds |-> elapsed]
           points == PointsOf(trip)
<1>1. trip \in TripType /\ trip' \in TripType /\ PendingOK(trip)
  BY DEF IInv, TypeOK, PendingBelowThreshold, PendingOK
<1>2. sample \in PositionSample /\ elapsed \in 0 .. MaxElapsed
  BY ElapsedAssumption DEF PositionSample
<1>3. CASE PositionResult(trip, elapsed) # "Ok"
  BY <1>3 DEF Record, RecordPosition, Reopens, Totals
<1>4. CASE PositionResult(trip, elapsed) = "Ok" /\ trip.positions = << >>
  <2> DEFINE u == FirstPosition(trip)
  <2>1. trip' = [u EXCEPT !.positions = Append(@, sample)]
    BY <1>4 DEF Record, RecordPosition
  <2>2. /\ u \in TripType /\ u.positions = trip.positions
        /\ u.state = "Still" /\ u.stopped_time = trip.stopped_time
    BY <1>1 DEF FirstPosition, TripType, UserState
  <2> HIDE DEF u
  <2>3. trip'.positions = Append(trip.positions, sample)
    BY <1>2, <2>1, <2>2, PushPosition
  <2>4. Len(PointsOf(trip')) = 1
    <3>1. Len(trip'.positions) = 1
      BY <1>2, <1>4, <2>3
    <3>2. QED BY <1>1, <3>1, PointsList
  <2>5. trip.stopped_time = 0
    <3>1. /\ Total(trip) = 0 /\ trip.moving_time \in Nat /\ trip.stopped_time \in Nat
          /\ trip.pending_still_time \in Nat
      BY <1>1, <1>4, TripFields DEF IInv, Untouched
    <3>2. QED BY <3>1 DEF Total
  <2>6. Tallied(u, PointsOf(trip'), reopened')
    BY <2>2, <2>4, <2>5, FirstTallies
  <2>7. QED BY <1>2, <2>1, <2>2, <2>6, PushTallies DEF Totals
<1>5. CASE PositionResult(trip, elapsed) = "Ok" /\ trip.positions # << >>
  <2> DEFINE u == AccountInterval(trip, c # points[Len(points)])
             more == IF trip.state = "Disconnected" THEN reopened \cup {Len(points)} ELSE reopened
  <2>1. /\ points \in Seq(Coordinates) /\ points # << >>
        /\ points[Len(points)] = Previous(trip).coordinates
        /\ Len(points) = Len(trip.positions)
        /\ reopened \subseteq IntervalsOf(points)
        /\ Tallied(trip, points, reopened)
    BY <1>1, <1>5, PointsList, LostIntervals DEF Totals
  <2>2. trip' = [u EXCEPT !.positions = Append(@, sample)]
    BY <1>5, <2>1 DEF Record, RecordPosition
  <2>3. reopened' = more
    BY <1>5, <2>1 DEF Record, Reopens
  <2>4. u \in TripType /\ u.positions = trip.positions
    BY <1>1, AccountIntervalAccounts DEF Accounted
  <2>5. Tallied(u, Append(points, c), more)
    BY <1>1, <2>1, IntervalTallies
  <2> HIDE DEF u, more, points
  <2>6. trip'.positions = Append(trip.positions, sample)
    BY <1>2, <2>2, <2>4, PushPosition
  <2>7. PointsOf(trip') = Append(points, c)
    BY <1>1, <1>2, <2>6, PointsAppend DEF points
  <2>8. Tallied(trip', PointsOf(trip'), reopened')
    BY <1>2, <2>2, <2>3, <2>4, <2>5, <2>7, PushTallies
  <2>9. QED BY <2>8 DEF Totals
<1>6. QED BY <1>3, <1>4, <1>5

LEMMA TotalsStep == IInv /\ Totals /\ [Next]_vars => Totals'
<1> SUFFICES ASSUME IInv, Totals, [Next]_vars PROVE Totals'
  OBVIOUS
<1>1. IInv'
  BY NextIInv
<1>2. CASE \E c \in Coordinates, elapsed \in ElapsedInputs : Record(c, elapsed)
  BY <1>1, <1>2, RecordKeepsTotals
<1>3. CASE Close
  <2>1. trip \in TripType /\ trip' = Disconnect(trip) /\ reopened' = reopened
    BY <1>3 DEF Close, IInv, TypeOK
  <2>2. trip'.positions = trip.positions
    BY <2>1, DisconnectAccounts DEF IInv, PendingBelowThreshold, PendingOK
  <2>3. PointsOf(trip') = PointsOf(trip)
    BY <2>2 DEF PointsOf
  <2>4. QED BY <2>1, <2>3, StoppedSoFar, DisconnectTallies DEF Totals
<1>4. CASE UNCHANGED vars
  BY <1>4 DEF vars, Totals
<1>5. QED BY <1>2, <1>3, <1>4 DEF Next

(* The totals that record_position keeps one point at a time, crediting a    *)
(* pause after the fact (trip.rs:151-187), are those of the definition over  *)
(* the whole list of points, for every interval and every threshold.         *)
THEOREM TotalsAreThoseDefined == Spec => []TimesMatchReference
<1>1. Init => Totals
  BY DEF Init, NewTrip, Totals
<1>2. ASSUME IInv, Totals PROVE TimesMatchReference
  <2>1. /\ trip \in TripType /\ PointsOf(trip) \in Seq(Coordinates)
        /\ trip.stopped_time = StoppedSeconds(PointsOf(trip), reopened)
        /\ IntervalsOf(PointsOf(trip)) = Intervals
        /\ reopened \subseteq IntervalsOf(PointsOf(trip))
    BY <1>2, PointsList, LostIntervals, StoppedSoFar DEF IInv, TypeOK
  <2>2. Total(trip) = POSITION_INTERVAL_SECONDS
                        * (Cardinality(IntervalsOf(PointsOf(trip))) - Cardinality(reopened))
    BY <1>2, <2>1 DEF IInv, TimeAccounting, Total
  <2>3. trip.moving_time + trip.pending_still_time = MovingSeconds(PointsOf(trip), reopened)
    BY <2>1, <2>2, MovingFollows
  <2>4. QED BY <2>1, <2>3 DEF TimesMatchReference
<1>3. IInv /\ Totals => TimesMatchReference
  BY <1>2
<1>4. QED BY <1>1, <1>3, TotalsStep, Invariant, PTL DEF Spec
=============================================================================
