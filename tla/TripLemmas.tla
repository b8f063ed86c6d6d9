---------------------------- MODULE TripLemmas ----------------------------
(***************************************************************************)
(* What the operators of Trip and TripReference return, for every          *)
(* interval, threshold and u64 bound: the facts the proofs about           *)
(* TripMachine and TripService cite.                                       *)
(***************************************************************************)
EXTENDS TripReference, SequenceTheorems, FiniteSetTheorems, TLAPS

Total(t) == t.moving_time + t.stopped_time + t.pending_still_time

(* The fields of a trip, and the sums the branches write into them.         *)
LEMMA TripFields ==
    ASSUME NEW t \in TripType
    PROVE  /\ t.positions \in Seq(PositionSample)
           /\ t.state \in UserState
           /\ t.moving_time \in Nat
           /\ t.stopped_time \in Nat
           /\ t.pending_still_time \in Nat
           /\ t.moving_time + POSITION_INTERVAL_SECONDS \in Nat
           /\ t.moving_time + t.pending_still_time \in Nat
           /\ t.moving_time + t.pending_still_time + POSITION_INTERVAL_SECONDS \in Nat
           /\ t.stopped_time + POSITION_INTERVAL_SECONDS \in Nat
           /\ t.pending_still_time + POSITION_INTERVAL_SECONDS \in Nat
           /\ t.stopped_time + (t.pending_still_time + POSITION_INTERVAL_SECONDS) \in Nat
BY TripAssumption DEF TripType

(* Each branch of the match in record_position keeps the types, leaves the   *)
(* list of positions to the push that follows it, counts the interval once   *)
(* (but the branch that reopens a trip) and leaves less than a threshold     *)
(* pending, in Moving only.                                                  *)
Accounted(t, u, seconds) ==
    /\ u \in TripType
    /\ u.positions = t.positions
    /\ Total(u) = Total(t) + seconds
    /\ u.pending_still_time < STILL_THRESHOLD
    /\ u.pending_still_time > 0 => u.state = "Moving"
    /\ u.state # "Disconnected"

PendingOK(t) ==
    /\ t.pending_still_time < STILL_THRESHOLD
    /\ t.pending_still_time > 0 => t.state = "Moving"

(* Disconnected: the trip is reopened and the interval is not counted.       *)
LEMMA ReopenAccounts ==
    ASSUME NEW t \in TripType, PendingOK(t), t.state = "Disconnected"
    PROVE  Accounted(t, Reopen(t), 0)
<1>1. t.pending_still_time = 0
  BY TripFields DEF PendingOK
<1>2. Reopen(t) \in TripType
  BY TripFields DEF Reopen, TripType, UserState
<1>3. /\ Reopen(t).positions = t.positions
      /\ Reopen(t).state = "Still"
      /\ Reopen(t).moving_time = t.moving_time
      /\ Reopen(t).stopped_time = t.stopped_time
      /\ Reopen(t).pending_still_time = 0
  BY DEF Reopen, TripType
<1>4. QED BY <1>1, <1>2, <1>3, TripAssumption, TripFields DEF Accounted, Total

(* Still: the interval is stopped time, or moving time when the point moved. *)
LEMMA StillAccounts ==
    ASSUME NEW t \in TripType, PendingOK(t), t.state = "Still"
    PROVE  /\ Accounted(t, StayStill(t), POSITION_INTERVAL_SECONDS)
           /\ Accounted(t, StartMoving(t), POSITION_INTERVAL_SECONDS)
<1> DEFINE u == StayStill(t)
           v == StartMoving(t)
<1>1. /\ t.moving_time \in Nat /\ t.stopped_time \in Nat /\ t.pending_still_time = 0
      /\ POSITION_INTERVAL_SECONDS \in Nat /\ STILL_THRESHOLD \in Nat \ {0}
  BY TripFields, TripAssumption DEF PendingOK
<1>2. u \in TripType /\ v \in TripType
  BY TripFields DEF StayStill, StartMoving, TripType, UserState
<1>3. /\ u.positions = t.positions
      /\ u.state = t.state
      /\ u.moving_time = t.moving_time
      /\ u.stopped_time = t.stopped_time + POSITION_INTERVAL_SECONDS
      /\ u.pending_still_time = t.pending_still_time
  BY DEF StayStill, TripType
<1>4. /\ v.positions = t.positions
      /\ v.state = "Moving"
      /\ v.moving_time = t.moving_time + POSITION_INTERVAL_SECONDS
      /\ v.stopped_time = t.stopped_time
      /\ v.pending_still_time = t.pending_still_time
  BY DEF StartMoving, TripType
<1> HIDE DEF u, v
<1>5. Accounted(t, u, POSITION_INTERVAL_SECONDS)
  BY <1>1, <1>2, <1>3 DEF Accounted, Total
<1>6. Accounted(t, v, POSITION_INTERVAL_SECONDS)
  BY <1>1, <1>2, <1>4 DEF Accounted, Total
<1>7. QED BY <1>5, <1>6 DEF u, v

(* Moving, the point moved: what was pending is moving time after all.       *)
LEMMA KeepMovingAccounts ==
    ASSUME NEW t \in TripType, t.state = "Moving"
    PROVE  Accounted(t, KeepMoving(t), POSITION_INTERVAL_SECONDS)
<1> DEFINE u == KeepMoving(t)
<1>1. /\ t.moving_time \in Nat /\ t.stopped_time \in Nat /\ t.pending_still_time \in Nat
      /\ POSITION_INTERVAL_SECONDS \in Nat /\ STILL_THRESHOLD \in Nat \ {0}
  BY TripFields, TripAssumption
<1>2. u \in TripType
  BY TripFields DEF KeepMoving, TripType
<1>3. /\ u.positions = t.positions
      /\ u.state = t.state
      /\ u.moving_time = t.moving_time + t.pending_still_time + POSITION_INTERVAL_SECONDS
      /\ u.stopped_time = t.stopped_time
      /\ u.pending_still_time = 0
  BY DEF KeepMoving, TripType
<1> HIDE DEF u
<1>4. Accounted(t, u, POSITION_INTERVAL_SECONDS)
  BY <1>1, <1>2, <1>3 DEF Accounted, Total
<1>5. QED BY <1>4 DEF u

(* Moving, the same point: the interval is pending, or confirms the pause.   *)
LEMMA PauseAccounts ==
    ASSUME NEW t \in TripType, t.state = "Moving"
    PROVE  Accounted(t, PauseWhileMoving(t), POSITION_INTERVAL_SECONDS)
<1> DEFINE pending == t.pending_still_time + POSITION_INTERVAL_SECONDS
           stopped == t.stopped_time + pending
           u == PauseWhileMoving(t)
<1>1. /\ t.moving_time \in Nat /\ t.stopped_time \in Nat /\ t.pending_still_time \in Nat
      /\ POSITION_INTERVAL_SECONDS \in Nat /\ STILL_THRESHOLD \in Nat \ {0}
      /\ pending \in Nat /\ stopped \in Nat
      /\ pending = t.pending_still_time + POSITION_INTERVAL_SECONDS
      /\ stopped = t.stopped_time + pending
  BY TripFields, TripAssumption
<1>2. u = IF pending >= STILL_THRESHOLD
            THEN [t EXCEPT !.stopped_time = stopped,
                           !.pending_still_time = 0,
                           !.state = "Still"]
            ELSE [t EXCEPT !.pending_still_time = pending]
  BY DEF PauseWhileMoving
<1> HIDE DEF pending, stopped, u
<1>3. CASE pending >= STILL_THRESHOLD
  <2>1. u \in TripType
    BY <1>1, <1>2, <1>3, TripFields DEF TripType, UserState
  <2>2. /\ u.positions = t.positions
        /\ u.state = "Still"
        /\ u.moving_time = t.moving_time
        /\ u.stopped_time = stopped
        /\ u.pending_still_time = 0
    BY <1>2, <1>3 DEF TripType
  <2>3. Accounted(t, u, POSITION_INTERVAL_SECONDS)
    BY <1>1, <2>1, <2>2 DEF Accounted, Total
  <2>4. QED BY <2>3 DEF u
<1>4. CASE ~(pending >= STILL_THRESHOLD)
  <2>1. u \in TripType
    BY <1>1, <1>2, <1>4, TripFields DEF TripType
  <2>2. /\ u.positions = t.positions
        /\ u.state = "Moving"
        /\ u.moving_time = t.moving_time
        /\ u.stopped_time = t.stopped_time
        /\ u.pending_still_time = pending
    BY <1>2, <1>4 DEF TripType
  <2>3. Accounted(t, u, POSITION_INTERVAL_SECONDS)
    BY <1>1, <1>4, <2>1, <2>2 DEF Accounted, Total
  <2>4. QED BY <2>3 DEF u
<1>5. QED BY <1>3, <1>4

(* The whole match of record_position.                                       *)
LEMMA AccountIntervalAccounts ==
    ASSUME NEW t \in TripType, NEW changed \in BOOLEAN, PendingOK(t)
    PROVE  Accounted(t, AccountInterval(t, changed),
                     IF t.state = "Disconnected" THEN 0 ELSE POSITION_INTERVAL_SECONDS)
<1>1. CASE t.state = "Disconnected"
  BY <1>1, ReopenAccounts DEF AccountInterval
<1>2. CASE t.state = "Still"
  BY <1>2, StillAccounts DEF AccountInterval
<1>3. CASE t.state = "Moving"
  BY <1>3, KeepMovingAccounts, PauseAccounts DEF AccountInterval
<1>4. QED BY <1>1, <1>2, <1>3, TripFields DEF UserState

(* Closing a trip moves the pending time, it neither adds nor drops any.     *)
LEMMA DisconnectAccounts ==
    ASSUME NEW t \in TripType, PendingOK(t)
    PROVE  /\ Disconnect(t) \in TripType
           /\ Disconnect(t).positions = t.positions
           /\ Disconnect(t).pending_still_time = 0
           /\ Disconnect(t).state = "Disconnected"
           /\ Total(Disconnect(t)) = Total(t)
<1> DEFINE m == IF t.state = "Moving" THEN t.moving_time + t.pending_still_time
                                      ELSE t.moving_time
           u == Disconnect(t)
<1>1. u = [t EXCEPT !.moving_time = m,
                    !.pending_still_time = 0,
                    !.state = "Disconnected"]
  BY DEF Disconnect
<1>2. /\ t.moving_time \in Nat /\ t.stopped_time \in Nat /\ t.pending_still_time \in Nat
      /\ m \in Nat
      /\ m = t.moving_time + t.pending_still_time
  BY TripFields DEF PendingOK
<1> HIDE DEF m, u
<1>3. u \in TripType
  BY <1>1, <1>2, TripFields DEF TripType, UserState
<1>4. /\ u.positions = t.positions
      /\ u.state = "Disconnected"
      /\ u.moving_time = m
      /\ u.stopped_time = t.stopped_time
      /\ u.pending_still_time = 0
  BY <1>1 DEF TripType
<1>5. Total(u) = Total(t)
  BY <1>2, <1>4 DEF Total
<1>6. QED BY <1>3, <1>4, <1>5 DEF u

(* The push at the end of record_position: the other fields stay.            *)
LEMMA PushPosition ==
    ASSUME NEW u \in TripType, NEW sample \in PositionSample,
           NEW v, v = [u EXCEPT !.positions = Append(@, sample)]
    PROVE  /\ v \in TripType
           /\ v.positions = Append(u.positions, sample)
           /\ v.state = u.state
           /\ v.pending_still_time = u.pending_still_time
           /\ Total(v) = Total(u)
<1>1. Append(u.positions, sample) \in Seq(PositionSample)
  BY TripFields
<1>2. v \in TripType
  BY <1>1 DEF TripType
<1>3. /\ v.positions = Append(u.positions, sample)
      /\ v.state = u.state
      /\ v.moving_time = u.moving_time
      /\ v.stopped_time = u.stopped_time
      /\ v.pending_still_time = u.pending_still_time
  BY DEF TripType
<1>4. QED BY <1>2, <1>3 DEF Total
-----------------------------------------------------------------------------
(* The reference definition, one point at a time.  A list of points gets one *)
(* more; the interval that leads to it may be lost.                          *)

Long(count) == count * POSITION_INTERVAL_SECONDS >= STILL_THRESHOLD

LEMMA LongGrows == \A a, b \in Int : Long(a) /\ a <= b => Long(b)
<1> SUFFICES ASSUME NEW a \in Int, NEW b \in Int, Long(a), a <= b PROVE Long(b)
  OBVIOUS
<1>1. a * POSITION_INTERVAL_SECONDS <= b * POSITION_INTERVAL_SECONDS
  <2>1. \A i \in Nat : a * i <= b * i
    <3>1. SUFFICES ASSUME NEW i \in Nat PROVE a * i <= b * i
      OBVIOUS
    <3>2. (b - a) * i >= 0
      <4>1. \A x, y \in Nat : x * y >= 0
        OBVIOUS
      <4>2. b - a \in Nat
        OBVIOUS
      <4>3. QED BY <4>1, <4>2
    <3>3. b * i = a * i + (b - a) * i
      OBVIOUS
    <3>4. a * i \in Int /\ b * i \in Int /\ (b - a) * i \in Int
      OBVIOUS
    <3>5. QED BY <3>2, <3>3, <3>4
  <2>2. QED BY <2>1, TripAssumption
<1>2. a * POSITION_INTERVAL_SECONDS \in Int /\ b * POSITION_INTERVAL_SECONDS \in Int
  BY TripAssumption
<1>3. QED BY <1>1, <1>2, TripAssumption DEF Long

(* A run that has the new interval is one that ended before it, if the new   *)
(* point is the same and the interval is not lost.                           *)
LEMMA QuietAppend ==
    ASSUME NEW S, NEW points \in Seq(S), points # << >>, NEW c \in S, NEW lost, NEW more,
           more = lost \/ more = lost \cup {Len(points)}
    PROVE  /\ Len(points) \in Nat \ {0} /\ Len(Append(points, c)) = Len(points) + 1
           /\ \A first \in 1 .. Len(points), last \in 0 .. (Len(points) - 1) :
                 Quiet(Append(points, c), more, first, last) <=> Quiet(points, lost, first, last)
           /\ \A first \in 1 .. Len(points) :
                 Quiet(Append(points, c), more, first, Len(points)) <=>
                    /\ Quiet(points, lost, first, Len(points) - 1)
                    /\ Len(points) \notin more /\ points[Len(points)] = c
<1> DEFINE n == Len(points)
           q == Append(points, c)
<1>1. /\ n \in Nat \ {0} /\ Len(q) = n + 1
      /\ \A i \in 1 .. n : q[i] = points[i]
      /\ q[n + 1] = c
  BY EmptySeq, LenProperties, AppendProperties
<1> HIDE DEF n, q
<1>2. \A k \in 1 .. (n - 1) : q[k] = points[k] /\ q[k + 1] = points[k + 1]
                                /\ (k \in more <=> k \in lost)
  BY <1>1 DEF n
<1>3. \A first \in 1 .. n, last \in 0 .. (n - 1) :
         Quiet(q, more, first, last) <=> Quiet(points, lost, first, last)
  <2>1. SUFFICES ASSUME NEW first \in 1 .. n, NEW last \in 0 .. (n - 1)
                 PROVE  Quiet(q, more, first, last) <=> Quiet(points, lost, first, last)
    OBVIOUS
  <2>2. \A k \in first .. last : k \in 1 .. (n - 1)
    BY <1>1
  <2>3. QED BY <1>2, <2>2 DEF Quiet
<1>4. \A first \in 1 .. n :
         Quiet(q, more, first, n) <=> Quiet(q, more, first, n - 1) /\ n \notin more /\ q[n] = q[n + 1]
  <2>1. SUFFICES ASSUME NEW first \in 1 .. n
                 PROVE  Quiet(q, more, first, n) <=>
                          Quiet(q, more, first, n - 1) /\ n \notin more /\ q[n] = q[n + 1]
    OBVIOUS
  <2>2. first .. n = (first .. (n - 1)) \cup {n}
    BY <1>1
  <2>3. QED BY <2>2 DEF Quiet
<1>5. n - 1 \in 0 .. (n - 1) /\ n \in 1 .. n
  BY <1>1
<1>6. QED BY <1>1, <1>3, <1>4, <1>5 DEF n, q

(* An interval is paused then if it was before, or if a run that reaches the *)
(* new interval makes it so.                                                 *)
Extends(points, lost, k) ==
    \E first \in 1 .. k :
        /\ Quiet(points, lost, first, Len(points) - 1)
        /\ first = 1 \/ first - 1 \in lost \/ Long(Len(points) - first + 1)

LEMMA PausedAppend ==
    ASSUME NEW S, NEW points \in Seq(S), points # << >>, NEW c \in S, NEW lost, NEW more,
           more = lost \/ more = lost \cup {Len(points)},
           NEW k \in 1 .. Len(points)
    PROVE  Paused(Append(points, c), more, k) <=>
              \/ k <= Len(points) - 1 /\ Paused(points, lost, k)
              \/ /\ Len(points) \notin more /\ points[Len(points)] = c
                 /\ Extends(points, lost, k)
<1> DEFINE n == Len(points)
           q == Append(points, c)
           Enough(l, first, last) == first = 1 \/ first - 1 \in l \/ Long(last - first + 1)
<1>1. n \in Nat \ {0} /\ Len(q) - 1 = n /\ k \in 1 .. n
  BY QuietAppend
<1>2. \A first \in 1 .. k, last \in Int : Enough(more, first, last) <=> Enough(lost, first, last)
  BY <1>1
<1>3. Paused(q, more, k) <=>
         \E first \in 1 .. k, last \in k .. n : Quiet(q, more, first, last) /\ Enough(more, first, last)
  BY <1>1 DEF Paused, Long
<1>4. Paused(points, lost, k) <=>
         \E first \in 1 .. k, last \in k .. (n - 1) :
             Quiet(points, lost, first, last) /\ Enough(lost, first, last)
  BY DEF Paused, Long
<1>5. \A first \in 1 .. n, last \in 0 .. (n - 1) :
             Quiet(q, more, first, last) <=> Quiet(points, lost, first, last)
  BY QuietAppend
<1>6. \A first \in 1 .. n :
             Quiet(q, more, first, n) <=>
                Quiet(points, lost, first, n - 1) /\ n \notin more /\ points[n] = c
  BY QuietAppend
<1>7. Extends(points, lost, k) <=>
         \E first \in 1 .. k : Quiet(points, lost, first, n - 1) /\ Enough(lost, first, n)
  BY DEF Extends
<1> HIDE DEF n, q, Enough
<1>8. ASSUME Paused(q, more, k)
      PROVE  \/ k <= n - 1 /\ Paused(points, lost, k)
             \/ n \notin more /\ points[n] = c /\ Extends(points, lost, k)
  <2>1. PICK first \in 1 .. k, last \in k .. n :
           Quiet(q, more, first, last) /\ Enough(more, first, last)
    BY <1>3, <1>8
  <2>2. first \in 1 .. n /\ last \in Int /\ Enough(lost, first, last)
    BY <1>1, <1>2, <2>1
  <2>3. CASE last = n
    BY <1>6, <1>7, <2>1, <2>2, <2>3
  <2>4. CASE last # n
    <3>1. last \in k .. (n - 1) /\ last \in 0 .. (n - 1) /\ k <= n - 1
      BY <1>1, <2>4
    <3>2. Quiet(points, lost, first, last)
      BY <1>5, <2>1, <2>2, <3>1
    <3>3. QED BY <1>4, <2>2, <3>1, <3>2
  <2>5. QED BY <2>3, <2>4
<1>9. ASSUME k <= n - 1, Paused(points, lost, k) PROVE Paused(q, more, k)
  <2>1. PICK first \in 1 .. k, last \in k .. (n - 1) :
           Quiet(points, lost, first, last) /\ Enough(lost, first, last)
    BY <1>4, <1>9
  <2>2. first \in 1 .. n /\ last \in 0 .. (n - 1) /\ last \in k .. n /\ last \in Int
    BY <1>1, <2>1
  <2>3. Quiet(q, more, first, last) /\ Enough(more, first, last)
    BY <1>2, <1>5, <2>1, <2>2
  <2>4. QED BY <1>3, <2>2, <2>3
<1>10. ASSUME n \notin more, points[n] = c, Extends(points, lost, k) PROVE Paused(q, more, k)
  <2>1. PICK first \in 1 .. k : Quiet(points, lost, first, n - 1) /\ Enough(lost, first, n)
    BY <1>7, <1>10
  <2>2. first \in 1 .. n /\ n \in k .. n /\ n \in Int
    BY <1>1, <2>1
  <2>3. Quiet(q, more, first, n) /\ Enough(more, first, n)
    BY <1>2, <1>6, <1>10, <2>1, <2>2
  <2>4. QED BY <1>3, <2>2, <2>3
<1>11. QED BY <1>8, <1>9, <1>10 DEF n, q

(* Where the last point leaves the user: still from the start, since the     *)
(* trip was reopened, or in a pause; else moving, and the same point since   *)
(* interval "moved" is a pause that is pending.                              *)
StillAt(points, lost) ==
    \/ Len(points) = 1
    \/ Len(points) - 1 \in lost
    \/ Paused(points, lost, Len(points) - 1)

MovedLast(points, lost, moved) ==
    /\ moved \notin lost /\ points[moved] # points[moved + 1]
    /\ Quiet(points, lost, moved + 1, Len(points) - 1)

MovingAt(points, lost, pending) ==
    \E moved \in IntervalsOf(points) :
        /\ MovedLast(points, lost, moved)
        /\ pending = (Len(points) - 1 - moved) * POSITION_INTERVAL_SECONDS

LEMMA Intervals1 ==
    ASSUME NEW S, NEW points \in Seq(S), points # << >>, NEW c \in S
    PROVE  /\ Len(points) \in Nat \ {0}
           /\ IntervalsOf(points) = 1 .. (Len(points) - 1)
           /\ IntervalsOf(Append(points, c)) = 1 .. Len(points)
           /\ IntervalsOf(Append(points, c)) = IntervalsOf(points) \cup {Len(points)}
           /\ Append(points, c)[Len(points)] = points[Len(points)]
           /\ Append(points, c)[Len(points) + 1] = c
           /\ Len(Append(points, c)) = Len(points) + 1
<1> DEFINE n == Len(points)
           q == Append(points, c)
<1>1. /\ n \in Nat \ {0} /\ Len(q) = n + 1
      /\ \A i \in 1 .. n : q[i] = points[i]
      /\ q[n + 1] = c
  BY EmptySeq, LenProperties, AppendProperties
<1> HIDE DEF n, q
<1>2. IntervalsOf(q) = 1 .. n
  BY <1>1 DEF IntervalsOf
<1>3. 1 .. n = (1 .. (n - 1)) \cup {n} /\ n \in 1 .. n
  BY <1>1
<1>4. QED BY <1>1, <1>2, <1>3 DEF IntervalsOf, n, q

(* A point that moved, or a lost interval, pauses nothing.                   *)
LEMMA NothingPaused ==
    ASSUME NEW S, NEW points \in Seq(S), points # << >>, NEW c \in S, NEW lost, NEW more,
           more = lost \/ more = lost \cup {Len(points)},
           Len(points) \in more \/ points[Len(points)] # c
    PROVE  PausedIntervals(Append(points, c), more) = PausedIntervals(points, lost)
<1>1. \A k \in 1 .. Len(points) : Paused(Append(points, c), more, k) <=>
                                    k <= Len(points) - 1 /\ Paused(points, lost, k)
  BY PausedAppend
<1>2. \A k : k \in PausedIntervals(Append(points, c), more) <=> k \in PausedIntervals(points, lost)
  BY <1>1, Intervals1 DEF PausedIntervals
<1>3. QED BY <1>2

(* Still, and the same point: the pause goes on.                             *)
LEMMA PauseGoesOn ==
    ASSUME NEW S, NEW points \in Seq(S), points # << >>, NEW c \in S, NEW lost,
           lost \subseteq IntervalsOf(points), points[Len(points)] = c,
           StillAt(points, lost)
    PROVE  /\ PausedIntervals(Append(points, c), lost)
                = PausedIntervals(points, lost) \cup {Len(points)}
           /\ Paused(Append(points, c), lost, Len(points))
<1> DEFINE n == Len(points)
           q == Append(points, c)
<1>1. /\ n \in Nat \ {0} /\ n \notin lost /\ IntervalsOf(points) = 1 .. (n - 1)
      /\ lost \subseteq 1 .. (n - 1)
  BY Intervals1
<1>2. \A k \in 1 .. n : Paused(q, lost, k) <=>
                          (k <= n - 1 /\ Paused(points, lost, k)) \/ Extends(points, lost, k)
  BY <1>1, PausedAppend
<1>3. \E first \in 1 .. n :
         /\ Quiet(points, lost, first, n - 1)
         /\ first = 1 \/ first - 1 \in lost \/ Long(n - first)
  <2>1. CASE n = 1
    BY <2>1 DEF Quiet
  <2>2. CASE n - 1 \in lost
    <3>1. Quiet(points, lost, n, n - 1)
      BY <1>1 DEF Quiet
    <3>2. n \in 1 .. n
      BY <1>1
    <3>3. QED BY <2>2, <3>1, <3>2
  <2>3. CASE n # 1 /\ Paused(points, lost, n - 1)
    <3>1. PICK first \in 1 .. (n - 1), last \in (n - 1) .. (n - 1) :
             /\ Quiet(points, lost, first, last)
             /\ \/ first = 1 \/ first - 1 \in lost
                \/ (last - first + 1) * POSITION_INTERVAL_SECONDS >= STILL_THRESHOLD
      BY <2>3 DEF Paused
    <3>2. last = n - 1 /\ last - first + 1 = n - first /\ first \in 1 .. n
      BY <1>1, <3>1
    <3>3. QED BY <3>1, <3>2 DEF Long
  <2>4. QED BY <2>1, <2>2, <2>3 DEF StillAt
<1>4. PICK first \in 1 .. n :
         /\ Quiet(points, lost, first, n - 1)
         /\ first = 1 \/ first - 1 \in lost \/ Long(n - first)
  BY <1>3
<1>5. Long(n - first) => Long(n - first + 1)
  BY <1>1, LongGrows
<1>6. Extends(points, lost, n)
  BY <1>4, <1>5 DEF Extends
<1>7. ASSUME NEW k \in 1 .. (n - 1), Extends(points, lost, k) PROVE Paused(points, lost, k)
  <2>1. PICK other \in 1 .. k :
           /\ Quiet(points, lost, other, n - 1)
           /\ other = 1 \/ other - 1 \in lost \/ Long(n - other + 1)
    BY <1>7 DEF Extends
  <2>2. CASE other = 1 \/ other - 1 \in lost
    <3>1. n - 1 \in k .. (n - 1)
      BY <1>1
    <3>2. QED BY <2>1, <2>2, <3>1 DEF Paused
  <2>3. CASE first <= k
    <3>1. n - 1 \in k .. (n - 1) /\ first \in 1 .. k /\ n - first = (n - 1) - first + 1
      BY <1>1, <2>3
    <3>2. QED BY <1>4, <3>1 DEF Paused, Long
  <2>4. CASE k < first
    <3>1. other < first /\ first # 1 /\ other <= first - 1 /\ first - 1 <= n - 1
      BY <1>1, <2>1, <2>4
    <3>2. first - 1 \notin lost
      BY <1>1, <2>1, <3>1 DEF Quiet
    <3>3. Long(n - first) /\ n - first <= (n - 1) - other + 1
      BY <1>1, <1>4, <3>1, <3>2
    <3>4. Long((n - 1) - other + 1) /\ n - 1 \in k .. (n - 1)
      BY <1>1, <3>3, LongGrows
    <3>5. QED BY <2>1, <3>4 DEF Paused, Long
  <2>5. QED BY <1>1, <2>3, <2>4
<1>8. \A k \in 1 .. n : Paused(q, lost, k) <=> (k \in 1 .. (n - 1) /\ Paused(points, lost, k)) \/ k = n
  BY <1>1, <1>2, <1>6, <1>7
<1>9. \A k : k \in PausedIntervals(q, lost) <=> k \in PausedIntervals(points, lost) \/ k = n
  BY <1>1, <1>8, Intervals1 DEF PausedIntervals
<1>10. n \in 1 .. n
  BY <1>1
<1>11. QED BY <1>8, <1>9, <1>10

(* Moving, and the same point: the pause is confirmed from the point where   *)
(* the user stopped, when it has become long, and was not paused before.     *)
LEMMA PauseConfirmed ==
    ASSUME NEW S, NEW points \in Seq(S), points # << >>, NEW c \in S, NEW lost,
           lost \subseteq IntervalsOf(points), points[Len(points)] = c,
           NEW moved \in IntervalsOf(points), MovedLast(points, lost, moved)
    PROVE  /\ PausedIntervals(Append(points, c), lost)
                = IF Long(Len(points) - moved)
                    THEN PausedIntervals(points, lost) \cup (moved + 1) .. Len(points)
                    ELSE PausedIntervals(points, lost)
           /\ ~Long(Len(points) - 1 - moved) =>
                PausedIntervals(points, lost) \cap (moved + 1) .. Len(points) = {}
<1> DEFINE n == Len(points)
           q == Append(points, c)
<1>1. /\ n \in Nat \ {0} /\ n \notin lost /\ IntervalsOf(points) = 1 .. (n - 1)
      /\ lost \subseteq 1 .. (n - 1) /\ moved \in 1 .. (n - 1) /\ moved \notin lost
      /\ Quiet(points, lost, moved + 1, n - 1)
  BY Intervals1 DEF MovedLast
<1>2. \A k \in 1 .. n : Paused(q, lost, k) <=>
                          (k <= n - 1 /\ Paused(points, lost, k)) \/ Extends(points, lost, k)
  BY <1>1, PausedAppend
<1>3. ASSUME NEW first \in 1 .. n, NEW last \in Nat, last >= moved, first <= last + 1, last < n,
             Quiet(points, lost, first, last)
      PROVE  first >= moved + 1
  <2>1. SUFFICES ASSUME first <= moved PROVE FALSE
    BY <1>1
  <2>2. moved \in first .. last
    BY <1>1, <1>3, <2>1
  <2>3. QED BY <1>3, <2>2 DEF Quiet, MovedLast
<1>4. ASSUME NEW first \in (moved + 1) .. n PROVE first # 1 /\ first - 1 \notin lost
  <2>1. first - 1 = moved \/ first - 1 \in (moved + 1) .. (n - 1)
    BY <1>1
  <2>2. QED BY <1>1, <2>1 DEF Quiet
<1>5. ASSUME NEW k \in 1 .. n, Extends(points, lost, k)
      PROVE  k \in (moved + 1) .. n /\ Long(n - moved)
  <2>1. PICK first \in 1 .. k :
           /\ Quiet(points, lost, first, n - 1)
           /\ first = 1 \/ first - 1 \in lost \/ Long(n - first + 1)
    BY <1>5 DEF Extends
  <2>2. first >= moved + 1 /\ first \in (moved + 1) .. n
    BY <1>1, <1>3, <2>1
  <2>3. Long(n - first + 1) /\ n - first + 1 <= n - moved
    BY <1>1, <1>4, <2>1, <2>2
  <2>4. QED BY <1>1, <2>2, <2>3, LongGrows
<1>6. ASSUME NEW k \in (moved + 1) .. n, Long(n - moved) PROVE Extends(points, lost, k)
  <2>1. moved + 1 \in 1 .. k /\ n - (moved + 1) + 1 = n - moved
    BY <1>1
  <2>2. QED BY <1>1, <1>6, <2>1 DEF Extends
<1>7. \A k \in 1 .. n : Paused(q, lost, k) <=>
                          \/ k \in 1 .. (n - 1) /\ Paused(points, lost, k)
                          \/ k \in (moved + 1) .. n /\ Long(n - moved)
  BY <1>1, <1>2, <1>5, <1>6
<1>8. \A k : k \in PausedIntervals(q, lost) <=>
               \/ k \in PausedIntervals(points, lost)
               \/ k \in (moved + 1) .. n /\ Long(n - moved)
  <2>1. IntervalsOf(q) = 1 .. n /\ (moved + 1) .. n \subseteq 1 .. n
    BY <1>1, Intervals1
  <2>2. QED BY <1>1, <1>7, <2>1 DEF PausedIntervals
<1>9. ASSUME NEW k \in 1 .. (n - 1), Paused(points, lost, k), k >= moved + 1
      PROVE  Long(n - 1 - moved)
  <2>1. PICK first \in 1 .. k, last \in k .. (n - 1) :
           /\ Quiet(points, lost, first, last)
           /\ first = 1 \/ first - 1 \in lost \/ Long(last - first + 1)
    BY <1>9 DEF Paused, Long
  <2>2. first >= moved + 1 /\ first \in (moved + 1) .. n
    BY <1>1, <1>3, <1>9, <2>1
  <2>3. Long(last - first + 1) /\ last - first + 1 <= n - 1 - moved
    BY <1>1, <1>4, <2>1, <2>2
  <2>4. QED BY <1>1, <2>3, LongGrows
<1>10. ~Long(n - 1 - moved) => \A k \in PausedIntervals(points, lost) : k \notin (moved + 1) .. n
  BY <1>1, <1>9 DEF PausedIntervals
<1>11. QED BY <1>8, <1>10

LEMMA PausedFinite ==
    ASSUME NEW S, NEW points \in Seq(S), NEW lost, lost \subseteq IntervalsOf(points)
    PROVE  /\ IsFiniteSet(IntervalsOf(points)) /\ Cardinality(IntervalsOf(points)) \in Nat
           /\ IsFiniteSet(PausedIntervals(points, lost))
           /\ Cardinality(PausedIntervals(points, lost)) \in Nat
           /\ PausedIntervals(points, lost) \subseteq IntervalsOf(points)
           /\ IsFiniteSet(lost) /\ Cardinality(lost) \in Nat
           /\ PausedIntervals(points, lost) \cap lost = {}
<1>1. Len(points) \in Nat /\ IntervalsOf(points) = 1 .. (Len(points) - 1)
  BY LenProperties DEF IntervalsOf
<1>2. IsFiniteSet(IntervalsOf(points))
  BY <1>1, FS_Interval
<1>3. PausedIntervals(points, lost) \subseteq IntervalsOf(points)
  BY DEF PausedIntervals
<1>4. ASSUME NEW k \in IntervalsOf(points), Paused(points, lost, k) PROVE k \notin lost
  <2>1. PICK first \in 1 .. k, last \in k .. (Len(points) - 1) : Quiet(points, lost, first, last)
    BY <1>4 DEF Paused
  <2>2. k \in first .. last
    BY <1>1, <2>1
  <2>3. QED BY <2>1, <2>2 DEF Quiet
<1>5. QED BY <1>2, <1>3, <1>4, FS_Subset, FS_CardinalityType DEF PausedIntervals

(* The running totals of a trip are those of the definition, and its state   *)
(* says where its last point leaves the user.                                *)
Tallied(t, points, lost) ==
    /\ t.stopped_time = StoppedSeconds(points, lost)
    /\ t.state = "Still" => StillAt(points, lost)
    /\ t.state = "Moving" => MovingAt(points, lost, t.pending_still_time)

LEMMA ReopenTallies ==
    ASSUME NEW t \in TripType, NEW S, NEW points \in Seq(S), points # << >>, NEW c \in S,
           NEW lost, Tallied(t, points, lost)
    PROVE  Tallied(Reopen(t), Append(points, c), lost \cup {Len(points)})
<1>1. Reopen(t).stopped_time = t.stopped_time /\ Reopen(t).state = "Still"
  BY DEF Reopen, TripType
<1>2. StoppedSeconds(Append(points, c), lost \cup {Len(points)}) = StoppedSeconds(points, lost)
  BY NothingPaused DEF StoppedSeconds
<1>3. StillAt(Append(points, c), lost \cup {Len(points)})
  BY Intervals1 DEF StillAt
<1>4. QED BY <1>1, <1>2, <1>3 DEF Tallied

LEMMA MovedTallies ==
    ASSUME NEW t \in TripType, NEW S, NEW points \in Seq(S), points # << >>, NEW c \in S,
           NEW lost, lost \subseteq IntervalsOf(points), c # points[Len(points)],
           Tallied(t, points, lost),
           NEW u, u.stopped_time = t.stopped_time, u.state = "Moving", u.pending_still_time = 0
    PROVE  Tallied(u, Append(points, c), lost)
<1> DEFINE n == Len(points)
           q == Append(points, c)
<1>1. /\ n \in Nat \ {0} /\ n \notin lost /\ IntervalsOf(q) = 1 .. n
      /\ q[n] = points[n] /\ q[n + 1] = c /\ Len(q) = n + 1
  BY Intervals1
<1>2. StoppedSeconds(q, lost) = StoppedSeconds(points, lost)
  BY NothingPaused DEF StoppedSeconds
<1> HIDE DEF n, q
<1>3. MovedLast(q, lost, n)
  BY <1>1 DEF MovedLast, Quiet, n
<1>4. n \in IntervalsOf(q) /\ 0 = (Len(q) - 1 - n) * POSITION_INTERVAL_SECONDS
  BY <1>1, TripAssumption
<1>5. MovingAt(q, lost, 0)
  BY <1>3, <1>4 DEF MovingAt
<1>6. QED BY <1>2, <1>5 DEF Tallied, n, q

LEMMA StayTallies ==
    ASSUME NEW t \in TripType, NEW S, NEW points \in Seq(S), points # << >>, NEW c \in S,
           NEW lost, lost \subseteq IntervalsOf(points), points[Len(points)] = c,
           Tallied(t, points, lost), t.state = "Still"
    PROVE  Tallied(StayStill(t), Append(points, c), lost)
<1> DEFINE n == Len(points)
           q == Append(points, c)
           before == PausedIntervals(points, lost)
<1>1. PausedIntervals(q, lost) = before \cup {n} /\ Paused(q, lost, n) /\ Len(q) = n + 1
      /\ n \in Nat \ {0} /\ n \notin before
  BY PauseGoesOn, Intervals1 DEF Tallied, PausedIntervals
<1>2. IsFiniteSet(before) /\ Cardinality(before) \in Nat
  BY PausedFinite
<1> HIDE DEF n, q, before
<1>3. Cardinality(PausedIntervals(q, lost)) = Cardinality(before) + 1
  BY <1>1, <1>2, FS_AddElement
<1>4. StoppedSeconds(q, lost) = StoppedSeconds(points, lost) + POSITION_INTERVAL_SECONDS
  BY <1>2, <1>3, TripAssumption DEF StoppedSeconds, before
<1>5. StillAt(q, lost)
  BY <1>1 DEF StillAt
<1>6. /\ StayStill(t).stopped_time = t.stopped_time + POSITION_INTERVAL_SECONDS
      /\ StayStill(t).state = "Still"
  BY DEF StayStill, TripType
<1>7. QED BY <1>4, <1>5, <1>6 DEF Tallied, n, q

LEMMA PauseTallies ==
    ASSUME NEW t \in TripType, PendingOK(t), NEW S, NEW points \in Seq(S), points # << >>,
           NEW c \in S, NEW lost, lost \subseteq IntervalsOf(points), points[Len(points)] = c,
           Tallied(t, points, lost), t.state = "Moving"
    PROVE  Tallied(PauseWhileMoving(t), Append(points, c), lost)
<1> DEFINE n == Len(points)
           q == Append(points, c)
           before == PausedIntervals(points, lost)
           pending == t.pending_still_time + POSITION_INTERVAL_SECONDS
           u == PauseWhileMoving(t)
<1>1. PICK moved \in IntervalsOf(points) :
         /\ MovedLast(points, lost, moved)
         /\ t.pending_still_time = (n - 1 - moved) * POSITION_INTERVAL_SECONDS
  BY DEF Tallied, MovingAt
<1>2. /\ n \in Nat \ {0} /\ n \notin lost /\ IntervalsOf(points) = 1 .. (n - 1)
      /\ IntervalsOf(q) = 1 .. n /\ Len(q) = n + 1 /\ moved \in 1 .. (n - 1)
      /\ before \subseteq 1 .. (n - 1)
  BY <1>1, Intervals1, PausedFinite
<1>3. IsFiniteSet(before) /\ Cardinality(before) \in Nat
  BY PausedFinite
<1>4. /\ PausedIntervals(q, lost) = IF Long(n - moved) THEN before \cup (moved + 1) .. n ELSE before
      /\ ~Long(n - 1 - moved) => before \cap (moved + 1) .. n = {}
  BY <1>1, PauseConfirmed
<1>5. Quiet(q, lost, moved + 1, n) /\ MovedLast(q, lost, moved)
  <2>1. moved + 1 \in 1 .. n /\ Quiet(points, lost, moved + 1, n - 1)
    BY <1>1, <1>2 DEF MovedLast
  <2>2. Quiet(q, lost, moved + 1, n)
    BY <1>2, <2>1, QuietAppend
  <2>3. q[moved] = points[moved] /\ q[moved + 1] = points[moved + 1]
    BY <1>2, AppendProperties
  <2>4. QED BY <1>1, <1>2, <2>2, <2>3 DEF MovedLast
<1>6. /\ pending = (n - moved) * POSITION_INTERVAL_SECONDS
      /\ ~Long(n - 1 - moved)
      /\ pending \in Nat /\ t.stopped_time \in Nat
      /\ pending >= STILL_THRESHOLD <=> Long(n - moved)
  <2>1. /\ t.pending_still_time < STILL_THRESHOLD /\ t.pending_still_time \in Nat
        /\ t.stopped_time \in Nat /\ pending \in Nat
    BY TripFields DEF PendingOK
  <2>2. n - 1 - moved \in Int /\ n - moved \in Int
    BY <1>2
  <2>3. pending = (n - moved) * POSITION_INTERVAL_SECONDS
    <3>1. \A a, i \in Int : a * i + i = (a + 1) * i
      OBVIOUS
    <3>2. (n - 1 - moved) + 1 = n - moved
      BY <1>2
    <3>3. QED BY <1>1, <2>2, <3>1, <3>2, TripAssumption
  <2>4. QED BY <1>1, <2>1, <2>3, TripAssumption DEF Long
<1>7. t.stopped_time = StoppedSeconds(points, lost)
  BY DEF Tallied
<1>8. u = IF pending >= STILL_THRESHOLD
            THEN [t EXCEPT !.stopped_time = @ + pending, !.pending_still_time = 0, !.state = "Still"]
            ELSE [t EXCEPT !.pending_still_time = pending]
  BY DEF PauseWhileMoving
<1>9. CASE Long(n - moved)
  <2>1. /\ IsFiniteSet((moved + 1) .. n) /\ Cardinality((moved + 1) .. n) = n - moved
        /\ before \cap (moved + 1) .. n = {}
    <3> HIDE DEF n
    <3>1. /\ moved + 1 \in Int /\ n \in Int
          /\ (IF moved + 1 > n THEN 0 ELSE n - (moved + 1) + 1) = n - moved
      BY <1>2
    <3>2. IsFiniteSet((moved + 1) .. n) /\ Cardinality((moved + 1) .. n) = n - moved
      BY <3>1, FS_Interval
    <3>3. QED BY <1>4, <1>6, <3>2
  <2> HIDE DEF n, q, before, pending, u
  <2>2. Cardinality(before \cup (moved + 1) .. n) = Cardinality(before) + (n - moved)
    <3>1. Cardinality(before \cup (moved + 1) .. n)
             = Cardinality(before) + Cardinality((moved + 1) .. n)
                 - Cardinality(before \cap (moved + 1) .. n)
      BY <1>3, <2>1, FS_Union
    <3>2. Cardinality(before \cap (moved + 1) .. n) = 0
      BY <2>1, FS_EmptySet
    <3>3. QED BY <1>2, <1>3, <2>1, <3>1, <3>2
  <2>3. Cardinality(PausedIntervals(q, lost)) = Cardinality(before) + (n - moved)
    BY <1>4, <1>9, <2>2
  <2>4. StoppedSeconds(q, lost) = StoppedSeconds(points, lost) + pending
    <3>1. \A i, a, b \in Int : i * (a + b) = i * a + b * i
      OBVIOUS
    <3>2. n - moved \in Int /\ Cardinality(before) \in Int /\ POSITION_INTERVAL_SECONDS \in Int
      BY <1>2, <1>3, TripAssumption
    <3>3. QED BY <1>6, <2>3, <3>1, <3>2 DEF StoppedSeconds, before
  <2>5. u.stopped_time = t.stopped_time + pending /\ u.state = "Still"
    BY <1>6, <1>8, <1>9 DEF TripType
  <2>6. n \in (moved + 1) .. n
    BY <1>2
  <2>7. n \in PausedIntervals(q, lost)
    BY <1>4, <1>9, <2>6
  <2>8. StillAt(q, lost)
    BY <1>2, <2>7 DEF StillAt, PausedIntervals
  <2>9. QED BY <1>7, <2>4, <2>5, <2>8 DEF Tallied, q, u
<1>10. CASE ~Long(n - moved)
  <2>1. StoppedSeconds(q, lost) = StoppedSeconds(points, lost)
    BY <1>4, <1>10 DEF StoppedSeconds
  <2> HIDE DEF n, q, before, pending, u
  <2>2. u.stopped_time = t.stopped_time /\ u.state = "Moving" /\ u.pending_still_time = pending
    BY <1>6, <1>8, <1>10 DEF TripType
  <2>3. moved \in IntervalsOf(q) /\ Len(q) - 1 = n
    BY <1>2
  <2>4. MovingAt(q, lost, pending)
    BY <1>5, <1>6, <2>3 DEF MovingAt
  <2>5. QED BY <1>7, <2>1, <2>2, <2>4 DEF Tallied, q, u
<1>11. QED BY <1>9, <1>10

(* The whole match of record_position keeps the totals those of the          *)
(* definition.                                                               *)
LEMMA IntervalTallies ==
    ASSUME NEW t \in TripType, PendingOK(t), NEW S, NEW points \in Seq(S), points # << >>,
           NEW c \in S, NEW lost, lost \subseteq IntervalsOf(points), Tallied(t, points, lost)
    PROVE  Tallied(AccountInterval(t, c # points[Len(points)]), Append(points, c),
                   IF t.state = "Disconnected" THEN lost \cup {Len(points)} ELSE lost)
<1> DEFINE changed == c # points[Len(points)]
<1>1. CASE t.state = "Disconnected"
  BY <1>1, ReopenTallies DEF AccountInterval
<1>2. CASE t.state = "Still"
  <2>1. t.pending_still_time = 0
    BY <1>2, TripFields DEF PendingOK
  <2>2. CASE changed
    <3>1. /\ StartMoving(t).stopped_time = t.stopped_time /\ StartMoving(t).state = "Moving"
          /\ StartMoving(t).pending_still_time = 0
      BY <2>1 DEF StartMoving, TripType
    <3>2. QED BY <1>2, <2>2, <3>1, MovedTallies DEF AccountInterval
  <2>3. CASE ~changed
    BY <1>2, <2>3, StayTallies DEF AccountInterval
  <2>4. QED BY <2>2, <2>3
<1>3. CASE t.state = "Moving"
  <2>1. CASE changed
    <3>1. /\ KeepMoving(t).stopped_time = t.stopped_time /\ KeepMoving(t).state = "Moving"
          /\ KeepMoving(t).pending_still_time = 0
      BY <1>3 DEF KeepMoving, TripType
    <3>2. QED BY <1>3, <2>1, <3>1, MovedTallies DEF AccountInterval
  <2>2. CASE ~changed
    BY <1>3, <2>2, PauseTallies DEF AccountInterval
  <2>3. QED BY <2>1, <2>2
<1>4. QED BY <1>1, <1>2, <1>3, TripFields DEF UserState

(* What is neither paused nor lost is moving time.                           *)
LEMMA MovingFollows ==
    ASSUME NEW t \in TripType, NEW S, NEW points \in Seq(S),
           NEW lost, lost \subseteq IntervalsOf(points),
           t.stopped_time = StoppedSeconds(points, lost),
           Total(t) = POSITION_INTERVAL_SECONDS
                        * (Cardinality(IntervalsOf(points)) - Cardinality(lost))
    PROVE  t.moving_time + t.pending_still_time = MovingSeconds(points, lost)
<1> DEFINE all == IntervalsOf(points)
           paused == PausedIntervals(points, lost)
<1>1. /\ IsFiniteSet(all) /\ Cardinality(all) \in Nat
      /\ IsFiniteSet(paused) /\ Cardinality(paused) \in Nat /\ paused \subseteq all
      /\ IsFiniteSet(lost) /\ Cardinality(lost) \in Nat
      /\ paused \cap lost = {}
  BY PausedFinite
<1>2. /\ t.moving_time \in Nat /\ t.pending_still_time \in Nat
      /\ POSITION_INTERVAL_SECONDS \in Nat
  BY TripFields, TripAssumption
<1>3. /\ t.stopped_time = POSITION_INTERVAL_SECONDS * Cardinality(paused)
      /\ MovingSeconds(points, lost)
           = POSITION_INTERVAL_SECONDS * Cardinality(all \ (paused \cup lost))
  BY DEF StoppedSeconds, MovingSeconds
<1> HIDE DEF all, paused
<1>4. /\ IsFiniteSet(paused \cup lost)
      /\ Cardinality(paused \cup lost) = Cardinality(paused) + Cardinality(lost)
  <2>1. /\ IsFiniteSet(paused \cup lost)
        /\ Cardinality(paused \cup lost)
             = Cardinality(paused) + Cardinality(lost) - Cardinality(paused \cap lost)
    BY <1>1, FS_Union
  <2>2. Cardinality(paused \cap lost) = 0
    BY <1>1, FS_EmptySet
  <2>3. QED BY <1>1, <2>1, <2>2
<1>5. all \cap (paused \cup lost) = paused \cup lost
  BY <1>1 DEF all
<1>6. Cardinality(all \ (paused \cup lost))
         = Cardinality(all) - (Cardinality(paused) + Cardinality(lost))
  <2>1. Cardinality(all \ (paused \cup lost))
          = Cardinality(all) - Cardinality(all \cap (paused \cup lost))
    BY <1>1, FS_Difference
  <2>2. QED BY <1>4, <1>5, <2>1
<1>7. \A i, a, p, l \in Int : i * (a - l) - i * p = i * (a - (p + l))
  OBVIOUS
<1>8. /\ Total(t) = POSITION_INTERVAL_SECONDS * (Cardinality(all) - Cardinality(lost))
      /\ t.moving_time + t.pending_still_time = Total(t) - t.stopped_time
  <2>1. t.stopped_time \in Nat
    BY TripFields
  <2>2. t.moving_time + t.pending_still_time = Total(t) - t.stopped_time
    BY <1>2, <2>1 DEF Total
  <2>3. QED BY <2>2 DEF all
<1>9. QED BY <1>1, <1>2, <1>3, <1>6, <1>7, <1>8

(* The points of a trip, and one more of them.                               *)
LEMMA PointsList ==
    ASSUME NEW t \in TripType
    PROVE  /\ PointsOf(t) \in Seq(Coordinates)
           /\ Len(PointsOf(t)) = Len(t.positions)
           /\ \A i \in 1 .. Len(t.positions) : PointsOf(t)[i] = t.positions[i].coordinates
           /\ t.positions # << >> => /\ PointsOf(t) # << >>
                                     /\ PointsOf(t)[Len(PointsOf(t))] = Previous(t).coordinates
<1> DEFINE n == Len(t.positions)
<1>1. t.positions \in Seq(PositionSample) /\ n \in Nat
  BY TripFields, LenProperties
<1>2. \A i \in 1 .. n : t.positions[i].coordinates \in Coordinates
  <2>1. \A i \in 1 .. n : t.positions[i] \in PositionSample
    BY <1>1, ElementOfSeq
  <2>2. \A s \in PositionSample : s.coordinates \in Coordinates
    BY DEF PositionSample
  <2>3. QED BY <2>1, <2>2
<1>3. PointsOf(t) = [i \in 1 .. n |-> t.positions[i].coordinates]
  BY DEF PointsOf
<1> HIDE DEF n
<1>4. PointsOf(t) \in [1 .. n -> Coordinates]
  BY <1>2, <1>3
<1>5. PointsOf(t) \in Seq(Coordinates) /\ Len(PointsOf(t)) = n
  BY <1>1, <1>4, SeqDef, LenProperties
<1>6. t.positions # << >> => n \in 1 .. n /\ PointsOf(t) # << >>
  <2>1. t.positions # << >> => n # 0
    BY <1>1, EmptySeq DEF n
  <2>2. QED BY <1>1, <1>5, <2>1, EmptySeq
<1>7. QED BY <1>3, <1>5, <1>6 DEF n, Previous

LEMMA PointsAppend ==
    ASSUME NEW t \in TripType, NEW v \in TripType, NEW c \in Coordinates, NEW elapsed,
           v.positions = Append(t.positions, [coordinates |-> c, elapsed_seconds |-> elapsed]),
           elapsed \in 0 .. MaxElapsed
    PROVE  PointsOf(v) = Append(PointsOf(t), c)
<1> DEFINE sample == [coordinates |-> c, elapsed_seconds |-> elapsed]
           n == Len(t.positions)
           p == PointsOf(t)
           q == PointsOf(v)
<1>1. sample \in PositionSample /\ t.positions \in Seq(PositionSample) /\ sample.coordinates = c
  BY TripFields DEF PositionSample
<1>2. /\ n \in Nat /\ Len(v.positions) = n + 1
      /\ \A i \in 1 .. n : v.positions[i] = t.positions[i]
      /\ v.positions[n + 1] = sample
  BY <1>1, LenProperties, AppendProperties
<1>3. /\ p \in Seq(Coordinates) /\ Len(p) = n
      /\ \A i \in 1 .. n : p[i] = t.positions[i].coordinates
      /\ q \in Seq(Coordinates) /\ Len(q) = n + 1
      /\ \A i \in 1 .. n + 1 : q[i] = v.positions[i].coordinates
  BY <1>2, PointsList
<1>4. /\ Append(p, c) \in Seq(Coordinates) /\ Len(Append(p, c)) = n + 1
      /\ \A i \in 1 .. n : Append(p, c)[i] = p[i]
      /\ Append(p, c)[n + 1] = c
  BY <1>3, AppendProperties
<1> HIDE DEF n, p, q, sample
<1>5. ASSUME NEW i \in 1 .. n + 1 PROVE q[i] = Append(p, c)[i]
  <2>1. CASE i \in 1 .. n
    BY <1>2, <1>3, <1>4, <2>1
  <2>2. CASE i = n + 1
    BY <1>1, <1>2, <1>3, <1>4, <2>2
  <2>3. i \in 1 .. n \/ i = n + 1
    BY <1>2
  <2>4. QED BY <2>1, <2>2, <2>3
<1>6. QED BY <1>3, <1>4, <1>5, SeqEqual DEF p, q

(* The push leaves the totals alone, and the first point counts nothing.     *)
LEMMA PushTallies ==
    ASSUME NEW u \in TripType, NEW sample \in PositionSample, NEW points, NEW lost,
           Tallied(u, points, lost)
    PROVE  Tallied([u EXCEPT !.positions = Append(@, sample)], points, lost)
<1> DEFINE v == [u EXCEPT !.positions = Append(@, sample)]
<1>1. v.stopped_time = u.stopped_time /\ v.state = u.state
      /\ v.pending_still_time = u.pending_still_time
  BY DEF TripType
<1>2. QED BY <1>1 DEF Tallied

LEMMA FirstTallies ==
    ASSUME NEW points, Len(points) = 1, NEW u, u.stopped_time = 0, u.state = "Still", NEW lost
    PROVE  Tallied(u, points, lost)
<1>1. PausedIntervals(points, lost) = {}
  BY DEF PausedIntervals, IntervalsOf
<1>2. StoppedSeconds(points, lost) = 0
  BY <1>1, FS_EmptySet, TripAssumption DEF StoppedSeconds
<1>3. QED BY <1>2 DEF Tallied, StillAt

LEMMA DisconnectTallies ==
    ASSUME NEW t \in TripType, NEW points, NEW lost, t.stopped_time = StoppedSeconds(points, lost)
    PROVE  Tallied(Disconnect(t), points, lost)
<1>1. Disconnect(t).stopped_time = t.stopped_time /\ Disconnect(t).state = "Disconnected"
  BY DEF Disconnect, TripType
<1>2. QED BY <1>1 DEF Tallied
=============================================================================
