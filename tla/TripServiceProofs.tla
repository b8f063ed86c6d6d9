------------------------- MODULE TripServiceProofs -------------------------
(***************************************************************************)
(* Proofs about TripService, for every set of users, interval, threshold,  *)
(* u64 bound and number of trips and restarts.                             *)
(***************************************************************************)
EXTENDS TripService, TripLemmas, SequenceTheorems, FiniteSetTheorems, TLAPS

Saved == {origin[i] : i \in 1 .. Len(origin)}

Saving == {"finished", "copied", "writing", "committed"}

(* The trip of points is what a client reported: one point every interval.   *)
Sample(points, i) ==
    [coordinates |-> points[i], elapsed_seconds |-> (i - 1) * POSITION_INTERVAL_SECONDS]

Covered(n) == POSITION_INTERVAL_SECONDS * (IF n = 0 THEN 0 ELSE n - 1)

(* The first n points of a trip as the rows of trips_points.                 *)
Point(id, points, k) ==
    [trip_id |-> id, point_index |-> k, position |-> Sample(points, k + 1)]

Rows(id, points, n) == {Point(id, points, k) : k \in 0 .. (n - 1)}

(* What a session can be doing, for the trip it has.                         *)
SessionOK(u) ==
    /\ pc[u] \in {"offline", "discarded"} => u \notin DOMAIN trips
    /\ pc[u] \in Saving => u \in DOMAIN trips /\ closing[u]
    /\ pc[u] = "looping" => ~closing[u]
    /\ pc[u] # "replying" => reply[u] = "none"
    /\ reply[u] = "trip_completed" =>
          closing[u] /\ u \notin DOMAIN trips /\ run[u] \in Saved
    /\ reply[u] = "trip_save_failed" => closing[u] /\ u \in DOMAIN trips

(* A trip in memory holds the accepted points, its times cover them, and it  *)
(* stays open while the session takes commands.                              *)
TripOK(u) ==
    u \in DOMAIN trips =>
        /\ run[u] \in 1 .. Len(accepted)
        /\ Len(trips[u].positions) = Len(accepted[run[u]])
        /\ \A i \in 1 .. Len(accepted[run[u]]) :
              trips[u].positions[i] = Sample(accepted[run[u]], i)
        /\ PendingOK(trips[u])
        /\ Total(trips[u]) = Covered(Len(accepted[run[u]]))
        /\ pc[u] \in {"looping", "replying"} /\ ~closing[u] /\ trips[u].positions # << >>
              => trips[u].state # "Disconnected"
        /\ run[u] \in Saved <=> pc[u] = "committed"

(* What is being saved is that trip, closed.                                 *)
SavingOK(u) ==
    /\ pc[u] \in Saving =>
          /\ trips[u].state = "Disconnected"
          /\ saving[u].summary = Summary(trips[u])
    /\ pc[u] \in Saving \ {"finished"} => saving[u].positions = trips[u].positions

(* The open transaction holds the row and the first points of that trip.     *)
WriteOK(u) ==
    /\ pc[u] = "writing" <=> u \in DOMAIN tx
    /\ pc[u] = "writing" =>
          /\ tx[u].row = [user_id |-> u,
                          moving_seconds |-> trips[u].moving_time,
                          stopped_seconds |-> trips[u].stopped_time]
          /\ \E n \in 0 .. Len(accepted[run[u]]) :
                tx[u].points = Rows(Len(tripRows) + 1, accepted[run[u]], n)

UserOK(u) == SessionOK(u) /\ TripOK(u) /\ SavingOK(u) /\ WriteOK(u)

(* SQLite has one writer, and no two users started the same trip.            *)
Apart ==
    /\ \A u, v \in Users : u \in DOMAIN tx /\ v \in DOMAIN tx => u = v
    /\ \A u, v \in Users : run[u] = run[v] /\ run[u] # 0 => u = v
    /\ \A u \in Users : run[u] <= Len(accepted)

(* The tables hold exactly the accepted points of the saved trips.           *)
TablesOK ==
    /\ Len(origin) = Len(tripRows)
    /\ \A id \in 1 .. Len(tripRows) :
          /\ origin[id] \in 1 .. Len(accepted)
          /\ tripRows[id].moving_seconds + tripRows[id].stopped_seconds
               = Covered(Len(accepted[origin[id]]))
    /\ pointRows = UNION {Rows(id, accepted[origin[id]], Len(accepted[origin[id]])) :
                            id \in 1 .. Len(tripRows)}
    /\ told \subseteq Saved

IInv ==
    /\ TypeOK
    /\ \A u \in Users : UserOK(u)
    /\ Apart
    /\ TablesOK
    /\ SavedOnce
-----------------------------------------------------------------------------
(* What one user's fields are.                                               *)
LEMMA UserFields ==
    ASSUME TypeOK, NEW u \in Users
    PROVE  /\ pc[u] \in PC
           /\ reply[u] \in Reply
           /\ closing[u] \in BOOLEAN
           /\ saving[u] \in [summary : SummaryType, positions : Seq(PositionSample)]
           /\ run[u] \in Nat
           /\ u \in DOMAIN trips => trips[u] \in TripType
           /\ u \in DOMAIN tx => tx[u].row \in RowType /\ tx[u].points \subseteq PointType
BY DEF TypeOK

(* Of a trip in memory: its points are as many as were accepted.             *)
LEMMA TripInMemory ==
    ASSUME IInv, NEW u \in Users, u \in DOMAIN trips
    PROVE  /\ trips[u] \in TripType
           /\ run[u] \in 1 .. Len(accepted)
           /\ accepted[run[u]] \in Seq(Coordinates)
           /\ Len(accepted[run[u]]) \in Nat
           /\ Len(trips[u].positions) = Len(accepted[run[u]])
           /\ trips[u].positions \in Seq(PositionSample)
<1>1. TypeOK /\ TripOK(u)
  BY DEF IInv, UserOK
<1>2. trips[u] \in TripType /\ accepted \in Seq(Seq(Coordinates))
  BY <1>1 DEF TypeOK
<1>3. run[u] \in 1 .. Len(accepted) /\ Len(trips[u].positions) = Len(accepted[run[u]])
  BY <1>1 DEF TripOK
<1>4. accepted[run[u]] \in Seq(Coordinates)
  BY <1>2, <1>3, ElementOfSeq
<1>5. QED BY <1>2, <1>3, <1>4, LenProperties, TripFields

(* A saved trip is one that was started.                                     *)
LEMMA SavedStarted ==
    ASSUME IInv
    PROVE  Saved \subseteq 1 .. Len(accepted)
BY DEF IInv, TablesOK, Saved

(* A step that leaves what a user has alone keeps what is true of the user.  *)
LEMMA OthersKeep ==
    ASSUME IInv, NEW v \in Users,
           v \in DOMAIN trips' <=> v \in DOMAIN trips,
           v \in DOMAIN trips => trips'[v] = trips[v],
           pc'[v] = pc[v], reply'[v] = reply[v], closing'[v] = closing[v],
           saving'[v] = saving[v], run'[v] = run[v],
           v \in DOMAIN tx' <=> v \in DOMAIN tx,
           v \in DOMAIN tx => tx'[v] = tx[v] /\ Len(tripRows') = Len(tripRows),
           Len(accepted') \in Nat, Len(accepted') >= Len(accepted),
           v \in DOMAIN trips => accepted'[run[v]] = accepted[run[v]],
           run[v] \in Saved => run[v] \in Saved',
           v \in DOMAIN trips /\ run[v] \in Saved' => run[v] \in Saved
    PROVE  UserOK(v)'
<1>1. UserOK(v)
  BY DEF IInv
<1>2. SessionOK(v)'
  BY <1>1 DEF UserOK, SessionOK
<1>3. TripOK(v)'
  <2>1. SUFFICES ASSUME v \in DOMAIN trips
                 PROVE  TripOK(v)'
    BY DEF TripOK
  <2>2. run[v] \in 1 .. Len(accepted) /\ Len(accepted) \in Nat
    BY <2>1, TripInMemory, LenProperties DEF IInv, TypeOK
  <2>3. run'[v] \in 1 .. Len(accepted')
    BY <2>2
  <2>4. QED BY <1>1, <2>1, <2>3 DEF UserOK, TripOK, PendingOK, Total
<1>4. SavingOK(v)'
  BY <1>1 DEF UserOK, SavingOK, SessionOK, Saving
<1>5. WriteOK(v)'
  <2>1. pc[v] = "writing" => v \in DOMAIN trips
    BY <1>1 DEF UserOK, SessionOK, Saving
  <2>2. QED BY <1>1, <2>1 DEF UserOK, WriteOK
<1>6. QED BY <1>2, <1>3, <1>4, <1>5 DEF UserOK

(* A step that touches no table and starts no trip keeps the rest.           *)
LEMMA TablesKeep ==
    ASSUME IInv, UNCHANGED << database, run, accepted >>, told' \subseteq Saved,
           DOMAIN tx' \subseteq DOMAIN tx
    PROVE  Apart' /\ TablesOK' /\ SavedOnce' /\ Saved' = Saved
<1>1. Apart' /\ SavedOnce' /\ Saved' = Saved
  BY DEF IInv, Apart, SavedOnce, Saved, database
<1>2. TablesOK'
  BY <1>1 DEF IInv, TablesOK, database
<1>3. QED BY <1>1, <1>2

LEMMA SampleType ==
    ASSUME NEW c \in Coordinates, NEW elapsed \in 0 .. MaxElapsed
    PROVE  [coordinates |-> c, elapsed_seconds |-> elapsed] \in PositionSample
BY DEF PositionSample

(* Recording a point in an open trip covers one interval more.               *)
LEMMA RecordCovers ==
    ASSUME NEW t \in TripType, PendingOK(t), NEW c \in Coordinates,
           NEW elapsed \in 0 .. MaxElapsed, PositionResult(t, elapsed) = "Ok",
           t.positions # << >> => t.state # "Disconnected",
           t.positions # << >> =>
              Previous(t).elapsed_seconds
                = (Len(t.positions) - 1) * POSITION_INTERVAL_SECONDS,
           Total(t) = Covered(Len(t.positions)),
           NEW u, u = RecordPosition(t, c, elapsed)
    PROVE  /\ u \in TripType
           /\ elapsed = Len(t.positions) * POSITION_INTERVAL_SECONDS
           /\ u.positions = Append(t.positions, [coordinates |-> c, elapsed_seconds |-> elapsed])
           /\ PendingOK(u)
           /\ Total(u) = Covered(Len(t.positions) + 1)
           /\ u.state # "Disconnected"
<1> DEFINE sample == [coordinates |-> c, elapsed_seconds |-> elapsed]
           n == Len(t.positions)
<1>1. sample \in PositionSample /\ n \in Nat
  BY TripFields, LenProperties DEF PositionSample
<1>2. CASE t.positions = << >>
  <2>1. n = 0 /\ elapsed = 0
    BY <1>2 DEF PositionResult
  <2>2. FirstPosition(t) \in TripType
    BY DEF FirstPosition, TripType, UserState
  <2>3. /\ FirstPosition(t).positions = t.positions
        /\ FirstPosition(t).state = "Still"
        /\ Total(FirstPosition(t)) = Total(t)
        /\ FirstPosition(t).pending_still_time = t.pending_still_time
    BY DEF FirstPosition, TripType, Total
  <2>4. Total(t) = 0 /\ Covered(1) = 0
    BY <2>1, TripAssumption DEF Covered
  <2>5. t.pending_still_time = 0
    BY <2>4, TripFields DEF Total
  <2>6. u = [FirstPosition(t) EXCEPT !.positions = Append(@, sample)]
    BY <1>2 DEF RecordPosition
  <2>7. /\ u \in TripType
        /\ u.positions = Append(t.positions, sample)
        /\ u.state = "Still"
        /\ u.pending_still_time = 0
        /\ Total(u) = 0
    BY <1>1, <2>2, <2>3, <2>4, <2>5, <2>6, PushPosition
  <2>8. QED BY <2>1, <2>4, <2>7, TripAssumption DEF PendingOK
<1>3. CASE t.positions # << >>
  <2> DEFINE v == AccountInterval(t, c # Previous(t).coordinates)
  <2>1. n \in Nat \ {0}
    BY <1>1, <1>3, TripFields, EmptySeq
  <2>2. Accounted(t, v, POSITION_INTERVAL_SECONDS)
    BY <1>3, AccountIntervalAccounts
  <2>3. u = [v EXCEPT !.positions = Append(@, sample)]
    BY <1>3 DEF RecordPosition
  <2> HIDE DEF v
  <2>4. /\ u \in TripType
        /\ u.positions = Append(t.positions, sample)
        /\ u.state = v.state
        /\ u.pending_still_time = v.pending_still_time
        /\ Total(u) = Total(t) + POSITION_INTERVAL_SECONDS
    BY <1>1, <2>2, <2>3, PushPosition DEF Accounted
  <2>5. PendingOK(u) /\ u.state # "Disconnected"
    BY <2>2, <2>4 DEF Accounted, PendingOK
  <2>6. elapsed = n * POSITION_INTERVAL_SECONDS
    <3>1. elapsed = (n - 1) * POSITION_INTERVAL_SECONDS + POSITION_INTERVAL_SECONDS
      BY <1>3 DEF PositionResult, Expected
    <3> HIDE DEF n
    <3>2. QED BY <2>1, <3>1, TripAssumption
  <2>7. Total(u) = Covered(n + 1)
    <3>1. Total(u) = Covered(n) + POSITION_INTERVAL_SECONDS
      BY <2>4
    <3> HIDE DEF n
    <3>2. QED BY <2>1, <3>1, TripAssumption DEF Covered
  <2>8. QED BY <2>4, <2>5, <2>6, <2>7
<1>4. QED BY <1>2, <1>3
(* The tables stay true as long as the saved trips are not touched.          *)
LEMMA AcceptedKeep ==
    ASSUME IInv, UNCHANGED << database, told >>,
           Len(accepted') \in Nat, Len(accepted') >= Len(accepted),
           \A s \in Saved : accepted'[s] = accepted[s]
    PROVE  TablesOK' /\ SavedOnce' /\ Saved' = Saved
<1>1. SavedOnce' /\ Saved' = Saved
  BY DEF IInv, SavedOnce, Saved, database
<1>2. \A id \in 1 .. Len(tripRows) : /\ origin[id] \in 1 .. Len(accepted')
                                     /\ accepted'[origin[id]] = accepted[origin[id]]
  <2>1. Len(accepted) \in Nat
    BY LenProperties DEF IInv, TypeOK
  <2>2. QED BY <2>1 DEF IInv, TablesOK, Saved
<1>3. pointRows = UNION {Rows(id, accepted'[origin[id]], Len(accepted'[origin[id]])) :
                           id \in 1 .. Len(tripRows)}
  BY <1>2 DEF IInv, TablesOK
<1>4. \A id \in 1 .. Len(tripRows) :
         tripRows[id].moving_seconds + tripRows[id].stopped_seconds
           = Covered(Len(accepted'[origin[id]]))
  BY <1>2 DEF IInv, TablesOK
<1>5. Len(origin) = Len(tripRows) /\ told \subseteq Saved
  BY DEF IInv, TablesOK
<1>6. QED BY <1>1, <1>2, <1>3, <1>4, <1>5 DEF TablesOK, database

(* The first n points of a trip are n rows.                                  *)
LEMMA RowsCount ==
    ASSUME NEW id, NEW points, NEW n \in Nat
    PROVE  IsFiniteSet(Rows(id, points, n)) /\ Cardinality(Rows(id, points, n)) = n
<1> DEFINE K == 0 .. (n - 1)
           f == [k \in K |-> Point(id, points, k)]
<1>1. IsFiniteSet(K) /\ Cardinality(K) = n
  BY FS_Interval
<1>2. f \in Bijection(K, Rows(id, points, n))
  <2>1. \A k \in K : f[k].point_index = k
    BY DEF Point
  <2>2. f \in [K -> Rows(id, points, n)] /\ IsInjective(f)
    BY <2>1 DEF Rows, IsInjective
  <2>3. \A p \in Rows(id, points, n) : \E k \in K : f[k] = p
    BY DEF Rows
  <2>4. QED BY <2>2, <2>3 DEF Bijection, Injection, Surjection
<1>3. QED BY <1>1, <1>2, FS_Bijection DEF ExistsBijection

(* The next statement adds the next row.                                     *)
LEMMA RowsNext ==
    ASSUME NEW id, NEW points, NEW n \in Nat
    PROVE  Rows(id, points, n + 1) = Rows(id, points, n) \cup {Point(id, points, n)}
<1>1. 0 .. (n + 1 - 1) = 0 .. (n - 1) \cup {n}
  OBVIOUS
<1>2. QED BY <1>1 DEF Rows

(* The rows of a trip have their types.                                      *)
LEMMA RowsType ==
    ASSUME IInv, NEW u \in Users, u \in DOMAIN trips,
           NEW id \in Nat, NEW n \in 0 .. Len(accepted[run[u]])
    PROVE  Rows(id, accepted[run[u]], n) \subseteq PointType
<1> DEFINE points == accepted[run[u]]
<1>1. SUFFICES ASSUME NEW k \in 0 .. (n - 1)
               PROVE  Point(id, points, k) \in PointType
  BY DEF Rows
<1>2. /\ Len(points) \in Nat /\ k + 1 \in 1 .. Len(points)
      /\ trips[u].positions \in Seq(PositionSample)
      /\ Len(trips[u].positions) = Len(points)
  BY TripInMemory
<1>3. trips[u].positions[k + 1] \in PositionSample
  BY <1>2, ElementOfSeq
<1>4. trips[u].positions[k + 1] = Sample(points, k + 1)
  BY <1>2 DEF IInv, UserOK, TripOK
<1>5. QED BY <1>3, <1>4 DEF Point, PointType
-----------------------------------------------------------------------------
(* One lemma per kind of step.                                               *)

(* An answer that comes with no change.                                      *)
Answered(u) ==
    /\ pc[u] = "looping"
    /\ \E kind \in Reply \ {"none", "trip_completed", "trip_save_failed"} : Answer(u, kind)
    /\ UNCHANGED << trips, closing, saving, tx, database, restarts, history >>

(* A step of a session that moves no trip and no data.                       *)
LEMMA SessionStepKeepsIInv ==
    ASSUME IInv, NEW u \in Users,
           \/ Connect(u) \/ SendReply(u) \/ SendFails(u) \/ Leave(u) \/ RemoveClient(u)
           \/ Answered(u)
    PROVE  IInv'
<1>1. /\ UNCHANGED << trips, saving, tx, database, restarts, run, accepted >>
      /\ \A v \in Users \ {u} : /\ pc'[v] = pc[v]
                                /\ reply'[v] = reply[v]
                                /\ closing'[v] = closing[v]
  BY DEF IInv, TypeOK, Connect, SendReply, SendFails, Leave, RemoveClient, Answered,
         Answer, Goto, history
<1>2. told' \subseteq Saved
  <2>1. told \subseteq Saved /\ (reply[u] = "trip_completed" => run[u] \in Saved)
    BY DEF IInv, UserOK, SessionOK, TablesOK
  <2>2. told' = told \/ (reply[u] = "trip_completed" /\ told' = told \cup {run[u]})
    BY DEF Connect, SendReply, SendFails, Leave, RemoveClient, Answered, history
  <2>3. QED BY <2>1, <2>2
<1>3. Apart' /\ TablesOK' /\ SavedOnce' /\ Saved' = Saved
  BY <1>1, <1>2, TablesKeep
<1>4. TypeOK'
  <2>1. /\ pc' \in [Users -> PC]
        /\ reply' \in [Users -> Reply]
        /\ closing' \in [Users -> BOOLEAN]
    BY DEF IInv, TypeOK, Connect, SendReply, SendFails, Leave, RemoveClient, Answered,
           Answer, Goto, history, PC, Reply, Refusal
  <2>2. told' \subseteq Nat
    BY <1>2, SavedStarted
  <2>3. QED BY <1>1, <2>1, <2>2 DEF IInv, TypeOK, database
<1>5. \A v \in Users \ {u} : UserOK(v)'
  BY <1>1, <1>3, OthersKeep, LenProperties DEF IInv, TypeOK, database
<1>6. UserOK(u)'
  <2>1. UserOK(u) /\ pc[u] \in PC /\ closing[u] \in BOOLEAN
    BY DEF IInv, TypeOK
  <2>2. SessionOK(u)'
    BY <1>1, <1>3, <2>1
    DEF UserOK, SessionOK, Saving, IInv, TypeOK, Connect, SendReply, SendFails, Leave,
        RemoveClient, Answered, Answer, Goto, history
  <2>3. pc[u] \notin Saving \cup {"committed"} /\ pc'[u] \notin Saving
    BY DEF IInv, TypeOK, Saving, Connect, SendReply, SendFails, Leave, RemoveClient, Answered,
           Answer, Goto, history
  <2>4. TripOK(u)'
    <3>1. pc'[u] \in {"looping", "replying"} /\ ~closing'[u] /\ u \in DOMAIN trips
            => pc[u] \in {"looping", "replying"} /\ ~closing[u]
      BY <2>1 DEF UserOK, SessionOK, IInv, TypeOK, Connect, SendReply, SendFails, Leave,
                  RemoveClient, Answered, Answer, Goto, history
    <3>2. QED BY <1>1, <1>3, <2>1, <2>3, <3>1 DEF UserOK, TripOK, Saving
  <2>5. SavingOK(u)' /\ WriteOK(u)'
    BY <1>1, <2>1, <2>3 DEF UserOK, SavingOK, WriteOK, Saving
  <2>6. QED BY <2>2, <2>4, <2>5 DEF UserOK
<1>7. QED BY <1>3, <1>4, <1>5, <1>6 DEF IInv

(* A new trip has no points and a number nobody has.                         *)
LEMMA StartKeepsIInv ==
    ASSUME IInv, NEW u \in Users, StartTrip(u)
    PROVE  IInv'
<1>1. CASE u \in DOMAIN trips
  <2>1. Answered(u)
    BY <1>1 DEF StartTrip, Answered, Reply, history
  <2>2. QED BY <2>1, SessionStepKeepsIInv
<1>2. CASE u \notin DOMAIN trips
  <2> DEFINE n == Len(accepted) + 1
  <2>1. /\ pc[u] = "looping"
        /\ trips' = Put(trips, u, NewTrip)
        /\ accepted' = Append(accepted, << >>)
        /\ run' = [run EXCEPT ![u] = n]
        /\ pc' = [pc EXCEPT ![u] = "replying"]
        /\ reply' = [reply EXCEPT ![u] = "trip_started"]
        /\ UNCHANGED << closing, saving, tx, database, restarts, told >>
    BY <1>2 DEF StartTrip, Answer, Goto
  <2>2. /\ accepted \in Seq(Seq(Coordinates)) /\ Len(accepted) \in Nat /\ n \in Nat \ {0}
        /\ accepted' \in Seq(Seq(Coordinates)) /\ Len(accepted') = n
        /\ accepted'[n] = << >>
        /\ \A i \in 1 .. Len(accepted) : accepted'[i] = accepted[i]
    <3>1. accepted \in Seq(Seq(Coordinates)) /\ << >> \in Seq(Coordinates)
      BY DEF IInv, TypeOK
    <3>2. QED BY <2>1, <3>1, AppendProperties, LenProperties
  <2>3. NewTrip \in TripType
    BY DEF NewTrip, TripType, UserState
  <2>4. TypeOK'
    <3>1. DOMAIN trips' \subseteq Users /\ \A v \in DOMAIN trips' : trips'[v] \in TripType
      BY <2>1, <2>3 DEF IInv, TypeOK, Put
    <3>2. pc' \in [Users -> PC] /\ reply' \in [Users -> Reply] /\ run' \in [Users -> Nat]
      BY <2>1, <2>2 DEF IInv, TypeOK, PC, Reply
    <3>3. QED BY <2>1, <2>2, <3>1, <3>2 DEF IInv, TypeOK, database
  <2>5. Saved' = Saved /\ n \notin Saved
    BY <2>1, <2>2, SavedStarted DEF Saved, database
  <2>6. \A v \in Users \ {u} : UserOK(v)'
    <3> SUFFICES ASSUME NEW v \in Users \ {u} PROVE UserOK(v)'
      OBVIOUS
    <3>1. /\ v \in DOMAIN trips' <=> v \in DOMAIN trips
          /\ v \in DOMAIN trips => trips'[v] = trips[v]
          /\ pc'[v] = pc[v] /\ reply'[v] = reply[v] /\ run'[v] = run[v]
      BY <2>1 DEF IInv, TypeOK, Put
    <3>2. v \in DOMAIN trips => accepted'[run[v]] = accepted[run[v]]
      BY <2>2, TripInMemory
    <3>3. Len(accepted') \in Nat /\ Len(accepted') >= Len(accepted)
      BY <2>2
    <3>4. /\ closing'[v] = closing[v] /\ saving'[v] = saving[v] /\ tx' = tx
          /\ tripRows' = tripRows
      BY <2>1 DEF database
    <3>5. QED BY <2>5, <3>1, <3>2, <3>3, <3>4, OthersKeep
  <2>7. UserOK(u)'
    <3>1. /\ trips'[u] = NewTrip /\ u \in DOMAIN trips'
          /\ run'[u] = n /\ pc'[u] = "replying" /\ reply'[u] = "trip_started"
          /\ closing'[u] = closing[u] /\ ~closing[u] /\ u \notin DOMAIN tx
      BY <2>1 DEF IInv, TypeOK, UserOK, SessionOK, WriteOK, Put
    <3>2. SessionOK(u)' /\ SavingOK(u)' /\ WriteOK(u)'
      BY <2>1, <3>1 DEF SessionOK, SavingOK, WriteOK, Saving
    <3>3. TripOK(u)'
      <4>1. /\ Len(NewTrip.positions) = 0 /\ Total(NewTrip) = 0 /\ Covered(0) = 0
            /\ PendingOK(NewTrip)
            /\ NewTrip.positions = << >>
        BY TripAssumption DEF NewTrip, Total, Covered, PendingOK
      <4>2. Len(accepted'[n]) = 0
        BY <2>2
      <4>3. PendingOK(trips'[u]) /\ Total(trips'[u]) = 0
        BY <3>1, <4>1
      <4>4. QED BY <2>2, <2>5, <3>1, <4>1, <4>2, <4>3 DEF TripOK, PendingOK, Total, Covered
    <3>4. QED BY <3>2, <3>3 DEF UserOK
  <2>8. Apart'
    BY <2>1, <2>2 DEF IInv, TypeOK, Apart
  <2>9. TablesOK' /\ SavedOnce'
    <3>1. \A i \in Saved : accepted'[i] = accepted[i]
      BY <2>2, SavedStarted
    <3>2. Len(accepted') \in Nat /\ Len(accepted') >= Len(accepted)
      BY <2>2
    <3>3. QED BY <2>1, <3>1, <3>2, AcceptedKeep
  <2>10. QED BY <2>4, <2>6, <2>7, <2>8, <2>9 DEF IInv
<1>3. QED BY <1>1, <1>2

(* An accepted position extends the trip and what was accepted alike; the    *)
(* trip is not saved yet, so nothing in the tables is about it.              *)
LEMMA PositionKeepsIInv ==
    ASSUME IInv, NEW u \in Users, NEW c \in Coordinates, NEW elapsed \in ElapsedInputs,
           PositionUpdate(u, c, elapsed)
    PROVE  IInv'
<1>1. CASE ~(u \in DOMAIN trips /\ PositionResult(trips[u], elapsed) = "Ok")
  <2>1. Answered(u)
    BY <1>1 DEF PositionUpdate, Answered, Reply, history
  <2>2. QED BY <2>1, SessionStepKeepsIInv
<1>2. CASE u \in DOMAIN trips /\ PositionResult(trips[u], elapsed) = "Ok"
  <2> DEFINE n == run[u]
             points == accepted[n]
             t == RecordPosition(trips[u], c, elapsed)
  <2>1. /\ pc[u] = "looping"
        /\ trips' = [trips EXCEPT ![u] = t]
        /\ accepted' = [accepted EXCEPT ![n] = Append(points, c)]
        /\ pc' = [pc EXCEPT ![u] = "replying"]
        /\ reply' = [reply EXCEPT ![u] = "position_accepted"]
        /\ UNCHANGED << closing, saving, tx, database, restarts, run, told >>
    BY <1>2 DEF PositionUpdate, Answer, Goto
  <2>2. /\ trips[u] \in TripType
        /\ n \in 1 .. Len(accepted) /\ n \in Nat
        /\ points \in Seq(Coordinates) /\ Len(points) \in Nat
        /\ Len(trips[u].positions) = Len(points)
        /\ trips[u].positions \in Seq(PositionSample)
    BY <1>2, TripInMemory DEF IInv, TypeOK
  <2>3. SessionOK(u) /\ TripOK(u) /\ WriteOK(u) /\ u \notin DOMAIN tx /\ ~closing[u]
    BY <2>1 DEF IInv, UserOK, SessionOK, WriteOK
  <2>4. /\ PendingOK(trips[u])
        /\ Total(trips[u]) = Covered(Len(points))
        /\ \A i \in 1 .. Len(points) : trips[u].positions[i] = Sample(points, i)
        /\ trips[u].positions # << >> => trips[u].state # "Disconnected"
        /\ n \notin Saved
    BY <1>2, <2>1, <2>3 DEF TripOK
  <2>5. elapsed \in 0 .. MaxElapsed
    BY ServiceAssumption
  <2>6. trips[u].positions # << >> =>
           Previous(trips[u]).elapsed_seconds
             = (Len(trips[u].positions) - 1) * POSITION_INTERVAL_SECONDS
    <3>1. SUFFICES ASSUME trips[u].positions # << >>
                   PROVE  Previous(trips[u]).elapsed_seconds
                            = (Len(points) - 1) * POSITION_INTERVAL_SECONDS
      BY <2>2
    <3>2. Len(points) \in 1 .. Len(points)
      BY <2>2, <3>1, EmptySeq
    <3>3. Previous(trips[u]) = Sample(points, Len(points))
      BY <2>2, <2>4, <3>2 DEF Previous
    <3>4. QED BY <3>3 DEF Sample
  <2>7. /\ t \in TripType
        /\ elapsed = Len(points) * POSITION_INTERVAL_SECONDS
        /\ t.positions = Append(trips[u].positions, [coordinates |-> c, elapsed_seconds |-> elapsed])
        /\ PendingOK(t)
        /\ Total(t) = Covered(Len(points) + 1)
        /\ t.state # "Disconnected"
    BY <1>2, <2>2, <2>4, <2>5, <2>6, RecordCovers
  <2> HIDE DEF t
  <2>8. /\ accepted \in Seq(Seq(Coordinates)) /\ Len(accepted) \in Nat
        /\ accepted' \in Seq(Seq(Coordinates)) /\ Len(accepted') = Len(accepted)
        /\ accepted'[n] = Append(points, c)
        /\ \A i \in 1 .. Len(accepted) : i # n => accepted'[i] = accepted[i]
    <3>1. accepted \in Seq(Seq(Coordinates)) /\ Append(points, c) \in Seq(Coordinates)
      BY <2>2, AppendProperties DEF IInv, TypeOK
    <3>2. QED BY <2>1, <2>2, <3>1, ExceptSeq, LenProperties
  <2>9. Saved' = Saved
    BY <2>1 DEF Saved, database
  <2>10. TypeOK'
    <3>1. DOMAIN trips' \subseteq Users /\ \A v \in DOMAIN trips' : trips'[v] \in TripType
      BY <2>1, <2>7 DEF IInv, TypeOK
    <3>2. pc' \in [Users -> PC] /\ reply' \in [Users -> Reply]
      BY <2>1 DEF IInv, TypeOK, PC, Reply
    <3>3. QED BY <2>1, <2>8, <3>1, <3>2 DEF IInv, TypeOK, database
  <2>11. \A v \in Users \ {u} : UserOK(v)'
    <3> SUFFICES ASSUME NEW v \in Users \ {u} PROVE UserOK(v)'
      OBVIOUS
    <3>1. /\ v \in DOMAIN trips' <=> v \in DOMAIN trips
          /\ v \in DOMAIN trips => trips'[v] = trips[v]
          /\ pc'[v] = pc[v] /\ reply'[v] = reply[v]
      BY <2>1 DEF IInv, TypeOK
    <3>2. v \in DOMAIN trips => accepted'[run[v]] = accepted[run[v]]
      <4>1. v \in DOMAIN trips => run[v] \in 1 .. Len(accepted)
        BY TripInMemory
      <4>2. run[v] # run[u]
        BY <2>2 DEF IInv, Apart
      <4>3. QED BY <2>8, <4>1, <4>2
    <3>3. Len(accepted') \in Nat /\ Len(accepted') >= Len(accepted)
      BY <2>8
    <3>4. /\ closing'[v] = closing[v] /\ saving'[v] = saving[v] /\ tx' = tx
          /\ tripRows' = tripRows /\ run'[v] = run[v]
      BY <2>1 DEF database
    <3>5. QED BY <2>9, <3>1, <3>2, <3>3, <3>4, OthersKeep
  <2>12. UserOK(u)'
    <3>1. /\ trips'[u] = t /\ u \in DOMAIN trips'
          /\ run'[u] = n /\ pc'[u] = "replying" /\ reply'[u] = "position_accepted"
          /\ closing'[u] = closing[u]
      BY <1>2, <2>1 DEF IInv, TypeOK
    <3>2. SessionOK(u)' /\ SavingOK(u)' /\ WriteOK(u)'
      BY <2>1, <2>3, <3>1 DEF SessionOK, SavingOK, WriteOK, Saving
    <3>3. TripOK(u)'
      <4>1. /\ Len(Append(points, c)) = Len(points) + 1
            /\ Len(t.positions) = Len(points) + 1
        BY <2>2, <2>5, <2>7, SampleType, AppendProperties
      <4>2. \A i \in 1 .. Len(points) + 1 : t.positions[i] = Sample(Append(points, c), i)
        <5> DEFINE m == Len(points)
                   sample == [coordinates |-> c, elapsed_seconds |-> elapsed]
        <5>1. sample \in PositionSample
          BY <2>5, SampleType
        <5>2. /\ \A i \in 1 .. m : /\ t.positions[i] = trips[u].positions[i]
                                   /\ Append(points, c)[i] = points[i]
              /\ t.positions[m + 1] = sample /\ Append(points, c)[m + 1] = c
          BY <2>2, <2>7, <5>1, AppendProperties
        <5>3. m \in Nat /\ elapsed = m * POSITION_INTERVAL_SECONDS
          BY <2>2, <2>7
        <5>4. \A i \in 1 .. m : t.positions[i] = Sample(Append(points, c), i)
          BY <2>4, <5>2 DEF Sample
        <5>5. t.positions[m + 1] = Sample(Append(points, c), m + 1)
          BY <5>2, <5>3 DEF Sample
        <5> HIDE DEF m
        <5>6. \A i \in 1 .. m + 1 : i \in 1 .. m \/ i = m + 1
          BY <5>3
        <5>7. QED BY <5>4, <5>5, <5>6 DEF m
      <4>3. PendingOK(trips'[u]) /\ Total(trips'[u]) = Covered(Len(points) + 1)
        BY <2>7, <3>1
      <4>4. QED
        BY <2>2, <2>4, <2>7, <2>8, <2>9, <3>1, <4>1, <4>2, <4>3
        DEF TripOK, PendingOK, Total
    <3>4. QED BY <3>2, <3>3 DEF UserOK
  <2>13. Apart'
    BY <2>1, <2>8 DEF IInv, TypeOK, Apart
  <2>14. TablesOK' /\ SavedOnce'
    <3>1. \A i \in Saved : accepted'[i] = accepted[i]
      BY <2>4, <2>8, SavedStarted
    <3>2. QED BY <2>1, <2>8, <3>1, AcceptedKeep
  <2>15. QED BY <2>10, <2>11, <2>12, <2>13, <2>14 DEF IInv
<1>3. QED BY <1>1, <1>2

(* finish_trip closes the trip and remembers its summary.                    *)
LEMMA FinishKeepsIInv ==
    ASSUME IInv, NEW u \in Users, FinishTrip(u)
    PROVE  IInv'
<1>1. CASE u \notin DOMAIN trips
  <2>1. Answered(u)
    BY <1>1 DEF FinishTrip, Answered, Reply, history
  <2>2. QED BY <2>1, SessionStepKeepsIInv
<1>2. CASE u \in DOMAIN trips
  <2> DEFINE t == Disconnect(trips[u])
  <2>1. /\ pc[u] = "looping"
        /\ trips' = [trips EXCEPT ![u] = t]
        /\ saving' = [saving EXCEPT ![u].summary = Summary(t)]
        /\ closing' = [closing EXCEPT ![u] = TRUE]
        /\ pc' = [pc EXCEPT ![u] = "finished"]
        /\ UNCHANGED << reply, tx, database, restarts, history >>
    BY <1>2 DEF FinishTrip, Goto
  <2>2. /\ SessionOK(u) /\ TripOK(u) /\ WriteOK(u)
        /\ trips[u] \in TripType /\ PendingOK(trips[u])
    BY <1>2, TripInMemory DEF IInv, UserOK, TripOK
  <2>3. /\ t \in TripType
        /\ t.positions = trips[u].positions
        /\ t.pending_still_time = 0
        /\ t.state = "Disconnected"
        /\ Total(t) = Total(trips[u])
    BY <2>2, DisconnectAccounts
  <2> HIDE DEF t
  <2>4. Summary(t) \in SummaryType
    BY <2>3, TripFields, LenProperties DEF Summary, SummaryType
  <2>5. TypeOK'
    <3>1. DOMAIN trips' \subseteq Users /\ \A v \in DOMAIN trips' : trips'[v] \in TripType
      BY <2>1, <2>3 DEF IInv, TypeOK
    <3>2. pc' \in [Users -> PC] /\ closing' \in [Users -> BOOLEAN]
      BY <2>1 DEF IInv, TypeOK, PC
    <3>3. saving' \in [Users -> [summary : SummaryType, positions : Seq(PositionSample)]]
      BY <2>1, <2>4 DEF IInv, TypeOK
    <3>4. QED BY <2>1, <3>1, <3>2, <3>3 DEF IInv, TypeOK, database, history
  <2>6. Apart' /\ TablesOK' /\ SavedOnce' /\ Saved' = Saved
    <3>1. told \subseteq Saved
      BY DEF IInv, TablesOK
    <3>2. QED BY <2>1, <3>1, TablesKeep DEF history
  <2>7. \A v \in Users \ {u} : UserOK(v)'
    <3> SUFFICES ASSUME NEW v \in Users \ {u} PROVE UserOK(v)'
      OBVIOUS
    <3>1. /\ v \in DOMAIN trips' <=> v \in DOMAIN trips
          /\ v \in DOMAIN trips => trips'[v] = trips[v]
          /\ pc'[v] = pc[v] /\ closing'[v] = closing[v] /\ saving'[v] = saving[v]
      BY <2>1 DEF IInv, TypeOK
    <3>2. Len(accepted') \in Nat /\ Len(accepted') >= Len(accepted)
      BY <2>1, LenProperties DEF IInv, TypeOK, history
    <3>3. QED BY <2>1, <2>6, <3>1, <3>2, OthersKeep DEF database, history
  <2>8. UserOK(u)'
    <3>1. /\ trips'[u] = t /\ u \in DOMAIN trips' /\ pc'[u] = "finished" /\ closing'[u]
          /\ saving'[u].summary = Summary(t)
      BY <1>2, <2>1 DEF IInv, TypeOK
    <3>2. SessionOK(u)' /\ SavingOK(u)' /\ WriteOK(u)'
      BY <2>1, <2>2, <2>3, <3>1 DEF SessionOK, SavingOK, WriteOK, Saving
    <3>3. PendingOK(t) /\ Total(t) = Total(trips[u])
      BY <2>3, TripAssumption DEF PendingOK
    <3>4. PendingOK(trips'[u]) /\ Total(trips'[u]) = Total(trips[u])
      BY <3>1, <3>3
    <3>5. TripOK(u)'
      BY <1>2, <2>1, <2>2, <2>3, <2>6, <3>1, <3>4 DEF TripOK, PendingOK, Total, history
    <3>6. QED BY <3>2, <3>5 DEF UserOK
  <2>9. QED BY <2>5, <2>6, <2>7, <2>8 DEF IInv
<1>3. QED BY <1>1, <1>2

(* discard_trip, at the end of a session or after a commit.                  *)
LEMMA DiscardKeepsIInv ==
    ASSUME IInv, NEW u \in Users, DiscardTrip(u) \/ DiscardSaved(u)
    PROVE  IInv'
<1>1. /\ trips' = Drop(trips, u)
      /\ UNCHANGED << closing, saving, tx, database, restarts, history >>
      /\ \/ /\ pc[u] = "left" /\ pc' = [pc EXCEPT ![u] = "discarded"]
            /\ reply' = reply
         \/ /\ pc[u] = "committed" /\ pc' = [pc EXCEPT ![u] = "replying"]
            /\ reply' = [reply EXCEPT ![u] = "trip_completed"]
  BY DEF DiscardTrip, DiscardSaved, Answer, Goto
<1>2. Apart' /\ TablesOK' /\ SavedOnce' /\ Saved' = Saved
  <2>1. told \subseteq Saved
    BY DEF IInv, TablesOK
  <2>2. QED BY <1>1, <2>1, TablesKeep DEF history
<1>3. TypeOK'
  <2>1. DOMAIN trips' \subseteq Users /\ \A v \in DOMAIN trips' : trips'[v] \in TripType
    BY <1>1 DEF IInv, TypeOK, Drop
  <2>2. pc' \in [Users -> PC] /\ reply' \in [Users -> Reply]
    BY <1>1 DEF IInv, TypeOK, PC, Reply
  <2>3. QED BY <1>1, <2>1, <2>2 DEF IInv, TypeOK, database, history
<1>4. \A v \in Users \ {u} : UserOK(v)'
  <2> SUFFICES ASSUME NEW v \in Users \ {u} PROVE UserOK(v)'
    OBVIOUS
  <2>1. /\ v \in DOMAIN trips' <=> v \in DOMAIN trips
        /\ v \in DOMAIN trips => trips'[v] = trips[v]
        /\ pc'[v] = pc[v] /\ reply'[v] = reply[v]
    BY <1>1 DEF IInv, TypeOK, Drop
  <2>2. Len(accepted') \in Nat /\ Len(accepted') >= Len(accepted)
    BY <1>1, LenProperties DEF IInv, TypeOK, history
  <2>3. QED BY <1>1, <1>2, <2>1, <2>2, OthersKeep DEF database, history
<1>5. UserOK(u)'
  <2>1. UserOK(u) /\ u \notin DOMAIN trips'
    BY <1>1 DEF IInv, Drop
  <2>2. pc'[u] = "replying" => closing[u] /\ run[u] \in Saved
    BY <1>1, <2>1 DEF IInv, TypeOK, UserOK, SessionOK, TripOK, Saving
  <2>3. QED
    BY <1>1, <1>2, <2>1, <2>2
    DEF IInv, TypeOK, UserOK, SessionOK, TripOK, SavingOK, WriteOK, Saving, history
<1>6. QED BY <1>2, <1>3, <1>4, <1>5 DEF IInv

(* save_trip copies the positions.  The trip is there, with as many points   *)
(* as its summary says, so the copy is what will be written.                 *)
LEMMA CopyKeepsIInv ==
    ASSUME IInv, NEW u \in Users, CopyPositions(u)
    PROVE  IInv'
<1>1. /\ UserOK(u) /\ pc[u] = "finished" /\ u \in DOMAIN trips
      /\ trips[u] \in TripType /\ trips[u].positions \in Seq(PositionSample)
  BY TripInMemory DEF IInv, UserOK, SessionOK, Saving, CopyPositions
<1>2. Len(trips[u].positions) = saving[u].summary.points_received
  BY <1>1 DEF UserOK, SavingOK, Saving, Summary
<1>3. /\ saving' = [saving EXCEPT ![u].positions = trips[u].positions]
      /\ pc' = [pc EXCEPT ![u] = "copied"]
      /\ UNCHANGED << trips, reply, closing, tx, database, restarts, history >>
  BY <1>1, <1>2 DEF CopyPositions, Goto
<1>4. Apart' /\ TablesOK' /\ SavedOnce' /\ Saved' = Saved
  <2>1. told \subseteq Saved
    BY DEF IInv, TablesOK
  <2>2. QED BY <1>3, <2>1, TablesKeep DEF history
<1>5. TypeOK'
  <2>1. saving' \in [Users -> [summary : SummaryType, positions : Seq(PositionSample)]]
    BY <1>1, <1>3 DEF IInv, TypeOK
  <2>2. pc' \in [Users -> PC]
    BY <1>3 DEF IInv, TypeOK, PC
  <2>3. QED BY <1>3, <2>1, <2>2 DEF IInv, TypeOK, database, history
<1>6. \A v \in Users \ {u} : UserOK(v)'
  <2> SUFFICES ASSUME NEW v \in Users \ {u} PROVE UserOK(v)'
    OBVIOUS
  <2>1. pc'[v] = pc[v] /\ saving'[v] = saving[v]
    BY <1>3 DEF IInv, TypeOK
  <2>2. Len(accepted') \in Nat /\ Len(accepted') >= Len(accepted)
    BY <1>3, LenProperties DEF IInv, TypeOK, history
  <2>3. QED BY <1>3, <1>4, <2>1, <2>2, OthersKeep DEF database, history
<1>7. UserOK(u)'
  <2>1. /\ pc'[u] = "copied" /\ saving'[u].positions = trips[u].positions
        /\ saving'[u].summary = saving[u].summary
    BY <1>3 DEF IInv, TypeOK
  <2>2. SessionOK(u)' /\ SavingOK(u)' /\ WriteOK(u)'
    BY <1>1, <1>3, <2>1 DEF UserOK, SessionOK, SavingOK, WriteOK, Saving
  <2>3. TripOK(u)'
    BY <1>1, <1>3, <1>4, <2>1 DEF UserOK, TripOK, history
  <2>4. QED BY <2>2, <2>3 DEF UserOK
<1>8. QED BY <1>4, <1>5, <1>6, <1>7 DEF IInv

(* The transaction begins: there is no other one, and it has no point yet.   *)
LEMMA InsertTripKeepsIInv ==
    ASSUME IInv, NEW u \in Users, InsertTrip(u)
    PROVE  IInv'
<1> DEFINE row == [user_id |-> u,
                   moving_seconds |-> saving[u].summary.moving_seconds,
                   stopped_seconds |-> saving[u].summary.stopped_seconds]
<1>1. /\ pc[u] = "copied" /\ DOMAIN tx = {}
      /\ tx' = Put(tx, u, [row |-> row, points |-> {}])
      /\ pc' = [pc EXCEPT ![u] = "writing"]
      /\ UNCHANGED << trips, reply, closing, saving, database, restarts, history >>
  BY DEF InsertTrip, Goto
<1>2. /\ DOMAIN tx' = {u} /\ tx'[u] = [row |-> row, points |-> {}]
      /\ pc'[u] = "writing"
  BY <1>1 DEF Put, IInv, TypeOK
<1>3. UserOK(u) /\ u \in DOMAIN trips /\ saving[u].summary \in SummaryType
  BY <1>1 DEF IInv, TypeOK, UserOK, SessionOK, Saving
<1>4. TypeOK'
  <2>1. row \in RowType
    BY <1>3 DEF RowType, SummaryType
  <2>2. pc' \in [Users -> PC]
    BY <1>1 DEF IInv, TypeOK, PC
  <2> HIDE DEF row
  <2>3. DOMAIN tx' \subseteq Users
        /\ \A v \in DOMAIN tx' : tx'[v].row \in RowType /\ tx'[v].points \subseteq PointType
    BY <1>2, <2>1
  <2>4. QED BY <1>1, <2>2, <2>3 DEF IInv, TypeOK, database, history
<1>5. Apart'
  BY <1>1, <1>2 DEF IInv, Apart, history
<1>6. TablesOK' /\ SavedOnce' /\ Saved' = Saved
  BY <1>1 DEF IInv, TablesOK, SavedOnce, Saved, database, history
<1>7. \A v \in Users \ {u} : UserOK(v)'
  <2> SUFFICES ASSUME NEW v \in Users \ {u} PROVE UserOK(v)'
    OBVIOUS
  <2>1. pc'[v] = pc[v] /\ v \notin DOMAIN tx /\ v \notin DOMAIN tx'
    BY <1>1, <1>2 DEF IInv, TypeOK
  <2>2. Len(accepted') \in Nat /\ Len(accepted') >= Len(accepted)
    BY <1>1, LenProperties DEF IInv, TypeOK, history
  <2>3. QED BY <1>1, <1>6, <2>1, <2>2, OthersKeep DEF database, history
<1>8. UserOK(u)'
  <2>1. SessionOK(u)' /\ SavingOK(u)'
    BY <1>1, <1>2, <1>3 DEF UserOK, SessionOK, SavingOK, Saving
  <2>2. TripOK(u)'
    BY <1>1, <1>2, <1>3, <1>6 DEF UserOK, TripOK, history
  <2>3. saving[u].summary = Summary(trips[u])
    BY <1>1, <1>3 DEF UserOK, SavingOK, Saving
  <2>4. row = [user_id |-> u,
               moving_seconds |-> trips[u].moving_time,
               stopped_seconds |-> trips[u].stopped_time]
    BY <2>3 DEF Summary
  <2> HIDE DEF row
  <2>5. {} = Rows(Len(tripRows) + 1, accepted[run[u]], 0)
    BY DEF Rows
  <2>6. 0 \in 0 .. Len(accepted[run[u]])
    BY <1>3, TripInMemory
  <2>7. WriteOK(u)'
    <3>1. tx'[u].row = row /\ tx'[u].points = {} /\ u \in DOMAIN tx'
      BY <1>2
    <3>2. tx'[u].points = Rows(Len(tripRows') + 1, accepted'[run'[u]], 0)
      BY <1>1, <2>5, <3>1 DEF database, history
    <3>3. 0 \in 0 .. Len(accepted'[run'[u]])
      BY <1>1, <2>6 DEF history
    <3>4. QED BY <1>1, <1>2, <2>4, <3>1, <3>2, <3>3 DEF WriteOK
  <2>8. QED BY <2>1, <2>2, <2>7 DEF UserOK
<1>9. QED BY <1>4, <1>5, <1>6, <1>7, <1>8 DEF IInv

(* What the open transaction of u holds.                                     *)
LEMMA Written ==
    ASSUME IInv, NEW u \in Users, pc[u] = "writing"
    PROVE  /\ u \in DOMAIN trips /\ DOMAIN tx = {u}
           /\ saving[u].positions = trips[u].positions
           /\ \E n \in 0 .. Len(accepted[run[u]]) :
                 /\ tx[u].points = Rows(Len(tripRows) + 1, accepted[run[u]], n)
                 /\ Cardinality(tx[u].points) = n
<1>1. UserOK(u) /\ u \in DOMAIN trips /\ u \in DOMAIN tx
  BY DEF IInv, UserOK, SessionOK, WriteOK, Saving
<1>2. DOMAIN tx = {u}
  BY <1>1 DEF IInv, TypeOK, Apart
<1>3. saving[u].positions = trips[u].positions
  BY <1>1 DEF UserOK, SavingOK, Saving
<1>4. PICK n \in 0 .. Len(accepted[run[u]]) :
         tx[u].points = Rows(Len(tripRows) + 1, accepted[run[u]], n)
  BY <1>1 DEF UserOK, WriteOK
<1>5. n \in Nat
  BY <1>1, TripInMemory
<1>6. Cardinality(tx[u].points) = n
  BY <1>4, <1>5, RowsCount
<1>7. QED BY <1>1, <1>2, <1>3, <1>4, <1>6

(* The statement adds the row of the next point.                             *)
LEMMA InsertPointKeepsIInv ==
    ASSUME IInv, NEW u \in Users, InsertPoint(u)
    PROVE  IInv'
<1> DEFINE points == accepted[run[u]]
           id == Len(tripRows) + 1
<1>1. /\ pc[u] = "writing" /\ u \in DOMAIN trips /\ DOMAIN tx = {u}
      /\ saving[u].positions = trips[u].positions
      /\ UserOK(u)
  BY Written DEF InsertPoint, IInv
<1>2. PICK n \in 0 .. Len(points) : /\ tx[u].points = Rows(id, points, n)
                                    /\ Cardinality(tx[u].points) = n
  BY <1>1, Written
<1>3. /\ Len(points) \in Nat /\ Len(trips[u].positions) = Len(points)
      /\ n \in Nat /\ id \in Nat
  BY <1>1, TripInMemory, LenProperties DEF IInv, TypeOK
<1>4. /\ n < Len(points)
      /\ tx' = [tx EXCEPT ![u].points =
                  @ \cup {[trip_id |-> id, point_index |-> n,
                           position |-> trips[u].positions[n + 1]]}]
      /\ UNCHANGED << trips, session, database, restarts, history >>
  BY <1>1, <1>2, <1>3 DEF InsertPoint
<1>5. trips[u].positions[n + 1] = Sample(points, n + 1)
  BY <1>1, <1>3, <1>4 DEF UserOK, TripOK
<1>6. /\ DOMAIN tx' = {u} /\ tx'[u].row = tx[u].row
      /\ tx'[u].points = Rows(id, points, n + 1)
  <2>1. tx'[u].points = tx[u].points \cup {Point(id, points, n)}
    BY <1>1, <1>4, <1>5 DEF Point
  <2>2. QED BY <1>1, <1>2, <1>3, <1>4, <2>1, RowsNext
<1>7. n + 1 \in 0 .. Len(points)
  BY <1>3, <1>4
<1>8. TypeOK'
  <2>1. Rows(id, points, n + 1) \subseteq PointType
    BY <1>1, <1>3, <1>7, RowsType
  <2>2. DOMAIN tx' \subseteq Users
        /\ \A v \in DOMAIN tx' : tx'[v].row \in RowType /\ tx'[v].points \subseteq PointType
    BY <1>1, <1>6, <2>1 DEF IInv, TypeOK
  <2>3. QED BY <1>4, <2>2 DEF IInv, TypeOK, session, database, history
<1>9. Apart' /\ TablesOK' /\ SavedOnce' /\ Saved' = Saved
  <2>1. told \subseteq Saved
    BY DEF IInv, TablesOK
  <2>2. QED BY <1>1, <1>4, <1>6, <2>1, TablesKeep DEF history
<1>10. \A v \in Users \ {u} : UserOK(v)'
  <2> SUFFICES ASSUME NEW v \in Users \ {u} PROVE UserOK(v)'
    OBVIOUS
  <2>1. v \notin DOMAIN tx /\ v \notin DOMAIN tx'
    BY <1>1, <1>6
  <2>2. Len(accepted') \in Nat /\ Len(accepted') >= Len(accepted)
    BY <1>4, LenProperties DEF IInv, TypeOK, history
  <2>3. QED BY <1>4, <1>9, <2>1, <2>2, OthersKeep DEF session, database, history
<1>11. UserOK(u)'
  <2>1. SessionOK(u)' /\ SavingOK(u)' /\ TripOK(u)'
    BY <1>1, <1>4, <1>9
    DEF UserOK, SessionOK, SavingOK, TripOK, PendingOK, Total, session, history
  <2>2. WriteOK(u)'
    <3>1. tx'[u].points = Rows(Len(tripRows') + 1, accepted'[run'[u]], n + 1)
      BY <1>4, <1>6 DEF database, history
    <3>2. n + 1 \in 0 .. Len(accepted'[run'[u]])
      BY <1>4, <1>7 DEF history
    <3>3. QED BY <1>1, <1>4, <1>6, <3>1, <3>2 DEF UserOK, WriteOK, session
  <2>3. QED BY <2>1, <2>2 DEF UserOK
<1>12. QED BY <1>8, <1>9, <1>10, <1>11 DEF IInv

(* The commit adds one row and all the points of a trip not saved before.    *)
LEMMA CommitKeepsIInv ==
    ASSUME IInv, NEW u \in Users, Commit(u)
    PROVE  IInv'
<1> DEFINE s == run[u]
           points == accepted[s]
           id == Len(tripRows) + 1
<1>1. /\ pc[u] = "writing" /\ u \in DOMAIN trips /\ DOMAIN tx = {u}
      /\ saving[u].positions = trips[u].positions
      /\ UserOK(u)
  BY Written DEF Commit, IInv
<1>2. /\ Len(points) \in Nat /\ Len(trips[u].positions) = Len(points)
      /\ s \in 1 .. Len(accepted)
      /\ Len(tripRows) \in Nat /\ id \in Nat /\ Len(origin) = Len(tripRows)
      /\ tripRows \in Seq(RowType) /\ origin \in Seq(Nat)
  BY <1>1, TripInMemory, LenProperties DEF IInv, TypeOK, TablesOK
<1>3. /\ Cardinality(tx[u].points) = Len(saving[u].positions)
      /\ tripRows' = Append(tripRows, tx[u].row)
      /\ pointRows' = pointRows \cup tx[u].points
      /\ origin' = Append(origin, s)
      /\ tx' = Drop(tx, u)
      /\ pc' = [pc EXCEPT ![u] = "committed"]
      /\ UNCHANGED << trips, reply, closing, saving, restarts, history >>
  BY DEF Commit, Goto
<1>4. tx[u].points = Rows(id, points, Len(points))
  BY <1>1, <1>2, <1>3, Written
<1>5. /\ tx[u].row \in RowType
      /\ tx[u].row.moving_seconds + tx[u].row.stopped_seconds = Covered(Len(points))
  <2>1. tx[u].row = [user_id |-> u,
                     moving_seconds |-> trips[u].moving_time,
                     stopped_seconds |-> trips[u].stopped_time]
    BY <1>1 DEF UserOK, WriteOK
  <2>2. /\ trips[u] \in TripType /\ trips[u].state = "Disconnected"
        /\ PendingOK(trips[u]) /\ Total(trips[u]) = Covered(Len(points))
    BY <1>1, TripInMemory DEF UserOK, SavingOK, TripOK, Saving
  <2>3. trips[u].moving_time + trips[u].stopped_time = Total(trips[u])
    BY <2>2, TripFields DEF PendingOK, Total
  <2>4. tx[u].row \in RowType
    BY <1>1 DEF IInv, TypeOK
  <2>5. QED BY <2>1, <2>2, <2>3, <2>4
<1>6. s \notin Saved
  BY <1>1 DEF UserOK, TripOK
<1>7. /\ DOMAIN tx' = {}
      /\ origin' \in Seq(Nat) /\ Len(origin') = id /\ origin'[id] = s
      /\ \A i \in 1 .. Len(tripRows) : origin'[i] = origin[i]
      /\ tripRows' \in Seq(RowType) /\ Len(tripRows') = id /\ tripRows'[id] = tx[u].row
      /\ \A i \in 1 .. Len(tripRows) : tripRows'[i] = tripRows[i]
      /\ 1 .. id = 1 .. Len(tripRows) \cup {id}
  BY <1>1, <1>2, <1>3, <1>5, AppendProperties DEF Drop
<1> HIDE DEF id, s
<1>8. Saved' = Saved \cup {s}
  <2>1. /\ Saved' = {origin'[i] : i \in 1 .. id}
        /\ Saved = {origin[i] : i \in 1 .. Len(tripRows)}
    BY <1>2, <1>7 DEF Saved
  <2>2. /\ 1 .. id = 1 .. Len(tripRows) \cup {id} /\ origin'[id] = s
        /\ \A i \in 1 .. Len(tripRows) : origin'[i] = origin[i]
    BY <1>7
  <2>3. \A x : x \in Saved' <=> x \in Saved \/ x = s
    <3>1. \A x : x \in Saved' <=> \E i \in 1 .. id : x = origin'[i]
      BY <2>1
    <3>2. \A x : x \in Saved <=> \E i \in 1 .. Len(tripRows) : x = origin[i]
      BY <2>1
    <3>3. QED BY <2>2, <3>1, <3>2
  <2>4. QED BY <2>3
<1>9. TypeOK'
  <2>1. pointRows' \subseteq PointType
    BY <1>1, <1>3 DEF IInv, TypeOK
  <2>2. pc' \in [Users -> PC]
    BY <1>3 DEF IInv, TypeOK, PC
  <2>3. QED BY <1>3, <1>7, <2>1, <2>2 DEF IInv, TypeOK, history
<1>10. Apart'
  BY <1>3, <1>7 DEF IInv, Apart, history
<1>11. SavedOnce'
  <2>1. \A i \in 1 .. Len(tripRows) : origin[i] # s
    BY <1>2, <1>6 DEF Saved
  <2>2. SUFFICES ASSUME NEW i \in 1 .. id, NEW j \in 1 .. id, origin'[i] = origin'[j]
                 PROVE  i = j
    BY <1>7 DEF SavedOnce
  <2>3. \A k, l \in 1 .. Len(tripRows) : origin[k] = origin[l] => k = l
    BY <1>2 DEF IInv, SavedOnce
  <2>4. QED BY <1>7, <2>1, <2>2, <2>3
<1>12. TablesOK'
  <2> DEFINE R(i) == Rows(i, accepted[origin[i]], Len(accepted[origin[i]]))
             Q(i) == Rows(i, accepted[origin'[i]], Len(accepted[origin'[i]]))
  <2>1. \A i \in 1 .. id :
           /\ origin'[i] \in 1 .. Len(accepted)
           /\ tripRows'[i].moving_seconds + tripRows'[i].stopped_seconds
                = Covered(Len(accepted[origin'[i]]))
    BY <1>2, <1>5, <1>7 DEF IInv, TablesOK, s
  <2>2. /\ pointRows = UNION {R(i) : i \in 1 .. Len(tripRows)}
        /\ \A i \in 1 .. Len(tripRows) : Q(i) = R(i)
        /\ Q(id) = Rows(id, points, Len(points))
    BY <1>7 DEF IInv, TablesOK
  <2>3. pointRows' = UNION {Q(i) : i \in 1 .. id}
    <3> DEFINE old == UNION {R(i) : i \in 1 .. Len(tripRows)}
               new == UNION {Q(i) : i \in 1 .. id}
    <3>1. pointRows' = old \cup Q(id)
      BY <1>3, <1>4, <2>2
    <3> HIDE DEF R, Q
    <3>2. /\ \A x : x \in old <=> \E i \in 1 .. Len(tripRows) : x \in R(i)
          /\ \A x : x \in new <=> \E i \in 1 .. id : x \in Q(i)
      OBVIOUS
    <3> HIDE DEF old, new
    <3>3. \A x : x \in new <=> x \in old \/ x \in Q(id)
      BY <1>7, <2>2, <3>2
    <3>4. new = old \cup Q(id)
      BY <3>3
    <3>5. QED BY <3>1, <3>4 DEF new
  <2>5. told' \subseteq Saved'
    BY <1>3, <1>8 DEF IInv, TablesOK, history
  <2>6. QED BY <1>3, <1>7, <2>1, <2>3, <2>5 DEF TablesOK, history
<1>13. \A v \in Users \ {u} : UserOK(v)'
  <2> SUFFICES ASSUME NEW v \in Users \ {u} PROVE UserOK(v)'
    OBVIOUS
  <2>1. pc'[v] = pc[v] /\ v \notin DOMAIN tx /\ v \notin DOMAIN tx'
    BY <1>1, <1>3, <1>7 DEF IInv, TypeOK
  <2>2. Len(accepted') \in Nat /\ Len(accepted') >= Len(accepted)
    BY <1>3, LenProperties DEF IInv, TypeOK, history
  <2>3. v \in DOMAIN trips => run[v] # s
    BY <1>2 DEF IInv, Apart, s
  <2>4. QED BY <1>3, <1>8, <2>1, <2>2, <2>3, OthersKeep DEF history
<1>14. UserOK(u)'
  <2>1. pc'[u] = "committed" /\ run[u] \in Saved' /\ u \notin DOMAIN tx'
    BY <1>3, <1>7, <1>8 DEF IInv, TypeOK, s
  <2>2. SessionOK(u)' /\ SavingOK(u)' /\ WriteOK(u)'
    BY <1>1, <1>3, <2>1 DEF UserOK, SessionOK, SavingOK, WriteOK, Saving, history
  <2>3. TripOK(u)'
    BY <1>1, <1>3, <2>1 DEF UserOK, TripOK, history
  <2>4. QED BY <2>2, <2>3 DEF UserOK
<1>15. QED BY <1>9, <1>10, <1>11, <1>12, <1>13, <1>14 DEF IInv

(* A failed statement rolls the transaction back; the trip stays in memory.  *)
LEMMA SaveFailsKeepsIInv ==
    ASSUME IInv, NEW u \in Users, SaveFails(u)
    PROVE  IInv'
<1>1. /\ pc[u] \in {"copied", "writing"}
      /\ tx' = Drop(tx, u)
      /\ pc' = [pc EXCEPT ![u] = "replying"]
      /\ reply' = [reply EXCEPT ![u] = "trip_save_failed"]
      /\ UNCHANGED << trips, closing, saving, database, restarts, history >>
  BY DEF SaveFails, Answer, Goto
<1>2. /\ DOMAIN tx' = DOMAIN tx \ {u}
      /\ \A v \in DOMAIN tx \ {u} : tx'[v] = tx[v]
  BY <1>1 DEF Drop
<1>3. Apart' /\ TablesOK' /\ SavedOnce' /\ Saved' = Saved
  <2>1. told \subseteq Saved
    BY DEF IInv, TablesOK
  <2>2. QED BY <1>1, <1>2, <2>1, TablesKeep DEF history
<1>4. TypeOK'
  <2>1. DOMAIN tx' \subseteq Users
        /\ \A v \in DOMAIN tx' : tx'[v].row \in RowType /\ tx'[v].points \subseteq PointType
    BY <1>2 DEF IInv, TypeOK
  <2>2. pc' \in [Users -> PC] /\ reply' \in [Users -> Reply]
    BY <1>1 DEF IInv, TypeOK, PC, Reply
  <2>3. QED BY <1>1, <2>1, <2>2 DEF IInv, TypeOK, database, history
<1>5. \A v \in Users \ {u} : UserOK(v)'
  <2> SUFFICES ASSUME NEW v \in Users \ {u} PROVE UserOK(v)'
    OBVIOUS
  <2>1. pc'[v] = pc[v] /\ reply'[v] = reply[v]
    BY <1>1 DEF IInv, TypeOK
  <2>2. Len(accepted') \in Nat /\ Len(accepted') >= Len(accepted)
    BY <1>1, LenProperties DEF IInv, TypeOK, history
  <2>3. QED BY <1>1, <1>2, <1>3, <2>1, <2>2, OthersKeep DEF database, history
<1>6. UserOK(u)'
  <2>1. UserOK(u) /\ u \notin DOMAIN tx' /\ pc'[u] = "replying"
        /\ reply'[u] = "trip_save_failed"
    BY <1>1, <1>2 DEF IInv, TypeOK
  <2>2. SessionOK(u)' /\ SavingOK(u)' /\ WriteOK(u)'
    BY <1>1, <2>1 DEF UserOK, SessionOK, SavingOK, WriteOK, Saving
  <2>3. TripOK(u)'
    BY <1>1, <1>3, <2>1 DEF UserOK, SessionOK, TripOK, Saving, history
  <2>4. QED BY <2>2, <2>3 DEF UserOK
<1>7. QED BY <1>3, <1>4, <1>5, <1>6 DEF IInv

(* After a restart there are only the tables.                                *)
LEMMA RestartKeepsIInv ==
    ASSUME IInv, Restart
    PROVE  IInv'
<1>1. /\ trips' = << >> /\ tx' = << >>
      /\ pc' = [u \in Users |-> "offline"]
      /\ reply' = [u \in Users |-> "none"]
      /\ closing' = [u \in Users |-> FALSE]
      /\ saving' = [u \in Users |-> NothingSaved]
      /\ restarts' = restarts + 1
      /\ UNCHANGED << database, history >>
  BY DEF Restart
<1>2. NothingSaved \in [summary : SummaryType, positions : Seq(PositionSample)]
  BY EmptySeq DEF NothingSaved, NoSummary, SummaryType
<1>3. DOMAIN trips' = {} /\ DOMAIN tx' = {}
  BY <1>1
<1>4. TypeOK'
  BY <1>1, <1>2, <1>3 DEF IInv, TypeOK, PC, Reply, database, history
<1>5. Apart' /\ TablesOK' /\ SavedOnce'
  <2>1. told \subseteq Saved
    BY DEF IInv, TablesOK
  <2>2. QED BY <1>1, <1>3, <2>1, TablesKeep DEF history
<1>6. \A u \in Users : UserOK(u)'
  BY <1>1, <1>3 DEF UserOK, SessionOK, TripOK, SavingOK, WriteOK, Saving
<1>7. QED BY <1>4, <1>5, <1>6 DEF IInv
-----------------------------------------------------------------------------
(* The server starts with no trips, no sessions and empty tables.            *)
LEMMA InitIInv == Init => IInv
<1> SUFFICES ASSUME Init PROVE IInv
  OBVIOUS
<1>1. /\ trips = << >> /\ tx = << >> /\ DOMAIN trips = {} /\ DOMAIN tx = {}
      /\ accepted = << >> /\ origin = << >> /\ tripRows = << >> /\ pointRows = {} /\ told = {}
      /\ Len(accepted) = 0 /\ Len(origin) = 0 /\ Len(tripRows) = 0 /\ restarts = 0
      /\ pc = [u \in Users |-> "offline"]
      /\ reply = [u \in Users |-> "none"]
      /\ closing = [u \in Users |-> FALSE]
      /\ saving = [u \in Users |-> NothingSaved]
      /\ run = [u \in Users |-> 0]
  BY DEF Init
<1>2. NothingSaved \in [summary : SummaryType, positions : Seq(PositionSample)]
  BY EmptySeq DEF NothingSaved, NoSummary, SummaryType
<1>3. TypeOK
  BY <1>1, <1>2 DEF TypeOK, PC, Reply
<1>4. Apart /\ TablesOK /\ SavedOnce
  BY <1>1 DEF Apart, TablesOK, SavedOnce
<1>5. \A u \in Users : UserOK(u)
  BY <1>1 DEF UserOK, SessionOK, TripOK, SavingOK, WriteOK, Saving
<1>6. QED BY <1>3, <1>4, <1>5 DEF IInv

(* Every step of a session, of a save and of the server keeps the invariant. *)
LEMMA NextIInv == IInv /\ [Next]_vars => IInv'
<1> SUFFICES ASSUME IInv, [Next]_vars PROVE IInv'
  OBVIOUS
<1>1. ASSUME NEW u \in Users,
             \/ Connect(u) \/ SendReply(u) \/ SendFails(u) \/ Leave(u) \/ RemoveClient(u)
      PROVE  IInv'
  BY <1>1, SessionStepKeepsIInv
<1>2. ASSUME NEW u \in Users, Command(u) PROVE IInv'
  <2>1. CASE \E kind \in Refusal : Refuse(u, kind)
    <3>1. Answered(u)
      BY <2>1 DEF Refuse, Answered, Reply, Refusal
    <3>2. QED BY <3>1, SessionStepKeepsIInv
  <2>2. QED
    BY <1>2, <2>1, StartKeepsIInv, PositionKeepsIInv, FinishKeepsIInv DEF Command
<1>3. ASSUME NEW u \in Users, SaveStep(u) PROVE IInv'
  BY <1>3, CopyKeepsIInv, InsertTripKeepsIInv, InsertPointKeepsIInv, CommitKeepsIInv,
     SaveFailsKeepsIInv, DiscardKeepsIInv
  DEF SaveStep
<1>4. ASSUME NEW u \in Users, DiscardTrip(u) PROVE IInv'
  BY <1>4, DiscardKeepsIInv
<1>5. CASE UNCHANGED vars
  BY <1>5 DEF vars, session, database, history, IInv, TypeOK, UserOK, SessionOK, TripOK,
              SavingOK, WriteOK, Apart, TablesOK, SavedOnce, Saved, PendingOK, Total
<1>6. QED BY <1>1, <1>2, <1>3, <1>4, <1>5, RestartKeepsIInv DEF Next, EndOfSession

LEMMA Invariant == Spec => []IInv
BY InitIInv, NextIInv, PTL DEF Spec

(* The rows of a saved trip are the points that were accepted for it.        *)
LEMMA SavedRows ==
    ASSUME IInv, NEW id \in 1 .. Len(tripRows)
    PROVE  /\ PointsOfRow(id) = Rows(id, accepted[origin[id]], Len(accepted[origin[id]]))
           /\ Len(accepted[origin[id]]) \in Nat
           /\ Cardinality(PointsOfRow(id)) = Len(accepted[origin[id]])
<1> DEFINE n == Len(accepted[origin[id]])
           R(i) == Rows(i, accepted[origin[i]], Len(accepted[origin[i]]))
<1>1. \A i : \A p \in R(i) : p.trip_id = i
  BY DEF Rows, Point
<1>2. pointRows = UNION {R(i) : i \in 1 .. Len(tripRows)}
  BY DEF IInv, TablesOK
<1>3. PointsOfRow(id) = R(id)
  <2> HIDE DEF R
  <2>1. QED BY <1>1, <1>2 DEF PointsOfRow
<1>4. n \in Nat
  BY ElementOfSeq, LenProperties DEF IInv, TypeOK, TablesOK
<1>5. QED BY <1>3, <1>4, RowsCount
-----------------------------------------------------------------------------
(* Whatever clients send and whatever fails, every variable keeps its type.  *)
THEOREM TypeCorrect == Spec => []TypeOK
BY Invariant, PTL DEF IInv

(* A trip lives only as long as the session that started it (main.rs:342-348)*)
(* so that a user who comes back can always start one.                       *)
THEOREM TripsEndWithSessions == Spec => []TripEndsWithSession
<1>1. IInv => TripEndsWithSession
  BY DEF IInv, TypeOK, UserOK, SessionOK, TripEndsWithSession
<1>2. QED BY <1>1, Invariant, PTL

(* No position ever reaches a closed trip: the branch of record_position     *)
(* that reopens one (trip.rs:152-156) is dead in the server.                 *)
THEOREM ClosedTripsStayClosed == Spec => []NeverReopened
<1>1. IInv => NeverReopened
  BY DEF IInv, TypeOK, UserOK, SessionOK, TripOK, NeverReopened
<1>2. QED BY <1>1, Invariant, PTL

(* A trip is saved at most once, however its completion is repeated, fails   *)
(* or is interrupted (state.rs, save_trip).                                  *)
THEOREM NoTripSavedTwice == Spec => []SavedOnce
BY Invariant, PTL DEF IInv

(* The tables hold whole trips only: all the points, one every interval, and *)
(* times that cover them (state.rs, save_trip and its transaction).          *)
THEOREM TablesHoldWholeTrips == Spec => []SavedTripsAreWhole
<1>1. ASSUME IInv PROVE SavedTripsAreWhole
  <2>1. \A p \in pointRows : p.trip_id \in 1 .. Len(tripRows)
    BY <1>1 DEF IInv, TablesOK, Rows, Point
  <2>2. ASSUME NEW id \in 1 .. Len(tripRows)
        PROVE  LET points == PointsOfRow(id)
                   n == Cardinality(points)
               IN  /\ {p.point_index : p \in points} = 0 .. (n - 1)
                   /\ \A p \in points : p.position.elapsed_seconds
                                          = p.point_index * POSITION_INTERVAL_SECONDS
                   /\ tripRows[id].moving_seconds + tripRows[id].stopped_seconds
                        = POSITION_INTERVAL_SECONDS * (IF n = 0 THEN 0 ELSE n - 1)
    <3> DEFINE points == accepted[origin[id]]
               n == Len(points)
    <3>1. /\ PointsOfRow(id) = Rows(id, points, n) /\ n \in Nat
          /\ Cardinality(PointsOfRow(id)) = n
      BY <1>1, SavedRows
    <3>2. tripRows[id].moving_seconds + tripRows[id].stopped_seconds = Covered(n)
      BY <1>1 DEF IInv, TablesOK
    <3> HIDE DEF n, points
    <3>3. \A p \in Rows(id, points, n) :
             /\ p.point_index \in 0 .. (n - 1)
             /\ p.position.elapsed_seconds = p.point_index * POSITION_INTERVAL_SECONDS
      <4>1. \A k \in 0 .. (n - 1) :
               /\ Point(id, points, k).point_index = k
               /\ Point(id, points, k).position.elapsed_seconds = (k + 1 - 1) * POSITION_INTERVAL_SECONDS
        BY DEF Point, Sample
      <4>2. \A k \in 0 .. (n - 1) : k + 1 - 1 = k
        BY <3>1
      <4>3. QED BY <4>1, <4>2 DEF Rows
    <3>4. \A k \in 0 .. (n - 1) : /\ Point(id, points, k) \in Rows(id, points, n)
                                  /\ Point(id, points, k).point_index = k
      BY DEF Rows, Point
    <3>5. {p.point_index : p \in Rows(id, points, n)} = 0 .. (n - 1)
      BY <3>3, <3>4
    <3>6. QED BY <3>1, <3>2, <3>3, <3>5 DEF Covered
  <2>3. QED BY <2>1, <2>2 DEF SavedTripsAreWhole
<1>2. QED BY <1>1, Invariant, PTL

(* What is saved is what the client was told was accepted, in that order.    *)
THEOREM TablesHoldWhatWasAccepted == Spec => []SavedAsAccepted
<1>1. ASSUME IInv, NEW id \in 1 .. Len(tripRows)
      PROVE  /\ Cardinality(PointsOfRow(id)) = Len(accepted[origin[id]])
             /\ \A p \in PointsOfRow(id) :
                   p.position.coordinates = accepted[origin[id]][p.point_index + 1]
  <2> DEFINE points == accepted[origin[id]]
  <2>1. /\ PointsOfRow(id) = Rows(id, points, Len(points))
        /\ Cardinality(PointsOfRow(id)) = Len(points)
    BY <1>1, SavedRows
  <2> HIDE DEF points
  <2>2. \A p \in Rows(id, points, Len(points)) :
           p.position.coordinates = points[p.point_index + 1]
    BY DEF Rows, Point, Sample
  <2>3. QED BY <2>1, <2>2 DEF points
<1>2. IInv => SavedAsAccepted
  BY <1>1 DEF SavedAsAccepted
<1>3. QED BY <1>2, Invariant, PTL

(* Completion is announced only for a trip that is in the database and stays *)
(* there, failure only for one that is not (main.rs:266-283).                *)
THEOREM AnnouncementsAreTrue == Spec => []AnnouncedAsSaved
<1>1. ASSUME IInv PROVE AnnouncedAsSaved
  <2>1. told \subseteq Saved
    BY <1>1 DEF IInv, TablesOK
  <2>2. ASSUME NEW u \in Users
        PROVE  /\ reply[u] = "trip_completed" => run[u] \in Saved
               /\ reply[u] = "trip_save_failed" => run[u] \notin Saved
    BY <1>1 DEF IInv, UserOK, SessionOK, TripOK
  <2>3. QED BY <2>1, <2>2 DEF AnnouncedAsSaved, Saved
<1>2. QED BY <1>1, Invariant, PTL
-----------------------------------------------------------------------------
(* The refinement of TripBook.  The book holds what was accepted, under the  *)
(* seconds that the definition over the whole list of points gives; so a     *)
(* trip in memory must have its totals from that definition at every point.  *)
TripTallied(u) ==
    /\ trips[u].stopped_time = StoppedSeconds(accepted[run[u]], {})
    /\ trips[u].positions # << >> => Tallied(trips[u], accepted[run[u]], {})

RowTallied(id) ==
    /\ tripRows[id].moving_seconds = MovingSeconds(accepted[origin[id]], {})
    /\ tripRows[id].stopped_seconds = StoppedSeconds(accepted[origin[id]], {})

Tallies ==
    /\ \A u \in DOMAIN trips : TripTallied(u)
    /\ \A id \in 1 .. Len(tripRows) : RowTallied(id)

\* The open trips of the book, and the book, by what was accepted.
Held == {u \in DOMAIN trips : pc[u] # "committed"}

Opened == [u \in Held |-> accepted[run[u]]]

Entries ==
    [id \in 1 .. Len(tripRows) |->
        [user_id |-> tripRows[id].user_id,
         points |-> accepted[origin[id]],
         moving_seconds |-> tripRows[id].moving_seconds,
         stopped_seconds |-> tripRows[id].stopped_seconds]]

Mapped ==
    /\ [u \in Uncommitted |-> PointsOf(trips[u])] = Opened
    /\ [id \in 1 .. Len(tripRows) |->
          [user_id |-> tripRows[id].user_id,
           points |-> RowPoints(id),
           moving_seconds |-> tripRows[id].moving_seconds,
           stopped_seconds |-> tripRows[id].stopped_seconds]] = Entries

LEMMA ChosenPoint ==
    ASSUME NEW S, NEW k, NEW x \in S, x.point_index = k,
           \A y \in S : y.point_index = k => y = x
    PROVE  (CHOOSE p \in S : p.point_index = k) = x
OBVIOUS

LEMMA RowPointsAccepted ==
    ASSUME IInv, NEW id \in 1 .. Len(tripRows)
    PROVE  RowPoints(id) = accepted[origin[id]]
<1> DEFINE points == accepted[origin[id]]
           n == Len(points)
<1>1. /\ PointsOfRow(id) = Rows(id, points, n) /\ n \in Nat
      /\ Cardinality(PointsOfRow(id)) = n
  BY SavedRows
<1>2. points \in Seq(Coordinates)
  BY ElementOfSeq DEF IInv, TypeOK, TablesOK
<1> HIDE DEF points, n
<1>3. ASSUME NEW i \in 1 .. n
      PROVE  (CHOOSE p \in PointsOfRow(id) : p.point_index = i - 1).position.coordinates = points[i]
  <2> DEFINE x == Point(id, points, i - 1)
  <2>1. i - 1 \in 0 .. (n - 1) /\ i - 1 + 1 = i
    BY <1>1
  <2>2. /\ x \in PointsOfRow(id) /\ x.point_index = i - 1
        /\ x.position.coordinates = points[i]
    BY <1>1, <2>1 DEF Rows, Point, Sample
  <2>3. \A y \in PointsOfRow(id) : y.point_index = i - 1 => y = x
    BY <1>1 DEF Rows, Point
  <2> HIDE DEF x
  <2>4. (CHOOSE p \in PointsOfRow(id) : p.point_index = i - 1) = x
    BY <2>2, <2>3, ChosenPoint
  <2>5. QED BY <2>2, <2>4
<1>4. RowPoints(id) = [i \in 1 .. n |-> points[i]]
  BY <1>1, <1>3 DEF RowPoints
<1>5. points = [i \in 1 .. n |-> points[i]]
  BY <1>2, LenProperties DEF n
<1>6. QED BY <1>4, <1>5 DEF points

LEMMA HeldPoints ==
    ASSUME IInv, NEW u \in Users, u \in DOMAIN trips
    PROVE  PointsOf(trips[u]) = accepted[run[u]]
<1> DEFINE points == accepted[run[u]]
           n == Len(points)
<1>1. /\ points \in Seq(Coordinates) /\ n \in Nat
      /\ Len(trips[u].positions) = n
  BY TripInMemory
<1>2. \A i \in 1 .. n : trips[u].positions[i].coordinates = points[i]
  <2>1. \A i \in 1 .. n : trips[u].positions[i] = Sample(points, i)
    BY DEF IInv, UserOK, TripOK
  <2>2. \A i : Sample(points, i).coordinates = points[i]
    BY DEF Sample
  <2>3. QED BY <2>1, <2>2
<1> HIDE DEF points, n
<1>3. PointsOf(trips[u]) = [i \in 1 .. n |-> points[i]]
  BY <1>1, <1>2 DEF PointsOf
<1>4. points = [i \in 1 .. n |-> points[i]]
  BY <1>1, LenProperties DEF n
<1>5. QED BY <1>3, <1>4 DEF points

LEMMA Mapping == IInv => Mapped
<1> SUFFICES ASSUME IInv PROVE Mapped
  OBVIOUS
<1>1. DOMAIN trips \subseteq Users
  BY DEF IInv, TypeOK
<1>2. \A u \in DOMAIN trips : run[u] \in Saved <=> pc[u] = "committed"
  BY <1>1 DEF IInv, UserOK, TripOK
<1>3. \A u : u \in Uncommitted <=> u \in Held
  <2>1. \A u \in DOMAIN trips : (\A i \in 1 .. Len(origin) : origin[i] # run[u]) <=> run[u] \notin Saved
    BY DEF Saved
  <2>2. QED BY <1>2, <2>1 DEF Uncommitted, Held
<1>4. Uncommitted = Held
  BY <1>3
<1>5. \A u \in Held : PointsOf(trips[u]) = accepted[run[u]]
  BY <1>1, HeldPoints DEF Held
<1>6. [u \in Uncommitted |-> PointsOf(trips[u])] = Opened
  BY <1>4, <1>5 DEF Opened
<1>7. \A id \in 1 .. Len(tripRows) : RowPoints(id) = accepted[origin[id]]
  BY RowPointsAccepted
<1>8. QED BY <1>6, <1>7 DEF Mapped, Entries

LEMMA MappingNext == IInv' => Mapped'
BY Mapping, PTL

LEMMA SameDefinition ==
    ASSUME NEW points
    PROVE  /\ Book!MovingSeconds(points, {}) = MovingSeconds(points, {})
           /\ Book!StoppedSeconds(points, {}) = StoppedSeconds(points, {})
<1>1. Book!IntervalsOf(points) = IntervalsOf(points)
  BY DEF Book!IntervalsOf, IntervalsOf
<1>2. ASSUME NEW k PROVE Book!Paused(points, {}, k) <=> Paused(points, {}, k)
  <2>1. \A first, last : Book!Quiet(points, {}, first, last) <=> Quiet(points, {}, first, last)
    BY DEF Book!Quiet, Quiet
  <2>2. QED BY <2>1 DEF Book!Paused, Paused
<1>3. Book!PausedIntervals(points, {}) = PausedIntervals(points, {})
  BY <1>1, <1>2 DEF Book!PausedIntervals, PausedIntervals
<1>4. ASSUME NEW S PROVE Book!Cardinality(S) = Cardinality(S)
  BY DEF Book!Cardinality, Cardinality
<1>5. Book!MovingSeconds(points, {}) = MovingSeconds(points, {})
      /\ Book!StoppedSeconds(points, {}) = StoppedSeconds(points, {})
  BY <1>1, <1>3, <1>4 DEF Book!MovingSeconds, Book!StoppedSeconds, MovingSeconds, StoppedSeconds
<1>6. QED BY <1>5

-----------------------------------------------------------------------------
(* Most steps change nothing of the book but what is held: trips only close  *)
(* or go.                                                                    *)
Fades ==
    /\ UNCHANGED << run, accepted, tripRows, origin >>
    /\ DOMAIN trips' \subseteq DOMAIN trips
    /\ \A v \in DOMAIN trips' : trips'[v] = trips[v] \/ trips'[v] = Disconnect(trips[v])
    /\ Held' \subseteq Held

\* The other three: a trip is begun, extended, entered.
Begun(u) ==
    /\ u \notin DOMAIN trips
    /\ trips' = Put(trips, u, NewTrip)
    /\ accepted' = Append(accepted, << >>)
    /\ run' = [run EXCEPT ![u] = Len(accepted) + 1]
    /\ pc' = [pc EXCEPT ![u] = "replying"]
    /\ UNCHANGED << tripRows, origin >>

Extended(u, c, elapsed) ==
    /\ pc[u] = "looping" /\ u \in DOMAIN trips
    /\ PositionResult(trips[u], elapsed) = "Ok"
    /\ trips' = [trips EXCEPT ![u] = RecordPosition(trips[u], c, elapsed)]
    /\ accepted' = [accepted EXCEPT ![run[u]] = Append(accepted[run[u]], c)]
    /\ pc' = [pc EXCEPT ![u] = "replying"]
    /\ UNCHANGED << closing, run, tripRows, origin >>

Entered(u) ==
    /\ pc[u] = "writing"
    /\ tripRows' = Append(tripRows, tx[u].row)
    /\ origin' = Append(origin, run[u])
    /\ pc' = [pc EXCEPT ![u] = "committed"]
    /\ UNCHANGED << trips, run, accepted >>

(* Every step is of one of these kinds.                                      *)
LEMMA Kinds ==
    ASSUME IInv, [Next]_vars
    PROVE  \/ Fades
           \/ \E u \in Users : Begun(u)
           \/ \E u \in Users, c \in Coordinates, elapsed \in ElapsedInputs :
                 Extended(u, c, elapsed)
           \/ \E u \in Users : Entered(u)
<1>1. ASSUME UNCHANGED << trips, run, accepted, tripRows, origin >>, NEW u \in Users,
             NEW label, pc[u] # "committed", pc' = [pc EXCEPT ![u] = label]
      PROVE  Fades
  BY <1>1 DEF Fades, Held, IInv, TypeOK
<1>2. ASSUME NEW u \in Users, NEW label, pc[u] # "committed",
             UNCHANGED << trips, database, run, accepted >>, Goto(u, label)
      PROVE  Fades
  BY <1>1, <1>2 DEF Goto, database
<1>3. ASSUME NEW u \in Users, NEW kind, UNCHANGED << trips, database, run, accepted >>,
             pc[u] # "committed", Answer(u, kind)
      PROVE  Fades
  BY <1>2, <1>3 DEF Answer
<1>4. ASSUME NEW u \in Users, UNCHANGED << database, run, accepted >>, NEW label,
             label # "committed", trips' = Drop(trips, u), Goto(u, label)
      PROVE  Fades
  BY <1>4 DEF Fades, Held, Drop, Goto, database, IInv, TypeOK
<1>5. ASSUME NEW u \in Users, FinishTrip(u) PROVE Fades
  <2>1. CASE u \notin DOMAIN trips
    BY <1>3, <1>5, <2>1 DEF FinishTrip, history
  <2>2. CASE u \in DOMAIN trips
    BY <1>5, <2>2 DEF FinishTrip, Fades, Held, Goto, database, history, IInv, TypeOK
  <2>3. QED BY <2>1, <2>2
<1>6. ASSUME NEW u \in Users, StartTrip(u) PROVE Fades \/ Begun(u)
  <2>1. CASE u \in DOMAIN trips
    BY <1>3, <1>6, <2>1 DEF StartTrip
  <2>2. CASE u \notin DOMAIN trips
    BY <1>6, <2>2 DEF StartTrip, Begun, Answer, Goto, database
  <2>3. QED BY <2>1, <2>2
<1>7. ASSUME NEW u \in Users, NEW c \in Coordinates, NEW elapsed \in ElapsedInputs,
             PositionUpdate(u, c, elapsed)
      PROVE  Fades \/ Extended(u, c, elapsed)
  <2>1. CASE ~(u \in DOMAIN trips /\ PositionResult(trips[u], elapsed) = "Ok")
    BY <1>3, <1>7, <2>1 DEF PositionUpdate
  <2>2. CASE u \in DOMAIN trips /\ PositionResult(trips[u], elapsed) = "Ok"
    BY <1>7, <2>2 DEF PositionUpdate, Extended, Answer, Goto, database
  <2>3. QED BY <2>1, <2>2
<1>8. ASSUME NEW u \in Users, Connect(u) \/ RemoveClient(u) \/ Leave(u) PROVE Fades
  BY <1>2, <1>8 DEF Connect, RemoveClient, Leave, history
<1>9. ASSUME NEW u \in Users, SendReply(u) \/ SendFails(u) PROVE Fades
  <2>1. UNCHANGED << trips, database, run, accepted >> /\ pc[u] # "committed"
    BY <1>9 DEF SendReply, SendFails, history
  <2>2. Goto(u, "left") \/ Goto(u, "looping")
    BY <1>9 DEF SendReply, SendFails
  <2>3. QED BY <1>2, <2>1, <2>2
<1>10. ASSUME NEW u \in Users, CopyPositions(u) \/ InsertTrip(u) \/ SaveFails(u) PROVE Fades
  <2>1. UNCHANGED << trips, database, run, accepted >> /\ pc[u] # "committed"
    BY <1>10 DEF CopyPositions, InsertTrip, SaveFails, history
  <2>2. Goto(u, "copied") \/ Goto(u, "writing") \/ Answer(u, "trip_save_failed")
    BY <1>10 DEF CopyPositions, InsertTrip, SaveFails
  <2>3. QED BY <1>2, <1>3, <2>1, <2>2
<1>11. ASSUME UNCHANGED << trips, session, database, run, accepted >> PROVE Fades
  BY <1>11 DEF Fades, Held, session, database
<1>12. ASSUME NEW u \in Users, DiscardSaved(u) \/ DiscardTrip(u) PROVE Fades
  BY <1>4, <1>12 DEF DiscardSaved, DiscardTrip, Answer, history
<1>13. ASSUME Restart PROVE Fades
  <2>1. DOMAIN trips' = {} /\ UNCHANGED << run, accepted, tripRows, origin >>
    BY <1>13 DEF Restart, database, history
  <2>2. QED BY <2>1 DEF Fades, Held
<1>14. ASSUME NEW u \in Users, Commit(u) PROVE Entered(u)
  BY <1>14 DEF Commit, Entered, Goto, history
<1>15. ASSUME NEW u \in Users, NEW kind \in Refusal, Refuse(u, kind) PROVE Fades
  BY <1>3, <1>15 DEF Refuse, history
<1>16. ASSUME NEW u \in Users, InsertPoint(u) PROVE Fades
  BY <1>11, <1>16 DEF InsertPoint, history
<1>17. CASE UNCHANGED vars
  BY <1>11, <1>17 DEF vars, history
<1>18. QED
  BY <1>5, <1>6, <1>7, <1>8, <1>9, <1>10, <1>12, <1>13, <1>14, <1>15, <1>16, <1>17
  DEF Next, Command, SaveStep, EndOfSession

-----------------------------------------------------------------------------
(* Each kind keeps the totals.                                               *)
LEMMA FadesKeepsTallies ==
    ASSUME IInv, Tallies, Fades
    PROVE  Tallies'
<1>1. \A id \in 1 .. Len(tripRows') : RowTallied(id)'
  BY DEF Fades, Tallies, RowTallied
<1>2. ASSUME NEW u \in DOMAIN trips' PROVE TripTallied(u)'
  <2> DEFINE points == accepted[run[u]]
  <2>1. /\ u \in DOMAIN trips /\ u \in Users
        /\ run' = run /\ accepted' = accepted
        /\ trips[u] \in TripType
    BY <1>2 DEF Fades, IInv, TypeOK
  <2>2. /\ trips[u].stopped_time = StoppedSeconds(points, {})
        /\ trips[u].positions # << >> => Tallied(trips[u], points, {})
    BY <2>1 DEF Tallies, TripTallied
  <2>3. CASE trips'[u] = trips[u]
    BY <2>1, <2>2, <2>3 DEF TripTallied
  <2>4. CASE trips'[u] = Disconnect(trips[u])
    <3>1. Tallied(trips'[u], points, {})
      BY <2>1, <2>2, <2>4, DisconnectTallies
    <3>2. trips'[u].stopped_time = StoppedSeconds(points, {})
      BY <3>1 DEF Tallied
    <3>3. QED BY <2>1, <3>1, <3>2 DEF TripTallied
  <2>5. QED BY <1>2, <2>3, <2>4 DEF Fades
<1>3. QED BY <1>1, <1>2 DEF Tallies

LEMMA NoneStopped == StoppedSeconds(<< >>, {}) = 0
<1>1. PausedIntervals(<< >>, {}) = {}
  BY DEF PausedIntervals, IntervalsOf
<1>2. QED BY <1>1, FS_EmptySet, TripAssumption DEF StoppedSeconds

\* What was accepted before a trip is begun stays, and the new trip has none.
LEMMA BegunFacts ==
    ASSUME IInv, NEW u \in Users, Begun(u)
    PROVE  /\ DOMAIN trips' = DOMAIN trips \cup {u} /\ trips'[u] = NewTrip
           /\ accepted'[run'[u]] = << >>
           /\ \A v \in DOMAIN trips : /\ v # u /\ trips'[v] = trips[v]
                                      /\ accepted'[run'[v]] = accepted[run[v]]
                                      /\ pc'[v] = pc[v]
           /\ pc'[u] = "replying"
           /\ \A id \in 1 .. Len(tripRows) : accepted'[origin[id]] = accepted[origin[id]]
<1>1. accepted \in Seq(Seq(Coordinates)) /\ << >> \in Seq(Coordinates) /\ Len(accepted) \in Nat
  BY LenProperties DEF IInv, TypeOK
<1>2. /\ accepted'[Len(accepted) + 1] = << >>
      /\ \A i \in 1 .. Len(accepted) : accepted'[i] = accepted[i]
  BY <1>1, AppendProperties DEF Begun
<1>3. /\ DOMAIN trips \subseteq Users
      /\ pc \in [Users -> PC] /\ run \in [Users -> Nat]
  BY DEF IInv, TypeOK
<1>4. \A v \in DOMAIN trips : run[v] \in 1 .. Len(accepted)
  BY <1>3, TripInMemory
<1>5. \A id \in 1 .. Len(tripRows) : origin[id] \in 1 .. Len(accepted)
  BY DEF IInv, TablesOK
<1>6. /\ run'[u] = Len(accepted) + 1 /\ pc'[u] = "replying"
      /\ \A v \in Users \ {u} : run'[v] = run[v] /\ pc'[v] = pc[v]
  BY <1>3 DEF Begun
<1>7. /\ DOMAIN trips' = DOMAIN trips \cup {u} /\ trips'[u] = NewTrip
      /\ \A v \in DOMAIN trips : v # u /\ trips'[v] = trips[v]
  BY DEF Begun, Put
<1>8. QED BY <1>2, <1>3, <1>4, <1>5, <1>6, <1>7

LEMMA BegunKeepsTallies ==
    ASSUME IInv, Tallies, NEW u \in Users, Begun(u)
    PROVE  Tallies'
<1>1. TripTallied(u)'
  <2>1. trips'[u] = NewTrip /\ accepted'[run'[u]] = << >>
    BY BegunFacts
  <2>2. NewTrip.stopped_time = 0 /\ NewTrip.positions = << >>
    BY DEF NewTrip
  <2>3. QED BY <2>1, <2>2, NoneStopped DEF TripTallied
<1>2. \A v \in DOMAIN trips : TripTallied(v)'
  BY BegunFacts DEF Tallies, TripTallied
<1>3. \A id \in 1 .. Len(tripRows') : RowTallied(id)'
  <2>1. /\ tripRows' = tripRows /\ origin' = origin
        /\ \A id \in 1 .. Len(tripRows) : accepted'[origin[id]] = accepted[origin[id]]
    BY BegunFacts DEF Begun
  <2>2. QED BY <2>1 DEF Tallies, RowTallied
<1>4. QED BY <1>1, <1>2, <1>3, BegunFacts DEF Tallies

\* A point goes to one trip, which is not saved yet.
LEMMA ExtendedFacts ==
    ASSUME IInv, NEW u \in Users, NEW c \in Coordinates, NEW elapsed \in ElapsedInputs,
           Extended(u, c, elapsed)
    PROVE  /\ u \in DOMAIN trips /\ DOMAIN trips' = DOMAIN trips
           /\ trips'[u] = RecordPosition(trips[u], c, elapsed)
           /\ accepted'[run'[u]] = Append(accepted[run[u]], c)
           /\ \A v \in DOMAIN trips : v # u => /\ trips'[v] = trips[v]
                                               /\ accepted'[run'[v]] = accepted[run[v]]
                                               /\ pc'[v] = pc[v]
           /\ pc[u] = "looping" /\ pc'[u] = "replying"
           /\ \A id \in 1 .. Len(tripRows) : accepted'[origin[id]] = accepted[origin[id]]
<1>1. /\ accepted \in Seq(Seq(Coordinates)) /\ DOMAIN trips \subseteq Users
      /\ pc \in [Users -> PC]
  BY DEF IInv, TypeOK
<1>2. DOMAIN accepted = 1 .. Len(accepted)
  BY <1>1, LenProperties
<1>3. u \in DOMAIN trips /\ run[u] \in 1 .. Len(accepted)
  BY TripInMemory DEF Extended
<1>4. \A v \in DOMAIN trips : /\ run[v] \in 1 .. Len(accepted)
                              /\ v # u => run[v] # run[u]
  BY <1>1, <1>3, TripInMemory DEF IInv, Apart
<1>5. run[u] \notin Saved
  BY <1>3 DEF Extended, IInv, UserOK, TripOK
<1>6. \A id \in 1 .. Len(tripRows) : origin[id] \in 1 .. Len(accepted) /\ origin[id] # run[u]
  BY <1>5 DEF IInv, TablesOK, Saved
<1>7. /\ accepted'[run[u]] = Append(accepted[run[u]], c)
      /\ \A i \in 1 .. Len(accepted) : i # run[u] => accepted'[i] = accepted[i]
  BY <1>2, <1>3 DEF Extended
<1>8. QED BY <1>1, <1>3, <1>4, <1>6, <1>7 DEF Extended

LEMMA ExtendedTallies ==
    ASSUME IInv, NEW u \in Users, NEW c \in Coordinates, NEW elapsed \in ElapsedInputs,
           Extended(u, c, elapsed), TripTallied(u)
    PROVE  Tallied(RecordPosition(trips[u], c, elapsed), Append(accepted[run[u]], c), {})
<1> DEFINE sample == [coordinates |-> c, elapsed_seconds |-> elapsed]
           points == accepted[run[u]]
           t == trips[u]
<1>1. /\ u \in DOMAIN trips /\ t \in TripType /\ points \in Seq(Coordinates)
      /\ Len(points) \in Nat /\ Len(t.positions) = Len(points)
      /\ t.positions \in Seq(PositionSample)
  BY TripInMemory DEF Extended
<1>2. /\ PendingOK(t) /\ Total(t) = Covered(Len(points))
      /\ \A i \in 1 .. Len(points) : t.positions[i] = Sample(points, i)
      /\ t.positions # << >> => t.state # "Disconnected"
  BY <1>1 DEF Extended, IInv, UserOK, SessionOK, TripOK
<1>3. sample \in PositionSample
  BY ServiceAssumption, SampleType
<1>4. PositionResult(t, elapsed) = "Ok"
  BY DEF Extended
<1>5. CASE t.positions = << >>
  <2> DEFINE v == FirstPosition(t)
  <2>1. RecordPosition(t, c, elapsed) = [v EXCEPT !.positions = Append(@, sample)]
    BY <1>4, <1>5 DEF RecordPosition
  <2>2. v \in TripType /\ v.state = "Still" /\ v.stopped_time = t.stopped_time
    BY <1>1 DEF FirstPosition, TripType, UserState
  <2> HIDE DEF v
  <2>3. Len(points) = 0 /\ Len(Append(points, c)) = 1
    BY <1>1, <1>5
  <2>4. t.stopped_time = 0
    <3>1. /\ t.moving_time \in Nat /\ t.stopped_time \in Nat /\ t.pending_still_time \in Nat
          /\ t.moving_time + t.stopped_time + t.pending_still_time = 0
      BY <1>1, <1>2, <2>3, TripFields, TripAssumption DEF Total, Covered
    <3>2. QED BY <3>1
  <2>5. Tallied(v, Append(points, c), {})
    BY <2>2, <2>3, <2>4, FirstTallies
  <2>6. QED BY <1>3, <2>1, <2>2, <2>5, PushTallies
<1>6. CASE t.positions # << >>
  <2> DEFINE v == AccountInterval(t, c # points[Len(points)])
  <2>1. points # << >> /\ Len(points) \in 1 .. Len(points)
    BY <1>1, <1>6, EmptySeq
  <2>2. Previous(t).coordinates = points[Len(points)]
    <3>1. Previous(t) = Sample(points, Len(points))
      BY <1>1, <1>2, <2>1 DEF Previous
    <3>2. QED BY <3>1 DEF Sample
  <2>3. RecordPosition(t, c, elapsed) = [v EXCEPT !.positions = Append(@, sample)]
    BY <1>4, <1>6, <2>2 DEF RecordPosition
  <2>4. v \in TripType
    BY <1>1, <1>2, AccountIntervalAccounts DEF Accounted
  <2>5. Tallied(t, points, {}) /\ {} \subseteq IntervalsOf(points)
    BY <1>6 DEF TripTallied
  <2>6. Tallied(v, Append(points, c), {})
    BY <1>1, <1>2, <1>6, <2>1, <2>5, IntervalTallies
  <2> HIDE DEF v
  <2>7. QED BY <1>3, <2>3, <2>4, <2>6, PushTallies
<1>7. QED BY <1>5, <1>6

LEMMA ExtendedKeepsTallies ==
    ASSUME IInv, Tallies, NEW u \in Users, NEW c \in Coordinates, NEW elapsed \in ElapsedInputs,
           Extended(u, c, elapsed)
    PROVE  Tallies'
<1>1. TripTallied(u)'
  <2>1. Tallied(trips'[u], accepted'[run'[u]], {})
    BY ExtendedFacts, ExtendedTallies DEF Tallies
  <2>2. QED BY <2>1 DEF Tallied, TripTallied
<1>2. \A v \in DOMAIN trips : v # u => TripTallied(v)'
  BY ExtendedFacts DEF Tallies, TripTallied
<1>3. \A id \in 1 .. Len(tripRows') : RowTallied(id)'
  <2>1. /\ tripRows' = tripRows /\ origin' = origin
        /\ \A id \in 1 .. Len(tripRows) : accepted'[origin[id]] = accepted[origin[id]]
    BY ExtendedFacts DEF Extended
  <2>2. QED BY <2>1 DEF Tallies, RowTallied
<1>4. QED BY <1>1, <1>2, <1>3, ExtendedFacts DEF Tallies

\* The row that is entered is that of the whole, closed trip.
LEMMA EnteredFacts ==
    ASSUME IInv, Tallies, NEW u \in Users, Entered(u)
    PROVE  /\ u \in Held /\ pc'[u] = "committed"
           /\ \A v \in DOMAIN trips : v # u => pc'[v] = pc[v]
           /\ Len(tripRows) \in Nat /\ Len(tripRows') = Len(tripRows) + 1
           /\ \A id \in 1 .. Len(tripRows) : /\ tripRows'[id] = tripRows[id]
                                             /\ origin'[id] = origin[id]
           /\ tripRows'[Len(tripRows) + 1]
                = [user_id |-> u,
                   moving_seconds |-> MovingSeconds(accepted[run[u]], {}),
                   stopped_seconds |-> StoppedSeconds(accepted[run[u]], {})]
           /\ origin'[Len(tripRows) + 1] = run[u]
<1> DEFINE points == accepted[run[u]]
           t == trips[u]
<1>1. /\ pc[u] = "writing" /\ u \in DOMAIN trips /\ UserOK(u) /\ DOMAIN tx = {u}
  BY Written DEF Entered, IInv
<1>2. /\ t \in TripType /\ points \in Seq(Coordinates) /\ Len(points) \in Nat
  BY <1>1, TripInMemory
<1>3. tx[u].row = [user_id |-> u, moving_seconds |-> t.moving_time,
                   stopped_seconds |-> t.stopped_time]
  BY <1>1 DEF UserOK, WriteOK
<1>4. t.stopped_time = StoppedSeconds(points, {})
  BY <1>1 DEF Tallies, TripTallied
<1>5. /\ t.state = "Disconnected" /\ PendingOK(t) /\ Total(t) = Covered(Len(points))
  BY <1>1 DEF UserOK, SavingOK, TripOK, Saving
<1>6. t.moving_time = MovingSeconds(points, {})
  <2>1. Cardinality(IntervalsOf(points)) = IF Len(points) = 0 THEN 0 ELSE Len(points) - 1
    <3>1. CASE Len(points) = 0
      <4>1. IntervalsOf(points) = {}
        BY <3>1 DEF IntervalsOf
      <4>2. QED BY <3>1, <4>1, FS_EmptySet
    <3>2. CASE Len(points) # 0
      BY <1>2, <3>2, FS_Interval DEF IntervalsOf
    <3>3. QED BY <3>1, <3>2
  <2>2. Cardinality({}) = 0 /\ {} \subseteq IntervalsOf(points)
    BY FS_EmptySet
  <2>3. Total(t) = POSITION_INTERVAL_SECONDS
                     * (Cardinality(IntervalsOf(points)) - Cardinality({}))
    <3>1. Total(t) = POSITION_INTERVAL_SECONDS * Cardinality(IntervalsOf(points))
      BY <1>5, <2>1 DEF Covered
    <3>2. Cardinality(IntervalsOf(points)) - Cardinality({}) = Cardinality(IntervalsOf(points))
      BY <1>2, <2>1, <2>2
    <3>3. QED BY <3>1, <3>2
  <2>4. t.moving_time + t.pending_still_time = MovingSeconds(points, {})
    BY <1>2, <1>4, <2>2, <2>3, MovingFollows
  <2>5. t.pending_still_time = 0 /\ t.moving_time \in Nat
    BY <1>2, <1>5, TripFields DEF PendingOK
  <2>6. QED BY <2>4, <2>5
<1>7. /\ tripRows \in Seq(RowType) /\ origin \in Seq(Nat) /\ Len(origin) = Len(tripRows)
      /\ Len(tripRows) \in Nat /\ tx[u].row \in RowType /\ run[u] \in Nat
      /\ pc \in [Users -> PC] /\ DOMAIN trips \subseteq Users
  BY <1>1, LenProperties DEF IInv, TypeOK, TablesOK
<1>8. /\ Len(tripRows') = Len(tripRows) + 1
      /\ tripRows'[Len(tripRows) + 1] = tx[u].row
      /\ origin'[Len(tripRows) + 1] = run[u]
      /\ \A id \in 1 .. Len(tripRows) : /\ tripRows'[id] = tripRows[id]
                                        /\ origin'[id] = origin[id]
  BY <1>7, AppendProperties DEF Entered
<1>9. /\ u \in Held /\ pc'[u] = "committed"
      /\ \A v \in DOMAIN trips : v # u => pc'[v] = pc[v]
  BY <1>1, <1>7 DEF Entered, Held
<1>10. tripRows'[Len(tripRows) + 1]
         = [user_id |-> u, moving_seconds |-> MovingSeconds(points, {}),
            stopped_seconds |-> StoppedSeconds(points, {})]
  BY <1>3, <1>4, <1>6, <1>8
<1>11. QED BY <1>7, <1>8, <1>9, <1>10

LEMMA EnteredKeepsTallies ==
    ASSUME IInv, Tallies, NEW u \in Users, Entered(u)
    PROVE  Tallies'
<1>1. \A v \in DOMAIN trips' : TripTallied(v)'
  BY DEF Entered, Tallies, TripTallied
<1>2. accepted' = accepted
  BY DEF Entered
<1>3. \A id \in 1 .. Len(tripRows) : RowTallied(id)'
  BY <1>2, EnteredFacts DEF Tallies, RowTallied
<1>4. ASSUME NEW id, id = Len(tripRows) + 1 PROVE RowTallied(id)'
  <2> DEFINE row == [user_id |-> u,
                     moving_seconds |-> MovingSeconds(accepted[run[u]], {}),
                     stopped_seconds |-> StoppedSeconds(accepted[run[u]], {})]
  <2>1. tripRows'[id] = row /\ origin'[id] = run[u]
    BY <1>4, EnteredFacts
  <2>2. QED BY <1>2, <2>1 DEF RowTallied
<1>5. \A id \in 1 .. Len(tripRows') : id \in 1 .. Len(tripRows) \/ id = Len(tripRows) + 1
  <2>1. Len(tripRows) \in Nat /\ Len(tripRows') = Len(tripRows) + 1
    BY EnteredFacts
  <2>2. QED BY <2>1
<1>6. QED BY <1>1, <1>3, <1>4, <1>5 DEF Tallies

LEMMA TalliesStep == IInv /\ Tallies /\ [Next]_vars => Tallies'
BY Kinds, FadesKeepsTallies, BegunKeepsTallies, ExtendedKeepsTallies, EnteredKeepsTallies

-----------------------------------------------------------------------------
(* Each kind is a step of the book, or changes nothing of it.                *)
LEMMA FadesImplements ==
    ASSUME Mapped, Mapped', Fades, DOMAIN trips \subseteq Users
    PROVE  [Book!BookNext]_(Book!bookVars)
<1>1. Entries' = Entries
  BY DEF Fades, Entries
<1>2. Opened' = [v \in Held' |-> Opened[v]]
  BY DEF Fades, Opened
<1>3. CASE Held' = Held
  <2>1. Opened' = Opened
    BY <1>3 DEF Fades, Opened
  <2>2. QED BY <1>1, <2>1 DEF Mapped, Book!bookVars
<1>4. CASE Held' # Held
  <2> DEFINE S == Held \ Held'
  <2>1. S # {} /\ S \subseteq DOMAIN Opened /\ S \in SUBSET Users
    BY <1>4 DEF Fades, Held, Opened
  <2>2. Held' = DOMAIN Opened \ S
    BY DEF Fades, Opened
  <2>3. Opened' = [v \in DOMAIN Opened \ S |-> Opened[v]]
    BY <1>2, <2>2
  <2> HIDE DEF S
  <2>4. Book!Lose(S)
    BY <1>1, <2>1, <2>3 DEF Mapped, Book!Lose
  <2>5. QED BY <2>1, <2>4 DEF Book!BookNext
<1>5. QED BY <1>3, <1>4

LEMMA BegunImplements ==
    ASSUME IInv, Mapped, Mapped', NEW u \in Users, Begun(u)
    PROVE  Book!Begin(u)
<1>1. Held' = Held \cup {u} /\ u \notin Held
  BY BegunFacts DEF Begun, Held
<1>2. u \notin DOMAIN Opened /\ DOMAIN Opened = Held
  BY <1>1 DEF Opened
<1>3. \A v \in Held' : accepted'[run'[v]] = IF v = u THEN << >> ELSE Opened[v]
  BY <1>1, BegunFacts DEF Held, Opened
<1>4. Opened' = [v \in DOMAIN Opened \cup {u} |-> IF v = u THEN << >> ELSE Opened[v]]
  BY <1>1, <1>2, <1>3 DEF Opened
<1>5. Entries' = Entries
  <2>1. /\ tripRows' = tripRows /\ origin' = origin
        /\ \A id \in 1 .. Len(tripRows) : accepted'[origin[id]] = accepted[origin[id]]
    BY BegunFacts DEF Begun
  <2>2. QED BY <2>1 DEF Entries
<1>6. QED BY <1>2, <1>4, <1>5 DEF Mapped, Book!Begin

LEMMA ExtendedImplements ==
    ASSUME IInv, Mapped, Mapped', NEW u \in Users, NEW c \in Coordinates,
           NEW elapsed \in ElapsedInputs, Extended(u, c, elapsed)
    PROVE  Book!Accept(u, c)
<1>1. Held' = Held /\ u \in Held
  BY ExtendedFacts DEF Held
<1>2. u \in DOMAIN Opened /\ DOMAIN Opened = Held
  BY <1>1 DEF Opened
<1>3. \A v \in Held : accepted'[run'[v]] = IF v = u THEN Append(Opened[u], c) ELSE Opened[v]
  BY <1>1, ExtendedFacts DEF Held, Opened
<1>4. Opened' = [Opened EXCEPT ![u] = Append(@, c)]
  BY <1>1, <1>2, <1>3 DEF Opened
<1>5. Entries' = Entries
  <2>1. /\ tripRows' = tripRows /\ origin' = origin
        /\ \A id \in 1 .. Len(tripRows) : accepted'[origin[id]] = accepted[origin[id]]
    BY ExtendedFacts DEF Extended
  <2>2. QED BY <2>1 DEF Entries
<1>6. QED BY <1>2, <1>4, <1>5 DEF Mapped, Book!Accept

LEMMA EnteredImplements ==
    ASSUME IInv, Tallies, Mapped, Mapped', NEW u \in Users, Entered(u)
    PROVE  Book!Save(u)
<1> DEFINE points == accepted[run[u]]
           n == Len(tripRows)
           entry == [user_id |-> u, points |-> points,
                     moving_seconds |-> MovingSeconds(points, {}),
                     stopped_seconds |-> StoppedSeconds(points, {})]
<1>1. Held' = Held \ {u} /\ u \in Held
  BY EnteredFacts DEF Entered, Held
<1>2. /\ u \in DOMAIN Opened /\ DOMAIN Opened = Held /\ Opened[u] = points
  BY <1>1 DEF Opened
<1>3. Opened' = [v \in DOMAIN Opened \ {u} |-> Opened[v]]
  BY <1>1, <1>2 DEF Entered, Opened
<1>4. Entries' = Append(Entries, entry)
  <2>1. /\ n \in Nat /\ Len(tripRows') = n + 1 /\ accepted' = accepted
        /\ \A id \in 1 .. n : tripRows'[id] = tripRows[id] /\ origin'[id] = origin[id]
    BY EnteredFacts DEF Entered
  <2>2. /\ tripRows'[n + 1] = [user_id |-> u,
                              moving_seconds |-> MovingSeconds(points, {}),
                              stopped_seconds |-> StoppedSeconds(points, {})]
        /\ origin'[n + 1] = run[u]
    BY EnteredFacts
  <2>3. Entries = [id \in 1 .. n |-> Entries[id]] /\ Len(Entries) = n
    BY <2>1 DEF Entries
  <2>4. Entries' = [id \in 1 .. n + 1 |-> Entries'[id]]
    BY <2>1 DEF Entries
  <2>5. \A id \in 1 .. n : Entries'[id] = Entries[id]
    BY <2>1 DEF Entries
  <2>6. Entries'[n + 1] = entry
    BY <2>1, <2>2 DEF Entries
  <2>7. Append(Entries, entry) = [id \in 1 .. n + 1 |-> IF id <= n THEN Entries[id] ELSE entry]
    BY <2>1, <2>3
  <2>8. QED BY <2>1, <2>4, <2>5, <2>6, <2>7
<1>5. Book!Entry(u, points) = entry
  BY SameDefinition DEF Book!Entry
<1> HIDE DEF entry, points
<1>6. QED BY <1>2, <1>3, <1>4, <1>5 DEF Mapped, Book!Save

(* Every step of the sessions, of a save and of the server is one of the     *)
(* book.                                                                     *)
LEMMA StepImplements ==
    IInv /\ IInv' /\ Tallies /\ [Next]_vars => [Book!BookNext]_(Book!bookVars)
<1> SUFFICES ASSUME IInv, IInv', Tallies, [Next]_vars PROVE [Book!BookNext]_(Book!bookVars)
  OBVIOUS
<1>1. Mapped /\ Mapped' /\ DOMAIN trips \subseteq Users
  BY Mapping, MappingNext DEF IInv, TypeOK
<1>2. CASE Fades
  BY <1>1, <1>2, FadesImplements
<1>3. ASSUME NEW u \in Users, Begun(u) PROVE Book!BookNext
  BY <1>1, <1>3, BegunImplements DEF Book!BookNext
<1>4. ASSUME NEW u \in Users, NEW c \in Coordinates, NEW elapsed \in ElapsedInputs,
             Extended(u, c, elapsed)
      PROVE  Book!BookNext
  BY <1>1, <1>4, ExtendedImplements DEF Book!BookNext
<1>5. ASSUME NEW u \in Users, Entered(u) PROVE Book!BookNext
  BY <1>1, <1>5, EnteredImplements DEF Book!BookNext
<1>6. QED BY <1>2, <1>3, <1>4, <1>5, Kinds

(* The service implements the book: a trip is entered in one step, whole,    *)
(* with the points the client was told were accepted and the seconds their   *)
(* definition gives, or it is lost as a whole, however the sessions, the     *)
(* copy of the positions and the transaction (trip.rs, main.rs, state.rs)    *)
(* interleave, fail or are cut short.                                        *)
THEOREM TripBookImplemented == Spec => ImplementsTripBook
<1>1. Init => Tallies /\ Book!BookInit
  <2> SUFFICES ASSUME Init PROVE Tallies /\ Book!BookInit
    OBVIOUS
  <2>1. trips = << >> /\ DOMAIN trips = {} /\ tripRows = << >> /\ Len(tripRows) = 0
    BY DEF Init
  <2>2. Tallies
    BY <2>1 DEF Tallies
  <2>3. Uncommitted = {}
    BY <2>1 DEF Uncommitted
  <2>4. QED BY <2>1, <2>2, <2>3 DEF Book!BookInit
<1>2. QED
  BY <1>1, Invariant, TalliesStep, StepImplements, PTL DEF Spec, ImplementsTripBook, Book!BookSpec
=============================================================================
