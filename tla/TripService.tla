---------------------------- MODULE TripService ----------------------------
(***************************************************************************)
(* The trips of the server: AppState.trips, the WebSocket session that     *)
(* drives them, and the SQLite transaction that saves a finished trip.     *)
(*                                                                         *)
(* A client may send any command at any time.  The registry of connected   *)
(* clients gives a user at most one session (module Messaging), so a       *)
(* session is known by its user.  What a refused text or message does to   *)
(* it is here, the texts that are stored are in Dashboard; acknowledgement *)
(* messages, the registry's lock and the queues are in Messaging: no trip  *)
(* depends on them.  The trip's date and its distance are left out.        *)
(***************************************************************************)
EXTENDS TripReference

CONSTANTS
    Users,
    ElapsedInputs,  \* logical times a client may send
    MaxTrips,       \* bound: trips started in one behaviour
    MaxRestarts     \* bound: times the server stops or crashes

ASSUME ServiceAssumption ==
    /\ ElapsedInputs \subseteq 0 .. MaxElapsed
    /\ MaxTrips \in Nat
    /\ MaxRestarts \in Nat

VARIABLES
    trips,      \* AppState.trips: a map from users to their trip
    pc,         \* where the session of each user is
    reply,      \* the answer the session is sending
    closing,    \* close_after_response
    saving,     \* the summary and the copied positions of save_trip
    tx,         \* the open write transaction, by user: SQLite has one writer
    tripRows,   \* table trips: AUTOINCREMENT ids are positions in this list
    pointRows,  \* table trips_points
    restarts,   \* how often the server stopped
    run,        \* history: the number of the last trip each user started
    accepted,   \* history: the coordinates accepted for each started trip
    origin,     \* history: the number of the trip saved under each id
    told        \* history: the trips whose completion the client was told

session == << pc, reply, closing, saving >>
database == << tripRows, pointRows, origin >>
history == << run, accepted, told >>
vars == << trips, session, tx, database, restarts, history >>

Put(map, u, value) ==
    [v \in DOMAIN map \cup {u} |-> IF v = u THEN value ELSE map[v]]

Drop(map, u) == [v \in DOMAIN map \ {u} |-> map[v]]

PC == {"offline", "looping", "finished", "copied", "writing", "committed",
       "replying", "left", "discarded"}

\* The answers to what touches no trip: a message that does not parse, a text
\* that is empty or too long, a text the database did not take.
Refusal == {"invalid_message", "validation_error", "internal_error"}

Reply == {"none", "trip_started", "trip_already_active", "position_accepted",
          "invalid_position_time", "trip_not_found", "trip_completed", "trip_save_failed"}
         \cup Refusal

NoSummary == [points_received |-> 0, moving_seconds |-> 0, stopped_seconds |-> 0]

NothingSaved == [summary |-> NoSummary, positions |-> << >>]

Init ==
    /\ trips = << >>
    /\ pc = [u \in Users |-> "offline"]
    /\ reply = [u \in Users |-> "none"]
    /\ closing = [u \in Users |-> FALSE]
    /\ saving = [u \in Users |-> NothingSaved]
    /\ tx = << >>
    /\ tripRows = << >>
    /\ pointRows = {}
    /\ restarts = 0
    /\ run = [u \in Users |-> 0]
    /\ accepted = << >>
    /\ origin = << >>
    /\ told = {}
-----------------------------------------------------------------------------
(* The session: what it does with a command, and how it ends.              *)

Goto(u, label) == pc' = [pc EXCEPT ![u] = label]

Answer(u, kind) ==
    /\ reply' = [reply EXCEPT ![u] = kind]
    /\ Goto(u, "replying")

Connect(u) ==
    /\ pc[u] = "offline"
    /\ Goto(u, "looping")
    /\ closing' = [closing EXCEPT ![u] = FALSE]
    /\ UNCHANGED << trips, reply, saving, tx, database, restarts, history >>

StartTrip(u) ==
    /\ pc[u] = "looping"
    /\ \/ /\ u \in DOMAIN trips
          /\ Answer(u, "trip_already_active")
          /\ UNCHANGED << trips, run, accepted >>
       \/ /\ u \notin DOMAIN trips
          /\ Len(accepted) < MaxTrips
          /\ trips' = Put(trips, u, NewTrip)
          /\ accepted' = Append(accepted, << >>)
          /\ run' = [run EXCEPT ![u] = Len(accepted) + 1]
          /\ Answer(u, "trip_started")
    /\ UNCHANGED << closing, saving, tx, database, restarts, told >>

PositionUpdate(u, c, elapsed) ==
    /\ pc[u] = "looping"
    /\ \/ /\ u \notin DOMAIN trips
          /\ Answer(u, "trip_not_found")
          /\ UNCHANGED << trips, accepted >>
       \/ /\ u \in DOMAIN trips
          /\ PositionResult(trips[u], elapsed) = "Ok"
          /\ trips' = [trips EXCEPT ![u] = RecordPosition(@, c, elapsed)]
          /\ accepted' = [accepted EXCEPT ![run[u]] = Append(@, c)]
          /\ Answer(u, "position_accepted")
       \/ /\ u \in DOMAIN trips
          /\ PositionResult(trips[u], elapsed) # "Ok"
          /\ Answer(u, "invalid_position_time")
          /\ UNCHANGED << trips, accepted >>
    /\ UNCHANGED << closing, saving, tx, database, restarts, run, told >>

\* Mutant: a session whose save failed goes on.
FinishTripGoesOn(u) ==
    /\ pc[u] = "looping"
    /\ \/ /\ u \notin DOMAIN trips
          /\ Answer(u, "trip_not_found")
          /\ UNCHANGED << trips, saving >>
       \/ /\ u \in DOMAIN trips
          /\ trips' = [trips EXCEPT ![u] = Disconnect(@)]
          /\ saving' = [saving EXCEPT ![u].summary = Summary(Disconnect(trips[u]))]
          /\ Goto(u, "finished")
          /\ UNCHANGED reply
    /\ UNCHANGED << closing, tx, database, restarts, history >>

\* TripCompleted: finish_trip closes the trip but keeps it in memory.
FinishTrip(u) ==
    /\ pc[u] = "looping"
    /\ \/ /\ u \notin DOMAIN trips
          /\ Answer(u, "trip_not_found")
          /\ UNCHANGED << trips, closing, saving >>
       \/ /\ u \in DOMAIN trips
          /\ trips' = [trips EXCEPT ![u] = Disconnect(@)]
          /\ saving' = [saving EXCEPT ![u].summary = Summary(Disconnect(trips[u]))]
          /\ closing' = [closing EXCEPT ![u] = TRUE]
          /\ Goto(u, "finished")
          /\ UNCHANGED reply
    /\ UNCHANGED << tx, database, restarts, history >>

\* A message that does not parse, or a text: which one is up to Dashboard.
Refuse(u, kind) ==
    /\ pc[u] = "looping"
    /\ Answer(u, kind)
    /\ UNCHANGED << trips, closing, saving, tx, database, restarts, history >>

SendReply(u) ==
    /\ pc[u] = "replying"
    /\ told' = IF reply[u] = "trip_completed" THEN told \cup {run[u]} ELSE told
    /\ reply' = [reply EXCEPT ![u] = "none"]
    /\ Goto(u, IF closing[u] THEN "left" ELSE "looping")
    /\ UNCHANGED << trips, closing, saving, tx, database, restarts, run, accepted >>

SendFails(u) ==
    /\ pc[u] = "replying"
    /\ reply' = [reply EXCEPT ![u] = "none"]
    /\ Goto(u, "left")
    /\ UNCHANGED << trips, closing, saving, tx, database, restarts, history >>

\* A Close frame, the end of the stream or a socket error ends the loop.
Leave(u) ==
    /\ pc[u] = "looping"
    /\ Goto(u, "left")
    /\ UNCHANGED << trips, reply, closing, saving, tx, database, restarts, history >>

\* Mutant: the session ends without discarding its trip.
DiscardTripForgets(u) ==
    /\ pc[u] = "left"
    /\ Goto(u, "discarded")
    /\ UNCHANGED << trips, reply, closing, saving, tx, database, restarts, history >>

DiscardTrip(u) ==
    /\ pc[u] = "left"
    /\ trips' = Drop(trips, u)
    /\ Goto(u, "discarded")
    /\ UNCHANGED << reply, closing, saving, tx, database, restarts, history >>

RemoveClient(u) ==
    /\ pc[u] = "discarded"
    /\ Goto(u, "offline")
    /\ UNCHANGED << trips, reply, closing, saving, tx, database, restarts, history >>
-----------------------------------------------------------------------------
(* save_trip: every await is a point where other sessions may run.         *)

\* Mutant: the first point is not copied.
CopyPositionsSkips(u) ==
    /\ pc[u] = "finished"
    /\ IF u \in DOMAIN trips /\ trips[u].positions # << >>
         THEN /\ saving' = [saving EXCEPT ![u].positions = Tail(trips[u].positions)]
              /\ Goto(u, "copied")
              /\ UNCHANGED reply
         ELSE /\ Answer(u, "trip_save_failed")
              /\ UNCHANGED saving
    /\ UNCHANGED << trips, closing, tx, database, restarts, history >>

CopyPositions(u) ==
    /\ pc[u] = "finished"
    /\ IF u \in DOMAIN trips /\ Len(trips[u].positions) = saving[u].summary.points_received
         THEN /\ saving' = [saving EXCEPT ![u].positions = trips[u].positions]
              /\ Goto(u, "copied")
              /\ UNCHANGED reply
         ELSE /\ Answer(u, "trip_save_failed")
              /\ UNCHANGED saving
    /\ UNCHANGED << trips, closing, tx, database, restarts, history >>

\* Mutant: the two durations are bound in the wrong order.
InsertTripSwapped(u) ==
    /\ pc[u] = "copied"
    /\ DOMAIN tx = {}
    /\ tx' = Put(tx, u, [row |-> [user_id |-> u,
                                  moving_seconds |-> saving[u].summary.stopped_seconds,
                                  stopped_seconds |-> saving[u].summary.moving_seconds],
                         points |-> {}])
    /\ Goto(u, "writing")
    /\ UNCHANGED << trips, reply, closing, saving, database, restarts, history >>

\* The first INSERT takes SQLite's write lock.
InsertTrip(u) ==
    /\ pc[u] = "copied"
    /\ DOMAIN tx = {}
    /\ tx' = Put(tx, u, [row |-> [user_id |-> u,
                                  moving_seconds |-> saving[u].summary.moving_seconds,
                                  stopped_seconds |-> saving[u].summary.stopped_seconds],
                         points |-> {}])
    /\ Goto(u, "writing")
    /\ UNCHANGED << trips, reply, closing, saving, database, restarts, history >>

\* Mutants: points count from one while the loop counts from zero.
InsertPointShifted(u) ==
    LET index == Cardinality(tx[u].points) IN
    /\ pc[u] = "writing"
    /\ index < Len(saving[u].positions)
    /\ tx' = [tx EXCEPT ![u].points =
                @ \cup {[trip_id |-> Len(tripRows) + 1,
                         point_index |-> index - 1,
                         position |-> saving[u].positions[index + 1]]}]
    /\ UNCHANGED << trips, session, database, restarts, history >>

InsertPoint(u) ==
    LET index == Cardinality(tx[u].points) IN
    /\ pc[u] = "writing"
    /\ index < Len(saving[u].positions)
    /\ tx' = [tx EXCEPT ![u].points =
                @ \cup {[trip_id |-> Len(tripRows) + 1,
                         point_index |-> index,
                         position |-> saving[u].positions[index + 1]]}]
    /\ UNCHANGED << trips, session, database, restarts, history >>

\* Mutants: a trip is committed before all its points; an uncertain commit is
\* tried again.
CommitEarly(u) ==
    /\ pc[u] = "writing"
    /\ tripRows' = Append(tripRows, tx[u].row)
    /\ pointRows' = pointRows \cup tx[u].points
    /\ origin' = Append(origin, run[u])
    /\ tx' = Drop(tx, u)
    /\ Goto(u, "committed")
    /\ UNCHANGED << trips, reply, closing, saving, restarts, history >>

CommitRetried(u) ==
    /\ pc[u] = "writing"
    /\ Cardinality(tx[u].points) = Len(saving[u].positions)
    /\ tripRows' = Append(tripRows, tx[u].row)
    /\ pointRows' = pointRows \cup tx[u].points
    /\ origin' = Append(origin, run[u])
    /\ tx' = Drop(tx, u)
    /\ Goto(u, "committed") \/ (Len(origin) < MaxTrips /\ Goto(u, "copied"))
    /\ UNCHANGED << trips, reply, closing, saving, restarts, history >>

Commit(u) ==
    /\ pc[u] = "writing"
    /\ Cardinality(tx[u].points) = Len(saving[u].positions)
    /\ tripRows' = Append(tripRows, tx[u].row)
    /\ pointRows' = pointRows \cup tx[u].points
    /\ origin' = Append(origin, run[u])
    /\ tx' = Drop(tx, u)
    /\ Goto(u, "committed")
    /\ UNCHANGED << trips, reply, closing, saving, restarts, history >>

\* Mutants: the error is swallowed; the save is started again.
SaveFailsSilently(u) ==
    /\ pc[u] \in {"copied", "writing"}
    /\ tx' = Drop(tx, u)
    /\ Answer(u, "trip_completed")
    /\ UNCHANGED << trips, closing, saving, database, restarts, history >>

SaveFailsRetries(u) ==
    /\ pc[u] \in {"copied", "writing"}
    /\ tx' = Drop(tx, u)
    /\ Goto(u, "finished")
    /\ UNCHANGED << trips, reply, closing, saving, database, restarts, history >>

\* Any statement may fail (the database is busy, the disk is full): dropping
\* the transaction rolls it back, the trip stays in memory.
SaveFails(u) ==
    /\ pc[u] \in {"copied", "writing"}
    /\ tx' = Drop(tx, u)
    /\ Answer(u, "trip_save_failed")
    /\ UNCHANGED << trips, closing, saving, database, restarts, history >>

DiscardSaved(u) ==
    /\ pc[u] = "committed"
    /\ trips' = Drop(trips, u)
    /\ Answer(u, "trip_completed")
    /\ UNCHANGED << closing, saving, tx, database, restarts, history >>
-----------------------------------------------------------------------------
\* The server exits or crashes: only what was committed remains.
Restart ==
    /\ restarts < MaxRestarts
    /\ restarts' = restarts + 1
    /\ trips' = << >>
    /\ pc' = [u \in Users |-> "offline"]
    /\ reply' = [u \in Users |-> "none"]
    /\ closing' = [u \in Users |-> FALSE]
    /\ saving' = [u \in Users |-> NothingSaved]
    /\ tx' = << >>
    /\ UNCHANGED << database, history >>

SaveStep(u) ==
    CopyPositions(u) \/ InsertTrip(u) \/ InsertPoint(u) \/ Commit(u)
    \/ SaveFails(u) \/ DiscardSaved(u)

Command(u) ==
    \/ StartTrip(u)
    \/ \E c \in Coordinates, elapsed \in ElapsedInputs : PositionUpdate(u, c, elapsed)
    \/ FinishTrip(u)
    \/ \E kind \in Refusal : Refuse(u, kind)

EndOfSession(u) == DiscardTrip(u) \/ RemoveClient(u)

Next ==
    \/ \E u \in Users :
          \/ Connect(u) \/ Command(u) \/ SaveStep(u)
          \/ SendReply(u) \/ SendFails(u) \/ Leave(u) \/ EndOfSession(u)
    \/ Restart

Spec == Init /\ [][Next]_vars

(***************************************************************************)
(* A task whose database statement or lock is ready is polled again, and a *)
(* statement that waits for SQLite's lock gives up at its busy timeout     *)
(* (SaveFails).  Nothing is assumed of the client, of the socket, or of    *)
(* the registry's lock, which a session waits for when it ends.            *)
(***************************************************************************)
FairSpec ==
    /\ Spec
    /\ \A u \in Users : WF_vars(SaveStep(u))
-----------------------------------------------------------------------------
SummaryType == [points_received : Nat, moving_seconds : Nat, stopped_seconds : Nat]

RowType == [user_id : Users, moving_seconds : Nat, stopped_seconds : Nat]

PointType == [trip_id : Nat, point_index : Nat, position : PositionSample]

(* Every variable keeps its type.                                            *)
TypeOK ==
    /\ DOMAIN trips \subseteq Users /\ \A u \in DOMAIN trips : trips[u] \in TripType
    /\ pc \in [Users -> PC]
    /\ reply \in [Users -> Reply]
    /\ closing \in [Users -> BOOLEAN]
    /\ saving \in [Users -> [summary : SummaryType, positions : Seq(PositionSample)]]
    /\ DOMAIN tx \subseteq Users
    /\ \A u \in DOMAIN tx : tx[u].row \in RowType /\ tx[u].points \subseteq PointType
    /\ tripRows \in Seq(RowType)
    /\ pointRows \subseteq PointType
    /\ restarts \in Nat
    /\ run \in [Users -> Nat]
    /\ accepted \in Seq(Seq(Coordinates))
    /\ origin \in Seq(Nat)
    /\ told \subseteq Nat

(* A trip lives only as long as the session that started it: a user who is   *)
(* gone, or about to be removed from the registry, has none, so that the     *)
(* next session is never refused with trip_already_active because of an      *)
(* older one (main.rs:342-348 discards before it removes).                   *)
TripEndsWithSession ==
    \A u \in DOMAIN trips : pc[u] \notin {"offline", "discarded"}

(* No position ever reaches a closed trip: the branch that reopens a trip    *)
(* and counts its interval nowhere (trip.rs:152-156) is dead in the server.  *)
NeverReopened ==
    \A u \in DOMAIN trips :
        pc[u] = "looping" /\ trips[u].positions # << >> => trips[u].state # "Disconnected"

PointsOfRow(id) == {p \in pointRows : p.trip_id = id}

(* The tables hold whole trips only, whatever failed or crashed: each row of *)
(* trips has the points 0 .. n - 1, one every interval from logical time 0,  *)
(* its seconds cover all the intervals, and no point lacks its trip.         *)
SavedTripsAreWhole ==
    /\ \A p \in pointRows : p.trip_id \in 1 .. Len(tripRows)
    /\ \A id \in 1 .. Len(tripRows) :
          LET points == PointsOfRow(id)
              n == Cardinality(points)
          IN  /\ {p.point_index : p \in points} = 0 .. (n - 1)
              /\ \A p \in points : p.position.elapsed_seconds
                                     = p.point_index * POSITION_INTERVAL_SECONDS
              /\ tripRows[id].moving_seconds + tripRows[id].stopped_seconds
                   = POSITION_INTERVAL_SECONDS * (IF n = 0 THEN 0 ELSE n - 1)

(* What is saved is what the client was told was accepted, in that order:    *)
(* nothing slips in or out between finish_trip, the copy of the positions    *)
(* and the commit.                                                           *)
SavedAsAccepted ==
    \A id \in 1 .. Len(tripRows) :
        /\ Cardinality(PointsOfRow(id)) = Len(accepted[origin[id]])
        /\ \A p \in PointsOfRow(id) :
              p.position.coordinates = accepted[origin[id]][p.point_index + 1]

(* A trip is saved at most once, even when its completion is repeated, fails *)
(* or is interrupted.                                                        *)
SavedOnce ==
    \A i, j \in 1 .. Len(origin) : origin[i] = origin[j] => i = j

(* Completion is announced only for a trip that is in the database and stays *)
(* there, failure only for one that is not.                                  *)
AnnouncedAsSaved ==
    LET Saved == {origin[i] : i \in 1 .. Len(origin)} IN
    /\ told \subseteq Saved
    /\ \A u \in Users : /\ reply[u] = "trip_completed" => run[u] \in Saved
                        /\ reply[u] = "trip_save_failed" => run[u] \notin Saved

(* A completion in progress is always answered, or ends with the server:     *)
(* saves of other users cannot hold it up for ever.                          *)
CompletionAnswered ==
    \A u \in Users : pc[u] = "finished" ~> pc[u] \in {"replying", "offline"}

(* The saved trips are those of the book: the sessions, the copy in memory   *)
(* and the transaction implement saving a trip in one step.  A trip is open  *)
(* until it is committed, though it stays in memory a little longer.         *)
Uncommitted == {u \in DOMAIN trips : \A i \in 1 .. Len(origin) : origin[i] # run[u]}

RowPoints(id) ==
    [i \in 1 .. Cardinality(PointsOfRow(id)) |->
        (CHOOSE p \in PointsOfRow(id) : p.point_index = i - 1).position.coordinates]

Book == INSTANCE TripBook WITH
    open <- [u \in Uncommitted |-> PointsOf(trips[u])],
    book <- [id \in 1 .. Len(tripRows) |->
               [user_id |-> tripRows[id].user_id,
                points |-> RowPoints(id),
                moving_seconds |-> tripRows[id].moving_seconds,
                stopped_seconds |-> tripRows[id].stopped_seconds]]

(* Every behaviour of the service is one of the book: module TripBook.       *)
ImplementsTripBook == Book!BookSpec
=============================================================================
