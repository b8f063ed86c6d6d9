----------------------------- MODULE Dashboard -----------------------------
(***************************************************************************)
(* The client program at the other end of the sessions of TripService: its *)
(* event loop, the state of its commands and of its trip, the simulator    *)
(* that replays a CSV route, and the WebSocket between the two programs.   *)
(*                                                                         *)
(* A connection is two FIFO channels.  It may break at any time, at either *)
(* end first: what a client sent may still be read after it is gone, what  *)
(* a server sent may still be shown after its session is over, and either  *)
(* may be lost.  Scrolling, the number of points sent and the console's    *)
(* lines are left out; direct and broadcast messages are in Messaging.  A  *)
(* text that the user sends is a number, and whether it is too long.  The  *)
(* lock of the registry is taken for granted here: to wait for it is to    *)
(* take a step later.  LockedDashboard has it, and what depends on it.     *)
(***************************************************************************)
EXTENDS TripService, Route

CONSTANTS
    RouteFiles,     \* what the CSV files hold
    NoFile,
    ChannelCap,     \* capacity of the simulator's channel (16)
    MaxTexts        \* bound: texts each user sends

ASSUME DashboardAssumption ==
    /\ \A file \in RouteFiles : file \in Seq(Row)
    \* the times of the routes are among those that a client may send
    /\ \A file \in {f \in RouteFiles : ValidRoute(f)} : \A i \in 1 .. Len(file) :
          LoadRoute(file)[i].time \in ElapsedInputs
    /\ NoFile \notin RouteFiles
    /\ ChannelCap \in Nat \ {0}
    /\ MaxTexts \in Nat

VARIABLES
    tokens,     \* AppState.tokens: the users who may connect
    client,     \* the client program of each user
    app,        \* ClientApp
    socket,     \* the client holds a WebSocket
    simulator,  \* the task and the channel of the active simulator
    requests,   \* in flight to the server
    responses,  \* in flight to the client
    starts,     \* bound: trips asked for
    textRows,   \* table messages: the texts of clients, by user and number
    sent,       \* history: how many texts each user's clients show as sent
    gone        \* history: those answered with an error or lost with a connection

server == vars
link == << socket, requests, responses >>
texts == << textRows, sent, gone >>
clientVars == << tokens, client, app, link, simulator, starts, texts >>
dashboardVars == << server, clientVars >>

NewApp ==
    [trip_status |-> "Idle", connection_status |-> "Reconnecting",
     input_mode |-> "Command", selected_route |-> NoFile]

NoSimulator == [running |-> FALSE, route |-> << >>, channel |-> << >>]

StartSimulator(file) == [running |-> TRUE, route |-> LoadRoute(file), channel |-> << >>]

\* Mutant: a trip that waits for its summary is not given up with the connection.
ActiveRunning(a) == a.trip_status = "Running"

Active(a) == a.trip_status \in {"Running", "AwaitingCompletion"}

MarkConnected(a) ==
    [a EXCEPT !.connection_status = "Connected",
              !.trip_status = IF @ = "WaitingReconnect" THEN "Idle" ELSE @]

MarkDisconnected(a) == [a EXCEPT !.connection_status = "Reconnecting"]

\* Mutant: the trip counts as running until the summary arrives.
MarkRouteFinishedLate(a) == a

MarkRouteFinished(a) ==
    [a EXCEPT !.trip_status = IF @ = "Running" THEN "AwaitingCompletion" ELSE @]

InvalidateActiveTrip(a) ==
    [a EXCEPT !.trip_status = "Idle", !.input_mode = "Command", !.selected_route = NoFile]

DashboardInit ==
    /\ Init
    /\ tokens = {}
    /\ client = [u \in Users |-> "off"]
    /\ app = [u \in Users |-> NewApp]
    /\ socket = [u \in Users |-> FALSE]
    /\ simulator = [u \in Users |-> NoSimulator]
    /\ requests = [u \in Users |-> << >>]
    /\ responses = [u \in Users |-> << >>]
    /\ starts = 0
    /\ textRows = << >>
    /\ sent = [u \in Users |-> 0]
    /\ gone = [u \in Users |-> {}]
-----------------------------------------------------------------------------
\* The texts that are on their way to the session of a user.
InTransit(u) ==
    LET messages == requests[u]
    IN  {messages[i].text : i \in {j \in 1 .. Len(messages) : messages[j].type = "Text"}}

(* Connecting.  A request for a user who has a session is refused with 409. *)

OpenSocket(u) ==
    /\ u \in tokens
    /\ Connect(u)
    /\ socket' = [socket EXCEPT ![u] = TRUE]
    /\ requests' = [requests EXCEPT ![u] = << >>]
    /\ responses' = [responses EXCEPT ![u] = << >>]
    /\ app' = [app EXCEPT ![u] = MarkConnected(@)]
    /\ gone' = [gone EXCEPT ![u] = @ \cup InTransit(u)]

Login(u) ==
    /\ client[u] = "off"
    /\ tokens' = tokens \cup {u}
    /\ client' = [client EXCEPT ![u] = "starting"]
    /\ UNCHANGED << server, app, link, simulator, starts, texts >>

FirstConnect(u) ==
    /\ client[u] = "starting"
    /\ \/ /\ OpenSocket(u)
          /\ client' = [client EXCEPT ![u] = "running"]
       \/ /\ u \in tokens /\ pc[u] # "offline"
          /\ client' = [client EXCEPT ![u] = "off"]
          /\ UNCHANGED << server, app, link, gone >>
       \/ /\ client' = [client EXCEPT ![u] = "running"]
          /\ app' = [app EXCEPT ![u] = MarkDisconnected(@)]
          /\ UNCHANGED << server, link, gone >>
    /\ UNCHANGED << tokens, simulator, starts, textRows, sent >>

\* Mutant: no new connection while the client waits for one after a trip.
ReconnectIdle(u) ==
    /\ client[u] = "running" /\ ~socket[u]
    /\ app[u].trip_status = "Idle"
    /\ OpenSocket(u)
    /\ UNCHANGED << tokens, client, simulator, starts, textRows, sent >>

\* A tick that fails, whatever the reason, changes nothing.
Reconnect(u) ==
    /\ client[u] = "running" /\ ~socket[u]
    /\ OpenSocket(u)
    /\ UNCHANGED << tokens, client, simulator, starts, textRows, sent >>
-----------------------------------------------------------------------------
(* What the client sends, and what it does when a send or the link fails.  *)

\* Mutant: the simulator goes on without the connection.
DisconnectedKeeps(u, a) ==
    /\ socket' = [socket EXCEPT ![u] = FALSE]
    /\ responses' = [responses EXCEPT ![u] = << >>]
    /\ app' = [app EXCEPT ![u] =
                 MarkDisconnected(IF Active(a) THEN InvalidateActiveTrip(a) ELSE a)]
    /\ UNCHANGED simulator

\* The end of an iteration that found a reason to disconnect.
Disconnected(u, a) ==
    /\ socket' = [socket EXCEPT ![u] = FALSE]
    /\ responses' = [responses EXCEPT ![u] = << >>]
    /\ app' = [app EXCEPT ![u] =
                 MarkDisconnected(IF Active(a) THEN InvalidateActiveTrip(a) ELSE a)]
    /\ simulator' = [simulator EXCEPT ![u] = IF Active(a) THEN NoSimulator ELSE @]

Send(u, message) ==
    /\ socket[u]
    /\ requests' = [requests EXCEPT ![u] = Append(@, message)]
    /\ UNCHANGED << socket, responses >>

\* Without a socket every send fails; with one it may.
SendFailed(u, a) ==
    /\ Disconnected(u, a)
    /\ UNCHANGED requests

\* msg, at any time between two trips or during one; the text may be too long.
SendText(u, long) ==
    /\ client[u] = "running"
    /\ app[u].input_mode = "Command"
    /\ app[u].connection_status = "Connected"
    /\ sent[u] < MaxTexts
    /\ \/ /\ Send(u, [type |-> "Text", text |-> sent[u] + 1, long |-> long])
          /\ sent' = [sent EXCEPT ![u] = @ + 1]
          /\ UNCHANGED << app, simulator >>
       \/ SendFailed(u, app[u]) /\ UNCHANGED sent
    /\ UNCHANGED << server, tokens, client, starts, textRows, gone >>

StartCommand(u) ==
    /\ client[u] = "running"
    /\ app[u].input_mode = "Command"
    /\ app[u].connection_status = "Connected"
    /\ app[u].trip_status = "Idle"
    /\ app' = [app EXCEPT ![u].input_mode = "RouteSelection"]
    /\ UNCHANGED << server, tokens, client, link, simulator, starts, texts >>

\* start_trip: the file is read and checked before anything is sent.
BeginTrip(u, file) ==
    LET a == [app[u] EXCEPT !.input_mode = "Command", !.selected_route = NoFile] IN
    \/ /\ ~ValidRoute(file)
       /\ app' = [app EXCEPT ![u] = InvalidateActiveTrip(a)]
       /\ UNCHANGED << link, simulator, starts, texts >>
    \/ /\ ValidRoute(file)
       /\ SendFailed(u, a)
       /\ UNCHANGED starts
    \/ /\ ValidRoute(file)
       /\ starts < MaxTrips
       /\ starts' = starts + 1
       /\ Send(u, [type |-> "StartTrip"])
       /\ simulator' = [simulator EXCEPT ![u] = StartSimulator(file)]
       /\ app' = [app EXCEPT ![u] = [a EXCEPT !.trip_status = "Running"]]

\* A debug build (cfg!(debug_assertions)) asks for a speed first, a release
\* build does not: the model allows either.
SelectRoute(u, file) ==
    /\ client[u] = "running"
    /\ app[u].input_mode = "RouteSelection"
    /\ \/ /\ app' = [app EXCEPT ![u].input_mode = "SpeedSelection", ![u].selected_route = file]
          /\ UNCHANGED << link, simulator, starts, texts >>
       \/ BeginTrip(u, file)
    /\ UNCHANGED << server, tokens, client, texts >>

\* A route is always selected here (ClientConsistent): the code's other branch
\* is never taken.
SelectSpeed(u) ==
    /\ client[u] = "running"
    /\ app[u].input_mode = "SpeedSelection"
    /\ BeginTrip(u, app[u].selected_route)
    /\ UNCHANGED << server, tokens, client, texts >>
-----------------------------------------------------------------------------
(* The simulator's task, and the events of its channel.                    *)

\* Mutant: the simulator does not wait for room.
EmitPointUnbounded(u) ==
    LET s == simulator[u] IN
    /\ s.route # << >>
    /\ simulator' = [simulator EXCEPT ![u].route = Tail(@),
                                      ![u].channel = Append(@, Head(s.route))]
    /\ UNCHANGED << server, tokens, client, app, link, starts, texts >>

EmitPoint(u) ==
    LET s == simulator[u] IN
    /\ s.route # << >>
    /\ Len(s.channel) < ChannelCap
    /\ simulator' = [simulator EXCEPT ![u].route = Tail(@),
                                      ![u].channel = Append(@, Head(s.route))]
    /\ UNCHANGED << server, tokens, client, app, link, starts, texts >>

RoutePoint(u) ==
    LET point == Head(simulator[u].channel)
        update == [type |-> "PositionUpdate", coordinata |-> point.coordinates,
                   elapsed_seconds |-> point.time]
        taken == [simulator EXCEPT ![u].channel = Tail(@)]
    IN  /\ simulator[u].channel # << >>
        /\ \/ /\ Send(u, update)
              /\ simulator' = taken
              /\ UNCHANGED app
           \/ SendFailed(u, app[u])
        /\ UNCHANGED << server, tokens, client, starts, texts >>

\* The task is over and its channel is empty.
RouteFinished(u) ==
    /\ simulator[u] = [NoSimulator EXCEPT !.running = TRUE]
    /\ \/ /\ Send(u, [type |-> "TripCompleted"])
          /\ simulator' = [simulator EXCEPT ![u] = NoSimulator]
          /\ app' = [app EXCEPT ![u] = MarkRouteFinished(@)]
       \/ SendFailed(u, app[u])
    /\ UNCHANGED << server, tokens, client, starts, texts >>
-----------------------------------------------------------------------------
(* What the client receives, and how it ends.                              *)

\* Mutant: every answer to TripCompleted counts as its completion.
AfterTextAny(a, kind) ==
    CASE kind \in {"trip_completed", "trip_save_failed"} ->
           [a EXCEPT !.trip_status = "WaitingReconnect"]
      [] kind = "trip_already_active" -> InvalidateActiveTrip(a)
      [] OTHER -> a

AfterText(a, kind) ==
    CASE kind = "trip_completed" -> [a EXCEPT !.trip_status = "WaitingReconnect"]
      [] kind = "trip_already_active" -> InvalidateActiveTrip(a)
      [] OTHER -> a

ServerText(u) ==
    LET kind == Head(responses[u]) IN
    /\ socket[u]
    /\ responses[u] # << >>
    /\ responses' = [responses EXCEPT ![u] = Tail(@)]
    /\ app' = [app EXCEPT ![u] = AfterText(@, kind)]
    /\ simulator' = [simulator EXCEPT ![u] =
                       IF kind = "trip_already_active" THEN NoSimulator ELSE @]
    /\ UNCHANGED << server, tokens, client, socket, requests, starts, texts >>

\* A Close frame, the end of the stream, an error.
LoseConnection(u) ==
    /\ socket[u]
    /\ Disconnected(u, app[u])
    /\ UNCHANGED << server, tokens, client, requests, starts, texts >>

\* Mutant: a client that exits completes its trip.
ExitCompletes(u) ==
    /\ client[u] # "off"
    /\ client' = [client EXCEPT ![u] = "off"]
    /\ simulator' = [simulator EXCEPT ![u] = NoSimulator]
    /\ socket' = [socket EXCEPT ![u] = FALSE]
    /\ responses' = [responses EXCEPT ![u] = << >>]
    /\ app' = [app EXCEPT ![u] = NewApp]
    /\ requests' = [requests EXCEPT ![u] =
                      IF Active(app[u]) THEN Append(@, [type |-> "TripCompleted"]) ELSE @]
    /\ UNCHANGED << server, tokens, starts, texts >>

\* exit, Ctrl-C, or a crash: the simulator is dropped and no TripCompleted sent.
Exit(u) ==
    /\ client[u] # "off"
    /\ client' = [client EXCEPT ![u] = "off"]
    /\ simulator' = [simulator EXCEPT ![u] = NoSimulator]
    /\ socket' = [socket EXCEPT ![u] = FALSE]
    /\ responses' = [responses EXCEPT ![u] = << >>]
    /\ app' = [app EXCEPT ![u] = NewApp]
    /\ UNCHANGED << server, tokens, requests, starts, texts >>
-----------------------------------------------------------------------------
(* The server's session, reading from and writing to the socket.           *)

\* Mutant: an insertion whose outcome is not known is tried again.
ServeTextRetries(u, message) ==
    /\ textRows' = textRows \o << << u, message.text >>, << u, message.text >> >>
    /\ UNCHANGED << server, gone >>

\* handle_client_message: a text that is stored is not answered.
ServeText(u, message) ==
    \/ /\ ~message.long
       /\ textRows' = Append(textRows, << u, message.text >>)
       /\ UNCHANGED << server, gone >>
    \/ /\ Refuse(u, IF message.long THEN "validation_error" ELSE "internal_error")
       /\ gone' = [gone EXCEPT ![u] = @ \cup {message.text}]
       /\ UNCHANGED textRows

ServeRequest(u) ==
    LET message == Head(requests[u]) IN
    /\ pc[u] = "looping"
    /\ requests[u] # << >>
    /\ requests' = [requests EXCEPT ![u] = Tail(@)]
    /\ \/ /\ \/ message.type = "StartTrip" /\ StartTrip(u)
             \/ /\ message.type = "PositionUpdate"
                /\ PositionUpdate(u, message.coordinata, message.elapsed_seconds)
             \/ message.type = "TripCompleted" /\ FinishTrip(u)
          /\ UNCHANGED << textRows, gone >>
       \/ message.type = "Text" /\ ServeText(u, message)
    /\ UNCHANGED << tokens, client, app, socket, responses, simulator, starts, sent >>

Respond(u) ==
    /\ \/ /\ SendReply(u)
          /\ responses' = [responses EXCEPT ![u] =
                             IF socket[u] THEN Append(@, reply[u]) ELSE @]
       \/ SendFails(u) /\ UNCHANGED responses
    /\ UNCHANGED << tokens, client, app, socket, requests, simulator, starts, texts >>

SessionStep(u) ==
    /\ SaveStep(u) \/ EndOfSession(u)
    /\ UNCHANGED clientVars

SocketEnds(u) == Leave(u) /\ UNCHANGED clientVars

\* The tokens are in memory only.
ServerRestart ==
    /\ Restart
    /\ tokens' = {}
    /\ UNCHANGED << client, app, link, simulator, starts, texts >>

\* What a client does without asking for a connection.
LocalStep(u) ==
    \/ Login(u) \/ Exit(u) \/ LoseConnection(u)
    \/ StartCommand(u) \/ SelectSpeed(u) \/ \E file \in RouteFiles : SelectRoute(u, file)
    \/ \E long \in BOOLEAN : SendText(u, long)
    \/ EmitPoint(u) \/ RoutePoint(u) \/ RouteFinished(u) \/ ServerText(u)

ClientStep(u) == LocalStep(u) \/ FirstConnect(u) \/ Reconnect(u)

ServerStep(u) == ServeRequest(u) \/ Respond(u) \/ SessionStep(u) \/ SocketEnds(u)

DashboardNext ==
    \/ \E u \in Users : ClientStep(u) \/ ServerStep(u)
    \/ ServerRestart

DashboardSpec == DashboardInit /\ [][DashboardNext]_dashboardVars
-----------------------------------------------------------------------------
AppType ==
    [trip_status : {"Idle", "Running", "AwaitingCompletion", "WaitingReconnect"},
     connection_status : {"Connected", "Reconnecting"},
     input_mode : {"Command", "RouteSelection", "SpeedSelection"},
     selected_route : RouteFiles \cup {NoFile}]

(* The client's variables keep their types (TypeOK has those of the server). *)
DashboardTypeOK ==
    /\ TypeOK
    /\ tokens \subseteq Users
    /\ client \in [Users -> {"off", "starting", "running"}]
    /\ app \in [Users -> AppType]
    /\ socket \in [Users -> BOOLEAN]
    /\ \A u \in Users : /\ DOMAIN simulator[u] = {"running", "route", "channel"}
                        /\ Len(simulator[u].channel) <= ChannelCap
                        /\ responses[u] \in Seq(Reply)
    /\ starts \in 0 .. MaxTrips
    /\ textRows \in Seq(Users \X Nat)
    /\ sent \in [Users -> 0 .. MaxTexts] /\ gone \in [Users -> SUBSET Nat]

(* The client's picture of itself is consistent: it says Connected when it   *)
(* holds a socket, a trip runs exactly while there is a simulator, a trip is *)
(* active only on a socket, and a route is chosen only while there is none;  *)
(* the speed is asked for only when a route is selected.                     *)
ClientConsistent ==
    \A u \in Users :
        /\ socket[u] <=> app[u].connection_status = "Connected"
        /\ simulator[u].running <=> app[u].trip_status = "Running"
        /\ Active(app[u]) => socket[u]
        /\ app[u].input_mode # "Command" => app[u].trip_status = "Idle"
        /\ app[u].input_mode = "SpeedSelection" <=> app[u].selected_route # NoFile

(* No trip is saved that is not a whole route, whenever the client exits or  *)
(* the connection breaks (docs/manuale_progettista.md, sections 4.4 and 5):  *)
(* TripCompleted follows every point and nothing else (runtime.rs:275, 332). *)
SavedTripsAreRoutes ==
    \A id \in 1 .. Len(tripRows) :
        \E file \in RouteFiles :
            /\ ValidRoute(file)
            /\ RowPoints(id) = [i \in 1 .. Len(file) |-> file[i].point]

(* The server never refuses what this client sends: no trip of an earlier    *)
(* connection is in the way, no point comes without its trip or out of time, *)
(* whatever was in flight when a connection broke.                           *)
NeverRefused ==
    \A u \in Users :
        reply[u] \notin {"trip_already_active", "trip_not_found", "invalid_position_time",
                         "invalid_message"}

(* The texts of a user are stored in the order in which they were sent, each *)
(* once, over all connections, and a text that is not stored was answered    *)
(* with an error, is on its way, or was lost with a connection: the sessions *)
(* of a user do not overlap, nor does a text come back that was lost.        *)
TextsAccounted ==
    \A u \in Users :
        LET rows == {i \in 1 .. Len(textRows) : textRows[i][1] = u}
            stored == {textRows[i][2] : i \in rows}
        IN  /\ \A i, j \in rows : i < j => textRows[i][2] < textRows[j][2]
            /\ stored \cap gone[u] = {}
            /\ 1 .. sent[u] = stored \cup gone[u] \cup InTransit(u)

(* docs/manuale_utente.md:65 says a text that was sent can be seen on the    *)
(* server's console: the session that told its client of a completed trip    *)
(* leaves no text of it unread.                                              *)
TextsReachServer ==
    \A u \in Users : pc[u] = "left" /\ run[u] \in told /\ socket[u] => InTransit(u) = {}

(* A client that shows a trip as completed shows one that is saved.          *)
ShownCompletedIsSaved ==
    \A u \in Users : app[u].trip_status = "WaitingReconnect" =>
        \E i \in 1 .. Len(origin) : tripRows[i].user_id = u /\ origin[i] = run[u]

(* A trip is never saved behind the back of a client that is still driving   *)
(* it, or already drives the next one: a row is added for a user only when   *)
(* the client has finished its route or has given the trip up.               *)
SavedAfterRoute ==
    [][ \A u \in Users :
          /\ Len(tripRows') > Len(tripRows)
          /\ tripRows'[Len(tripRows')].user_id = u
          => app[u].trip_status # "Running" ]_dashboardVars
=============================================================================
